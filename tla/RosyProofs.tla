----------------------------- MODULE RosyProofs -----------------------------
(***************************************************************************)
(* What holds of remote operations over reliable transfer for every number *)
(* of invocations, however the users use the association.                  *)
(***************************************************************************)
EXTENDS RosyProperties, SequenceTheorems, TLAPS

-----------------------------------------------------------------------------
(* Facts about the state that the proofs below are built from.             *)

LEMMA TwoEnds ==
    ASSUME NEW e \in End
    PROVE  /\ Other(e) \in End /\ Other(e) # e /\ Other(Other(e)) = e
           /\ \A f \in End : f = e \/ f = Other(e)
  BY DEF End, Other, R!End, R!Other

LEMMA ApduTypes ==
    /\ \A id \in Id : INVOKE(id) \in Apdu /\ RESULT(id) \in Apdu
    /\ \A id \in Id : [kind |-> "REJECT", id |-> id] \in Apdu
  BY DEF INVOKE, RESULT, Apdu

LEMMA UserType == User \in Thread
  BY DEF User, Thread, Call

\* A thread by its three fields.
LEMMA ThreadType ==
    ASSUME NEW c \in Call, NEW w \in {0} \cup Id,
           NEW q \in {<< >>} \cup {<<p>> : p \in Apdu}
    PROVE  [call |-> c, wait |-> w, pdu |-> q] \in Thread
  BY DEF Thread

LEMMA ThreadGoes ==
    ASSUME NEW t \in Thread, NEW c \in Call,
           NEW q \in {<< >>} \cup {<<p>> : p \in Apdu}
    PROVE  /\ [t EXCEPT !.call = c] \in Thread
           /\ [t EXCEPT !.call = c, !.pdu = q] \in Thread
  BY DEF Thread

LEMMA QueueType ==
    ASSUME RoTypeOK, NEW e \in End, NEW taken \in BOOLEAN,
           NEW sent \in Seq(Indication), Queue(e, taken, sent),
           taken => ind[e] # << >>
    PROVE  ind' \in [End -> Seq(Indication)]
  <1>1. \A f \in End : ind[f] \in Seq(Indication)
    BY DEF RoTypeOK
  <1>2. taken => Tail(ind[e]) \in Seq(Indication)
    BY <1>1
  <1>3. ind[Other(e)] \o sent \in Seq(Indication)
    BY <1>1, TwoEnds
  <1> QED
    BY <1>1, <1>2, <1>3, TwoEnds DEF Queue, RoTypeOK

LEMMA TellType ==
    ASSUME RoTypeOK, NEW e \in End, NEW what \in Told, NEW which, Tell(e, what, which)
    PROVE  told' \in [End -> [Id -> Told]]
  BY DEF Tell, RoTypeOK

LEMMA BlockTypes ==
    ASSUME RoTypeOK, NEW e \in End, NEW id,
           NEW role \in {"OPB_INITIATOR", "OPB_RESPONDER"}
    PROVE  /\ id \in Id /\ newopblk(e, id, role) => ops' \in [End -> SUBSET opsblk]
           /\ freeopblk(e, id, role) => ops' \in [End -> SUBSET opsblk]
  <1>1. id \in Id => Block(id, role) \in opsblk
    BY DEF Block, opsblk
  <1>2. ops \in [End -> SUBSET opsblk] /\ ops[e] \subseteq opsblk
    BY DEF RoTypeOK
  <1> QED
    BY <1>1, <1>2 DEF newopblk, freeopblk

LEMMA LoseTypes ==
    ASSUME RoTypeOK, NEW e \in End, NEW what \in Told, loseopblk(e, what)
    PROVE  ops' \in [End -> SUBSET opsblk] /\ told' \in [End -> [Id -> Told]]
  BY TellType DEF loseopblk, RoTypeOK

-----------------------------------------------------------------------------
(* Types, variable by variable.                                            *)

Sending == {"reject", "ready", "send", "transfer"}

ThreadOK ==
    /\ thread \in [End -> Thread]
    /\ \A e \in End : thread[e].call \in Sending => thread[e].pdu # << >>

LEMMA ThreadSet ==
    ASSUME ThreadOK, NEW e \in End, NEW t \in Thread,
           t.call \in Sending => t.pdu # << >>,
           thread' = [thread EXCEPT ![e] = t]
    PROVE  ThreadOK'
  BY DEF ThreadOK

LEMMA ThreadSteps ==
    ASSUME ThreadOK, NEW e \in End
    PROVE  /\ ToUser(e) => ThreadOK'
           /\ Back(e) => ThreadOK'
           /\ \A c \in Call : Goes(e, c) /\ (c \in Sending => thread[e].pdu # << >>)
                              => ThreadOK'
           /\ \A c \in {"serve", "wait"} : Onward(e, c) => ThreadOK'
           /\ \A id \in Id : Rejects(e, id) => ThreadOK'
  <1>1. thread[e] \in Thread
    BY DEF ThreadOK
  <1>2. ToUser(e) => ThreadOK'
    BY ThreadSet, UserType DEF ToUser, User, Sending
  <1>3. ASSUME Back(e) PROVE ThreadOK'
    <2> DEFINE c == IF thread[e].wait = 0 THEN "user" ELSE "wait"
               t == [thread[e] EXCEPT !.call = c, !.pdu = << >>]
    <2>1. c \in Call /\ c \notin Sending
      BY DEF Call, Sending
    <2>2. t \in Thread /\ t.call = c
      BY <1>1, <2>1, ThreadGoes DEF Thread
    <2>3. thread' = [thread EXCEPT ![e] = t]
      BY <1>3 DEF Back
    <2> HIDE DEF t, c
    <2> QED
      BY <2>1, <2>2, <2>3, ThreadSet
  <1>4. ASSUME NEW c \in Call, Goes(e, c), c \in Sending => thread[e].pdu # << >>
        PROVE  ThreadOK'
    <2> DEFINE t == [thread[e] EXCEPT !.call = c]
    <2>1. t \in Thread /\ t.call = c /\ t.pdu = thread[e].pdu
      BY <1>1, ThreadGoes DEF Thread
    <2>2. thread' = [thread EXCEPT ![e] = t]
      BY <1>4 DEF Goes
    <2> HIDE DEF t
    <2> QED
      BY <1>4, <2>1, <2>2, ThreadSet
  <1>5. ASSUME NEW c \in {"serve", "wait"}, Onward(e, c) PROVE ThreadOK'
    <2>1. c \in Call /\ c \notin Sending
      BY DEF Call, Sending
    <2>2. CASE UNCHANGED thread
      BY <2>2 DEF ThreadOK
    <2> QED
      BY <1>4, <1>5, <2>1, <2>2 DEF Onward
  <1>6. ASSUME NEW id \in Id, Rejects(e, id) PROVE ThreadOK'
    <2> DEFINE q == <<[kind |-> "REJECT", id |-> id]>>
               t == [thread[e] EXCEPT !.call = "reject", !.pdu = q]
    <2>1. q \in {<<p>> : p \in Apdu} /\ q # << >>
      BY ApduTypes
    <2>2. "reject" \in Call
      BY DEF Call
    <2> HIDE DEF q
    <2>3. t \in Thread
      BY <1>1, <2>1, <2>2, ThreadGoes
    <2>4. t.pdu = q
      BY <1>1 DEF Thread
    <2>5. thread' = [thread EXCEPT ![e] = t]
      BY <1>6 DEF Rejects, q
    <2> HIDE DEF t
    <2> QED
      BY <2>1, <2>3, <2>4, <2>5, ThreadSet
  <1> QED
    BY <1>2, <1>3, <1>4, <1>5, <1>6

Flags == {"ACB_PLEASE", "ACB_FINN", "ACB_CLOSING", "SB_GTC"}

LEMMA AcbFree ==
    ASSUME RoTypeOK, NEW e \in End
    PROVE  /\ acb[e].acb_flags \in SUBSET Flags
           /\ [acb EXCEPT ![e] = [acb_flags |-> {}, acb_apdu |-> << >>]]
                \in [End -> assocblk]
  <1>1. acb \in [End -> assocblk] /\ acb[e] \in assocblk
    BY DEF RoTypeOK
  <1>2. [acb_flags |-> {}, acb_apdu |-> << >>] \in assocblk
    BY DEF assocblk
  <1>3. acb[e].acb_flags \in SUBSET Flags
    BY <1>1 DEF assocblk, Flags
  <1> QED
    BY <1>1, <1>2, <1>3

LEMMA AcbFlags ==
    ASSUME RoTypeOK, NEW e \in End, NEW F \in SUBSET Flags
    PROVE  [acb EXCEPT ![e].acb_flags = F] \in [End -> assocblk]
  <1>1. acb \in [End -> assocblk] /\ acb[e] \in assocblk
    BY DEF RoTypeOK
  <1>2. [acb[e] EXCEPT !.acb_flags = F] \in assocblk
    BY <1>1 DEF assocblk, Flags
  <1> QED
    BY <1>1, <1>2

LEMMA AcbKeep ==
    ASSUME RoTypeOK, NEW e \in End, NEW q \in {<< >>} \cup {<<p>> : p \in Apdu}
    PROVE  [acb EXCEPT ![e].acb_apdu = q] \in [End -> assocblk]
  <1>1. acb \in [End -> assocblk] /\ acb[e] \in assocblk
    BY DEF RoTypeOK
  <1>2. [acb[e] EXCEPT !.acb_apdu = q] \in assocblk
    BY <1>1 DEF assocblk
  <1> QED
    BY <1>1, <1>2

ServiceOK ==
    /\ up \in [End -> BOOLEAN]
    /\ turn \in SUBSET End
    /\ pending \in [End -> {<< >>} \cup {<<p>> : p \in Apdu}]
    /\ delivered \in [End -> Seq(Apdu)]
    /\ confirmed \in [End -> Seq(Apdu)]

QueueOK == ind \in [End -> Seq(Indication)]
BlocksOK == ops \in [End -> SUBSET opsblk] /\ told \in [End -> [Id -> Told]]
RestOK == use \in Uses /\ acb \in [End -> assocblk] /\ ids \in [End -> 0 .. MaxId]

LEMMA TypeParts ==
    RoTypeOK <=> ServiceOK /\ QueueOK /\ BlocksOK /\ RestOK /\ ThreadOK
  BY DEF RoTypeOK, ServiceOK, QueueOK, BlocksOK, RestOK, ThreadOK, Sending

LEMMA AtMostOne ==
    ASSUME NEW q \in {<< >>} \cup {<<p>> : p \in Apdu}
    PROVE  /\ q \in Seq(Apdu)
           /\ q # << >> => q[1] \in Apdu /\ q = <<q[1]>>
  <1>1. CASE q = << >>
    BY <1>1
  <1>2. CASE q # << >>
    <2>1. PICK p \in Apdu : q = <<p>>
      BY <1>2
    <2> QED
      BY <2>1
  <1> QED
    BY <1>1, <1>2

LEMMA ServiceTypes ==
    ASSUME ServiceOK, R!RtNext \/ UNCHANGED service
    PROVE  ServiceOK'
  <1> USE DEF ServiceOK
  <1>0. End = R!End /\ \A e \in End : R!Other(e) \in End
    BY DEF End, R!End, R!Other
  <1>1. ASSUME NEW e \in End, R!Request(e) PROVE ServiceOK'
    <2>1. PICK n \in Apdu : pending' = [pending EXCEPT ![e] = <<n>>]
      BY <1>1 DEF R!Request
    <2> QED
      BY <1>1, <2>1 DEF R!Request
  <1>2. ASSUME NEW e \in End, R!Deliver(e) PROVE ServiceOK'
    <2>1. delivered[R!Other(e)] \in Seq(Apdu) /\ pending[e] \in Seq(Apdu)
      BY <1>0, AtMostOne
    <2>2. delivered[R!Other(e)] \o pending[e] \in Seq(Apdu)
      BY <2>1
    <2> QED
      BY <1>0, <1>2, <2>2 DEF R!Deliver
  <1>3. ASSUME NEW e \in End, R!Confirm(e) PROVE ServiceOK'
    <2>1. confirmed[e] \in Seq(Apdu) /\ pending[e] \in Seq(Apdu)
      BY AtMostOne
    <2>2. confirmed[e] \o pending[e] \in Seq(Apdu)
      BY <2>1
    <2> QED
      BY <1>3, <2>2 DEF R!Confirm
  <1>4. ASSUME NEW e \in End, R!Fail(e) PROVE ServiceOK'
    BY <1>4 DEF R!Fail
  <1>5. ASSUME NEW e \in End, R!Give(e) \/ R!Take(e) \/ R!Gone(e) PROVE ServiceOK'
    BY <1>5 DEF R!Give, R!Take, R!Gone
  <1>6. CASE UNCHANGED service
    BY <1>6 DEF service
  <1> QED
    BY <1>0, <1>1, <1>2, <1>3, <1>4, <1>5, <1>6 DEF R!RtNext

-----------------------------------------------------------------------------
(* Every step is one of the service beneath, or none.                      *)

LEMMA FreeIsService == \A e \in End : freeacblk(e) => R!RtNext
  BY DEF freeacblk, R!RtNext, End

LEMMA SendsIsService ==
    ASSUME NEW e \in End, NEW p, NEW w, RoSends(e, p, w)
    PROVE  R!RtNext \/ UNCHANGED service
  BY DEF RoSends, ro2rtswrite, R!RtNext, End

LEMMA RequestIsService ==
    ASSUME NEW e \in End, Requesting(e)
    PROVE  R!RtNext \/ UNCHANGED service
  <1>1. ASSUME NEW class, RyOpInvoke(e, class)
        PROVE  R!RtNext \/ UNCHANGED service
    <2>1. \/ \E p, w : RoSends(e, p, w)
          \/ freeacblk(e)
          \/ UNCHANGED service
      BY <1>1 DEF RyOpInvoke, RoFails, RoRefuses
    <2> QED
      BY <2>1, SendsIsService, FreeIsService
  <1>2. RtEndRequest(e) => UNCHANGED service
    BY DEF RtEndRequest
  <1> QED
    BY <1>1, <1>2 DEF Requesting

LEMMA WorkIsService ==
    ASSUME NEW e \in End, Working(e)
    PROVE  R!RtNext \/ UNCHANGED service
  <1>0. Other(e) \in End /\ End = R!End
    BY TwoEnds DEF End
  <1>1. ASSUME NEW id \in Id, RyDsResult(e, id)
        PROVE  R!RtNext \/ UNCHANGED service
    BY <1>1, SendsIsService, FreeIsService DEF RyDsResult, RoFails
  <1>2. RoURejectRequest(e) => R!RtNext \/ UNCHANGED service
    BY SendsIsService DEF RoURejectRequest
  <1>3. ReadyTurn(e) \/ WaitTurn(e) => R!RtNext
    BY <1>0 DEF ReadyTurn, WaitTurn, R!RtNext
  <1>4. ReadyData(e) \/ WaitData(e) => R!RtNext
    BY <1>0 DEF ReadyData, WaitData, R!RtNext
  <1>5. ServeReturns(e) \/ ReadyClose(e) \/ TransferPlease(e)
          \/ WaitKept(e) \/ WaitClosing(e) \/ ReadGTA(e) \/ WaitClose(e)
        => UNCHANGED service
    BY DEF ServeReturns, ReadyClose, TransferPlease, WaitKept,
           WaitClosing, ReadGTA, WaitClose
  <1>6. Send(e) \/ Sent(e) => R!RtNext
    BY <1>0 DEF Send, Sent, ro2rtswrite, R!RtNext
  <1>7. WaitPlease(e) => R!RtNext \/ UNCHANGED service
    BY <1>0 DEF WaitPlease, R!RtNext
  <1>8. Lost(e) \/ RtEndFails(e) \/ RtEndResponse(e) => R!RtNext
    BY FreeIsService DEF Lost, Loses, RtEndFails, RtEndResponse
  <1>9. Quit(e) => UNCHANGED service
    BY DEF Quit
  <1> QED
    BY <1>1, <1>2, <1>3, <1>4, <1>5, <1>6, <1>7, <1>8, <1>9 DEF Working

LEMMA StepIsService == [Next]_vars => [R!RtNext]_(R!rtvars)
  <1>1. ASSUME NEW e \in End, Breaks(e) PROVE R!RtNext
    BY <1>1, FreeIsService DEF Breaks, Loses
  <1>2. UNCHANGED vars => UNCHANGED service
    BY DEF vars
  <1>3. UNCHANGED service => UNCHANGED R!rtvars
    BY DEF service, R!rtvars
  <1> QED
    BY <1>1, <1>2, <1>3, RequestIsService, WorkIsService DEF Next

\* Remote operations use the reliable transfer service as it is meant to be
\* used: what an ROPM asks of its RTPM is never a step RtService forbids.
THEOREM UsesService == Spec => R!RtSpec
  <1>1. Init => R!RtInit
    BY DEF Init
  <1> QED
    BY <1>1, StepIsService, PTL DEF Spec, R!RtSpec

-----------------------------------------------------------------------------
(* Type correctness, action by action.                                     *)

LEMMA ToldTypes ==
    "result" \in Told /\ "refused" \in Told /\ "rejected" \in Told
      /\ "released" \in Told /\ "lost" \in Told
  BY DEF Told

LEMMA KeepTypes == RoTypeOK /\ KeepBlocks => BlocksOK'
  BY DEF RoTypeOK, KeepBlocks, BlocksOK

LEMMA LoseKeepsTypes ==
    ASSUME RoTypeOK, NEW e \in End
    PROVE  \A what \in Told : loseopblk(e, what) => BlocksOK'
  BY LoseTypes DEF BlocksOK

LEMMA FreeTellTypes ==
    ASSUME RoTypeOK, NEW e \in End, NEW id, NEW what \in Told, NEW which,
           freeopblk(e, id, "OPB_INITIATOR"), Tell(e, what, which)
    PROVE  BlocksOK'
  BY BlockTypes, TellType DEF BlocksOK

LEMMA UnsentTypes ==
    ASSUME RoTypeOK, NEW e \in End
    PROVE  \A what \in Told : Unsent(e, what) => BlocksOK'
  BY FreeTellTypes, KeepTypes DEF Unsent

LEMMA WaitingTypes ==
    ASSUME RoTypeOK, NEW e \in End, Waiting(e)
    PROVE  BlocksOK' /\ ThreadOK'
  BY UnsentTypes, ToldTypes, ThreadSteps, TypeParts DEF Waiting

LEMMA DoneTypes ==
    ASSUME RoTypeOK, NEW e \in End, Done(e)
    PROVE  BlocksOK' /\ ThreadOK'
  BY FreeTellTypes, LoseKeepsTypes, ToldTypes, ThreadSteps, TypeParts DEF Done

LEMMA FreeTypes ==
    ASSUME RoTypeOK, NEW e \in End, freeacblk(e), UNCHANGED <<use, ids>>
    PROVE  QueueOK' /\ RestOK'
  <1>1. << >> \in Seq(Indication)
    OBVIOUS
  <1>2. ind' \in [End -> Seq(Indication)]
    BY <1>1 DEF freeacblk, RoTypeOK
  <1>3. acb' \in [End -> assocblk]
    BY AcbFree DEF freeacblk
  <1> QED
    BY <1>2, <1>3 DEF QueueOK, RestOK, RoTypeOK

LEMMA QueueTypes ==
    ASSUME RoTypeOK, NEW e \in End,
           \/ \E i \in Indication : Queue(e, FALSE, <<i>>)
           \/ ind[e] # << >> /\ \E i \in Indication : Queue(e, TRUE, <<i>>)
           \/ ind[e] # << >> /\ Queue(e, TRUE, << >>)
           \/ Queue(e, FALSE, << >>)
           \/ UNCHANGED ind
    PROVE  QueueOK'
  <1>1. \A i \in Indication : <<i>> \in Seq(Indication)
    OBVIOUS
  <1>2. << >> \in Seq(Indication)
    OBVIOUS
  <1>3. CASE UNCHANGED ind
    BY <1>3 DEF QueueOK, RoTypeOK
  <1> QED
    BY <1>1, <1>2, <1>3, QueueType DEF QueueOK

LEMMA SendsTypes ==
    ASSUME RoTypeOK, NEW e \in End, NEW p \in Apdu, NEW w \in {0} \cup Id,
           RoSends(e, p, w)
    PROVE  QueueOK' /\ ThreadOK'
  <1>1. \A i \in {"TRANSFER", "PLEASE"} : i \in Indication
    BY DEF Indication
  <1>2. QueueOK'
    BY <1>1, QueueTypes DEF RoSends, ro2rtswrite
  <1>3. ThreadOK'
    <2>1. PICK c \in {"transfer", "ready"} :
            thread' = [thread EXCEPT ![e] = [call |-> c, wait |-> w, pdu |-> <<p>>]]
      BY DEF RoSends
    <2>2. c \in Call
      BY DEF Call
    <2>3. [call |-> c, wait |-> w, pdu |-> <<p>>] \in Thread
      BY <2>2, ThreadType
    <2> QED
      BY <2>1, <2>3, ThreadSet, TypeParts
  <1> QED
    BY <1>2, <1>3

LEMMA ThreadFields ==
    ASSUME RoTypeOK, NEW e \in End
    PROVE  /\ thread[e].wait \in {0} \cup Id
           /\ thread[e].call \in Call
           /\ thread[e].call \in Sending =>
                Pdu(e) \in Apdu /\ thread[e].pdu = <<Pdu(e)>>
  <1>1. thread[e] \in Thread
    BY DEF RoTypeOK
  <1>2. thread[e].wait \in {0} \cup Id /\ thread[e].call \in Call
        /\ thread[e].pdu \in {<< >>} \cup {<<p>> : p \in Apdu}
    BY <1>1 DEF Thread
  <1>3. thread[e].call \in Sending => thread[e].pdu # << >>
    BY DEF RoTypeOK, Sending
  <1> QED
    BY <1>2, <1>3, AtMostOne DEF Pdu

LEMMA InvokeTypes ==
    ASSUME RoTypeOK, NEW e \in End, NEW class, RyOpInvoke(e, class)
    PROVE  QueueOK' /\ BlocksOK' /\ RestOK' /\ ThreadOK'
  <1> DEFINE id == ids[e] + 1
             w == IF class = "ROS_SYNC" THEN id ELSE 0
  <1>1. id \in Id
    BY MaxIdAssumption DEF RyOpInvoke, Id, RoTypeOK
  <1>2. w \in {0} \cup Id
    BY <1>1
  <1>3. ids' = [ids EXCEPT ![e] = id] /\ UNCHANGED use
    BY DEF RyOpInvoke
  <1>4. [kind |-> "INVOKE", id |-> id] \in Apdu
    BY <1>1, ApduTypes DEF INVOKE
  <1>5. \/ /\ RoSends(e, [kind |-> "INVOKE", id |-> id], w)
           /\ newopblk(e, id, "OPB_INITIATOR") /\ UNCHANGED <<acb, told>>
        \/ RoFails(e) /\ Tell(e, "lost", {id}) /\ UNCHANGED ops
        \/ RoRefuses(e) /\ Tell(e, "refused", {id}) /\ UNCHANGED <<ops, thread>>
    BY DEF RyOpInvoke
  <1> HIDE DEF id, w
  <1>6. ids' \in [End -> 0 .. MaxId]
    BY <1>1, <1>3 DEF RoTypeOK, Id
  <1>7. acb' \in [End -> assocblk]
    BY <1>5, AcbFree DEF RoFails, RoRefuses, freeacblk, RoTypeOK
  <1>8. RestOK'
    BY <1>3, <1>6, <1>7 DEF RestOK, RoTypeOK
  <1>9. QueueOK'
    <2>1. CASE RoFails(e)
      <3>1. << >> \in Seq(Indication)
        OBVIOUS
      <3> QED
        BY <2>1, <3>1 DEF RoFails, freeacblk, RoTypeOK, QueueOK
    <2> QED
      BY <1>2, <1>4, <1>5, <2>1, SendsTypes, QueueTypes DEF RoRefuses
  <1>10. BlocksOK'
    BY <1>1, <1>5, BlockTypes, TellType, ToldTypes DEF BlocksOK, RoTypeOK
  <1>11. ThreadOK'
    <2>1. CASE UNCHANGED thread
      BY <2>1, TypeParts DEF ThreadOK
    <2> QED
      BY <1>2, <1>4, <1>5, <2>1, SendsTypes, ThreadSteps, TypeParts DEF RoFails
  <1> QED
    BY <1>8, <1>9, <1>10, <1>11

LEMMA RestSame == RoTypeOK /\ UNCHANGED <<use, acb, ids>> => RestOK'
  BY DEF RoTypeOK, RestOK

LEMMA RestFlags ==
    ASSUME RoTypeOK, NEW e \in End, UNCHANGED <<use, ids>>, NEW F \in SUBSET Flags,
           acb' = [acb EXCEPT ![e].acb_flags = F]
    PROVE  RestOK'
  BY AcbFlags DEF RoTypeOK, RestOK

LEMMA RestKept ==
    ASSUME RoTypeOK, NEW e \in End, UNCHANGED <<use, ids>>,
           NEW q \in {<< >>} \cup {<<p>> : p \in Apdu},
           acb' = [acb EXCEPT ![e].acb_apdu = q]
    PROVE  RestOK'
  BY AcbKeep DEF RoTypeOK, RestOK

LEMMA SendingTypes ==
    ASSUME RoTypeOK, NEW e \in End,
           (\E id \in Id : RyDsResult(e, id)) \/ RoURejectRequest(e)
    PROVE  QueueOK' /\ BlocksOK' /\ RestOK' /\ ThreadOK'
  <1>1. \/ \E p \in Apdu : RoSends(e, p, thread[e].wait) /\ UNCHANGED acb
        \/ RoFails(e)
    BY ApduTypes, ThreadFields DEF RyDsResult, RoURejectRequest, RESULT, At, Sending
  <1>2. KeepBlocks /\ UNCHANGED <<use, ids>>
    BY DEF RyDsResult, RoURejectRequest
  <1> QED
    BY <1>1, <1>2, SendsTypes, ThreadFields, FreeTypes, KeepTypes, RestSame,
       ThreadSteps, TypeParts DEF RoFails

LEMMA ReadyTypes ==
    ASSUME RoTypeOK, NEW e \in End,
           ReadyTurn(e) \/ ReadyData(e) \/ ReadyClose(e)
    PROVE  QueueOK' /\ BlocksOK' /\ RestOK' /\ ThreadOK'
  <1>0. \A i \in {"GTA", "GIVE"} : i \in Indication
    BY DEF Indication
  <1>1. QueueOK'
    BY <1>0, QueueTypes DEF ReadyTurn, ReadyData, ReadyClose, Reads
  <1>2. CASE ReadyTurn(e)
    <2>1. thread[e].pdu # << >> /\ "send" \in Call
      BY <1>2 DEF ReadyTurn, At, RoTypeOK, Call
    <2>2. ThreadOK'
      BY <1>2, <2>1, ThreadSteps, TypeParts DEF ReadyTurn
    <2> QED
      BY <1>1, <1>2, <2>2, KeepTypes, RestSame DEF ReadyTurn
  <1>3. CASE ReadyData(e)
    <2>1. pending[Other(e)] \in {<< >>} \cup {<<p>> : p \in Apdu}
      BY TwoEnds DEF RoTypeOK
    <2> QED
      BY <1>1, <1>3, <2>1, WaitingTypes, RestKept DEF ReadyData
  <1>4. CASE ReadyClose(e)
    <2>1. acb[e].acb_flags \cup {"ACB_CLOSING"} \in SUBSET Flags
      BY AcbFree DEF Flags
    <2>2. RestOK'
      BY <1>4, <2>1, RestFlags DEF ReadyClose
    <2> QED
      BY <1>1, <1>4, <2>2, WaitingTypes DEF ReadyClose
  <1> QED
    BY <1>2, <1>3, <1>4

LEMMA SentTypes ==
    ASSUME RoTypeOK, NEW e \in End, Sent(e)
    PROVE  QueueOK' /\ BlocksOK' /\ RestOK' /\ ThreadOK'
  <1>1. BlocksOK'
    BY BlockTypes, KeepTypes DEF Sent, BlocksOK, RoTypeOK
  <1>2. ThreadOK'
    <2> DEFINE t == [thread[e] EXCEPT !.call = "first", !.pdu = << >>]
    <2>0. thread[e] \in Thread /\ "first" \in Call
      BY DEF RoTypeOK, Call
    <2>1. t \in Thread /\ t.call = "first"
      BY <2>0, ThreadGoes DEF Thread
    <2>2. thread' = [thread EXCEPT ![e] = t] \/ Back(e)
      BY DEF Sent
    <2> HIDE DEF t
    <2> QED
      BY <2>1, <2>2, ThreadSet, ThreadSteps, TypeParts DEF Sending
  <1> QED
    BY <1>1, <1>2, RestSame, QueueTypes DEF Sent

LEMMA WaitTypes ==
    ASSUME RoTypeOK, NEW e \in End,
           \/ WaitKept(e) \/ WaitClosing(e) \/ WaitPlease(e) \/ WaitTurn(e)
           \/ ReadGTA(e) \/ WaitClose(e)
    PROVE  QueueOK' /\ BlocksOK' /\ RestOK' /\ ThreadOK'
  <1>0. \A i \in {"GTA", "GIVE"} : i \in Indication
    BY DEF Indication
  <1>1. CASE WaitKept(e)
    <2>1. RestOK'
      BY <1>1, RestKept DEF WaitKept
    <2> QED
      BY <1>1, <2>1, DoneTypes, QueueTypes DEF WaitKept
  <1>2. CASE WaitClosing(e)
    <2>1. (acb[e].acb_flags \cup {"ACB_FINN"}) \ {"ACB_CLOSING"} \in SUBSET Flags
      BY AcbFree DEF Flags
    <2>2. RestOK'
      BY <1>2, <2>1, RestFlags DEF WaitClosing
    <2> QED
      BY <1>2, <2>2, DoneTypes, QueueTypes DEF WaitClosing
  <1>3. CASE WaitPlease(e)
    <2>0. (acb[e].acb_flags \ {"ACB_PLEASE"}) \cup {"SB_GTC"} \in SUBSET Flags
      BY AcbFree DEF Flags
    <2>1. acb[e].acb_flags \ {"ACB_PLEASE"} \in SUBSET Flags
      BY AcbFree
    <2>2. RestOK'
      BY <1>3, <2>1, <2>0, RestFlags DEF WaitPlease
    <2>3. QueueOK'
      <3>1. CASE Has(e, "ACB_PLEASE")
        BY <1>0, <1>3, <3>1, QueueTypes DEF WaitPlease
      <3>2. CASE ~Has(e, "ACB_PLEASE")
        BY <1>0, <1>3, <3>2, QueueTypes DEF WaitPlease, Reads
      <3> QED
        BY <3>1, <3>2
    <2>4. CASE Done(e)
      BY <2>2, <2>3, <2>4, DoneTypes
    <2>5. CASE KeepBlocks /\ UNCHANGED thread
      BY <2>2, <2>3, <2>5, KeepTypes, TypeParts DEF ThreadOK
    <2> QED
      BY <1>3, <2>4, <2>5 DEF WaitPlease
  <1>4. CASE WaitTurn(e) \/ ReadGTA(e)
    <2>1. QueueOK'
      BY <1>0, <1>4, QueueTypes DEF WaitTurn, ReadGTA, RtReads, Reads
    <2>2. KeepBlocks /\ UNCHANGED <<use, thread, ids>>
      BY <1>4 DEF WaitTurn, ReadGTA
    <2>3. acb[e].acb_flags \ {"SB_GTC"} \in SUBSET Flags
      BY AcbFree
    <2>4. RestOK'
      BY <1>4, <2>3, RestFlags, RestSame DEF WaitTurn, ReadGTA
    <2> QED
      BY <2>1, <2>2, <2>4, KeepTypes, TypeParts DEF ThreadOK
  <1>5. CASE WaitClose(e)
    <2>1. acb[e].acb_flags \cup {"ACB_FINN"} \in SUBSET Flags
      BY AcbFree DEF Flags
    <2>2. RestOK'
      BY <1>5, <2>1, RestFlags DEF WaitClose
    <2>3. QueueOK'
      BY <1>5, QueueTypes DEF WaitClose, RtReads, Reads
    <2> QED
      BY <1>5, <2>2, <2>3, DoneTypes DEF WaitClose
  <1> QED
    BY <1>1, <1>2, <1>3, <1>4, <1>5

\* The kinds of APDU that WaitData tells apart.
LEMMA DataCases ==
    ASSUME RoTypeOK, NEW e \in End, WaitData(e)
    PROVE  \E p \in Apdu :
             /\ pending[Other(e)] = <<p>>
             /\ \/ p.kind = "INVOKE" /\ Dispatch(e, p.id)
                \/ p.kind = "RESULT" /\ Answer(e, p.id, "result")
                \/ p.kind = "REJECT" /\ Answer(e, p.id, "rejected")
  <1> DEFINE p == pending[Other(e)][1]
  <1>1. pending[Other(e)] # << >>
    BY DEF WaitData, R!Deliver
  <1>2. pending[Other(e)] \in {<< >>} \cup {<<q>> : q \in Apdu}
    BY TwoEnds DEF RoTypeOK
  <1>3. p \in Apdu /\ pending[Other(e)] = <<p>>
    BY <1>1, <1>2, AtMostOne
  <1>4. p.kind \in {"INVOKE", "RESULT", "REJECT"}
    BY <1>3 DEF Apdu
  <1>5. (CASE p.kind = "INVOKE" -> Dispatch(e, p.id)
           [] p.kind = "RESULT" -> Answer(e, p.id, "result")
           [] p.kind = "REJECT" -> Answer(e, p.id, "rejected"))
    BY DEF WaitData
  <1>6. p.kind = "INVOKE" => Dispatch(e, p.id)
    BY <1>5, Zenon
  <1>7. p.kind = "RESULT" => Answer(e, p.id, "result")
    BY <1>5, Zenon
  <1>8. p.kind = "REJECT" => Answer(e, p.id, "rejected")
    BY <1>5, Zenon
  <1> QED
    BY <1>3, <1>4, <1>6, <1>7, <1>8

LEMMA DataTypes ==
    ASSUME RoTypeOK, NEW e \in End, WaitData(e)
    PROVE  QueueOK' /\ BlocksOK' /\ RestOK' /\ ThreadOK'
  <1>1. PICK p \in Apdu :
             \/ p.kind = "INVOKE" /\ Dispatch(e, p.id)
             \/ p.kind = "RESULT" /\ Answer(e, p.id, "result")
             \/ p.kind = "REJECT" /\ Answer(e, p.id, "rejected")
    BY DataCases
  <1>2. p.id \in Id
    BY DEF Apdu
  <1>3. ASSUME Dispatch(e, p.id) PROVE BlocksOK' /\ ThreadOK'
    <2>1. CASE KeepBlocks /\ Rejects(e, p.id)
      BY <1>2, <2>1, KeepTypes, ThreadSteps, TypeParts
    <2>2. CASE newopblk(e, p.id, "OPB_RESPONDER") /\ UNCHANGED told /\ Onward(e, "serve")
      BY <1>2, <2>2, BlockTypes, ThreadSteps, TypeParts DEF BlocksOK, RoTypeOK
    <2> QED
      BY <1>3, <2>1, <2>2 DEF Dispatch
  <1>4. ASSUME NEW what \in {"result", "rejected"}, Answer(e, p.id, what)
        PROVE  BlocksOK' /\ ThreadOK'
    <2>1. what \in Told
      BY DEF Told
    <2>2. BlocksOK'
      BY <1>4, <2>1, FreeTellTypes, KeepTypes DEF Answer
    <2>3. ToUser(e) \/ Onward(e, "wait") \/ Rejects(e, p.id)
      BY <1>4 DEF Answer
    <2> QED
      BY <1>2, <2>2, <2>3, ThreadSteps, TypeParts
  <1>5. QueueOK'
    BY QueueTypes DEF WaitData, RtReads, Reads
  <1>6. RestOK'
    BY RestSame DEF WaitData
  <1> QED
    BY <1>1, <1>3, <1>4, <1>5, <1>6

LEMMA LosesTypes ==
    ASSUME RoTypeOK, NEW e \in End, Loses(e)
    PROVE  QueueOK' /\ BlocksOK' /\ RestOK' /\ ThreadOK'
  <1>1. BlocksOK'
    BY FreeTellTypes, LoseKeepsTypes, UnsentTypes, KeepTypes, ToldTypes DEF Loses
  <1> QED
    BY <1>1, FreeTypes, ThreadSteps, TypeParts DEF Loses

LEMMA OtherTypes ==
    ASSUME RoTypeOK, NEW e \in End,
           \/ ServeReturns(e) \/ Send(e) \/ TransferPlease(e) \/ Quit(e)
           \/ RtEndRequest(e) \/ RtEndFails(e) \/ RtEndResponse(e)
    PROVE  QueueOK' /\ BlocksOK' /\ RestOK' /\ ThreadOK'
  <1>0. \A i \in {"TRANSFER", "CLOSE"} : i \in Indication
    BY DEF Indication
  <1>1. \A c \in {"wait", "transfer", "release"} : c \in Call
    BY DEF Call
  <1>2. CASE ServeReturns(e)
    BY <1>1, <1>2, QueueTypes, KeepTypes, RestSame, ThreadSteps, TypeParts
    DEF ServeReturns, KeepBlocks, Sending
  <1>3. CASE Send(e)
    <2>1. thread[e].pdu # << >>
      BY <1>3 DEF Send, At, RoTypeOK
    <2> QED
      BY <1>0, <1>1, <1>3, <2>1, QueueTypes, KeepTypes, RestSame, ThreadSteps, TypeParts
      DEF Send, ro2rtswrite
  <1>4. CASE TransferPlease(e)
    <2>1. acb[e].acb_flags \cup {"ACB_PLEASE"} \in SUBSET Flags
      BY AcbFree DEF Flags
    <2>2. RestOK'
      BY <1>4, <2>1, RestFlags DEF TransferPlease
    <2>3. QueueOK'
      BY <1>4, QueueTypes DEF TransferPlease, Reads
    <2> QED
      BY <1>4, <2>2, <2>3, KeepTypes, TypeParts DEF TransferPlease, ThreadOK
  <1>5. CASE Quit(e)
    <2>1. QueueOK' /\ RestOK'
      BY <1>5, QueueTypes, RestSame DEF Quit
    <2>2. BlocksOK'
      BY <1>5, LoseKeepsTypes, ToldTypes DEF Quit
    <2> QED
      BY <1>5, <2>1, <2>2, TypeParts DEF Quit, ThreadOK
  <1>6. CASE RtEndRequest(e)
    BY <1>0, <1>1, <1>6, QueueTypes, KeepTypes, RestSame, ThreadSteps, TypeParts
    DEF RtEndRequest, Sending
  <1>7. CASE RtEndFails(e)
    BY <1>7, FreeTypes, KeepTypes, ThreadSteps, TypeParts DEF RtEndFails
  <1>8. CASE RtEndResponse(e)
    BY <1>8, FreeTypes, KeepTypes, TypeParts DEF RtEndResponse, ThreadOK
  <1> QED
    BY <1>2, <1>3, <1>4, <1>5, <1>6, <1>7, <1>8

LEMMA NextTypes == RoTypeOK /\ [Next]_vars => RoTypeOK'
  <1> SUFFICES ASSUME RoTypeOK, [Next]_vars PROVE RoTypeOK'
    OBVIOUS
  <1>1. ServiceOK'
    <2>1. R!RtNext \/ UNCHANGED service
      BY StepIsService DEF service, R!rtvars
    <2> QED
      BY <2>1, ServiceTypes, TypeParts
  <1>2. ASSUME NEW e \in End, Requesting(e) \/ Working(e) \/ Breaks(e)
        PROVE  QueueOK' /\ BlocksOK' /\ RestOK' /\ ThreadOK'
    <2>1. CASE Requesting(e)
      BY <2>1, InvokeTypes, OtherTypes DEF Requesting
    <2>2. CASE \/ \E id \in Id : RyDsResult(e, id)
               \/ RoURejectRequest(e)
      BY <2>2, SendingTypes
    <2>3. CASE ReadyTurn(e) \/ ReadyData(e) \/ ReadyClose(e)
      BY <2>3, ReadyTypes
    <2>4. CASE \/ WaitKept(e) \/ WaitClosing(e) \/ WaitPlease(e) \/ WaitTurn(e)
               \/ ReadGTA(e) \/ WaitClose(e)
      BY <2>4, WaitTypes
    <2>5. CASE Sent(e) \/ WaitData(e)
      BY <2>5, SentTypes, DataTypes
    <2>6. CASE Loses(e)
      BY <2>6, LosesTypes
    <2>7. CASE \/ ServeReturns(e) \/ Send(e) \/ TransferPlease(e) \/ Quit(e)
               \/ RtEndFails(e) \/ RtEndResponse(e)
      BY <2>7, OtherTypes
    <2> QED
      BY <1>2, <2>1, <2>2, <2>3, <2>4, <2>5, <2>6, <2>7 DEF Working, Breaks, Lost
  <1>3. ASSUME UNCHANGED vars
        PROVE  QueueOK' /\ BlocksOK' /\ RestOK' /\ ThreadOK'
    BY <1>3, TypeParts DEF vars, rovars, QueueOK, BlocksOK, RestOK, ThreadOK
  <1>4. QueueOK' /\ BlocksOK' /\ RestOK' /\ ThreadOK'
    BY <1>2, <1>3 DEF Next
  <1> QED
    BY <1>1, <1>4
    DEF RoTypeOK, ServiceOK, QueueOK, BlocksOK, RestOK, ThreadOK, Sending

LEMMA InitTypes == Init => RoTypeOK
  <1> SUFFICES ASSUME Init PROVE RoTypeOK
    OBVIOUS
  <1>1. \A S : << >> \in Seq(S)
    OBVIOUS
  <1>2. ServiceOK
    BY <1>1 DEF Init, R!RtInit, ServiceOK, End
  <1>3. acb \in [End -> assocblk]
    BY DEF Init, assocblk
  <1>4. ids \in [End -> 0 .. MaxId]
    BY MaxIdAssumption DEF Init
  <1>5. thread \in [End -> Thread] /\ \A e \in End : thread[e].call = "user"
    BY UserType DEF Init, User
  <1>6. told \in [End -> [Id -> Told]]
    BY DEF Init, Told
  <1>7. ind \in [End -> Seq(Indication)]
    BY <1>1 DEF Init
  <1> QED
    BY <1>2, <1>3, <1>4, <1>5, <1>6, <1>7, TypeParts
    DEF Init, QueueOK, BlocksOK, RestOK, ThreadOK, Sending

\* Every block, queue and thread of the two ends stays in its range.
THEOREM RoTypeCorrect == Spec => []RoTypeOK
  BY InitTypes, NextTypes, PTL DEF Spec

-----------------------------------------------------------------------------
(* The inductive invariant.                                                *)
(*                                                                         *)
(* An APDU has left an end once its transfer was asked for.  An end has at *)
(* most one APDU that it is about to send, and a block for it: that is why *)
(* nothing leaves twice.  The block of an answer may outlive the answer    *)
(* only in the call that sends it, or when the association is gone.        *)

Left(e, p) == Got(Other(e), p) \/ pending[e] = <<p>>

InCall(e) == thread[e].call \in {"ready", "send", "transfer"}

Threaded(e) ==
    /\ ~At(e, "user") => up[e]
    /\ pending[e] # << >> => At(e, "transfer") \/ ~up[e]
    /\ At(e, "transfer") => pending[e] = thread[e].pdu
    /\ At(e, "reject") => Pdu(e).kind = "REJECT"
    /\ At(e, "first") => findopblk(e, thread[e].wait, "OPB_INITIATOR")
    /\ \A id \in Id :
         /\ InCall(e) /\ thread[e].pdu = <<INVOKE(id)>> =>
              findopblk(e, id, "OPB_INITIATOR") /\ thread[e].wait \in {0, id}
         /\ InCall(e) /\ thread[e].pdu = <<RESULT(id)>> =>
              findopblk(e, id, "OPB_RESPONDER")

Invoked(e) ==
    \A id \in Id :
      /\ findopblk(e, id, "OPB_INITIATOR") <=> (id <= ids[e] /\ told[e][id] = "nothing")
      /\ id > ids[e] => told[e][id] = "nothing"
      /\ Left(e, INVOKE(id)) => id <= ids[e] /\ told[e][id] # "refused"
      /\ thread[e].call \in {"ready", "send"} /\ thread[e].pdu = <<INVOKE(id)>> =>
           ~Left(e, INVOKE(id))

Performed(e) ==
    \A id \in Id :
      /\ Left(e, RESULT(id)) => Got(e, INVOKE(id))
      /\ findopblk(e, id, "OPB_RESPONDER") =>
           /\ Got(e, INVOKE(id))
           /\ Left(e, RESULT(id)) =>
                ~up[e] \/ (At(e, "transfer") /\ thread[e].pdu = <<RESULT(id)>>)
      /\ told[e][id] = "result" => Got(e, RESULT(id))

EndInv(e) == Threaded(e) /\ Invoked(e) /\ Performed(e)

\* A transfer not yet handed over is not one that was handed over before.
Fresh ==
    \A e \in End, p \in Apdu :
      pending[e] = <<p>> /\ ~R!Handed(e) /\ p.kind # "REJECT" => ~Got(Other(e), p)

RoInv ==
    /\ RoTypeOK /\ R!ServiceInv
    /\ \A e \in End : EndInv(e)
    /\ Fresh /\ OncePerInvocation

-----------------------------------------------------------------------------
(* What the steps of the service do to what has left and what was got.     *)

LEMMA Kinds ==
    /\ \A i, j : INVOKE(i) # RESULT(j)
    /\ \A i, j : INVOKE(i) = INVOKE(j) => i = j
    /\ \A i, j : RESULT(i) = RESULT(j) => i = j
    /\ \A i : INVOKE(i).kind = "INVOKE" /\ RESULT(i).kind = "RESULT"
    /\ \A i : INVOKE(i).id = i /\ RESULT(i).id = i
    /\ \A p, q : <<p>> = <<q>> => p = q
    /\ \A p : <<p>> # << >>
  BY DEF INVOKE, RESULT

LEMMA ApduKinds ==
    ASSUME NEW p \in Apdu
    PROVE  /\ p.id \in Id
           /\ p.kind = "INVOKE" => p = INVOKE(p.id)
           /\ p.kind = "RESULT" => p = RESULT(p.id)
           /\ p.kind \in {"INVOKE", "RESULT", "REJECT"}
  BY DEF Apdu, INVOKE, RESULT

LEMMA Appended ==
    ASSUME NEW S, NEW s \in Seq(S), NEW p \in S
    PROVE  /\ s \o <<p>> # s
           /\ DOMAIN s = 1 .. Len(s) /\ Len(s) \in Nat
           /\ DOMAIN (s \o <<p>>) = 1 .. (Len(s) + 1)
           /\ \A i \in 1 .. Len(s) : (s \o <<p>>)[i] = s[i]
           /\ (s \o <<p>>)[Len(s) + 1] = p
  <1>1. Len(s) \in Nat /\ DOMAIN s = 1 .. Len(s)
    OBVIOUS
  <1> DEFINE t == <<p>>
  <1>2. t \in Seq(S) /\ Len(t) = 1 /\ t[1] = p
    OBVIOUS
  <1> HIDE DEF t
  <1>3. /\ s \o t \in Seq(S) /\ Len(s \o t) = Len(s) + 1
        /\ \A i \in 1 .. Len(s) + 1 :
             (s \o t)[i] = IF i <= Len(s) THEN s[i] ELSE t[i - Len(s)]
    BY <1>1, <1>2, ConcatProperties
  <1> DEFINE u == s \o t
  <1> HIDE DEF u
  <1>4. DOMAIN u = 1 .. (Len(s) + 1)
    BY <1>3 DEF u
  <1>5. \A i \in 1 .. Len(s) : u[i] = s[i]
    BY <1>1, <1>3 DEF u
  <1>6. u[Len(s) + 1] = p
    BY <1>1, <1>2, <1>3 DEF u
  <1>7. u # s
    <2>1. t # << >>
      BY <1>2
    <2> QED
      BY <1>2, <2>1, ConcatEqualIffEmpty DEF u
  <1> QED
    BY <1>1, <1>4, <1>5, <1>6, <1>7 DEF t, u

\* Nothing is asked for, handed over or confirmed.
Quiet == UNCHANGED <<pending, delivered, confirmed>>

LEMMA QuietAtoms ==
    ASSUME Quiet
    PROVE  /\ \A e \in End, p \in Apdu : (Got(e, p)' <=> Got(e, p))
           /\ \A e \in End, p \in Apdu : (Left(e, p)' <=> Left(e, p))
           /\ pending' = pending
  BY TwoEnds DEF Quiet, Got, Left

LEMMA QuietKeeps ==
    ASSUME Quiet, Fresh, OncePerInvocation
    PROVE  Fresh' /\ OncePerInvocation'
  <1>1. Fresh'
    BY QuietAtoms, TwoEnds DEF Quiet, Fresh, R!Handed
  <1>2. OncePerInvocation'
    BY DEF Quiet, OncePerInvocation
  <1> QED
    BY <1>1, <1>2

LEMMA RequestAtoms ==
    ASSUME RoTypeOK, NEW e \in End, NEW p \in Apdu, R!Request(e), pending'[e] = <<p>>
    PROVE  /\ \A f \in End, q \in Apdu : (Got(f, q)' <=> Got(f, q))
           /\ \A f \in End, q \in Apdu :
                (Left(f, q)' <=> Left(f, q) \/ (f = e /\ q = p))
           /\ pending' = [pending EXCEPT ![e] = <<p>>]
           /\ UNCHANGED <<up, delivered, confirmed>>
  <1>1. pending' = [pending EXCEPT ![e] = <<p>>] /\ pending[e] = << >>
        /\ UNCHANGED <<up, delivered, confirmed>>
    BY DEF R!Request, RoTypeOK
  <1>2. \A f \in End, q \in Apdu : (Got(f, q)' <=> Got(f, q))
    BY <1>1 DEF Got
  <1>3. \A f \in End : pending'[f] = IF f = e THEN <<p>> ELSE pending[f]
    BY <1>1 DEF RoTypeOK
  <1> QED
    BY <1>1, <1>2, <1>3, Kinds, TwoEnds DEF Left

LEMMA RequestKeeps ==
    ASSUME RoTypeOK, Fresh, OncePerInvocation, NEW e \in End, NEW p \in Apdu,
           R!Request(e), pending'[e] = <<p>>, p.kind # "REJECT" => ~Left(e, p)
    PROVE  Fresh' /\ OncePerInvocation'
  <1>1. \A f \in End : pending'[f] = IF f = e THEN <<p>> ELSE pending[f]
    BY RequestAtoms DEF RoTypeOK
  <1>2. Fresh'
    BY <1>1, RequestAtoms, TwoEnds, Kinds DEF Fresh, R!Handed, Left
  <1>3. OncePerInvocation'
    BY RequestAtoms DEF OncePerInvocation
  <1> QED
    BY <1>2, <1>3

LEMMA DeliverAtoms ==
    ASSUME RoTypeOK, NEW f \in End, R!Deliver(f)
    PROVE  \E p \in Apdu :
             /\ pending[f] = <<p>>
             /\ \A e \in End, q \in Apdu :
                  (Got(e, q)' <=> Got(e, q) \/ (e = Other(f) /\ q = p))
             /\ \A e \in End, q \in Apdu : (Left(e, q)' <=> Left(e, q))
             /\ delivered' = [delivered EXCEPT ![Other(f)] = delivered[Other(f)] \o <<p>>]
             /\ UNCHANGED <<up, pending, confirmed>>
  <1> DEFINE g == Other(f)
             s == delivered[g]
  <1>1. pending[f] # << >> /\ pending[f] \in {<< >>} \cup {<<p>> : p \in Apdu}
    BY DEF R!Deliver, RoTypeOK
  <1>2. PICK p \in Apdu : pending[f] = <<p>>
    BY <1>1
  <1>3. delivered' = [delivered EXCEPT ![g] = s \o <<p>>]
        /\ UNCHANGED <<up, pending, confirmed>>
    BY <1>2 DEF R!Deliver, Other
  <1>4. g \in End /\ s \in Seq(Apdu) /\ \A e \in End : e = f \/ e = g
    BY TwoEnds DEF RoTypeOK
  <1>5. delivered'[g] = s \o <<p>>
        /\ \A e \in End : e # g => delivered'[e] = delivered[e]
    BY <1>3, <1>4 DEF RoTypeOK
  <1> HIDE DEF g, s
  <1>6. \A q \in Apdu :
          (\E i \in DOMAIN (s \o <<p>>) : (s \o <<p>>)[i] = q)
          <=> (\E i \in DOMAIN s : s[i] = q) \/ q = p
    <2> DEFINE u == s \o <<p>>
    <2>1. /\ DOMAIN s = 1 .. Len(s) /\ Len(s) \in Nat
          /\ DOMAIN u = 1 .. (Len(s) + 1)
          /\ \A i \in 1 .. Len(s) : u[i] = s[i]
          /\ u[Len(s) + 1] = p
      BY <1>4, Appended
    <2> HIDE DEF u
    <2>2. \A i \in 1 .. (Len(s) + 1) : i \in 1 .. Len(s) \/ i = Len(s) + 1
      BY <2>1
    <2>3. \A i \in 1 .. Len(s) : i \in 1 .. (Len(s) + 1)
      BY <2>1
    <2>4. Len(s) + 1 \in 1 .. (Len(s) + 1)
      BY <2>1
    <2> QED
      BY <2>1, <2>2, <2>3, <2>4 DEF u
  <1>7. \A e \in End, q \in Apdu :
          (Got(e, q)' <=> Got(e, q) \/ (e = g /\ q = p))
    <2> TAKE e \in End, q \in Apdu
    <2>1. CASE e = g
      BY <1>5, <1>6, <2>1 DEF Got, s
    <2>2. CASE e # g
      BY <1>5, <2>2 DEF Got
    <2> QED
      BY <2>1, <2>2
  <1>8. \A e \in End, q \in Apdu : (Left(e, q)' <=> Left(e, q))
    BY <1>2, <1>3, <1>7, TwoEnds, Kinds DEF Left, g
  <1> QED
    BY <1>2, <1>3, <1>7, <1>8 DEF g, s

LEMMA DeliverKeeps ==
    ASSUME RoTypeOK, R!ServiceInv, Fresh, OncePerInvocation,
           NEW f \in End, R!Deliver(f)
    PROVE  Fresh' /\ OncePerInvocation'
  <1> DEFINE g == Other(f)
             s == delivered[g]
  <1>1. PICK p \in Apdu :
          /\ pending[f] = <<p>>
          /\ \A e \in End, q \in Apdu :
               (Got(e, q)' <=> Got(e, q) \/ (e = g /\ q = p))
          /\ delivered' = [delivered EXCEPT ![g] = s \o <<p>>]
          /\ UNCHANGED <<up, pending, confirmed>>
    BY DeliverAtoms
  <1>2. g \in End /\ g # f /\ Other(g) = f /\ s \in Seq(Apdu)
        /\ \A e \in End : e = f \/ e = g
    BY TwoEnds DEF RoTypeOK
  <1>3. delivered'[g] = s \o <<p>> /\ delivered'[f] = delivered[f]
    BY <1>1, <1>2 DEF RoTypeOK
  <1>4. ~R!Handed(f) /\ s = confirmed[f]
    BY DEF R!Deliver, R!Handed, Other
  <1>5. R!Handed(f)'
    <2>1. s \o <<p>> # s
      BY <1>2, Appended
    <2> QED
      BY <1>1, <1>3, <1>4, <2>1 DEF R!Handed, Other
  <1>6. R!Handed(g)' <=> R!Handed(g)
    BY <1>1, <1>2, <1>3 DEF R!Handed, Other
  <1>7. Fresh'
    BY <1>1, <1>2, <1>5, <1>6 DEF Fresh
  <1>8. p.kind # "REJECT" => ~Got(g, p)
    BY <1>1, <1>2, <1>4 DEF Fresh
  <1>9. OncePerInvocation'
    <2> DEFINE u == s \o <<p>>
    <2>1. /\ DOMAIN s = 1 .. Len(s) /\ Len(s) \in Nat
          /\ DOMAIN u = 1 .. (Len(s) + 1)
          /\ \A i \in 1 .. Len(s) : u[i] = s[i]
          /\ u[Len(s) + 1] = p
      BY <1>2, Appended
    <2> HIDE DEF u
    <2>2. \A i \in 1 .. (Len(s) + 1) : i \in 1 .. Len(s) \/ i = Len(s) + 1
      BY <2>1
    <2>3. \A i, j \in DOMAIN s :
            s[i] = s[j] /\ s[i].kind # "REJECT" => i = j
      BY <1>2 DEF OncePerInvocation
    <2>4. p.kind # "REJECT" => \A i \in DOMAIN s : s[i] # p
      BY <1>8 DEF Got
    <2>5. \A i, j \in DOMAIN u :
            u[i] = u[j] /\ u[i].kind # "REJECT" => i = j
      BY <2>1, <2>2, <2>3, <2>4
    <2>6. delivered'[g] = u /\ delivered'[f] = delivered[f]
      BY <1>3 DEF u
    <2> QED
      BY <1>2, <2>5, <2>6 DEF OncePerInvocation
  <1> QED
    BY <1>7, <1>9

LEMMA ConfirmAtoms ==
    ASSUME RoTypeOK, R!ServiceInv, NEW e \in End, R!Confirm(e)
    PROVE  /\ \A f \in End, q \in Apdu : (Got(f, q)' <=> Got(f, q))
           /\ \A f \in End, q \in Apdu : (Left(f, q)' <=> Left(f, q))
           /\ pending' = [pending EXCEPT ![e] = << >>]
           /\ UNCHANGED <<up, delivered>>
  <1>1. pending' = [pending EXCEPT ![e] = << >>] /\ UNCHANGED <<up, delivered>>
    BY DEF R!Confirm
  <1>2. \A f \in End, q \in Apdu : (Got(f, q)' <=> Got(f, q))
    BY <1>1 DEF Got
  <1>3. PICK p \in Apdu : pending[e] = <<p>>
    BY DEF R!Confirm, RoTypeOK
  <1>4. delivered[Other(e)] = confirmed[e] \o <<p>>
    BY <1>3, TwoEnds DEF R!Confirm, R!Handed, R!ServiceInv, R!Reliable, Other, End
  <1>5. Got(Other(e), p)
    <2>1. confirmed[e] \in Seq(Apdu)
      BY DEF RoTypeOK
    <2> DEFINE n == Len(confirmed[e]) + 1
               u == confirmed[e] \o <<p>>
    <2>2. Len(confirmed[e]) \in Nat /\ DOMAIN u = 1 .. n /\ u[n] = p
      BY <2>1, Appended
    <2>3. n \in 1 .. n
      BY <2>2
    <2> HIDE DEF n, u
    <2>4. delivered[Other(e)] = u
      BY <1>4 DEF u
    <2> QED
      BY <2>2, <2>3, <2>4 DEF Got
  <1>6. \A f \in End : pending'[f] = IF f = e THEN << >> ELSE pending[f]
    BY <1>1 DEF RoTypeOK
  <1>7. \A f \in End, q \in Apdu : (Left(f, q)' <=> Left(f, q))
    BY <1>2, <1>3, <1>5, <1>6, TwoEnds, Kinds DEF Left
  <1> QED
    BY <1>1, <1>2, <1>7

LEMMA ConfirmKeeps ==
    ASSUME RoTypeOK, R!ServiceInv, Fresh, OncePerInvocation, NEW e \in End, R!Confirm(e)
    PROVE  Fresh' /\ OncePerInvocation'
  <1>1. \A f \in End : pending'[f] = IF f = e THEN << >> ELSE pending[f]
    BY ConfirmAtoms DEF RoTypeOK
  <1>2. \A f \in End : f # e => (R!Handed(f)' <=> R!Handed(f))
    BY DEF R!Confirm, R!Handed, RoTypeOK
  <1>3. Fresh'
    BY <1>1, <1>2, ConfirmAtoms, TwoEnds, Kinds DEF Fresh
  <1>4. OncePerInvocation'
    BY ConfirmAtoms DEF OncePerInvocation
  <1> QED
    BY <1>3, <1>4

-----------------------------------------------------------------------------
(* What the library calls do to blocks, users and the end that calls.      *)

LEMMA Blocks == \A i, j, r, s : Block(i, r) = Block(j, s) <=> i = j /\ r = s
  BY DEF Block

\* The blocks of e after a step that changes the blocks of e alone.
LEMMA NewAtoms ==
    ASSUME RoTypeOK, NEW e \in End, NEW id, NEW role, newopblk(e, id, role)
    PROVE  /\ \A i, r : (findopblk(e, i, r)' <=> findopblk(e, i, r) \/ (i = id /\ r = role))
           /\ \A f \in End : f # e => ops'[f] = ops[f]
  <1>1. ops'[e] = ops[e] \cup {Block(id, role)}
        /\ \A f \in End : f # e => ops'[f] = ops[f]
    BY DEF newopblk, RoTypeOK
  <1> QED
    BY <1>1, Blocks DEF findopblk

LEMMA FreeAtoms ==
    ASSUME RoTypeOK, NEW e \in End, NEW id, NEW role, freeopblk(e, id, role)
    PROVE  /\ \A i, r : (findopblk(e, i, r)' <=> findopblk(e, i, r) /\ ~(i = id /\ r = role))
           /\ \A f \in End : f # e => ops'[f] = ops[f]
  <1>1. ops'[e] = ops[e] \ {Block(id, role)}
        /\ \A f \in End : f # e => ops'[f] = ops[f]
    BY DEF freeopblk, RoTypeOK
  <1> QED
    BY <1>1, Blocks DEF findopblk

LEMMA TellAtoms ==
    ASSUME RoTypeOK, NEW e \in End, NEW what, NEW which, Tell(e, what, which)
    PROVE  /\ \A i \in Id : told'[e][i] = IF i \in which THEN what ELSE told[e][i]
           /\ \A f \in End : f # e => told'[f] = told[f]
  BY DEF Tell, RoTypeOK

\* e learns what of the invocations in which, loses their blocks, and may
\* lose blocks of what it was to perform.
Learns(e, what, which) ==
    /\ what # "nothing"
    /\ \A i \in which : findopblk(e, i, "OPB_INITIATOR")
    /\ \A i \in Id : (findopblk(e, i, "OPB_INITIATOR")'
                       <=> findopblk(e, i, "OPB_INITIATOR") /\ i \notin which)
    /\ \A i \in Id : findopblk(e, i, "OPB_RESPONDER")' => findopblk(e, i, "OPB_RESPONDER")
    /\ \A i \in Id : told'[e][i] = IF i \in which THEN what ELSE told[e][i]
    /\ \A f \in End : f # e => ops'[f] = ops[f] /\ told'[f] = told[f]

LEMMA KeepLearns ==
    ASSUME NEW e \in End, KeepBlocks
    PROVE  /\ Learns(e, "lost", {})
           /\ \A i, r : (findopblk(e, i, r)' <=> findopblk(e, i, r))
  BY DEF KeepBlocks, Learns, findopblk

LEMMA LoseLearns ==
    ASSUME RoTypeOK, NEW e \in End, NEW what, what # "nothing", loseopblk(e, what)
    PROVE  /\ Learns(e, what, {i \in Id : findopblk(e, i, "OPB_INITIATOR")})
           /\ \A i, r : ~findopblk(e, i, r)'
  <1> DEFINE which == {i \in Id : findopblk(e, i, "OPB_INITIATOR")}
  <1>1. ops'[e] = {} /\ \A f \in End : f # e => ops'[f] = ops[f]
    BY DEF loseopblk, RoTypeOK
  <1>2. \A i, r : ~findopblk(e, i, r)'
    BY <1>1 DEF findopblk
  <1>3. Tell(e, what, which)
    BY DEF loseopblk
  <1>4. \A i \in which : findopblk(e, i, "OPB_INITIATOR")
    OBVIOUS
  <1>5. \A i \in Id : findopblk(e, i, "OPB_INITIATOR") => i \in which
    OBVIOUS
  <1> HIDE DEF which
  <1>6. Learns(e, what, which)
    BY <1>1, <1>2, <1>3, <1>4, <1>5, TellAtoms DEF Learns
  <1> QED
    BY <1>2, <1>6 DEF which

LEMMA FreeLearns ==
    ASSUME RoTypeOK, NEW e \in End, NEW what, what # "nothing", NEW id,
           findopblk(e, id, "OPB_INITIATOR"),
           freeopblk(e, id, "OPB_INITIATOR"), Tell(e, what, {id})
    PROVE  /\ Learns(e, what, {id})
           /\ \A i : (findopblk(e, i, "OPB_RESPONDER")' <=> findopblk(e, i, "OPB_RESPONDER"))
  BY FreeAtoms, TellAtoms DEF Learns

\* An end that a step leaves as it is, but for what it was handed.
Still(f) ==
    /\ thread'[f] = thread[f] /\ ops'[f] = ops[f]
    /\ told'[f] = told[f] /\ ids'[f] = ids[f] /\ up'[f] = up[f]
    /\ pending'[f] = pending[f]

LEMMA StillKeeps ==
    ASSUME NEW f \in End, EndInv(f), Still(f),
           \A q \in Apdu : Left(f, q)' <=> Left(f, q),
           \A q \in Apdu : Got(f, q) => Got(f, q)'
    PROVE  EndInv(f)'
  <1>1. /\ \A c : (At(f, c)' <=> At(f, c))
        /\ InCall(f)' <=> InCall(f)
        /\ up'[f] <=> up[f]
        /\ Pdu(f)' = Pdu(f)
        /\ \A i, r : (findopblk(f, i, r)' <=> findopblk(f, i, r))
    BY DEF Still, At, InCall, Pdu, findopblk
  <1>2. Threaded(f)'
    BY <1>1 DEF EndInv, Threaded, Still
  <1>3. Invoked(f)'
    BY <1>1, ApduTypes DEF EndInv, Invoked, Still
  <1>4. Performed(f)'
    BY <1>1, ApduTypes DEF EndInv, Performed, Still
  <1> QED
    BY <1>2, <1>3, <1>4 DEF EndInv

\* The end that takes a step after which it is not about to send.
LEMMA SettleKeeps ==
    ASSUME RoTypeOK, NEW e \in End, EndInv(e), NEW what, NEW which,
           Learns(e, what, which), ids'[e] = ids[e],
           thread'[e].call \in {"user", "first", "wait", "serve", "reject", "release"},
           thread'[e].call # "user" => up'[e],
           At(e, "first")' => findopblk(e, thread[e].wait, "OPB_INITIATOR")',
           At(e, "reject")' => Pdu(e)'.kind = "REJECT",
           pending'[e] # << >> => ~up'[e],
           up'[e] => up[e],
           what = "refused" => \A i \in which : ~Left(e, INVOKE(i)),
           what = "result" => \A i \in which : Got(e, RESULT(i))',
           \A i \in Id : At(e, "transfer") /\ thread[e].pdu = <<RESULT(i)>>
                           => ~up'[e] \/ ~findopblk(e, i, "OPB_RESPONDER")',
           \A q \in Apdu : Left(e, q)' <=> Left(e, q),
           \A q \in Apdu : Got(e, q) => Got(e, q)'
    PROVE  EndInv(e)'
  <1>1. Threaded(e)'
    BY DEF Threaded, At, InCall
  <1>2. Invoked(e)'
    <2> SUFFICES ASSUME NEW id \in Id
                 PROVE  /\ findopblk(e, id, "OPB_INITIATOR")'
                             <=> (id <= ids'[e] /\ told'[e][id] = "nothing")
                        /\ id > ids'[e] => told'[e][id] = "nothing"
                        /\ Left(e, INVOKE(id))' => id <= ids'[e] /\ told'[e][id] # "refused"
      BY DEF Invoked
    <2>1. Left(e, INVOKE(id))' <=> Left(e, INVOKE(id))
      BY ApduTypes
    <2>2. /\ findopblk(e, id, "OPB_INITIATOR")
               <=> (id <= ids[e] /\ told[e][id] = "nothing")
          /\ id > ids[e] => told[e][id] = "nothing"
          /\ Left(e, INVOKE(id)) => id <= ids[e] /\ told[e][id] # "refused"
      BY DEF EndInv, Invoked
    <2>3. /\ findopblk(e, id, "OPB_INITIATOR")'
               <=> findopblk(e, id, "OPB_INITIATOR") /\ id \notin which
          /\ told'[e][id] = IF id \in which THEN what ELSE told[e][id]
          /\ what # "nothing"
          /\ id \in which => findopblk(e, id, "OPB_INITIATOR")
      BY DEF Learns
    <2>4. id \in Nat /\ ids[e] \in Nat
      BY MaxIdAssumption DEF Id, RoTypeOK
    <2> QED
      BY <2>1, <2>2, <2>3, <2>4
  <1>3. Performed(e)'
    BY ApduTypes DEF EndInv, Performed, Learns, At
  <1> QED
    BY <1>1, <1>2, <1>3 DEF EndInv

LEMMA ThreadAtoms ==
    ASSUME RoTypeOK, NEW e \in End
    PROVE  /\ ToUser(e) => thread'[e].call = "user"
           /\ Back(e) => thread'[e].call = (IF thread[e].wait = 0 THEN "user" ELSE "wait")
           /\ \A c : Goes(e, c) => /\ thread'[e].call = c
                                   /\ thread'[e].pdu = thread[e].pdu
                                   /\ thread'[e].wait = thread[e].wait
           /\ \A c : Onward(e, c) =>
                thread'[e].call = (IF thread[e].wait = 0 THEN thread[e].call ELSE c)
           /\ \A id : Rejects(e, id) =>
                /\ thread'[e].call = "reject"
                /\ thread'[e].pdu = <<[kind |-> "REJECT", id |-> id]>>
  <1>1. thread \in [End -> Thread] /\ thread[e] \in Thread
    BY DEF RoTypeOK
  <1>2. ToUser(e) => thread'[e].call = "user"
    BY <1>1 DEF ToUser, User
  <1>3. Back(e) => thread'[e].call = (IF thread[e].wait = 0 THEN "user" ELSE "wait")
    BY <1>1 DEF Back, Thread
  <1>4. \A c : Goes(e, c) => /\ thread'[e].call = c
                             /\ thread'[e].pdu = thread[e].pdu
                             /\ thread'[e].wait = thread[e].wait
    BY <1>1 DEF Goes, Thread
  <1>5. \A c : Onward(e, c) =>
          thread'[e].call = (IF thread[e].wait = 0 THEN thread[e].call ELSE c)
    BY <1>4 DEF Onward
  <1>6. \A id : Rejects(e, id) =>
          /\ thread'[e].call = "reject"
          /\ thread'[e].pdu = <<[kind |-> "REJECT", id |-> id]>>
    BY <1>1 DEF Rejects, Thread
  <1> QED
    BY <1>2, <1>3, <1>4, <1>5, <1>6

\* A step of e changes the thread of e alone.
LEMMA ThreadOthers ==
    ASSUME RoTypeOK, NEW e \in End, NEW f \in End, f # e,
           \/ ToUser(e) \/ Back(e) \/ UNCHANGED thread
           \/ \E c : Goes(e, c) \/ Onward(e, c)
           \/ \E id : Rejects(e, id)
           \/ \E p, w : RoSends(e, p, w)
           \/ \E t : thread' = [thread EXCEPT ![e] = t]
    PROVE  thread'[f] = thread[f]
  BY DEF RoTypeOK, ToUser, Back, Goes, Onward, Rejects, RoSends

LEMMA FreeEffect ==
    ASSUME RoTypeOK, NEW e \in End, freeacblk(e)
    PROVE  /\ Quiet /\ ~up'[e]
           /\ \A f \in End : f # e => up'[f] = up[f]
           /\ UNCHANGED pending
  <1>1. Quiet /\ up' = [up EXCEPT ![e] = FALSE]
    BY DEF freeacblk, R!Gone, Quiet
  <1> QED
    BY <1>1 DEF Quiet, RoTypeOK

\* What e was told stays told.
Final(e) == \A id \in Id : told[e][id] # "nothing" => told'[e][id] = told[e][id]

LEMMA LearnsFinal ==
    ASSUME NEW e \in End, EndInv(e), NEW what, NEW which, Learns(e, what, which)
    PROVE  Final(e)
  <1> SUFFICES ASSUME NEW id \in Id, told[e][id] # "nothing"
               PROVE  told'[e][id] = told[e][id]
    BY DEF Final
  <1>1. ~findopblk(e, id, "OPB_INITIATOR")
    BY DEF EndInv, Invoked
  <1> QED
    BY <1>1 DEF Learns

\* What an action shows of the step it takes: what it does to the service,
\* that the other end takes no part, and that its own end stays as it must.
Keeps(e) ==
    /\ \/ Quiet
       \/ R!Deliver(Other(e))
       \/ R!Confirm(e)
       \/ \E p \in Apdu : /\ R!Request(e) /\ pending'[e] = <<p>>
                          /\ p.kind # "REJECT" => ~Left(e, p)
    /\ Still(Other(e)) /\ Final(e)
    /\ EndInv(e)'

LEMMA KeepsInv ==
    ASSUME RoInv, NEW e \in End, Keeps(e)
    PROVE  (\A f \in End : EndInv(f)') /\ Fresh' /\ OncePerInvocation'
  <1> DEFINE g == Other(e)
  <1>1. g \in End /\ g # e /\ \A f \in End : f = e \/ f = g
    BY TwoEnds
  <1>2. /\ \A q \in Apdu : Left(g, q)' <=> Left(g, q)
        /\ \A q \in Apdu : Got(g, q) => Got(g, q)'
    <2>1. CASE Quiet
      BY <1>1, <2>1, QuietAtoms
    <2>2. CASE R!Deliver(g)
      BY <1>1, <2>2, DeliverAtoms DEF RoInv
    <2>3. CASE R!Confirm(e)
      BY <1>1, <2>3, ConfirmAtoms DEF RoInv
    <2>4. ASSUME NEW p \in Apdu, R!Request(e), pending'[e] = <<p>>
          PROVE  /\ \A q \in Apdu : Left(g, q)' <=> Left(g, q)
                 /\ \A q \in Apdu : Got(g, q) => Got(g, q)'
      BY <1>1, <2>4, RequestAtoms DEF RoInv
    <2> QED
      BY <2>1, <2>2, <2>3, <2>4 DEF Keeps
  <1>3. EndInv(g)'
    BY <1>1, <1>2, StillKeeps DEF Keeps, RoInv
  <1>4. Fresh' /\ OncePerInvocation'
    BY <1>1, QuietKeeps, DeliverKeeps, ConfirmKeeps, RequestKeeps DEF Keeps, RoInv
  <1> QED
    BY <1>1, <1>3, <1>4 DEF Keeps

-----------------------------------------------------------------------------
(* The invariant, action by action.                                        *)

LEMMA DoneLearns ==
    ASSUME RoInv, NEW e \in End, Done(e)
    PROVE  /\ \E which : Learns(e, "released", which)
           /\ thread'[e].call = "user"
           /\ \A f \in End : f # e => thread'[f] = thread[f]
  <1>1. RoTypeOK /\ EndInv(e)
    BY DEF RoInv
  <1>2. \E which : Learns(e, "released", which)
    <2>1. CASE At(e, "first")
      BY <1>1, <2>1, FreeLearns DEF Done, EndInv, Threaded
    <2>2. CASE ~At(e, "first")
      BY <1>1, <2>2, LoseLearns DEF Done
    <2> QED
      BY <2>1, <2>2
  <1> QED
    BY <1>1, <1>2, ThreadAtoms, ThreadOthers DEF Done

LEMMA UnsentLearns ==
    ASSUME RoInv, NEW e \in End, InCall(e), NEW what, what # "nothing", Unsent(e, what)
    PROVE  \E which : /\ Learns(e, what, which)
                      /\ \A i \in which : thread[e].pdu = <<INVOKE(i)>> /\ i \in Id
  <1>1. RoTypeOK /\ EndInv(e)
    BY DEF RoInv
  <1>2. Pdu(e) \in Apdu /\ thread[e].pdu = <<Pdu(e)>>
    BY <1>1, ThreadFields DEF InCall, Sending
  <1>3. CASE Pdu(e).kind = "INVOKE"
    <2> DEFINE id == Pdu(e).id
    <2>1. id \in Id /\ thread[e].pdu = <<INVOKE(id)>>
      BY <1>2, <1>3, ApduKinds
    <2>2. findopblk(e, id, "OPB_INITIATOR")
      BY <1>1, <2>1 DEF EndInv, Threaded
    <2>3. Learns(e, what, {id})
      BY <1>1, <1>3, <2>2, FreeLearns DEF Unsent
    <2> QED
      BY <2>1, <2>3
  <1>4. CASE Pdu(e).kind # "INVOKE"
    <2>1. KeepBlocks
      BY <1>4 DEF Unsent
    <2>2. Learns(e, what, {})
      BY <2>1, KeepLearns DEF Learns
    <2> QED
      BY <2>2
  <1> QED
    BY <1>3, <1>4

\* A step that leaves the association block, the transfers and the other
\* end alone and brings e to a call that does not send.
LEMMA QuietSettles ==
    ASSUME RoInv, NEW e \in End, Quiet, UNCHANGED ids, NEW what, NEW which,
           Learns(e, what, which), what # "result",
           what = "refused" => \A i \in which : ~Left(e, INVOKE(i)),
           ~At(e, "transfer") \/ ~up'[e],
           thread'[e].call \in {"user", "wait", "serve", "release"},
           thread'[e].call # "user" => up'[e],
           up'[e] => up[e],
           up'[e] => up[e] /\ ~At(e, "transfer"),
           \A f \in End : f # e => thread'[f] = thread[f],
           \A f \in End : f # e => up'[f] = up[f]
    PROVE  Keeps(e)
  <1>1. RoTypeOK /\ EndInv(e)
    BY DEF RoInv
  <1>2. pending'[e] # << >> => ~up'[e]
    BY <1>1, QuietAtoms DEF EndInv, Threaded
  <1>3. /\ \A q \in Apdu : Left(e, q)' <=> Left(e, q)
        /\ \A q \in Apdu : Got(e, q) => Got(e, q)'
    BY QuietAtoms
  <1>4. EndInv(e)'
    BY <1>1, <1>2, <1>3, SettleKeeps DEF At
  <1>5. Other(e) \in End /\ Other(e) # e
    BY TwoEnds
  <1>6. Still(Other(e))
    BY <1>5 DEF Still, Learns, Quiet
  <1> QED
    BY <1>1, <1>4, <1>6, LearnsFinal DEF Keeps

LEMMA DoneKeeps ==
    ASSUME RoInv, NEW e \in End,
           WaitKept(e) \/ WaitClosing(e) \/ WaitClose(e) \/ (WaitPlease(e) /\ Done(e) /\ UNCHANGED service)
    PROVE  Keeps(e)
  <1>1. RoTypeOK /\ EndInv(e)
    BY DEF RoInv
  <1>2. Done(e) /\ UNCHANGED <<use, ids, service>> /\ rosapXsig(e)
    BY DEF WaitKept, WaitClosing, WaitClose, WaitPlease, RtReads, RtWaits
  <1>3. Quiet /\ UNCHANGED up
    BY <1>2 DEF service, Quiet
  <1>4. ~At(e, "transfer") /\ up[e]
    BY <1>2 DEF rosapXsig, At
  <1>5. PICK which : Learns(e, "released", which)
    BY <1>2, DoneLearns
  <1> QED
    BY <1>2, <1>3, <1>4, <1>5, DoneLearns, QuietSettles

LEMMA ReadyKeeps ==
    ASSUME RoInv, NEW e \in End, ReadyClose(e)
    PROVE  Keeps(e)
  <1>1. RoTypeOK /\ EndInv(e)
    BY DEF RoInv
  <1>2. At(e, "ready") /\ InCall(e) /\ ~At(e, "transfer") /\ up[e]
    BY <1>1 DEF ReadyClose, At, InCall, EndInv, Threaded
  <1>3. Quiet /\ UNCHANGED <<ids, up>>
    BY DEF ReadyClose, Quiet, service
  <1>4. \A i \in Id : thread[e].pdu = <<INVOKE(i)>> => ~Left(e, INVOKE(i))
    BY <1>1, <1>2 DEF EndInv, Invoked, At
  <1>5. PICK which : Learns(e, "refused", which) /\ \A i \in which : ~Left(e, INVOKE(i))
    BY <1>2, <1>4, UnsentLearns DEF ReadyClose, Waiting
  <1>6. thread'[e].call \in {"user", "wait"}
        /\ \A f \in End : f # e => thread'[f] = thread[f]
    BY <1>1, ThreadAtoms, ThreadOthers DEF ReadyClose, Waiting
  <1> QED
    BY <1>2, <1>3, <1>5, <1>6, QuietSettles

LEMMA LosesKeeps ==
    ASSUME RoInv, NEW e \in End, Loses(e)
    PROVE  Keeps(e)
  <1>1. RoTypeOK /\ EndInv(e)
    BY DEF RoInv
  <1>2. \E which : Learns(e, "lost", which)
    <2>1. CASE At(e, "first") /\ freeopblk(e, thread[e].wait, "OPB_INITIATOR")
               /\ Tell(e, "lost", {thread[e].wait})
      BY <1>1, <2>1, FreeLearns DEF EndInv, Threaded
    <2>2. CASE loseopblk(e, "lost")
      BY <1>1, <2>2, LoseLearns
    <2>3. CASE InCall(e) /\ Unsent(e, "lost")
      BY <2>3, UnsentLearns
    <2>4. CASE KeepBlocks
      BY <2>4, KeepLearns
    <2> QED
      BY <2>1, <2>2, <2>3, <2>4 DEF Loses, InCall, At
  <1>3. thread'[e].call = "user" /\ \A f \in End : f # e => thread'[f] = thread[f]
    BY <1>1, ThreadAtoms, ThreadOthers DEF Loses
  <1> QED
    BY <1>1, <1>2, <1>3, FreeEffect, QuietSettles DEF Loses

LEMMA QuitKeeps ==
    ASSUME RoInv, NEW e \in End,
           Quit(e) \/ RtEndFails(e) \/ RtEndResponse(e)
    PROVE  Keeps(e)
  <1>1. RoTypeOK /\ EndInv(e)
    BY DEF RoInv
  <1>2. \E which : Learns(e, "lost", which)
    BY <1>1, LoseLearns, KeepLearns DEF Quit, RtEndFails, RtEndResponse
  <1>3. thread'[e].call = "user" /\ \A f \in End : f # e => thread'[f] = thread[f]
    BY <1>1, ThreadAtoms, ThreadOthers DEF Quit, RtEndFails, RtEndResponse, At
  <1>4. UNCHANGED ids
    BY DEF Quit, RtEndFails, RtEndResponse
  <1>5. CASE freeacblk(e)
    BY <1>1, <1>2, <1>3, <1>4, <1>5, FreeEffect, QuietSettles
  <1>6. CASE Quit(e)
    <2>1. Quiet /\ UNCHANGED up /\ ~At(e, "transfer") /\ ~up[e]
      BY <1>6 DEF Quiet, service, Quit, At
    <2> QED
      BY <1>1, <1>2, <1>3, <1>4, <2>1, QuietSettles
  <1> QED
    BY <1>5, <1>6 DEF RtEndFails, RtEndResponse

LEMMA StillActions ==
    ASSUME RoInv, NEW e \in End,
           \/ TransferPlease(e) \/ WaitTurn(e) \/ ReadGTA(e)
           \/ WaitPlease(e) /\ KeepBlocks /\ UNCHANGED thread /\ R!Give(e)
    PROVE  Keeps(e)
  <1>1. RoTypeOK /\ EndInv(e)
    BY DEF RoInv
  <1>2. Quiet /\ UNCHANGED <<thread, ops, told, ids, up, pending>>
    BY DEF TransferPlease, WaitTurn, ReadGTA, WaitPlease, KeepBlocks, Quiet, service,
           R!Take, R!Give
  <1>3. Still(e) /\ Still(Other(e))
    BY <1>2, TwoEnds DEF Still
  <1>4. EndInv(e)'
    BY <1>1, <1>2, <1>3, StillKeeps, QuietAtoms
  <1> QED
    BY <1>2, <1>3, <1>4 DEF Keeps, Final

LEMMA PlainSettles ==
    ASSUME RoInv, NEW e \in End, ServeReturns(e) \/ RtEndRequest(e)
    PROVE  Keeps(e)
  <1>1. RoTypeOK /\ EndInv(e)
    BY DEF RoInv
  <1>2. Quiet /\ UNCHANGED <<acb, ids, up>> /\ KeepBlocks /\ ~At(e, "transfer")
    BY DEF ServeReturns, RtEndRequest, Quiet, service, KeepBlocks, At
  <1>3. (up'[e] <=> up[e]) /\ up[e]
    BY <1>1, <1>2 DEF ServeReturns, RtEndRequest, rosapPsig, EndInv, Threaded, At
  <1>4. thread'[e].call \in {"wait", "release"}
        /\ \A f \in End : f # e => thread'[f] = thread[f]
    BY <1>1, ThreadAtoms, ThreadOthers DEF ServeReturns, RtEndRequest
  <1>5. Learns(e, "lost", {})
    BY <1>2, KeepLearns
  <1> QED
    BY <1>2, <1>3, <1>4, <1>5, QuietSettles

LEMMA ReadyTurnKeeps ==
    ASSUME RoInv, NEW e \in End, ReadyTurn(e)
    PROVE  Keeps(e)
  <1>1. RoTypeOK /\ EndInv(e)
    BY DEF RoInv
  <1>2. /\ Quiet /\ UNCHANGED <<acb, ids, up>> /\ KeepBlocks
        /\ At(e, "ready") /\ InCall(e)
    BY DEF ReadyTurn, R!Take, Quiet, At, InCall
  <1>3. /\ thread'[e].call = "send" /\ thread'[e].pdu = thread[e].pdu
        /\ thread'[e].wait = thread[e].wait
        /\ \A f \in End : f # e => thread'[f] = thread[f]
    BY <1>1, ThreadAtoms, ThreadOthers DEF ReadyTurn
  <1>4. /\ \A i, r : (findopblk(e, i, r)' <=> findopblk(e, i, r))
        /\ UNCHANGED told /\ UNCHANGED ops
    BY <1>2, KeepLearns DEF KeepBlocks
  <1>5. \A f \in End : up'[f] <=> up[f]
    BY <1>2
  <1>6. Threaded(e)'
    BY <1>1, <1>2, <1>3, <1>4, <1>5, QuietAtoms DEF EndInv, Threaded, At, InCall
  <1>7. Invoked(e)'
    BY <1>1, <1>2, <1>3, <1>4, QuietAtoms, ApduTypes DEF EndInv, Invoked, At
  <1>8. Performed(e)'
    BY <1>1, <1>2, <1>3, <1>4, <1>5, QuietAtoms, ApduTypes DEF EndInv, Performed, At
  <1>9. Still(Other(e))
    BY <1>2, <1>3, <1>4, <1>5, QuietAtoms, TwoEnds DEF Still
  <1> QED
    BY <1>2, <1>4, <1>6, <1>7, <1>8, <1>9 DEF Keeps, EndInv, Final

\* A call that sends has begun: the transfer was asked for, or the turn.
LEMMA SendsEffect ==
    ASSUME RoInv, NEW e \in End, NEW p \in Apdu, NEW w, RoSends(e, p, w)
    PROVE  /\ thread'[e].wait = w /\ thread'[e].pdu = <<p>>
           /\ \/ /\ thread'[e].call = "transfer"
                 /\ R!Request(e) /\ pending'[e] = <<p>>
              \/ thread'[e].call = "ready" /\ Quiet /\ UNCHANGED up
           /\ UNCHANGED up
           /\ \A f \in End : f # e => thread'[f] = thread[f] /\ pending'[f] = pending[f]
           /\ \A f \in End, q \in Apdu : (Got(f, q)' <=> Got(f, q))
           /\ \A q \in Apdu : (Left(e, q)' <=>
                Left(e, q) \/ (thread'[e].call = "transfer" /\ q = p))
  <1>1. RoTypeOK /\ thread \in [End -> Thread] /\ pending = [f \in End |-> pending[f]]
    BY DEF RoInv, RoTypeOK
  <1>2. CASE e \in turn /\ R!Request(e) /\ pending'[e] = <<p>>
             /\ thread' = [thread EXCEPT ![e] =
                             [call |-> "transfer", wait |-> w, pdu |-> <<p>>]]
    <2>1. pending' = [pending EXCEPT ![e] = <<p>>] /\ UNCHANGED up
      BY <1>1, <1>2, RequestAtoms
    <2>2. thread'[e] = [call |-> "transfer", wait |-> w, pdu |-> <<p>>]
          /\ \A f \in End : f # e => thread'[f] = thread[f] /\ pending'[f] = pending[f]
      BY <1>1, <1>2, <2>1
    <2> QED
      BY <1>1, <1>2, <2>1, <2>2, RequestAtoms
  <1>3. CASE UNCHANGED service
             /\ thread' = [thread EXCEPT ![e] =
                             [call |-> "ready", wait |-> w, pdu |-> <<p>>]]
    <2>1. Quiet /\ UNCHANGED <<up, pending>>
      BY <1>3 DEF service, Quiet
    <2>2. thread'[e] = [call |-> "ready", wait |-> w, pdu |-> <<p>>]
          /\ \A f \in End : f # e => thread'[f] = thread[f]
      BY <1>1, <1>3
    <2> QED
      BY <2>1, <2>2, QuietAtoms
  <1> QED
    BY <1>2, <1>3 DEF RoSends, ro2rtswrite

LEMMA AnswerKeeps ==
    ASSUME RoInv, NEW e \in End, NEW p \in Apdu, RoSends(e, p, thread[e].wait),
           UNCHANGED <<acb, ids>>, KeepBlocks,
           up[e], ~InCall(e),
           \/ p.kind = "REJECT"
           \/ \E id \in Id : p = RESULT(id) /\ findopblk(e, id, "OPB_RESPONDER")
    PROVE  Keeps(e)
  <1>1. RoTypeOK /\ EndInv(e)
    BY DEF RoInv
  <1> DEFINE c == thread'[e].call
  <1>2. /\ thread'[e].pdu = <<p>> /\ c \in {"transfer", "ready"}
        /\ c = "transfer" => pending'[e] = <<p>>
        /\ c = "ready" => UNCHANGED pending
        /\ UNCHANGED up
        /\ \A f \in End : f # e => thread'[f] = thread[f] /\ pending'[f] = pending[f]
        /\ \A f \in End, q \in Apdu : (Got(f, q)' <=> Got(f, q))
        /\ \A q \in Apdu : (Left(e, q)' <=> Left(e, q) \/ (c = "transfer" /\ q = p))
    BY SendsEffect DEF Quiet
  <1>3. /\ \A i, r : (findopblk(e, i, r)' <=> findopblk(e, i, r))
        /\ UNCHANGED told /\ UNCHANGED ops
    BY KeepLearns DEF KeepBlocks
  <1>4. \A f \in End : up'[f] <=> up[f]
    BY <1>2
  <1>5. /\ \A i \in Id : p # INVOKE(i)
        /\ \A i \in Id : p = RESULT(i) =>
             findopblk(e, i, "OPB_RESPONDER") /\ ~Left(e, p) /\ Got(e, INVOKE(i))
    BY <1>1, Kinds DEF EndInv, Performed, InCall, At
  <1>6. Threaded(e)'
    BY <1>1, <1>2, <1>3, <1>4, <1>5, Kinds DEF EndInv, Threaded, At, InCall
  <1>7. Invoked(e)'
    BY <1>1, <1>2, <1>3, <1>5, Kinds, ApduTypes DEF EndInv, Invoked
  <1>8. Performed(e)'
    <2> SUFFICES ASSUME NEW id \in Id
                 PROVE  /\ Left(e, RESULT(id))' => Got(e, INVOKE(id))'
                        /\ findopblk(e, id, "OPB_RESPONDER")' =>
                             /\ Got(e, INVOKE(id))'
                             /\ Left(e, RESULT(id))' =>
                                  \/ ~up'[e]
                                  \/ c = "transfer" /\ thread'[e].pdu = <<RESULT(id)>>
                        /\ told'[e][id] = "result" => Got(e, RESULT(id))'
      BY DEF Performed, At
    <2>1. /\ Left(e, RESULT(id)) => Got(e, INVOKE(id))
          /\ findopblk(e, id, "OPB_RESPONDER") => Got(e, INVOKE(id)) /\ ~Left(e, RESULT(id))
          /\ told[e][id] = "result" => Got(e, RESULT(id))
      BY <1>1 DEF EndInv, Performed, InCall, At
    <2> QED
      BY <1>2, <1>3, <1>5, <2>1, ApduTypes
  <1>9. Still(Other(e))
    BY <1>2, <1>3, <1>4, TwoEnds DEF Still
  <1>10. \/ Quiet
         \/ R!Request(e) /\ pending'[e] = <<p>> /\ (p.kind # "REJECT" => ~Left(e, p))
    BY <1>5, SendsEffect
  <1> QED
    BY <1>3, <1>6, <1>7, <1>8, <1>9, <1>10 DEF Keeps, EndInv, Final

LEMMA AnsweringKeeps ==
    ASSUME RoInv, NEW e \in End,
           (\E id \in Id : RyDsResult(e, id)) \/ RoURejectRequest(e)
    PROVE  Keeps(e)
  <1>1. RoTypeOK /\ EndInv(e)
    BY DEF RoInv
  <1>2. ASSUME NEW id \in Id, RyDsResult(e, id) PROVE Keeps(e)
    <2>1. /\ findopblk(e, id, "OPB_RESPONDER") /\ up[e] /\ ~InCall(e)
          /\ KeepBlocks /\ UNCHANGED <<use, ids>> /\ ~At(e, "transfer")
      BY <1>2 DEF RyDsResult, rosapPsig, InCall, At
    <2>2. CASE RoSends(e, RESULT(id), thread[e].wait) /\ UNCHANGED acb
      BY <2>1, <2>2, AnswerKeeps, ApduTypes
    <2>3. CASE RoFails(e)
      <3>1. freeacblk(e) /\ ToUser(e)
        BY <2>3 DEF RoFails
      <3>2. thread'[e].call = "user" /\ \A f \in End : f # e => thread'[f] = thread[f]
        BY <1>1, <3>1, ThreadAtoms, ThreadOthers
      <3>3. Learns(e, "lost", {})
        BY <2>1, KeepLearns
      <3> QED
        BY <1>1, <2>1, <3>1, <3>2, <3>3, FreeEffect, QuietSettles
    <2> QED
      BY <1>2, <2>2, <2>3 DEF RyDsResult, RESULT
  <1>3. CASE RoURejectRequest(e)
    <2>1. /\ Pdu(e) \in Apdu /\ Pdu(e).kind = "REJECT" /\ up[e] /\ ~InCall(e)
      BY <1>1, <1>3, ThreadFields
      DEF RoURejectRequest, At, Sending, EndInv, Threaded, InCall
    <2> QED
      BY <1>3, <2>1, AnswerKeeps DEF RoURejectRequest
  <1> QED
    BY <1>2, <1>3

\* An APDU handed to e leaves the other end as it is.
LEMMA DeliverEffect ==
    ASSUME RoInv, NEW e \in End, R!Deliver(Other(e))
    PROVE  \E p \in Apdu :
             /\ pending[Other(e)] = <<p>> /\ Left(Other(e), p)
             /\ \A q \in Apdu : (Got(e, q)' <=> Got(e, q) \/ q = p)
             /\ \A q \in Apdu : (Left(e, q)' <=> Left(e, q))
             /\ UNCHANGED <<up, pending>>
  <1>1. RoTypeOK /\ Other(e) \in End /\ Other(e) # e /\ Other(Other(e)) = e
    BY TwoEnds DEF RoInv
  <1> QED
    BY <1>1, DeliverAtoms DEF Left

LEMMA ReadyDataKeeps ==
    ASSUME RoInv, NEW e \in End, ReadyData(e)
    PROVE  Keeps(e)
  <1>1. RoTypeOK /\ EndInv(e) /\ R!Deliver(Other(e))
    BY DEF RoInv, ReadyData
  <1>2. PICK p \in Apdu :
          /\ \A q \in Apdu : (Got(e, q)' <=> Got(e, q) \/ q = p)
          /\ \A q \in Apdu : (Left(e, q)' <=> Left(e, q))
          /\ UNCHANGED <<up, pending>>
    BY <1>1, DeliverEffect
  <1>3. /\ At(e, "ready") /\ InCall(e) /\ ~At(e, "transfer") /\ up[e]
        /\ UNCHANGED ids
    BY <1>1 DEF ReadyData, At, InCall, EndInv, Threaded
  <1>4. \A f \in End : up'[f] <=> up[f]
    BY <1>2
  <1>5. \A i \in Id : thread[e].pdu = <<INVOKE(i)>> => ~Left(e, INVOKE(i))
    BY <1>1, <1>3 DEF EndInv, Invoked, At
  <1>6. PICK which : Learns(e, "refused", which) /\ \A i \in which : ~Left(e, INVOKE(i))
    BY <1>3, <1>5, UnsentLearns DEF ReadyData, Waiting
  <1>7. thread'[e].call \in {"user", "wait"}
        /\ \A f \in End : f # e => thread'[f] = thread[f]
    BY <1>1, ThreadAtoms, ThreadOthers DEF ReadyData, Waiting
  <1>8. pending'[e] # << >> => ~up'[e]
    BY <1>1, <1>2, <1>3 DEF EndInv, Threaded
  <1>9. EndInv(e)'
    BY <1>1, <1>2, <1>3, <1>4, <1>6, <1>7, <1>8, SettleKeeps DEF At
  <1>10. Still(Other(e))
    BY <1>2, <1>3, <1>4, <1>6, <1>7, TwoEnds DEF Still, Learns
  <1> QED
    BY <1>1, <1>6, <1>9, <1>10, LearnsFinal DEF Keeps

LEMMA SendKeeps ==
    ASSUME RoInv, NEW e \in End, Send(e)
    PROVE  Keeps(e)
  <1>1. RoTypeOK /\ EndInv(e) /\ At(e, "send") /\ InCall(e) /\ ~At(e, "transfer")
    BY DEF RoInv, Send, At, InCall
  <1> DEFINE p == Pdu(e)
  <1>2. p \in Apdu /\ thread[e].pdu = <<p>>
    BY <1>1, ThreadFields DEF At, Sending
  <1>3. R!Request(e) /\ pending'[e] = <<p>>
    BY DEF Send, ro2rtswrite
  <1> HIDE DEF p
  <1>4. /\ \A f \in End, q \in Apdu : (Got(f, q)' <=> Got(f, q))
        /\ \A f \in End, q \in Apdu : (Left(f, q)' <=> Left(f, q) \/ (f = e /\ q = p))
        /\ \A f \in End : f # e => pending'[f] = pending[f]
        /\ UNCHANGED up
    BY <1>1, <1>2, <1>3, RequestAtoms DEF RoTypeOK
  <1>5. /\ thread'[e].call = "transfer" /\ thread'[e].pdu = <<p>>
        /\ thread'[e].wait = thread[e].wait
        /\ \A f \in End : f # e => thread'[f] = thread[f]
    BY <1>1, <1>2, ThreadAtoms, ThreadOthers DEF Send
  <1>6. /\ \A i, r : (findopblk(e, i, r)' <=> findopblk(e, i, r))
        /\ UNCHANGED <<ops, told, ids, acb>>
    BY KeepLearns DEF Send, KeepBlocks
  <1>7. \A f \in End : up'[f] <=> up[f]
    BY <1>4
  <1>8. p.kind # "REJECT" => ~Left(e, p)
    <2>1. CASE p.kind = "INVOKE"
      BY <1>1, <1>2, <2>1, ApduKinds DEF EndInv, Invoked, At
    <2>2. CASE p.kind = "RESULT"
      <3> DEFINE id == p.id
      <3>1. id \in Id /\ p = RESULT(id) /\ thread[e].pdu = <<RESULT(id)>>
        BY <1>2, <2>2, ApduKinds
      <3>2. findopblk(e, id, "OPB_RESPONDER") /\ up[e]
        BY <1>1, <3>1 DEF EndInv, Threaded, At
      <3> QED
        BY <1>1, <3>1, <3>2 DEF EndInv, Performed
    <2> QED
      BY <1>2, <2>1, <2>2, ApduKinds
  <1>9. Threaded(e)'
    BY <1>1, <1>2, <1>3, <1>4, <1>5, <1>6, <1>7 DEF EndInv, Threaded, At, InCall
  <1>10. Invoked(e)'
    <2> SUFFICES ASSUME NEW id \in Id
                 PROVE  Left(e, INVOKE(id))' => id <= ids[e] /\ told[e][id] # "refused"
      BY <1>1, <1>5, <1>6 DEF EndInv, Invoked
    <2>1. p = INVOKE(id) => id <= ids[e] /\ told[e][id] = "nothing"
      BY <1>1, <1>2 DEF EndInv, Threaded, Invoked
    <2> QED
      BY <1>1, <1>4, <2>1, ApduTypes DEF EndInv, Invoked
  <1>11. Performed(e)'
    <2> SUFFICES ASSUME NEW id \in Id
                 PROVE  /\ Left(e, RESULT(id))' => Got(e, INVOKE(id))'
                        /\ findopblk(e, id, "OPB_RESPONDER")' =>
                             /\ Got(e, INVOKE(id))'
                             /\ Left(e, RESULT(id))' =>
                                  \/ ~up'[e]
                                  \/ thread'[e].pdu = <<RESULT(id)>>
                        /\ told'[e][id] = "result" => Got(e, RESULT(id))'
      BY <1>5 DEF Performed, At
    <2>1. /\ Left(e, RESULT(id)) => Got(e, INVOKE(id))
          /\ findopblk(e, id, "OPB_RESPONDER") =>
               Got(e, INVOKE(id)) /\ (Left(e, RESULT(id)) => ~up[e])
          /\ told[e][id] = "result" => Got(e, RESULT(id))
      BY <1>1 DEF EndInv, Performed
    <2>2. p = RESULT(id) => findopblk(e, id, "OPB_RESPONDER")
      BY <1>1, <1>2 DEF EndInv, Threaded
    <2> QED
      BY <1>4, <1>5, <1>6, <1>7, <2>1, <2>2, ApduTypes
  <1>12. Still(Other(e))
    BY <1>4, <1>5, <1>6, <1>7, TwoEnds DEF Still
  <1> QED
    BY <1>2, <1>3, <1>6, <1>8, <1>9, <1>10, <1>11, <1>12 DEF Keeps, EndInv, Final

LEMMA SentBlocks ==
    ASSUME RoInv, NEW e \in End, Sent(e)
    PROVE  /\ Learns(e, "lost", {})
           /\ \A i \in Id : (findopblk(e, i, "OPB_INITIATOR")'
                               <=> findopblk(e, i, "OPB_INITIATOR"))
           /\ \A i \in Id : thread[e].pdu = <<RESULT(i)>> =>
                ~findopblk(e, i, "OPB_RESPONDER")'
  <1>1. RoTypeOK /\ At(e, "transfer")
    BY DEF RoInv, Sent
  <1>2. Pdu(e) \in Apdu /\ thread[e].pdu = <<Pdu(e)>>
    BY <1>1, ThreadFields DEF At, Sending
  <1>3. CASE Pdu(e).kind = "RESULT"
    <2>1. freeopblk(e, Pdu(e).id, "OPB_RESPONDER") /\ UNCHANGED told
      BY <1>3 DEF Sent
    <2>2. Pdu(e) = RESULT(Pdu(e).id)
      BY <1>2, <1>3, ApduKinds
    <2>3. \A i : thread[e].pdu = <<RESULT(i)>> => i = Pdu(e).id
      BY <1>2, <2>2, Kinds
    <2>4. /\ \A i, r : (findopblk(e, i, r)' <=>
                          findopblk(e, i, r) /\ ~(i = Pdu(e).id /\ r = "OPB_RESPONDER"))
          /\ \A f \in End : f # e => ops'[f] = ops[f]
      BY <1>1, <2>1, FreeAtoms
    <2>5. Learns(e, "lost", {})
      BY <2>1, <2>4 DEF Learns
    <2> QED
      BY <2>3, <2>4, <2>5
  <1>4. CASE Pdu(e).kind # "RESULT"
    <2>1. KeepBlocks
      BY <1>4 DEF Sent
    <2>2. \A i : thread[e].pdu # <<RESULT(i)>>
      BY <1>2, <1>4, Kinds
    <2> QED
      BY <2>1, <2>2, KeepLearns
  <1> QED
    BY <1>3, <1>4

LEMMA SentInv ==
    ASSUME RoInv, NEW e \in End, Sent(e)
    PROVE  Keeps(e)
  <1>1. /\ RoTypeOK /\ EndInv(e) /\ R!ServiceInv /\ At(e, "transfer") /\ R!Confirm(e)
        /\ UNCHANGED <<acb, ids>>
    BY DEF RoInv, Sent
  <1>2. /\ \A f \in End, q \in Apdu : (Got(f, q)' <=> Got(f, q))
        /\ \A f \in End, q \in Apdu : (Left(f, q)' <=> Left(f, q))
        /\ pending'[e] = << >> /\ UNCHANGED up
        /\ \A f \in End : f # e => pending'[f] = pending[f]
    BY <1>1, ConfirmAtoms DEF RoTypeOK
  <1>3. \A f \in End : up'[f] <=> up[f]
    BY <1>2
  <1>4. up'[e]
    BY <1>1, <1>2, <1>3 DEF EndInv, Threaded, At
  <1>5. /\ thread'[e].call \in {"user", "first", "wait"}
        /\ thread'[e].call = "first" =>
             Pdu(e).kind = "INVOKE" /\ thread[e].wait # 0 /\ thread'[e].wait = thread[e].wait
        /\ \A f \in End : f # e => thread'[f] = thread[f]
    <2>1. CASE Back(e)
      BY <1>1, <2>1, ThreadAtoms, ThreadOthers
    <2>2. CASE /\ Pdu(e).kind = "INVOKE" /\ thread[e].wait # 0
               /\ thread' = [thread EXCEPT ![e] = [@ EXCEPT !.call = "first", !.pdu = << >>]]
      <3>1. thread \in [End -> Thread] /\ thread[e] \in Thread
        BY <1>1 DEF RoTypeOK
      <3> QED
        BY <2>2, <3>1 DEF Thread
    <2> QED
      BY <2>1, <2>2 DEF Sent
  <1>6. thread'[e].call = "first" => findopblk(e, thread[e].wait, "OPB_INITIATOR")'
    <2> SUFFICES ASSUME thread'[e].call = "first"
                 PROVE  findopblk(e, thread[e].wait, "OPB_INITIATOR")'
      OBVIOUS
    <2>1. Pdu(e) \in Apdu /\ thread[e].pdu = <<Pdu(e)>>
      BY <1>1, ThreadFields DEF At, Sending
    <2>2. Pdu(e).id \in Id /\ thread[e].pdu = <<INVOKE(Pdu(e).id)>>
      BY <1>5, <2>1, ApduKinds
    <2>3. findopblk(e, Pdu(e).id, "OPB_INITIATOR") /\ thread[e].wait = Pdu(e).id
      BY <1>1, <1>5, <2>2 DEF EndInv, Threaded, InCall, At
    <2>4. \A i \in Id : findopblk(e, i, "OPB_INITIATOR")' <=> findopblk(e, i, "OPB_INITIATOR")
      BY SentBlocks
    <2> QED
      BY <1>5, <2>2, <2>3, <2>4 DEF findopblk
  <1>7. EndInv(e)'
    BY <1>1, <1>2, <1>3, <1>4, <1>5, <1>6, SentBlocks, SettleKeeps DEF At
  <1>8. Still(Other(e))
    BY <1>1, <1>2, <1>3, <1>5, SentBlocks, TwoEnds DEF Still, Learns
  <1> QED
    BY <1>1, <1>7, <1>8, SentBlocks, LearnsFinal DEF Keeps

\* Where an end that has read an APDU goes on.
LEMMA OnwardCalls ==
    ASSUME RoInv, NEW e \in End, rosapXsig(e), NEW c \in {"serve", "wait"}, Onward(e, c)
    PROVE  /\ thread'[e].call \in {"user", "serve", "wait"}
           /\ \A f \in End : f # e => thread'[f] = thread[f]
  <1>1. RoTypeOK /\ EndInv(e)
    BY DEF RoInv
  <1>2. At(e, "first") => thread[e].wait # 0
    <2>1. ops[e] \subseteq opsblk /\ 0 \notin Id
      BY <1>1, MaxIdAssumption DEF RoTypeOK, Id
    <2> QED
      BY <1>1, <2>1 DEF EndInv, Threaded, findopblk, Block, opsblk
  <1> QED
    BY <1>1, <1>2, ThreadAtoms, ThreadOthers DEF rosapXsig, At

\* An invocation is read and gets its block: it was not read before.
LEMMA DispatchInv ==
    ASSUME RoInv, NEW e \in End, NEW id \in Id, R!Deliver(Other(e)),
           pending[Other(e)] = <<INVOKE(id)>>, rosapXsig(e), UNCHANGED <<acb, ids>>,
           newopblk(e, id, "OPB_RESPONDER"), UNCHANGED told, Onward(e, "serve")
    PROVE  Keeps(e)
  <1> DEFINE p == INVOKE(id)
  <1>1. RoTypeOK /\ EndInv(e) /\ Fresh /\ p \in Apdu /\ Other(e) \in End
        /\ Other(Other(e)) = e
    BY ApduTypes, TwoEnds DEF RoInv
  <1>2. /\ \A q \in Apdu : (Got(e, q)' <=> Got(e, q) \/ q = p)
        /\ \A q \in Apdu : (Left(e, q)' <=> Left(e, q))
        /\ UNCHANGED <<up, pending>>
    BY <1>1, DeliverEffect, Kinds
  <1>3. ~Got(e, p)
    BY <1>1, Kinds DEF Fresh, R!Deliver
  <1> HIDE DEF p
  <1>4. /\ thread'[e].call \in {"user", "serve", "wait"}
        /\ \A f \in End : f # e => thread'[f] = thread[f]
    BY OnwardCalls
  <1>5. /\ \A i, r : (findopblk(e, i, r)' <=>
                        findopblk(e, i, r) \/ (i = id /\ r = "OPB_RESPONDER"))
        /\ \A f \in End : f # e => ops'[f] = ops[f]
    BY <1>1, NewAtoms
  <1>6. \A f \in End : up'[f] <=> up[f]
    BY <1>2
  <1>7. up[e] /\ ~At(e, "transfer") /\ pending[e] = << >>
    BY <1>1 DEF rosapXsig, EndInv, Threaded, At
  <1>8. Threaded(e)'
    BY <1>2, <1>4, <1>6, <1>7 DEF Threaded, At, InCall
  <1>9. Invoked(e)'
    BY <1>1, <1>2, <1>4, <1>5, ApduTypes DEF EndInv, Invoked
  <1>10. Performed(e)'
    <2>1. ~Left(e, RESULT(id))
      BY <1>1, <1>3 DEF EndInv, Performed, p
    <2> SUFFICES ASSUME NEW i \in Id
                 PROVE  /\ Left(e, RESULT(i))' => Got(e, INVOKE(i))'
                        /\ findopblk(e, i, "OPB_RESPONDER")' =>
                             Got(e, INVOKE(i))' /\ ~Left(e, RESULT(i))'
                        /\ told'[e][i] = "result" => Got(e, RESULT(i))'
      BY DEF Performed
    <2>2. /\ Left(e, RESULT(i)) => Got(e, INVOKE(i))
          /\ findopblk(e, i, "OPB_RESPONDER") => Got(e, INVOKE(i)) /\ ~Left(e, RESULT(i))
          /\ told[e][i] = "result" => Got(e, RESULT(i))
      BY <1>1, <1>7 DEF EndInv, Performed
    <2> QED
      BY <1>2, <1>5, <2>1, <2>2, ApduTypes DEF p
  <1>11. Still(Other(e))
    BY <1>2, <1>4, <1>5, <1>6, TwoEnds DEF Still
  <1> QED
    BY <1>8, <1>9, <1>10, <1>11 DEF Keeps, EndInv, Final

\* An answer is read, or what is read is rejected.
LEMMA AnswerInv ==
    ASSUME RoInv, NEW e \in End, R!Deliver(Other(e)), rosapXsig(e),
           UNCHANGED <<acb, ids>>, NEW p \in Apdu, pending[Other(e)] = <<p>>,
           \/ p.kind = "INVOKE" /\ KeepBlocks /\ Rejects(e, p.id)
           \/ p.kind = "RESULT" /\ Answer(e, p.id, "result")
           \/ p.kind = "REJECT" /\ Answer(e, p.id, "rejected")
    PROVE  Keeps(e)
  <1>1. RoTypeOK /\ EndInv(e) /\ p.id \in Id
    BY ApduKinds DEF RoInv
  <1>2. /\ \A q \in Apdu : (Got(e, q)' <=> Got(e, q) \/ q = p)
        /\ \A q \in Apdu : (Left(e, q)' <=> Left(e, q))
        /\ UNCHANGED <<up, pending>>
    BY DeliverEffect, Kinds
  <1>3. /\ thread'[e].call \in {"user", "serve", "wait", "reject"}
        /\ thread'[e].call = "reject" => Pdu(e)'.kind = "REJECT"
        /\ \A f \in End : f # e => thread'[f] = thread[f]
    <2>1. CASE Rejects(e, p.id)
      <3>1. /\ thread'[e].call = "reject"
            /\ thread'[e].pdu = <<[kind |-> "REJECT", id |-> p.id]>>
        BY <1>1, <2>1, ThreadAtoms
      <3>2. Pdu(e)'.kind = "REJECT"
        BY <3>1 DEF Pdu
      <3> QED
        BY <1>1, <2>1, <3>1, <3>2, ThreadOthers
    <2>2. CASE ToUser(e)
      BY <1>1, <2>2, ThreadAtoms, ThreadOthers
    <2>3. CASE Onward(e, "wait")
      BY <2>3, OnwardCalls
    <2> QED
      BY <2>1, <2>2, <2>3 DEF Answer
  <1>4. \A f \in End : up'[f] <=> up[f]
    BY <1>2
  <1>5. up[e] /\ ~At(e, "transfer") /\ pending[e] = << >>
    BY <1>1 DEF rosapXsig, EndInv, Threaded, At
  <1>6. \E what, which : /\ Learns(e, what, which)
                         /\ what \in {"result", "rejected", "lost"}
                         /\ what = "result" => \A i \in which : Got(e, RESULT(i))'
    <2>1. CASE KeepBlocks
      BY <2>1, KeepLearns
    <2>2. ASSUME NEW what \in {"result", "rejected"}, Answer(e, p.id, what), ~KeepBlocks
          PROVE  Learns(e, what, {p.id})
      BY <1>1, <2>2, FreeLearns DEF Answer
    <2>3. p.kind = "RESULT" => Got(e, RESULT(p.id))'
      BY <1>2, ApduKinds
    <2> QED
      BY <2>1, <2>2, <2>3
  <1>7. PICK what, which : /\ Learns(e, what, which)
                           /\ what \in {"result", "rejected", "lost"}
                           /\ what = "result" => \A i \in which : Got(e, RESULT(i))'
    BY <1>6
  <1>8. EndInv(e)'
    BY <1>1, <1>2, <1>3, <1>4, <1>5, <1>7, SettleKeeps DEF At
  <1>9. Still(Other(e))
    BY <1>2, <1>3, <1>4, <1>7, TwoEnds DEF Still, Learns
  <1> QED
    BY <1>1, <1>7, <1>8, <1>9, LearnsFinal DEF Keeps

LEMMA DataInv ==
    ASSUME RoInv, NEW e \in End, WaitData(e)
    PROVE  Keeps(e)
  <1>1. /\ RoTypeOK /\ R!Deliver(Other(e)) /\ rosapXsig(e) /\ UNCHANGED <<acb, ids>>
    BY DEF RoInv, WaitData, RtReads, RtWaits
  <1>2. PICK p \in Apdu :
             /\ pending[Other(e)] = <<p>>
             /\ \/ p.kind = "INVOKE" /\ Dispatch(e, p.id)
                \/ p.kind = "RESULT" /\ Answer(e, p.id, "result")
                \/ p.kind = "REJECT" /\ Answer(e, p.id, "rejected")
    BY <1>1, DataCases
  <1>3. CASE p.kind = "INVOKE" /\ KeepBlocks /\ Rejects(e, p.id)
    BY <1>1, <1>2, <1>3, AnswerInv
  <1>4. CASE p.kind = "INVOKE" /\ newopblk(e, p.id, "OPB_RESPONDER") /\ UNCHANGED told
             /\ Onward(e, "serve")
    <2>1. p.id \in Id /\ p = INVOKE(p.id)
      BY <1>4, ApduKinds
    <2> QED
      BY <1>1, <1>2, <1>4, <2>1, DispatchInv
  <1>5. CASE p.kind # "INVOKE"
    BY <1>1, <1>2, <1>5, AnswerInv
  <1> QED
    BY <1>2, <1>3, <1>4, <1>5 DEF Dispatch

\* RyOpInvoke takes a number that was never used and is unknown at both ends.
LEMMA NewId ==
    ASSUME RoInv, NEW e \in End, ids[e] < MaxId
    PROVE  /\ ids[e] + 1 \in Id
           /\ told[e][ids[e] + 1] = "nothing"
           /\ ~findopblk(e, ids[e] + 1, "OPB_INITIATOR")
           /\ ~Left(e, INVOKE(ids[e] + 1))
           /\ \A i \in Id : i <= ids[e] + 1 <=> i <= ids[e] \/ i = ids[e] + 1
           /\ \A i \in Id : i > ids[e] + 1 => i > ids[e]
  <1>1. ids[e] \in Nat /\ Id \subseteq Nat /\ ids[e] + 1 \in Id
    BY MaxIdAssumption DEF RoInv, RoTypeOK, Id
  <1>2. ids[e] + 1 > ids[e] /\ ~(ids[e] + 1 <= ids[e])
    BY <1>1
  <1>3. /\ \A i \in Id : i <= ids[e] + 1 <=> i <= ids[e] \/ i = ids[e] + 1
        /\ \A i \in Id : i > ids[e] + 1 => i > ids[e]
    BY <1>1
  <1> DEFINE id == ids[e] + 1
  <1>4. id \in Id /\ id > ids[e] /\ ~(id <= ids[e])
    BY <1>1, <1>2
  <1> HIDE DEF id
  <1>5. /\ told[e][id] = "nothing" /\ ~findopblk(e, id, "OPB_INITIATOR")
        /\ ~Left(e, INVOKE(id))
    BY <1>4 DEF RoInv, EndInv, Invoked
  <1> QED
    BY <1>1, <1>3, <1>5 DEF id

LEMMA InvokeSends ==
    ASSUME RoInv, NEW e \in End, At(e, "user"), up[e], ids[e] < MaxId,
           ids' = [ids EXCEPT ![e] = ids[e] + 1], NEW w \in {0, ids[e] + 1},
           RoSends(e, INVOKE(ids[e] + 1), w),
           newopblk(e, ids[e] + 1, "OPB_INITIATOR"), UNCHANGED <<acb, told>>
    PROVE  Keeps(e)
  <1> DEFINE id == ids[e] + 1
             p == INVOKE(id)
             c == thread'[e].call
  <1>1. RoTypeOK /\ EndInv(e) /\ p \in Apdu
    BY NewId, ApduTypes DEF RoInv
  <1>2. /\ id \in Id /\ told[e][id] = "nothing" /\ ~Left(e, INVOKE(id))
        /\ \A i \in Id : i <= id <=> i <= ids[e] \/ i = id
        /\ \A i \in Id : i > id => i > ids[e]
        /\ ids'[e] = id /\ \A f \in End : f # e => ids'[f] = ids[f]
    BY <1>1, NewId DEF RoTypeOK
  <1>3. /\ thread'[e].pdu = <<p>> /\ c \in {"transfer", "ready"} /\ thread'[e].wait = w
        /\ c = "transfer" => pending'[e] = <<p>>
        /\ c = "ready" => UNCHANGED pending
        /\ UNCHANGED up
        /\ \A f \in End : f # e => thread'[f] = thread[f] /\ pending'[f] = pending[f]
        /\ \A f \in End, q \in Apdu : (Got(f, q)' <=> Got(f, q))
        /\ \A q \in Apdu : (Left(e, q)' <=> Left(e, q) \/ (c = "transfer" /\ q = p))
    BY <1>1, SendsEffect DEF Quiet
  <1>4. /\ \A i, r : (findopblk(e, i, r)' <=>
                        findopblk(e, i, r) \/ (i = id /\ r = "OPB_INITIATOR"))
        /\ \A f \in End : f # e => ops'[f] = ops[f]
    BY <1>1, NewAtoms
  <1>5. \A f \in End : up'[f] <=> up[f]
    BY <1>3
  <1>6. \/ Quiet
        \/ R!Request(e) /\ pending'[e] = <<p>> /\ ~Left(e, p)
    BY <1>1, <1>2, SendsEffect
  <1>7. w \in {0, id}
    OBVIOUS
  <1> HIDE DEF id, c
  <1>8. Threaded(e)'
    BY <1>1, <1>3, <1>4, <1>5, <1>7, Kinds DEF EndInv, Threaded, At, InCall, c
  <1>9. Invoked(e)'
    BY <1>1, <1>2, <1>3, <1>4, Kinds, ApduTypes DEF EndInv, Invoked, c
  <1>10. Performed(e)'
    BY <1>1, <1>3, <1>4, <1>5, Kinds, ApduTypes DEF EndInv, Performed, At
  <1>11. Still(Other(e))
    BY <1>2, <1>3, <1>4, <1>5, TwoEnds DEF Still
  <1> QED
    BY <1>1, <1>6, <1>8, <1>9, <1>10, <1>11 DEF Keeps, EndInv, Final

\* An invocation that fails or is refused at once.
LEMMA InvokeRefused ==
    ASSUME RoInv, NEW e \in End, At(e, "user"), up[e], ids[e] < MaxId,
           ids' = [ids EXCEPT ![e] = ids[e] + 1], NEW what \in {"lost", "refused"},
           Tell(e, what, {ids[e] + 1}), UNCHANGED ops, Quiet,
           thread'[e].call = "user",
           \A f \in End : f # e => thread'[f] = thread[f] /\ up'[f] = up[f]
    PROVE  Keeps(e)
  <1> DEFINE id == ids[e] + 1
  <1>1. RoTypeOK /\ EndInv(e)
    BY DEF RoInv
  <1>2. /\ id \in Id /\ told[e][id] = "nothing" /\ ~Left(e, INVOKE(id))
        /\ ~findopblk(e, id, "OPB_INITIATOR")
        /\ \A i \in Id : i <= id <=> i <= ids[e] \/ i = id
        /\ \A i \in Id : i > id => i > ids[e] /\ i # id
        /\ ids'[e] = id /\ \A f \in End : f # e => ids'[f] = ids[f]
    <2>1. \A i \in Id : i > id => i # id
      BY MaxIdAssumption DEF Id
    <2> QED
      BY <1>1, <2>1, NewId DEF RoTypeOK
  <1>3. /\ \A i \in Id : told'[e][i] = IF i = id THEN what ELSE told[e][i]
        /\ \A f \in End : f # e => told'[f] = told[f]
    BY <1>1, TellAtoms
  <1>4. \A f \in End : \A i, r : findopblk(f, i, r)' <=> findopblk(f, i, r)
    BY DEF findopblk
  <1>5. pending[e] = << >> /\ pending'[e] = << >>
    BY <1>1 DEF EndInv, Threaded, At, Quiet
  <1> HIDE DEF id
  <1>6. Threaded(e)'
    BY <1>5 DEF Threaded, At, InCall
  <1>7. Invoked(e)'
    BY <1>1, <1>2, <1>3, <1>4, QuietAtoms, ApduTypes DEF EndInv, Invoked
  <1>8. Performed(e)'
    BY <1>1, <1>3, <1>4, QuietAtoms, ApduTypes DEF EndInv, Performed, At
  <1>9. Still(Other(e))
    BY <1>2, <1>3, TwoEnds DEF Still, Quiet
  <1> QED
    BY <1>2, <1>3, <1>6, <1>7, <1>8, <1>9 DEF Keeps, EndInv, Final

LEMMA InvokeInv ==
    ASSUME RoInv, NEW e \in End, NEW class, RyOpInvoke(e, class)
    PROVE  Keeps(e)
  <1>1. /\ RoTypeOK /\ At(e, "user") /\ up[e] /\ ids[e] < MaxId
        /\ ids' = [ids EXCEPT ![e] = ids[e] + 1]
    BY DEF RoInv, RyOpInvoke, rosapPsig
  <1> DEFINE w == IF class = "ROS_SYNC" THEN ids[e] + 1 ELSE 0
  <1>2. w \in {0, ids[e] + 1}
    OBVIOUS
  <1>3. \/ /\ RoSends(e, INVOKE(ids[e] + 1), w)
           /\ newopblk(e, ids[e] + 1, "OPB_INITIATOR") /\ UNCHANGED <<acb, told>>
        \/ RoFails(e) /\ Tell(e, "lost", {ids[e] + 1}) /\ UNCHANGED ops
        \/ RoRefuses(e) /\ Tell(e, "refused", {ids[e] + 1}) /\ UNCHANGED <<ops, thread>>
    BY DEF RyOpInvoke, INVOKE
  <1> HIDE DEF w
  <1>4. CASE RoFails(e) /\ Tell(e, "lost", {ids[e] + 1}) /\ UNCHANGED ops
    <2>1. freeacblk(e) /\ ToUser(e)
      BY <1>4 DEF RoFails
    <2>2. thread'[e].call = "user" /\ \A f \in End : f # e => thread'[f] = thread[f]
      BY <1>1, <2>1, ThreadAtoms, ThreadOthers
    <2> QED
      BY <1>1, <1>4, <2>1, <2>2, FreeEffect, InvokeRefused
  <1>5. CASE RoRefuses(e) /\ Tell(e, "refused", {ids[e] + 1}) /\ UNCHANGED <<ops, thread>>
    <2>1. Quiet /\ UNCHANGED <<acb, up>> /\ thread'[e].call = "user"
      BY <1>1, <1>5 DEF RoRefuses, service, Quiet, At
    <2> QED
      BY <1>1, <1>5, <2>1, InvokeRefused
  <1> QED
    BY <1>1, <1>2, <1>3, <1>4, <1>5, InvokeSends

-----------------------------------------------------------------------------
(* The invariant and what follows from it.                                 *)

LEMMA StepKeeps ==
    ASSUME RoInv, NEW e \in End, Requesting(e) \/ Working(e) \/ Breaks(e)
    PROVE  Keeps(e)
  <1>1. CASE Requesting(e)
    BY <1>1, InvokeInv, PlainSettles DEF Requesting
  <1>2. CASE (\E id \in Id : RyDsResult(e, id)) \/ RoURejectRequest(e)
    BY <1>2, AnsweringKeeps
  <1>3. CASE ReadyTurn(e) \/ ReadyData(e) \/ ReadyClose(e)
    BY <1>3, ReadyTurnKeeps, ReadyDataKeeps, ReadyKeeps
  <1>4. CASE WaitPlease(e)
    BY <1>4, DoneKeeps, StillActions DEF WaitPlease
  <1>5. CASE WaitKept(e) \/ WaitClosing(e) \/ WaitClose(e)
    BY <1>5, DoneKeeps
  <1>6. CASE TransferPlease(e) \/ WaitTurn(e) \/ ReadGTA(e)
    BY <1>6, StillActions
  <1>7. CASE Send(e) \/ Sent(e) \/ WaitData(e)
    BY <1>7, SendKeeps, SentInv, DataInv
  <1>8. CASE ServeReturns(e)
    BY <1>8, PlainSettles
  <1>9. CASE Loses(e) \/ Quit(e) \/ RtEndFails(e) \/ RtEndResponse(e)
    BY <1>9, LosesKeeps, QuitKeeps
  <1> QED
    BY <1>1, <1>2, <1>3, <1>4, <1>5, <1>6, <1>7, <1>8, <1>9
    DEF Working, Breaks, Lost

LEMMA NextInv == RoInv /\ [Next]_vars => RoInv'
  <1> SUFFICES ASSUME RoInv, [Next]_vars PROVE RoInv'
    OBVIOUS
  <1>1. RoTypeOK' /\ R!ServiceInv'
    BY NextTypes, StepIsService, R!NextService DEF RoInv
  <1>2. (\A f \in End : EndInv(f)') /\ Fresh' /\ OncePerInvocation'
    <2>1. CASE Next
      BY <2>1, StepKeeps, KeepsInv DEF Next
    <2>2. CASE UNCHANGED vars
      <3>1. Quiet /\ UNCHANGED <<thread, acb, ops, told, ids, up, pending>>
        BY <2>2 DEF vars, rovars, service, Quiet
      <3>2. \A f \in End : Still(f)
        BY <3>1 DEF Still
      <3>3. \A f \in End : EndInv(f)'
        BY <3>1, <3>2, QuietAtoms, StillKeeps DEF RoInv
      <3> QED
        BY <3>1, <3>3, QuietKeeps DEF RoInv
    <2> QED
      BY <2>1, <2>2
  <1> QED
    BY <1>1, <1>2 DEF RoInv

LEMMA InitInv == Init => RoInv
  <1> SUFFICES ASSUME Init PROVE RoInv
    OBVIOUS
  <1>1. RoTypeOK /\ R!ServiceInv
    BY InitTypes, R!InitService DEF Init
  <1>2. \A e \in End : delivered[e] = << >> /\ pending[e] = << >> /\ Other(e) \in End
    BY TwoEnds DEF Init, R!RtInit, End
  <1>3. \A e \in End : \A p : ~Got(e, p) /\ ~Left(e, p)
    BY <1>2, Kinds DEF Got, Left
  <1>4. ASSUME NEW e \in End PROVE EndInv(e)
    <2>1. /\ thread[e].call = "user" /\ ids[e] = 0 /\ ops[e] = {}
          /\ \A i \in Id : told[e][i] = "nothing" /\ i > 0 /\ ~(i <= 0)
      BY MaxIdAssumption DEF Init, User, Id
    <2> QED
      BY <1>2, <1>3, <2>1
      DEF EndInv, Threaded, Invoked, Performed, At, InCall, findopblk
  <1>5. Fresh
    BY <1>2, Kinds DEF Fresh
  <1>6. OncePerInvocation
    BY <1>2 DEF OncePerInvocation
  <1> QED
    BY <1>1, <1>4, <1>5, <1>6 DEF RoInv

\* No invocation and no result reaches an end twice, whatever is refused and
\* tried again (ROS_WAITING) and however the association ends.
THEOREM AtMostOnce == Spec => []OncePerInvocation
  <1>1. RoInv => OncePerInvocation
    BY DEF RoInv
  <1> QED
    BY <1>1, InitInv, NextInv, PTL DEF Spec

\* A result the invoker is told of was sent for an invocation the other end
\* was handed; an invocation he was refused was not and will not be sent.
THEOREM Truthful == Spec => []ToldTrue
  <1>1. RoInv => ToldTrue
    <2> SUFFICES ASSUME RoInv, NEW e \in End, NEW id \in Id
                 PROVE  /\ told[e][id] = "result" => /\ Got(e, RESULT(id))
                                                     /\ Got(Other(e), INVOKE(id))
                        /\ told[e][id] = "refused" => /\ ~Got(Other(e), INVOKE(id))
                                                      /\ pending[e] # <<INVOKE(id)>>
      BY DEF ToldTrue
    <2>1. EndInv(e) /\ EndInv(Other(e)) /\ Other(e) \in End /\ Other(Other(e)) = e
      BY TwoEnds DEF RoInv
    <2>2. told[e][id] = "result" => Got(e, RESULT(id))
      BY <2>1 DEF EndInv, Performed
    <2>3. Got(e, RESULT(id)) => Got(Other(e), INVOKE(id))
      BY <2>1 DEF EndInv, Performed, Left
    <2>4. told[e][id] = "refused" => ~Left(e, INVOKE(id))
      BY <2>1 DEF EndInv, Invoked
    <2> QED
      BY <2>2, <2>3, <2>4 DEF Left
  <1> QED
    BY <1>1, InitInv, NextInv, PTL DEF Spec

\* The invoker's operation blocks are his invocations without an answer.
THEOREM NoneForgotten == Spec => []Accounted
  <1>1. RoInv => Accounted
    BY DEF RoInv, EndInv, Invoked, Accounted
  <1> QED
    BY <1>1, InitInv, NextInv, PTL DEF Spec

\* The invoker is told the fate of an invocation once: a late result or
\* rejection, or the loss of the association, tells him no other.
THEOREM ToldForGood == Spec => ToldOnce
  <1>1. RoInv /\ [Next]_vars =>
          [\A e \in End, id \in Id :
             told[e][id] # "nothing" => told'[e][id] = told[e][id]]_vars
    <2> SUFFICES ASSUME RoInv, Next
                 PROVE  \A e \in End : Final(e)
      BY DEF Final
    <2>1. PICK e \in End : Keeps(e)
      BY StepKeeps DEF Next
    <2>2. Final(Other(e)) /\ \A f \in End : f = e \/ f = Other(e)
      BY <2>1, TwoEnds DEF Keeps, Still, Final
    <2> QED
      BY <2>1, <2>2 DEF Keeps
  <1> QED
    BY <1>1, InitInv, NextInv, PTL DEF Spec, ToldOnce
-----------------------------------------------------------------------------
(* Who has the turn, and what comes.                                       *)
(*                                                                         *)
(* While the turn is under way it is nobody's; the end that gave it waits  *)
(* for the acknowledgement, which the other sends when it takes the turn.  *)
(* A request for the turn comes before the acknowledgement, or it was made *)
(* of an end that has the turn or has given it.                            *)

Comes(s, x) == \E i \in DOMAIN s : s[i] = x

InOrder(s) ==
    \A i, j \in DOMAIN s : i < j =>
      /\ s[i] = "GIVE" => s[j] \notin {"GIVE", "GTA"}
      /\ s[i] = "GTA" => s[j] # "PLEASE"

Coming(e, x) == Comes(ind[e], x)

\* An end that has or had the turn, and may be asked for it.
Holds(e) == e \in turn \/ Has(e, "SB_GTC")

TurnOf(e) ==
    /\ InOrder(ind[e])
    /\ Coming(e, "GIVE") => turn = {} /\ ~Coming(Other(e), "GIVE")
    /\ Coming(e, "GTA") => ~Coming(Other(e), "GTA") /\ (up[Other(e)] => Holds(Other(e)))
    /\ up[e] /\ ~Holds(e) => ~Coming(e, "PLEASE") /\ ~Has(e, "ACB_PLEASE")
    /\ At(e, "ready") => ~Holds(e)
    /\ At(e, "send") \/ At(e, "transfer") => e \in turn

TurnInv ==
    /\ \A e \in End : TurnOf(e)
    /\ (\A e \in End : up[e]) => \E e \in End : Holds(e)

LEMMA TailOrder ==
    ASSUME NEW s \in Seq(Indication), s # << >>, InOrder(s)
    PROVE  /\ InOrder(Tail(s))
           /\ \A x : Comes(Tail(s), x) => Comes(s, x)
           /\ Comes(s, Head(s))
           /\ Head(s) = "GIVE" => ~Comes(Tail(s), "GIVE") /\ ~Comes(s, "GTA")
           /\ Head(s) = "GTA" => ~Comes(Tail(s), "PLEASE")
  <1> DEFINE n == Len(s)
             t == Tail(s)
  <1>1. n \in Nat /\ DOMAIN s = 1 .. n /\ n # 0 /\ Head(s) = s[1]
    OBVIOUS
  <1>2. Len(t) = n - 1 /\ \A i \in 1 .. (n - 1) : t[i] = s[i + 1]
    BY HeadTailProperties
  <1>3. DOMAIN t = 1 .. (n - 1)
    BY <1>1, <1>2
  <1> HIDE DEF n, t
  <1>4. 1 \in DOMAIN s /\ \A i \in DOMAIN s : i = 1 \/ (1 < i /\ i \in Nat)
    BY <1>1
  <1>5. \A i \in DOMAIN t : i + 1 \in DOMAIN s /\ t[i] = s[i + 1] /\ 1 < i + 1 /\ i \in Nat
    BY <1>1, <1>2, <1>3
  <1>6. \A i, j \in DOMAIN t : i < j => i + 1 < j + 1
    BY <1>5
  <1>7. InOrder(t)
    BY <1>5, <1>6 DEF InOrder
  <1>8. \A x : Comes(t, x) => Comes(s, x)
    BY <1>5 DEF Comes
  <1>9. Comes(s, Head(s))
    BY <1>1, <1>4 DEF Comes
  <1>10. Head(s) = "GIVE" => ~Comes(t, "GIVE") /\ ~Comes(s, "GTA")
    BY <1>1, <1>4, <1>5 DEF InOrder, Comes
  <1>11. Head(s) = "GTA" => ~Comes(t, "PLEASE")
    BY <1>1, <1>4, <1>5 DEF InOrder, Comes
  <1> QED
    BY <1>7, <1>8, <1>9, <1>10, <1>11 DEF t

LEMMA AppendOrder ==
    ASSUME NEW s \in Seq(Indication), NEW x \in Indication, InOrder(s),
           x \in {"GIVE", "GTA"} => ~Comes(s, "GIVE"),
           x = "PLEASE" => ~Comes(s, "GTA")
    PROVE  /\ InOrder(s \o <<x>>)
           /\ \A y : Comes(s \o <<x>>, y) => Comes(s, y) \/ y = x
  <1> DEFINE u == s \o <<x>>
             n == Len(s)
  <1>1. /\ n \in Nat /\ DOMAIN s = 1 .. n /\ DOMAIN u = 1 .. (n + 1)
        /\ \A i \in 1 .. n : u[i] = s[i]
        /\ u[n + 1] = x
    BY Appended
  <1> HIDE DEF u, n
  <1>2. \A i \in DOMAIN u : (i \in DOMAIN s /\ u[i] = s[i]) \/ i = n + 1
    BY <1>1
  <1>3. \A i, j \in DOMAIN u : i < j => i \in DOMAIN s
    BY <1>1
  <1>4. InOrder(u)
    <2> SUFFICES ASSUME NEW i \in DOMAIN u, NEW j \in DOMAIN u, i < j
                 PROVE  /\ u[i] = "GIVE" => u[j] \notin {"GIVE", "GTA"}
                        /\ u[i] = "GTA" => u[j] # "PLEASE"
      BY DEF InOrder
    <2>1. i \in DOMAIN s /\ u[i] = s[i]
      BY <1>1, <1>3
    <2>2. CASE j \in DOMAIN s /\ u[j] = s[j]
      BY <2>1, <2>2 DEF InOrder
    <2>3. CASE j = n + 1
      BY <1>1, <2>1, <2>3 DEF Comes
    <2> QED
      BY <1>2, <2>2, <2>3
  <1>5. \A y : Comes(u, y) => Comes(s, y) \/ y = x
    BY <1>1, <1>2 DEF Comes
  <1> QED
    BY <1>4, <1>5 DEF u

\* What a step of e may do to the turn and to what comes.
Hands(e, what) == \A y : Coming(Other(e), y)' => Coming(Other(e), y) \/ y \in what

Idles(e) ==
    /\ UNCHANGED <<turn, up>> /\ (Has(e, "SB_GTC")' <=> Has(e, "SB_GTC"))
    /\ Has(e, "ACB_PLEASE")' => Has(e, "ACB_PLEASE") \/ e \in turn
    /\ Hands(e, {"TRANSFER", "CLOSE"})

Asks(e) ==
    /\ UNCHANGED <<turn, up, acb>> /\ up[e] /\ ~Holds(e)
    /\ Hands(e, {"PLEASE"})

Gives(e) ==
    /\ e \in turn /\ turn' = {} /\ UNCHANGED up /\ Has(e, "SB_GTC")'
    /\ Hands(e, {"GIVE"})

Takes(e) ==
    /\ Coming(e, "GIVE") /\ ~Coming(e, "GIVE")' /\ ~Coming(e, "GTA")
    /\ turn = {} /\ turn' = {e} /\ UNCHANGED <<up, acb>>
    /\ Hands(e, {"GTA"})

Acknowledged(e) ==
    /\ Coming(e, "GTA") /\ ~Coming(e, "PLEASE")' /\ ~Has(e, "ACB_PLEASE")'
    /\ UNCHANGED <<turn, up>> /\ ~Has(e, "SB_GTC")'
    /\ Hands(e, {})

Leaves(e) ==
    /\ turn' = turn \ {e} /\ ~up'[e] /\ up'[Other(e)] = up[Other(e)]
    /\ Hands(e, {})

TurnStep(e) ==
    /\ InOrder(ind'[e]) /\ InOrder(ind'[Other(e)])
    /\ \A y : Coming(e, y)' => Coming(e, y)
    /\ thread'[Other(e)] = thread[Other(e)] /\ acb'[Other(e)] = acb[Other(e)]
    /\ At(e, "ready")' => ~Holds(e)'
    /\ At(e, "send")' \/ At(e, "transfer")' => e \in turn'
    /\ \/ Idles(e) \/ Asks(e) \/ Gives(e) \/ Takes(e) \/ Acknowledged(e) \/ Leaves(e)

LEMMA TurnStepKeeps ==
    ASSUME RoInv, TurnInv, NEW e \in End, TurnStep(e)
    PROVE  TurnInv'
  <1> DEFINE o == Other(e)
  <1>1. o \in End /\ o # e /\ Other(o) = e /\ \A f \in End : f = e \/ f = o
    BY TwoEnds
  <1>2. TurnOf(e) /\ TurnOf(o) /\ (up[e] /\ up[o] => Holds(e) \/ Holds(o))
    BY <1>1 DEF TurnInv
  <1>3. turn \subseteq End /\ ~(e \in turn /\ o \in turn)
    BY <1>1 DEF RoInv, RoTypeOK, R!ServiceInv, R!TurnExclusive, End
  <1>4. /\ \A y : Coming(e, y)' => Coming(e, y)
        /\ InOrder(ind'[e]) /\ InOrder(ind'[o])
        /\ \A c : (At(o, c)' <=> At(o, c))
        /\ \A x : (Has(o, x)' <=> Has(o, x))
        /\ At(e, "ready")' => ~Holds(e)'
        /\ At(e, "send")' \/ At(e, "transfer")' => e \in turn'
    BY DEF TurnStep, At, Has
  <1> SUFFICES /\ TurnOf(e)' /\ TurnOf(o)'
               /\ up'[e] /\ up'[o] => Holds(e)' \/ Holds(o)'
    BY <1>1 DEF TurnInv
  <1> HIDE DEF o
  <1>5. CASE Idles(e)
    BY <1>1, <1>2, <1>4, <1>5 DEF Idles, Hands, TurnOf, Holds, o
  <1>6. CASE Asks(e)
    BY <1>1, <1>2, <1>4, <1>6 DEF Asks, Hands, TurnOf, Holds, Has, o
  <1>7. CASE Gives(e)
    BY <1>1, <1>2, <1>3, <1>4, <1>7 DEF Gives, Hands, TurnOf, Holds, o
  <1>8. CASE Takes(e)
    BY <1>1, <1>2, <1>4, <1>8 DEF Takes, Hands, TurnOf, Holds, Has, o
  <1>9. CASE Acknowledged(e)
    BY <1>1, <1>2, <1>4, <1>9 DEF Acknowledged, Hands, TurnOf, Holds, o
  <1>10. CASE Leaves(e)
    BY <1>1, <1>2, <1>4, <1>10 DEF Leaves, Hands, TurnOf, Holds, o
  <1> QED
    BY <1>5, <1>6, <1>7, <1>8, <1>9, <1>10 DEF TurnStep

\* The queues after a step of e that takes what comes first or nothing, and
\* sends at most one indication.
LEMMA QueueEffect ==
    ASSUME RoTypeOK, NEW e \in End, NEW taken \in BOOLEAN, NEW sent,
           Queue(e, taken, sent)
    PROVE  /\ ind'[e] = IF taken THEN Tail(ind[e]) ELSE ind[e]
           /\ ind'[Other(e)] = ind[Other(e)] \/ ind'[Other(e)] = ind[Other(e)] \o sent
           /\ sent = << >> => ind'[Other(e)] = ind[Other(e)]
  <1>1. Other(e) \in End /\ Other(e) # e /\ ind[Other(e)] \in Seq(Indication)
        /\ ind \in [End -> Seq(Indication)]
    BY TwoEnds DEF RoTypeOK
  <1>2. ind[Other(e)] \o << >> = ind[Other(e)]
    BY <1>1
  <1> QED
    BY <1>1, <1>2 DEF Queue

\* The part of TurnStep that is about the queues.
Moves(e, what) ==
    /\ InOrder(ind'[e]) /\ InOrder(ind'[Other(e)])
    /\ \A y : Coming(e, y)' => Coming(e, y)
    /\ Hands(e, what)

LEMMA SameMoves ==
    ASSUME TurnInv, NEW e \in End, UNCHANGED ind
    PROVE  \A what : Moves(e, what)
  BY TwoEnds DEF TurnInv, TurnOf, Moves, Hands, Coming

LEMMA TakenMoves ==
    ASSUME RoTypeOK, TurnInv, NEW e \in End, NEW taken \in BOOLEAN,
           taken => ind[e] # << >>, Queue(e, taken, << >>)
    PROVE  \A what : Moves(e, what)
  <1>1. /\ ind[e] \in Seq(Indication) /\ InOrder(ind[e])
        /\ Other(e) \in End /\ InOrder(ind[Other(e)])
    BY TwoEnds DEF RoTypeOK, TurnInv, TurnOf
  <1>2. /\ ind'[e] = IF taken THEN Tail(ind[e]) ELSE ind[e]
        /\ ind'[Other(e)] = ind[Other(e)]
    BY QueueEffect
  <1> QED
    BY <1>1, <1>2, TailOrder DEF Moves, Hands, Coming

LEMMA SentMoves ==
    ASSUME RoTypeOK, TurnInv, NEW e \in End, NEW taken \in BOOLEAN,
           taken => ind[e] # << >>, NEW x \in Indication, Queue(e, taken, <<x>>),
           x \in {"GIVE", "GTA"} => ~Coming(Other(e), "GIVE"),
           x = "PLEASE" => ~Coming(Other(e), "GTA")
    PROVE  Moves(e, {x})
  <1> DEFINE o == Other(e)
  <1>1. /\ ind[e] \in Seq(Indication) /\ InOrder(ind[e])
        /\ ind[o] \in Seq(Indication) /\ InOrder(ind[o])
    BY TwoEnds DEF RoTypeOK, TurnInv, TurnOf
  <1>2. /\ ind'[e] = IF taken THEN Tail(ind[e]) ELSE ind[e]
        /\ ind'[o] = ind[o] \/ ind'[o] = ind[o] \o <<x>>
    BY QueueEffect
  <1>3. InOrder(ind'[e]) /\ \A y : Comes(ind'[e], y) => Comes(ind[e], y)
    BY <1>1, <1>2, TailOrder
  <1>4. InOrder(ind'[o]) /\ \A y : Comes(ind'[o], y) => Comes(ind[o], y) \/ y = x
    BY <1>1, <1>2, AppendOrder DEF Coming
  <1> QED
    BY <1>3, <1>4 DEF Moves, Hands, Coming

LEMMA FlagEffect ==
    ASSUME RoTypeOK, NEW e \in End
    PROVE  /\ \A F : acb' = [acb EXCEPT ![e].acb_flags = F] =>
                       /\ \A x : Has(e, x)' <=> x \in F
                       /\ acb'[Other(e)] = acb[Other(e)]
           /\ \A q : acb' = [acb EXCEPT ![e].acb_apdu = q] =>
                       /\ \A x : Has(e, x)' <=> Has(e, x)
                       /\ acb'[Other(e)] = acb[Other(e)]
           /\ UNCHANGED acb => /\ \A x : Has(e, x)' <=> Has(e, x)
                               /\ acb'[Other(e)] = acb[Other(e)]
  <1>1. acb \in [End -> assocblk] /\ acb[e] \in assocblk
    BY DEF RoTypeOK
  <1>2. Other(e) \in End /\ Other(e) # e
    BY TwoEnds
  <1>3. ASSUME NEW F, acb' = [acb EXCEPT ![e].acb_flags = F]
        PROVE  acb'[e].acb_flags = F /\ acb'[Other(e)] = acb[Other(e)]
    BY <1>1, <1>2, <1>3 DEF assocblk
  <1>4. ASSUME NEW q, acb' = [acb EXCEPT ![e].acb_apdu = q]
        PROVE  acb'[e].acb_flags = acb[e].acb_flags /\ acb'[Other(e)] = acb[Other(e)]
    BY <1>1, <1>2, <1>4 DEF assocblk
  <1> QED
    BY <1>3, <1>4 DEF Has

\* One flag set or cleared.
LEMMA FlagSteps ==
    ASSUME RoTypeOK, NEW e \in End, NEW x
    PROVE  /\ acb' = [acb EXCEPT ![e].acb_flags = acb[e].acb_flags \cup {x}] =>
                \A y : Has(e, y)' <=> Has(e, y) \/ y = x
           /\ acb' = [acb EXCEPT ![e].acb_flags = acb[e].acb_flags \ {x}] =>
                \A y : Has(e, y)' <=> Has(e, y) /\ y # x
  <1> DEFINE F == acb[e].acb_flags \cup {x}
             G == acb[e].acb_flags \ {x}
  <1>1. \A y : y \in F <=> Has(e, y) \/ y = x
    BY DEF Has
  <1>2. \A y : y \in G <=> Has(e, y) /\ y # x
    BY DEF Has
  <1> HIDE DEF F, G
  <1>3. acb' = [acb EXCEPT ![e].acb_flags = F] => \A y : Has(e, y)' <=> Has(e, y) \/ y = x
    BY <1>1, FlagEffect
  <1>4. acb' = [acb EXCEPT ![e].acb_flags = G] => \A y : Has(e, y)' <=> Has(e, y) /\ y # x
    BY <1>2, FlagEffect
  <1> QED
    BY <1>3, <1>4 DEF F, G

LEMMA LeavesTurn ==
    ASSUME RoInv, TurnInv, NEW e \in End, freeacblk(e), thread'[e].call = "user",
           thread'[Other(e)] = thread[Other(e)]
    PROVE  TurnStep(e)
  <1> DEFINE o == Other(e)
  <1>1. /\ o \in End /\ o # e /\ RoTypeOK /\ InOrder(ind[o])
    BY TwoEnds DEF RoInv, TurnInv, TurnOf
  <1>2. /\ ind'[e] = << >> /\ ind'[o] = ind[o] /\ acb'[o] = acb[o]
        /\ turn' = turn \ {e} /\ ~up'[e] /\ up'[o] = up[o]
    BY <1>1 DEF freeacblk, R!Gone, RoTypeOK
  <1>3. InOrder(<< >>) /\ \A y : ~Comes(<< >>, y)
    BY DEF InOrder, Comes
  <1> QED
    BY <1>1, <1>2, <1>3 DEF TurnStep, Leaves, Hands, Coming, At

\* Steps that leave the turn where it is and send nothing, or an APDU or a
\* release.
LEMMA IdlesTurn ==
    ASSUME RoInv, TurnInv, NEW e \in End, Moves(e, {"TRANSFER", "CLOSE"}),
           UNCHANGED <<turn, up>>, acb'[Other(e)] = acb[Other(e)],
           Has(e, "SB_GTC")' <=> Has(e, "SB_GTC"),
           Has(e, "ACB_PLEASE")' => Has(e, "ACB_PLEASE") \/ e \in turn,
           thread'[Other(e)] = thread[Other(e)],
           thread'[e].call \in {"ready", "send"} => thread'[e].call = thread[e].call,
           thread'[e].call = "transfer" => e \in turn
    PROVE  TurnStep(e)
  <1>1. TurnOf(e)
    BY DEF TurnInv
  <1>2. At(e, "ready")' => ~Holds(e)'
    BY <1>1 DEF TurnOf, Holds, At
  <1>3. At(e, "send")' \/ At(e, "transfer")' => e \in turn'
    BY <1>1 DEF TurnOf, At
  <1> QED
    BY <1>2, <1>3 DEF TurnStep, Moves, Idles

LEMMA TransferMoves ==
    ASSUME RoInv, TurnInv, NEW e \in End, NEW p, ro2rtswrite(e, p)
    PROVE  Moves(e, {"TRANSFER", "CLOSE"}) /\ UNCHANGED <<turn, up>>
  <1>1. "TRANSFER" \in Indication
    BY DEF Indication
  <1>2. Moves(e, {"TRANSFER"})
    BY <1>1, SentMoves DEF ro2rtswrite, RoInv
  <1> QED
    BY <1>2 DEF Moves, Hands, ro2rtswrite, R!Request

LEMMA SendsTurn ==
    ASSUME RoInv, TurnInv, NEW e \in End, NEW p, NEW w, up[e], UNCHANGED acb,
           RoSends(e, p, w)
    PROVE  TurnStep(e)
  <1>1. /\ RoTypeOK /\ Other(e) \in End /\ Other(e) # e /\ Other(Other(e)) = e
        /\ thread \in [End -> Thread]
    BY TwoEnds DEF RoInv, RoTypeOK
  <1>2. thread'[Other(e)] = thread[Other(e)]
    BY <1>1, ThreadOthers
  <1>3. CASE e \in turn /\ ro2rtswrite(e, p) /\ thread'[e].call = "transfer"
    BY <1>1, <1>2, <1>3, TransferMoves, FlagEffect, IdlesTurn
  <1>4. CASE /\ ~Holds(e) /\ Queue(e, FALSE, <<"PLEASE">>) /\ UNCHANGED service
             /\ thread'[e].call = "ready"
    <2>1. TurnOf(Other(e))
      BY <1>1 DEF TurnInv
    <2>2. ~Coming(Other(e), "GTA")
      BY <1>1, <1>4, <2>1 DEF TurnOf
    <2>3. "PLEASE" \in Indication
      BY DEF Indication
    <2>4. Moves(e, {"PLEASE"})
      BY <1>1, <1>4, <2>2, <2>3, SentMoves
    <2>5. UNCHANGED <<turn, up>> /\ (Holds(e)' <=> Holds(e))
      BY <1>4 DEF service, Holds, Has
    <2> QED
      BY <1>1, <1>2, <1>4, <2>4, <2>5 DEF TurnStep, Moves, Asks, At
  <1>5. \/ e \in turn /\ ro2rtswrite(e, p)
           /\ thread' = [thread EXCEPT ![e] =
                           [call |-> "transfer", wait |-> w, pdu |-> <<p>>]]
        \/ /\ ~Holds(e) /\ Queue(e, FALSE, <<"PLEASE">>) /\ UNCHANGED service
           /\ thread' = [thread EXCEPT ![e] =
                           [call |-> "ready", wait |-> w, pdu |-> <<p>>]]
    BY DEF RoSends, Unacknowledged, Holds
  <1>6. ASSUME NEW c, thread' = [thread EXCEPT ![e] = [call |-> c, wait |-> w, pdu |-> <<p>>]]
        PROVE  thread'[e].call = c
    BY <1>1, <1>6
  <1> QED
    BY <1>3, <1>4, <1>5, <1>6

LEMMA TakesTurn ==
    ASSUME RoInv, TurnInv, NEW e \in End, ReadyTurn(e) \/ WaitTurn(e)
    PROVE  TurnStep(e)
  <1>1. /\ RoTypeOK /\ Other(e) \in End /\ TurnOf(e) /\ ind[e] \in Seq(Indication)
    BY TwoEnds DEF RoInv, RoTypeOK, TurnInv
  <1>2. /\ ind[e] # << >> /\ Head(ind[e]) = "GIVE" /\ R!Take(e)
        /\ Queue(e, TRUE, <<"GTA">>) /\ UNCHANGED acb
    BY DEF ReadyTurn, WaitTurn, RtReads, Reads
  <1>3. /\ Coming(e, "GIVE") /\ ~Coming(e, "GTA") /\ ~Comes(Tail(ind[e]), "GIVE")
    BY <1>1, <1>2, TailOrder DEF TurnOf, Coming
  <1>4. ~Coming(Other(e), "GIVE")
    BY <1>1, <1>3 DEF TurnOf
  <1>5. "GTA" \in Indication
    BY DEF Indication
  <1>6. Moves(e, {"GTA"})
    BY <1>1, <1>2, <1>4, <1>5, SentMoves
  <1>7. ~Coming(e, "GIVE")'
    BY <1>1, <1>2, <1>3, QueueEffect DEF Coming
  <1>8. Takes(e)
    BY <1>2, <1>3, <1>6, <1>7 DEF Takes, Moves, R!Take
  <1>9. /\ thread'[Other(e)] = thread[Other(e)]
        /\ thread'[e].call # "ready"
    <2>1. CASE ReadyTurn(e)
      BY <1>1, <2>1, TwoEnds, ThreadAtoms, ThreadOthers DEF ReadyTurn
    <2>2. CASE WaitTurn(e)
      BY <2>2 DEF WaitTurn, RtReads, RtWaits, rosapXsig, At
    <2> QED
      BY <2>1, <2>2
  <1> QED
    BY <1>2, <1>6, <1>8, <1>9 DEF TurnStep, Moves, Takes, At

LEMMA WaitPleaseTurn ==
    ASSUME RoInv, TurnInv, NEW e \in End, WaitPlease(e)
    PROVE  TurnStep(e)
  <1>1. /\ RoTypeOK /\ Other(e) \in End /\ Other(e) # e /\ Other(Other(e)) = e
        /\ TurnOf(e) /\ TurnOf(Other(e))
    BY TwoEnds DEF RoInv, TurnInv
  <1>2. thread[e].call \notin {"ready", "send", "transfer"}
    BY DEF WaitPlease, RtWaits, rosapXsig, At
  <1> DEFINE taken == ~Has(e, "ACB_PLEASE")
  <1>3. taken \in BOOLEAN /\ (taken => ind[e] # << >>)
    BY DEF WaitPlease, Reads
  <1> HIDE DEF taken
  <1>4. CASE /\ R!Give(e) /\ UNCHANGED thread /\ Queue(e, taken, <<"GIVE">>)
             /\ acb' = [acb EXCEPT ![e].acb_flags =
                          (acb[e].acb_flags \ {"ACB_PLEASE"}) \cup {"SB_GTC"}]
    <2>1. e \in turn /\ turn' = {} /\ UNCHANGED up
      BY <1>1, <1>4 DEF R!Give, RoInv, RoTypeOK, R!ServiceInv, R!TurnExclusive, End,
         R!End
    <2>2. ~Coming(Other(e), "GIVE")
      BY <1>1, <2>1 DEF TurnOf
    <2>3. "GIVE" \in Indication
      BY DEF Indication
    <2>4. Moves(e, {"GIVE"})
      BY <1>1, <1>3, <1>4, <2>2, <2>3, SentMoves
    <2> DEFINE F == (acb[e].acb_flags \ {"ACB_PLEASE"}) \cup {"SB_GTC"}
    <2>5. "SB_GTC" \in F
      OBVIOUS
    <2> HIDE DEF F
    <2>6. Has(e, "SB_GTC")' /\ acb'[Other(e)] = acb[Other(e)]
      BY <1>1, <1>4, <2>5, FlagEffect DEF F
    <2> QED
      BY <1>2, <1>4, <2>1, <2>4, <2>6 DEF TurnStep, Moves, Gives, At
  <1>5. CASE /\ Queue(e, taken, << >>) /\ Done(e) /\ UNCHANGED service
             /\ acb' = [acb EXCEPT ![e].acb_flags = acb[e].acb_flags \ {"ACB_PLEASE"}]
    <2>1. Moves(e, {"TRANSFER", "CLOSE"})
      BY <1>1, <1>3, <1>5, TakenMoves
    <2>2. \A x : Has(e, x)' <=> Has(e, x) /\ x # "ACB_PLEASE"
      BY <1>1, <1>5, FlagSteps
    <2>3. thread'[e].call = "user" /\ thread'[Other(e)] = thread[Other(e)]
      BY <1>1, <1>5, ThreadAtoms, ThreadOthers DEF Done
    <2> QED
      BY <1>1, <1>5, <2>1, <2>2, <2>3, FlagEffect, IdlesTurn DEF service
  <1> QED
    BY <1>4, <1>5 DEF WaitPlease, taken

LEMMA ReadGTATurn ==
    ASSUME RoInv, TurnInv, NEW e \in End, ReadGTA(e)
    PROVE  TurnStep(e)
  <1>1. /\ RoTypeOK /\ TurnOf(e) /\ ind[e] \in Seq(Indication)
    BY DEF RoInv, RoTypeOK, TurnInv
  <1>2. /\ ind[e] # << >> /\ Head(ind[e]) = "GTA" /\ ~Has(e, "ACB_PLEASE")
        /\ Queue(e, TRUE, << >>) /\ UNCHANGED <<thread, turn, up>>
        /\ thread[e].call \notin {"ready", "send", "transfer"}
    BY DEF ReadGTA, RtReads, Reads, RtWaits, rosapXsig, At, service
  <1>3. Moves(e, {})
    BY <1>1, <1>2, TakenMoves
  <1>4. Coming(e, "GTA") /\ ~Coming(e, "PLEASE")'
    BY <1>1, <1>2, TailOrder, QueueEffect DEF TurnOf, Coming
  <1>5. /\ \A x : Has(e, x)' <=> Has(e, x) /\ x # "SB_GTC"
        /\ acb'[Other(e)] = acb[Other(e)]
    BY <1>1, FlagEffect, FlagSteps DEF ReadGTA
  <1> QED
    BY <1>2, <1>3, <1>4, <1>5 DEF TurnStep, Moves, Acknowledged, At

\* The other steps that take something.
LEMMA ReadsTurn ==
    ASSUME RoInv, TurnInv, NEW e \in End,
           ReadyData(e) \/ ReadyClose(e) \/ TransferPlease(e) \/ WaitClose(e) \/ WaitData(e)
    PROVE  TurnStep(e)
  <1>1. RoTypeOK /\ TurnOf(e) /\ Other(e) \in End /\ Other(e) # e
    BY TwoEnds DEF RoInv, TurnInv
  <1>2. ind[e] # << >> /\ Queue(e, TRUE, << >>)
    BY DEF ReadyData, ReadyClose, TransferPlease, WaitClose, WaitData, RtReads, Reads
  <1>3. Moves(e, {"TRANSFER", "CLOSE"})
    BY <1>1, <1>2, TakenMoves
  <1>4. UNCHANGED <<turn, up>>
    BY DEF ReadyData, ReadyClose, TransferPlease, WaitClose, WaitData, R!Deliver, service
  <1>5. TransferPlease(e) => e \in turn
    BY <1>1 DEF TransferPlease, TurnOf
  <1>6. /\ Has(e, "SB_GTC")' <=> Has(e, "SB_GTC")
        /\ Has(e, "ACB_PLEASE")' => Has(e, "ACB_PLEASE") \/ e \in turn
        /\ acb'[Other(e)] = acb[Other(e)]
    <2>1. CASE ReadyData(e) \/ WaitData(e)
      BY <1>1, <2>1, FlagEffect DEF ReadyData, WaitData
    <2>2. ASSUME NEW x \in {"ACB_CLOSING", "ACB_PLEASE", "ACB_FINN"},
                 acb' = [acb EXCEPT ![e].acb_flags = acb[e].acb_flags \cup {x}]
          PROVE  /\ \A y : Has(e, y)' <=> Has(e, y) \/ y = x
                 /\ acb'[Other(e)] = acb[Other(e)]
      BY <1>1, <2>2, FlagEffect, FlagSteps
    <2>3. CASE ReadyClose(e)
      BY <2>2, <2>3 DEF ReadyClose
    <2>4. CASE WaitClose(e)
      BY <2>2, <2>4 DEF WaitClose
    <2>5. CASE TransferPlease(e)
      BY <1>5, <2>2, <2>5 DEF TransferPlease
    <2> QED
      BY <2>1, <2>3, <2>4, <2>5
  <1>7. /\ thread'[Other(e)] = thread[Other(e)]
        /\ thread'[e].call \notin {"ready", "send"}
        /\ thread'[e].call = "transfer" => TransferPlease(e)
    <2>1. CASE ReadyData(e) \/ ReadyClose(e)
      BY <1>1, <2>1, ThreadAtoms, ThreadOthers DEF ReadyData, ReadyClose, Waiting
    <2>2. CASE WaitClose(e)
      BY <1>1, <2>2, ThreadAtoms, ThreadOthers DEF WaitClose, Done
    <2>3. CASE TransferPlease(e)
      BY <2>3 DEF TransferPlease, At
    <2>4. CASE WaitData(e)
      <3>1. thread[e].call \notin {"ready", "send", "transfer"}
        BY <2>4 DEF WaitData, RtReads, RtWaits, rosapXsig, At
      <3>2. PICK id : ToUser(e) \/ Rejects(e, id) \/ Onward(e, "serve") \/ Onward(e, "wait")
        BY <1>1, <2>4, DataCases DEF Dispatch, Answer
      <3>3. thread'[Other(e)] = thread[Other(e)]
        BY <1>1, <3>2, ThreadOthers
      <3>4. thread'[e].call \in {"user", "reject", "serve", "wait", thread[e].call}
        BY <1>1, <3>2, ThreadAtoms
      <3> QED
        BY <3>1, <3>3, <3>4
    <2> QED
      BY <2>1, <2>2, <2>3, <2>4
  <1> QED
    BY <1>3, <1>4, <1>5, <1>6, <1>7, IdlesTurn

\* The steps that take nothing and do not ask for the turn.
LEMMA PlainTurn ==
    ASSUME RoInv, TurnInv, NEW e \in End,
           \/ ServeReturns(e) \/ Send(e) \/ Sent(e) \/ WaitKept(e) \/ WaitClosing(e)
           \/ Quit(e) \/ RtEndRequest(e)
    PROVE  TurnStep(e)
  <1>1. RoTypeOK /\ TurnOf(e) /\ Other(e) \in End /\ Other(e) # e
    BY TwoEnds DEF RoInv, TurnInv
  <1>2. Moves(e, {"TRANSFER", "CLOSE"})
    <2>1. CASE RtEndRequest(e)
      <3>1. "CLOSE" \in Indication
        BY DEF Indication
      <3>2. Moves(e, {"CLOSE"})
        BY <1>1, <2>1, <3>1, SentMoves DEF RtEndRequest
      <3> QED
        BY <3>2 DEF Moves, Hands
    <2> QED
      BY <2>1, SameMoves, TransferMoves
      DEF ServeReturns, Send, Sent, WaitKept, WaitClosing, Quit
  <1>3. UNCHANGED <<turn, up>>
    BY TransferMoves DEF ServeReturns, Send, Sent, WaitKept, WaitClosing, Quit, RtEndRequest,
       service, R!Confirm
  <1>4. /\ \A x \in {"SB_GTC", "ACB_PLEASE"} : Has(e, x)' <=> Has(e, x)
        /\ acb'[Other(e)] = acb[Other(e)]
    <2>1. CASE WaitClosing(e)
      <3> DEFINE F == (acb[e].acb_flags \cup {"ACB_FINN"}) \ {"ACB_CLOSING"}
      <3>1. \A x \in {"SB_GTC", "ACB_PLEASE"} : x \in F <=> Has(e, x)
        BY DEF Has
      <3>2. acb' = [acb EXCEPT ![e].acb_flags = F]
        BY <2>1 DEF WaitClosing
      <3> HIDE DEF F
      <3> QED
        BY <1>1, <3>1, <3>2, FlagEffect
    <2> QED
      BY <1>1, <2>1, FlagEffect DEF ServeReturns, Send, Sent, WaitKept, Quit, RtEndRequest
  <1>5. /\ thread'[Other(e)] = thread[Other(e)]
        /\ thread'[e].call \notin {"ready", "send"}
        /\ thread'[e].call = "transfer" => e \in turn
    <2>1. CASE ServeReturns(e) \/ RtEndRequest(e)
      <3>1. PICK c \in {"wait", "release"} : Goes(e, c)
        BY <2>1 DEF ServeReturns, RtEndRequest
      <3> QED
        BY <1>1, <3>1, ThreadAtoms, ThreadOthers
    <2>2. CASE Send(e)
      BY <1>1, <2>2, ThreadAtoms, ThreadOthers DEF Send, TurnOf
    <2>3. CASE WaitKept(e) \/ WaitClosing(e)
      BY <1>1, <2>3, ThreadAtoms, ThreadOthers DEF WaitKept, WaitClosing, Done
    <2>4. CASE Quit(e)
      BY <2>4 DEF Quit, At
    <2>5. CASE Sent(e)
      <3>1. thread \in [End -> Thread] /\ thread[e] \in Thread
        BY <1>1 DEF RoTypeOK
      <3>2. CASE thread' = [thread EXCEPT ![e] = [@ EXCEPT !.call = "first", !.pdu = << >>]]
        BY <1>1, <3>1, <3>2 DEF Thread
      <3> QED
        BY <1>1, <2>5, <3>2, ThreadAtoms, ThreadOthers DEF Sent
    <2> QED
      BY <2>1, <2>2, <2>3, <2>4, <2>5
  <1> QED
    BY <1>2, <1>3, <1>4, <1>5, IdlesTurn

\* The calls of the user, and the end of the association.
LEMMA CallsTurn ==
    ASSUME RoInv, TurnInv, NEW e \in End,
           \/ \E class : RyOpInvoke(e, class)
           \/ \E id \in Id : RyDsResult(e, id)
           \/ RoURejectRequest(e) \/ Loses(e) \/ RtEndFails(e) \/ RtEndResponse(e)
    PROVE  TurnStep(e)
  <1>1. RoTypeOK /\ Other(e) \in End /\ Other(e) # e
    BY TwoEnds DEF RoInv
  <1>2. \/ \E p, w : RoSends(e, p, w) /\ up[e] /\ UNCHANGED acb
        \/ freeacblk(e) /\ ToUser(e)
        \/ RoRefuses(e) /\ At(e, "user") /\ UNCHANGED thread
        \/ freeacblk(e) /\ At(e, "user") /\ UNCHANGED thread
    BY DEF RyOpInvoke, RyDsResult, RoURejectRequest, RoFails, Loses, RtEndFails,
           RtEndResponse, rosapPsig
  <1>3. CASE freeacblk(e) /\ ToUser(e)
    BY <1>1, <1>3, ThreadAtoms, ThreadOthers, LeavesTurn
  <1>4. CASE freeacblk(e) /\ At(e, "user") /\ UNCHANGED thread
    BY <1>1, <1>4, LeavesTurn DEF At
  <1>5. CASE RoRefuses(e) /\ At(e, "user") /\ UNCHANGED thread
    <2>1. UNCHANGED <<ind, acb, turn, up>>
      BY <1>5 DEF RoRefuses, service
    <2> QED
      BY <1>1, <1>5, <2>1, SameMoves, FlagEffect, IdlesTurn DEF At
  <1> QED
    BY <1>2, <1>3, <1>4, <1>5, SendsTurn

LEMMA NextTurn == RoInv /\ TurnInv /\ [Next]_vars => TurnInv'
  <1> SUFFICES ASSUME RoInv, TurnInv, [Next]_vars PROVE TurnInv'
    OBVIOUS
  <1>1. ASSUME NEW e \in End, Requesting(e) \/ Working(e) \/ Breaks(e)
        PROVE  TurnStep(e)
    BY <1>1, TakesTurn, WaitPleaseTurn, ReadGTATurn, ReadsTurn, PlainTurn, CallsTurn
    DEF Requesting, Working, Breaks, Lost
  <1>2. CASE UNCHANGED vars
    BY <1>2 DEF vars, rovars, service, TurnInv, TurnOf, Holds, Has, Coming, At
  <1> QED
    BY <1>1, <1>2, TurnStepKeeps DEF Next

LEMMA InitTurn == Init => TurnInv
  <1> SUFFICES ASSUME Init PROVE TurnInv
    OBVIOUS
  <1>1. \A e \in End : InOrder(ind[e]) /\ \A x : ~Coming(e, x)
    BY DEF Init, InOrder, Coming, Comes
  <1>2. \A e \in End : thread[e].call = "user" /\ acb[e].acb_flags = {}
    BY DEF Init, User
  <1>3. \E e \in End : e \in turn
    BY DEF Init, R!RtInit, End
  <1> QED
    BY <1>1, <1>2, <1>3 DEF TurnInv, TurnOf, Holds, Has, At

\* An end that asks for the turn in ro2rtsready is never asked for it: the
\* requests it was sent came before the acknowledgement it had to read before
\* it could ask, and the other end cannot ask while it has the turn or waits
\* for an acknowledgement itself.
THEOREM NeverAskedWhileAsking == Spec => []ReadyUnasked
  <1>1. RoInv /\ TurnInv => ReadyUnasked
    <2> SUFFICES ASSUME RoInv, TurnInv, NEW e \in End, At(e, "ready")
                 PROVE  ~Has(e, "ACB_PLEASE") /\ ~Coming(e, "PLEASE")
      BY DEF ReadyUnasked, Coming, Comes
    <2>1. up[e]
      BY DEF RoInv, EndInv, Threaded, At
    <2> QED
      BY <2>1 DEF TurnInv, TurnOf
  <1>2. Init => RoInv /\ TurnInv
    BY InitInv, InitTurn
  <1>3. (RoInv /\ TurnInv) /\ [Next]_vars => (RoInv /\ TurnInv)'
    BY NextInv, NextTurn
  <1> QED
    BY <1>1, <1>2, <1>3, PTL DEF Spec
=============================================================================
