-------------------------------- MODULE Rosy --------------------------------
(***************************************************************************)
(* Remote operations over reliable transfer: the run-time library of the   *)
(* stub compiler (rosy/ry*.c), which matches results to invocations, over  *)
(* the remote operations protocol machine (rosap/), which maps an APDU to  *)
(* a transfer and asks for the turn when it does not have it (ro2rts.c).   *)
(* Both ends may invoke.  Each end is the single thread of its user, who   *)
(* has not asked for asynchronous indications.  An invocation that does    *)
(* not wait names functions for its result and its errors (rfx, efx of     *)
(* RyOpInvoke): none is made with out instead, to be collected by a later  *)
(* RyWait, so no block ever holds an answer (OPB_EVENT).                   *)
(*                                                                         *)
(* The reliable transfer service beneath is RtService, which Rtsap         *)
(* implements, with an APDU for the data of a transfer.  What RtService    *)
(* does not mention, the order in which turns, requests for the turn and   *)
(* transfers reach an end, is a queue of indications.  A step makes at     *)
(* most one request of the service or takes one indication from it.        *)
(***************************************************************************)
EXTENDS Naturals, Sequences

CONSTANTS
    Uses,     \* how the two users use the association: see Use
    Losses,   \* may the association be lost at any time
    MaxId     \* bound on the invocations of an end

\* Which ends invoke, and waiting for the result or not.
Use == [invokers : SUBSET {"init", "resp"},
        classes : SUBSET {"ROS_SYNC", "ROS_ASYNC"}]

ASSUME UsesAssumption == Uses \subseteq Use /\ Losses \in BOOLEAN
ASSUME MaxIdAssumption == MaxId \in Nat

VARIABLES
    use,      \* how this association is used
    ind,      \* indications on their way to each end
    acb,      \* struct assocblk of each end
    ops,      \* struct opsblk list of each end
    thread,   \* where the thread of each end's user is
    ids,      \* RyGenID: the last invocation number of each end
    told,     \* what each user was told of each of his invocations
    up, turn, pending, delivered, confirmed     \* see RtService

rovars == <<use, ind, acb, ops, thread, ids, told>>
service == <<up, turn, pending, delivered, confirmed>>
vars == <<rovars, service>>

Id == 1 .. MaxId

\* A result stands for RO-RESULT and RO-ERROR alike.
Apdu == [kind : {"INVOKE", "RESULT", "REJECT"}, id : Id]

R == INSTANCE RtServiceProofs WITH Length <- Apdu

End == R!End
Other(e) == R!Other(e)

-----------------------------------------------------------------------------
(* State.                                                                  *)

\* GTA is the acknowledgement of a turn given.
Indication == {"PLEASE", "GIVE", "GTA", "TRANSFER", "CLOSE"}

\* ACB_CONN is up[e], ACB_TURN is e \in turn, ACB_INIT is e = "init".
\* SB_GTC is a flag of the session beneath: a turn was given and its
\* acknowledgement has not been read.
assocblk == [acb_flags : SUBSET {"ACB_PLEASE", "ACB_FINN", "ACB_CLOSING",
                                 "SB_GTC"},
             acb_apdu : {<< >>} \cup {<<p>> : p \in Apdu}]

opsblk == [opb_id : Id, opb_flags : {"OPB_INITIATOR", "OPB_RESPONDER"}]

\* user: the user's own code or RyWait; first: the wait of RoInvokeRequest;
\* wait: the one of RyWaitAux, for the invocation "wait"; serve: a
\* dispatched function called from there; reject: about to call
\* RoURejectRequest; ready: ro2rtsready; send: ro2rtswrite; transfer:
\* RtTransferRequest; release: RtEndRequest.
Call == {"user", "first", "wait", "serve", "reject", "ready", "send",
         "transfer", "release"}

Thread == [call : Call, wait : {0} \cup Id,
           pdu : {<< >>} \cup {<<p>> : p \in Apdu}]

\* refused: not invoked; released: RY_REJECT with ROS_IP_RELEASE, or DONE;
\* rejected: RO-U-REJECT; lost: the association went.
Told == {"nothing", "result", "refused", "rejected", "released", "lost"}

User == [call |-> "user", wait |-> 0, pdu |-> << >>]

Init ==
    /\ R!RtInit
    /\ use \in Uses
    /\ ind = [e \in End |-> << >>]
    /\ acb = [e \in End |-> [acb_flags |-> {}, acb_apdu |-> << >>]]
    /\ ops = [e \in End |-> {}]
    /\ thread = [e \in End |-> User]
    /\ ids = [e \in End |-> 0]
    /\ told = [e \in End |-> [i \in Id |-> "nothing"]]

Has(e, flag) == flag \in acb[e].acb_flags

At(e, call) == thread[e].call = call

\* What the call in progress is to send.
Pdu(e) == thread[e].pdu[1]

\* Indications are read in order; i is taken from the queue of e, and f is
\* sent to the other end if that is still there.
Reads(e, i) == ind[e] # << >> /\ Head(ind[e]) = i

Queue(e, taken, sent) ==
    ind' = [ind EXCEPT ![e] = IF taken THEN Tail(@) ELSE @,
                       ![Other(e)] = IF up[Other(e)] THEN @ \o sent ELSE @]

-----------------------------------------------------------------------------
(* Operation blocks.                                                       *)

Block(id, role) == [opb_id |-> id, opb_flags |-> role]

findopblk(e, id, role) == Block(id, role) \in ops[e]

newopblk(e, id, role) == ops' = [ops EXCEPT ![e] = @ \cup {Block(id, role)}]

freeopblk(e, id, role) == ops' = [ops EXCEPT ![e] = @ \ {Block(id, role)}]

\* The user learns what becomes of some of his invocations.
Tell(e, what, which) ==
    told' = [told EXCEPT ![e] = [i \in Id |-> IF i \in which THEN what ELSE @[i]]]

\* Mutant of loseopblk: what was answered already is reported as well.
loseopblkAll(e, what) ==
    /\ ops' = [ops EXCEPT ![e] = {}]
    /\ Tell(e, what, 1 .. ids[e])

\* Every block of the association goes; the invocations among them are told,
\* by their errfnx or, in the call that waits for one, by its return.
loseopblk(e, what) ==
    /\ ops' = [ops EXCEPT ![e] = {}]
    /\ Tell(e, what, {i \in Id : findopblk(e, i, "OPB_INITIATOR")})

KeepBlocks == UNCHANGED <<ops, told>>

-----------------------------------------------------------------------------
(* How calls return.                                                       *)

Goes(e, call) == thread' = [thread EXCEPT ![e].call = call]

\* Back to where a call that sends was made from.
Back(e) ==
    thread' = [thread EXCEPT ![e] =
                 [@ EXCEPT !.call = IF thread[e].wait = 0 THEN "user" ELSE "wait",
                           !.pdu = << >>]]

ToUser(e) == thread' = [thread EXCEPT ![e] = User]

\* Mutant of Unsent: RyOpInvoke leaves its block behind.
UnsentKeeps(e, what) ==
    IF Pdu(e).kind = "INVOKE"
    THEN Tell(e, what, {Pdu(e).id}) /\ UNCHANGED ops
    ELSE KeepBlocks

\* RyOpInvoke frees its block when RoInvokeRequest fails; RyDsResult keeps
\* its own, and nobody looks at what RoURejectRequest returns.
Unsent(e, what) ==
    IF Pdu(e).kind = "INVOKE"
    THEN /\ freeopblk(e, Pdu(e).id, "OPB_INITIATOR")
         /\ Tell(e, what, {Pdu(e).id})
    ELSE KeepBlocks

\* ROS_WAITING
Waiting(e) ==
    /\ Unsent(e, "refused")
    /\ IF Pdu(e).kind = "INVOKE" THEN ToUser(e) ELSE Back(e)

\* What RyWait and RyWaitAux make of DONE, and RyOpInvoke of the DONE of
\* RoInvokeRequest.
Done(e) ==
    /\ IF At(e, "first")
       THEN /\ freeopblk(e, thread[e].wait, "OPB_INITIATOR")
            /\ Tell(e, "released", {thread[e].wait})
       ELSE loseopblk(e, "released")
    /\ ToUser(e)

\* freeacblk() of the RTPM has cleared ACB_STICKY, the one of the ROPM frees.
\* No descriptor is left with which the user could make another request.
freeacblk(e) ==
    /\ R!Gone(e)
    /\ acb' = [acb EXCEPT ![e] = [acb_flags |-> {}, acb_apdu |-> << >>]]
    /\ ind' = [ind EXCEPT ![e] = << >>]

-----------------------------------------------------------------------------
(* Sending an APDU.                                                        *)

rosapPsig(e) == up[e] /\ ~Has(e, "ACB_CLOSING") /\ ~Has(e, "ACB_FINN")

\* Mutant of Unacknowledged: the session grants every request for the turn.
UnacknowledgedIgnored(e) == FALSE

\* The session refuses to ask for a token while it waits for the GTA, also
\* when the other end has gone and will not send one.
Unacknowledged(e) == Has(e, "SB_GTC")

\* ro2rtswrite: RtTransferRequest; only the end with the turn gets here.
ro2rtswrite(e, p) ==
    /\ R!Request(e) /\ pending'[e] = <<p>>
    /\ Queue(e, FALSE, <<"TRANSFER">>)

\* What RoInvokeRequestAux, RoResultRequestAux and RoURejectRequestAux have
\* in common, up to the first request of the service.
RoSends(e, p, wait) ==
    \/ /\ e \in turn
       /\ ro2rtswrite(e, p)
       /\ thread' = [thread EXCEPT ![e] =
                       [call |-> "transfer", wait |-> wait, pdu |-> <<p>>]]
    \/ /\ e \notin turn /\ acb[e].acb_apdu = << >> /\ ~Unacknowledged(e)
       /\ Queue(e, FALSE, <<"PLEASE">>)
       /\ thread' = [thread EXCEPT ![e] =
                       [call |-> "ready", wait |-> wait, pdu |-> <<p>>]]
       /\ UNCHANGED service

\* An APDU was kept that RoWaitRequest has not handed over: ROS_WAITING.
RoRefuses(e) ==
    /\ e \notin turn /\ acb[e].acb_apdu # << >>
    /\ UNCHANGED <<ind, acb, service>>

\* RtPTurnRequest is refused by the session: the association is lost.
RoFails(e) ==
    /\ e \notin turn /\ acb[e].acb_apdu = << >> /\ Unacknowledged(e)
    /\ freeacblk(e)
    /\ ToUser(e)

\* RyOpInvoke.  Bound: MaxId.
RyOpInvoke(e, class) ==
    /\ At(e, "user") /\ rosapPsig(e)
    /\ e \in use.invokers /\ class \in use.classes /\ ids[e] < MaxId
    /\ LET id == ids[e] + 1
           p == [kind |-> "INVOKE", id |-> id] IN
       /\ ids' = [ids EXCEPT ![e] = id]
       /\ \/ /\ RoSends(e, p, IF class = "ROS_SYNC" THEN id ELSE 0)
             /\ newopblk(e, id, "OPB_INITIATOR")
             /\ UNCHANGED <<acb, told>>
          \/ RoFails(e) /\ Tell(e, "lost", {id}) /\ UNCHANGED ops
          \/ RoRefuses(e) /\ Tell(e, "refused", {id}) /\ UNCHANGED <<ops, thread>>
    /\ UNCHANGED use

\* RyDsResult and RyDsError, by the user or by a dispatched function.  When
\* they are refused nothing has changed.
RyDsResult(e, id) ==
    /\ At(e, "user") \/ At(e, "serve")
    /\ rosapPsig(e) /\ findopblk(e, id, "OPB_RESPONDER")
    /\ \/ /\ RoSends(e, [kind |-> "RESULT", id |-> id], thread[e].wait)
          /\ UNCHANGED acb
       \/ RoFails(e)
    /\ KeepBlocks /\ UNCHANGED <<use, ids>>

\* The dispatched function leaves the answer for later.
ServeReturns(e) ==
    /\ At(e, "serve")
    /\ Goes(e, "wait")
    /\ UNCHANGED <<use, ind, acb, ops, ids, told, service>>

\* RoURejectRequest.  What is rejected has just been read, so the turn is at
\* the other end, who has acknowledged it, and nothing was kept or closed.
RoURejectRequest(e) ==
    /\ At(e, "reject") /\ rosapPsig(e)
    /\ RoSends(e, Pdu(e), thread[e].wait)
    /\ KeepBlocks /\ UNCHANGED <<use, acb, ids>>

-----------------------------------------------------------------------------
(* ro2rtsready: RtPTurnRequest was called, RtWaitRequest is.  A request    *)
(* for the turn by the other end never comes here, see ReadyUnasked.       *)

\* Mutant of ReadyTurn: the APDU is freed while the turn is asked for.
ReadyTurnFrees(e) ==
    /\ At(e, "ready") /\ Reads(e, "GIVE")
    /\ R!Take(e)
    /\ Queue(e, TRUE, <<"GTA">>)
    /\ thread' = [thread EXCEPT ![e] = [@ EXCEPT !.call = "send", !.pdu = << >>]]
    /\ KeepBlocks /\ UNCHANGED <<use, acb, ids>>

\* The turn comes.
ReadyTurn(e) ==
    /\ At(e, "ready") /\ Reads(e, "GIVE")
    /\ R!Take(e)
    /\ Queue(e, TRUE, <<"GTA">>)
    /\ Goes(e, "send")
    /\ KeepBlocks /\ UNCHANGED <<use, acb, ids>>

\* An APDU comes first: it is kept, and the one to be sent is not.
ReadyData(e) ==
    /\ At(e, "ready") /\ Reads(e, "TRANSFER")
    /\ R!Deliver(Other(e))
    /\ acb' = [acb EXCEPT ![e].acb_apdu = pending[Other(e)]]
    /\ Queue(e, TRUE, << >>)
    /\ Waiting(e)
    /\ UNCHANGED <<use, ids>>

\* The indication is kept back until RoWaitRequest asks for it.
ReadyClose(e) ==
    /\ At(e, "ready") /\ Reads(e, "CLOSE")
    /\ acb' = [acb EXCEPT ![e].acb_flags = @ \cup {"ACB_CLOSING"}]
    /\ Queue(e, TRUE, << >>)
    /\ Waiting(e)
    /\ UNCHANGED <<use, ids, service>>

\* putosdu, once the turn has come.
Send(e) ==
    /\ At(e, "send")
    /\ ro2rtswrite(e, Pdu(e))
    /\ Goes(e, "transfer")
    /\ KeepBlocks /\ UNCHANGED <<use, acb, ids>>

\* Mutant of TransferPlease: the request is forgotten.
TransferPleaseLost(e) ==
    /\ At(e, "transfer") /\ Reads(e, "PLEASE")
    /\ Queue(e, TRUE, << >>)
    /\ KeepBlocks /\ UNCHANGED <<use, acb, thread, ids, service>>

\* Mutant of TransferPlease: it ends the call, as ROS_WAITING.
TransferPleaseReturns(e) ==
    /\ At(e, "transfer") /\ Reads(e, "PLEASE")
    /\ acb' = [acb EXCEPT ![e].acb_flags = @ \cup {"ACB_PLEASE"}]
    /\ Queue(e, TRUE, << >>)
    /\ Waiting(e)
    /\ UNCHANGED <<use, ids, service>>

\* RtTransferRequest reads while it waits, and notes a request for the turn.
TransferPlease(e) ==
    /\ At(e, "transfer") /\ Reads(e, "PLEASE")
    /\ acb' = [acb EXCEPT ![e].acb_flags = @ \cup {"ACB_PLEASE"}]
    /\ Queue(e, TRUE, << >>)
    /\ KeepBlocks /\ UNCHANGED <<use, thread, ids, service>>

\* Mutant of Sent: RyDsResult keeps the block of what it has answered.
SentKeeps(e) ==
    /\ At(e, "transfer") /\ R!Confirm(e)
    /\ KeepBlocks
    /\ IF Pdu(e).kind = "INVOKE" /\ thread[e].wait # 0
       THEN thread' = [thread EXCEPT ![e] = [@ EXCEPT !.call = "first", !.pdu = << >>]]
       ELSE Back(e)
    /\ UNCHANGED <<use, ind, acb, ids>>

\* RtTransferRequest returns OK.  RyDsResult frees its block; a synchronous
\* RoInvokeRequest goes on to wait.
Sent(e) ==
    /\ At(e, "transfer") /\ R!Confirm(e)
    /\ IF Pdu(e).kind = "RESULT"
       THEN freeopblk(e, Pdu(e).id, "OPB_RESPONDER") /\ UNCHANGED told
       ELSE KeepBlocks
    /\ IF Pdu(e).kind = "INVOKE" /\ thread[e].wait # 0
       THEN thread' = [thread EXCEPT ![e] = [@ EXCEPT !.call = "first", !.pdu = << >>]]
       ELSE Back(e)
    /\ UNCHANGED <<use, ind, acb, ids>>

-----------------------------------------------------------------------------
(* ro2rtswait, called by RyWait, RyWaitAux and RoInvokeRequest.            *)

rosapXsig(e) ==
    /\ At(e, "first") \/ At(e, "wait") \/ At(e, "user")
    /\ up[e] /\ ~Has(e, "ACB_FINN")

\* RtWaitRequest is called: nothing was kept back by ro2rtsready.
RtWaits(e) == /\ rosapXsig(e) /\ acb[e].acb_apdu = << >>
              /\ ~Has(e, "ACB_CLOSING")

\* The APDU that ro2rtsready kept is handed over, with DONE.
WaitKept(e) ==
    /\ rosapXsig(e) /\ acb[e].acb_apdu # << >>
    /\ acb' = [acb EXCEPT ![e].acb_apdu = << >>]
    /\ Done(e)
    /\ UNCHANGED <<use, ind, ids, service>>

WaitClosing(e) ==
    /\ rosapXsig(e) /\ acb[e].acb_apdu = << >> /\ Has(e, "ACB_CLOSING")
    /\ acb' = [acb EXCEPT ![e].acb_flags = (@ \cup {"ACB_FINN"}) \ {"ACB_CLOSING"}]
    /\ Done(e)
    /\ UNCHANGED <<use, ind, ids, service>>

\* doRTSturn: the request that RtTransferRequest noted comes first.  Without
\* the turn it fails, and ro2rtswait returns the DONE of RtWaitRequest.
WaitPlease(e) ==
    /\ RtWaits(e) /\ (Has(e, "ACB_PLEASE") \/ Reads(e, "PLEASE"))
    /\ \/ /\ R!Give(e)
          /\ acb' = [acb EXCEPT ![e].acb_flags = (@ \ {"ACB_PLEASE"}) \cup {"SB_GTC"}]
          /\ Queue(e, ~Has(e, "ACB_PLEASE"), <<"GIVE">>)
          /\ KeepBlocks /\ UNCHANGED thread
       \/ /\ e \notin turn
          /\ acb' = [acb EXCEPT ![e].acb_flags = @ \ {"ACB_PLEASE"}]
          /\ Queue(e, ~Has(e, "ACB_PLEASE"), << >>)
          /\ Done(e) /\ UNCHANGED service
    /\ UNCHANGED <<use, ids>>

RtReads(e, i) == RtWaits(e) /\ ~Has(e, "ACB_PLEASE") /\ Reads(e, i)

WaitTurn(e) ==
    /\ RtReads(e, "GIVE")
    /\ R!Take(e)
    /\ Queue(e, TRUE, <<"GTA">>)
    /\ KeepBlocks /\ UNCHANGED <<use, acb, thread, ids>>

\* The session reads the acknowledgement.  It may not ask for the turn, and
\* so does not get it to transfer or release, until it has.
ReadGTA(e) ==
    /\ RtReads(e, "GTA")
    /\ acb' = [acb EXCEPT ![e].acb_flags = @ \ {"SB_GTC"}]
    /\ Queue(e, TRUE, << >>)
    /\ KeepBlocks /\ UNCHANGED <<use, thread, ids, service>>

\* doRTSclose
WaitClose(e) ==
    /\ RtReads(e, "CLOSE")
    /\ acb' = [acb EXCEPT ![e].acb_flags = @ \cup {"ACB_FINN"}]
    /\ Queue(e, TRUE, << >>)
    /\ Done(e)
    /\ UNCHANGED <<use, ids, service>>

\* Where the loop of RyWaitAux goes on.
Onward(e, call) ==
    IF thread[e].wait = 0 THEN UNCHANGED thread ELSE Goes(e, call)

\* RoURejectRequest is called next.
Rejects(e, id) ==
    thread' = [thread EXCEPT ![e] =
                 [@ EXCEPT !.call = "reject",
                           !.pdu = <<[kind |-> "REJECT", id |-> id]>>]]

\* RyWaitAux, ROI_INVOKE
Dispatch(e, id) ==
    IF findopblk(e, id, "OPB_RESPONDER") THEN KeepBlocks /\ Rejects(e, id)
    ELSE newopblk(e, id, "OPB_RESPONDER") /\ UNCHANGED told /\ Onward(e, "serve")

\* RyWaitAux, ROI_RESULT, ROI_ERROR and ROI_UREJECT.  The answer goes to the
\* resfnx or errfnx of the invocation, or to the call that waits for it.
Answer(e, id, what) ==
    IF findopblk(e, id, "OPB_INITIATOR")
    THEN /\ freeopblk(e, id, "OPB_INITIATOR")
         /\ Tell(e, what, {id})
         /\ IF thread[e].wait = id THEN ToUser(e) ELSE Onward(e, "wait")
    ELSE /\ KeepBlocks
         /\ IF what = "result" THEN Rejects(e, id) ELSE Onward(e, "wait")

WaitData(e) ==
    /\ RtReads(e, "TRANSFER")
    /\ R!Deliver(Other(e))
    /\ Queue(e, TRUE, << >>)
    /\ LET p == pending[Other(e)][1] IN
         CASE p.kind = "INVOKE" -> Dispatch(e, p.id)
           [] p.kind = "RESULT" -> Answer(e, p.id, "result")
           [] p.kind = "REJECT" -> Answer(e, p.id, "rejected")
    /\ UNCHANGED <<use, acb, ids>>

-----------------------------------------------------------------------------
(* Loss and release of the association.                                    *)

\* The call of the service that e is in fails, and its thread returns.
Loses(e) ==
    /\ \/ RtWaits(e) /\ (IF At(e, "first")
                         THEN /\ freeopblk(e, thread[e].wait, "OPB_INITIATOR")
                              /\ Tell(e, "lost", {thread[e].wait})
                         ELSE loseopblk(e, "lost"))
       \/ (At(e, "ready") \/ At(e, "send") \/ At(e, "transfer")) /\ Unsent(e, "lost")
       \/ At(e, "release") /\ KeepBlocks
    /\ freeacblk(e)
    /\ ToUser(e)
    /\ UNCHANGED <<use, ids>>

\* The other end has left the association.
Lost(e) == ~up[Other(e)] /\ Loses(e)

\* The session or the network beneath fails.
Breaks(e) == Losses /\ up[Other(e)] /\ Loses(e)

\* Mutant of Quit: RyLose is not called.
QuitWithoutRyLose(e) ==
    /\ At(e, "user") /\ ~up[e] /\ ops[e] # {}
    /\ KeepBlocks
    /\ UNCHANGED <<use, ind, acb, thread, ids, service>>

\* A user who was told that the association is gone calls RyLose.
Quit(e) ==
    /\ At(e, "user") /\ ~up[e] /\ ops[e] # {}
    /\ loseopblk(e, "lost")
    /\ UNCHANGED <<use, ind, acb, thread, ids, service>>

\* RtEndRequest is the initiator's, who must have the turn.
RtEndRequest(e) ==
    /\ e = "init" /\ At(e, "user") /\ rosapPsig(e)
    /\ e \in turn /\ ~Has(e, "ACB_PLEASE")
    /\ Queue(e, FALSE, <<"CLOSE">>)
    /\ Goes(e, "release")
    /\ KeepBlocks /\ UNCHANGED <<use, acb, ids, service>>

\* A request for the turn that crosses the release aborts it.
RtEndFails(e) ==
    /\ At(e, "release") /\ Reads(e, "PLEASE")
    /\ freeacblk(e)
    /\ ToUser(e)
    /\ KeepBlocks /\ UNCHANGED <<use, ids>>

RtEndResponse(e) ==
    /\ At(e, "user") /\ up[e] /\ Has(e, "ACB_FINN")
    /\ freeacblk(e)
    /\ KeepBlocks /\ UNCHANGED <<use, thread, ids>>

-----------------------------------------------------------------------------
(* Next-state relation, by who takes the step.                             *)

\* The user of e asks for something.
Requesting(e) ==
    \/ \E class \in {"ROS_SYNC", "ROS_ASYNC"} : RyOpInvoke(e, class)
    \/ RtEndRequest(e)

\* A thread inside the library, or a user who waits for and answers
\* invocations.
Working(e) ==
    \/ \E id \in Id : RyDsResult(e, id)
    \/ ServeReturns(e) \/ RoURejectRequest(e)
    \/ ReadyTurn(e) \/ ReadyData(e) \/ ReadyClose(e)
    \/ Send(e) \/ TransferPlease(e) \/ Sent(e)
    \/ WaitKept(e) \/ WaitClosing(e) \/ WaitPlease(e) \/ WaitTurn(e)
    \/ ReadGTA(e) \/ WaitClose(e) \/ WaitData(e)
    \/ Lost(e) \/ Quit(e) \/ RtEndFails(e) \/ RtEndResponse(e)

Next == \E e \in End : Requesting(e) \/ Working(e) \/ Breaks(e)

Spec == Init /\ [][Next]_vars

\* A thread inside the library goes on, a user waits for indications when he
\* has nothing else to do and answers the invocations he has accepted.
FairSpec == Spec /\ \A e \in End : WF_vars(Working(e))
=============================================================================
