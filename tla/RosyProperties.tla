--------------------------- MODULE RosyProperties ---------------------------
(***************************************************************************)
(* What remote operations promise the two users of Rosy: an invocation is  *)
(* performed at most once, its invoker learns its fate once, and what he   *)
(* learns is true.                                                         *)
(***************************************************************************)
EXTENDS Rosy

-----------------------------------------------------------------------------
(* Types.                                                                  *)

\* Every block, queue and thread stays in its range, and a call that sends
\* has something to send.
RoTypeOK ==
    /\ use \in Uses
    /\ ind \in [End -> Seq(Indication)]
    /\ acb \in [End -> assocblk]
    /\ ops \in [End -> SUBSET opsblk]
    /\ thread \in [End -> Thread]
    /\ \A e \in End : thread[e].call \in {"reject", "ready", "send", "transfer"}
                        => thread[e].pdu # << >>
    /\ ids \in [End -> 0 .. MaxId]
    /\ told \in [End -> [Id -> Told]]
    /\ up \in [End -> BOOLEAN]
    /\ turn \in SUBSET End
    /\ pending \in [End -> {<< >>} \cup {<<p>> : p \in Apdu}]
    /\ delivered \in [End -> Seq(Apdu)]
    /\ confirmed \in [End -> Seq(Apdu)]

-----------------------------------------------------------------------------
(* Safety.                                                                 *)

INVOKE(id) == [kind |-> "INVOKE", id |-> id]
RESULT(id) == [kind |-> "RESULT", id |-> id]

\* Has p been handed to the ROPM of e?
Got(e, p) == \E i \in DOMAIN delivered[e] : delivered[e][i] = p

\* At most once: no invocation and no result reaches an end twice, although
\* a call that was refused because an APDU came first (ROS_WAITING) may be
\* made again and the operation block of an answer outlives the attempts.
OncePerInvocation ==
    \A e \in End : \A i, j \in DOMAIN delivered[e] :
      /\ delivered[e][i] = delivered[e][j]
      /\ delivered[e][i].kind # "REJECT"
      => i = j

\* What the invoker is told is true: a result, if the other end was handed
\* the invocation and answered it; ROS_WAITING, if the invocation was not
\* sent and will not be, so that it is safe to invoke again.
ToldTrue ==
    \A e \in End, id \in Id :
      /\ told[e][id] = "result" => /\ Got(e, RESULT(id))
                                   /\ Got(Other(e), INVOKE(id))
      /\ told[e][id] = "refused" => /\ ~Got(Other(e), INVOKE(id))
                                    /\ pending[e] # <<INVOKE(id)>>

\* The operation blocks of the invoker are the invocations whose fate he
\* does not know: none is forgotten (freed and not told), by whichever of
\* the calls that free blocks, and none is kept once he was told.
Accounted ==
    \A e \in End, id \in Id :
      findopblk(e, id, "OPB_INITIATOR") <=> (id <= ids[e] /\ told[e][id] = "nothing")

\* An invoker is told the fate of an invocation once: a late result or
\* rejection, or the loss of the association, does not tell him another.
ToldOnce ==
    [][\A e \in End, id \in Id :
         told[e][id] # "nothing" => told'[e][id] = told[e][id]]_vars

\* A request for the turn never reaches an end that asks for it itself, in
\* ro2rtsready, although requests are repeated and cross the turn and its
\* acknowledgement.  If one did, doRTSturn would fail there and the APDU would
\* be written without the turn.
ReadyUnasked ==
    \A e \in End : At(e, "ready") =>
      /\ ~Has(e, "ACB_PLEASE")
      /\ \A i \in DOMAIN ind[e] : ind[e][i] # "PLEASE"

\* Blocks are rejected with ROS_IP_RELEASE, "Initiator releasing", only when
\* the initiator is or has been releasing, or has lost the association.
ReleaseTold ==
    \A e \in End, id \in Id :
      told[e][id] = "released" => ~up["init"] \/ At("init", "release")

-----------------------------------------------------------------------------
(* Liveness, under FairSpec.                                               *)

\* ro2rtsready returns: an end that asks for the turn gets it, or an APDU,
\* or a release, or loses the association, also when both ends ask or the
\* request arrives during a transfer.
ReadyEnds == \A e \in End : At(e, "ready") ~> ~At(e, "ready")

\* A client that waits for each result in turn, with a server that invokes
\* nothing itself, always learns the fate of its invocations.
ClientAnswered ==
    \A id \in Id :
      (/\ use = [invokers |-> {"init"}, classes |-> {"ROS_SYNC"}]
       /\ ids["init"] >= id)
      ~> told["init"][id] # "nothing"

\* When the association has gone, every invocation is told, sooner or later.
LossTold ==
    \A e \in End : ~up[e] ~> \A id \in Id : id <= ids[e] => told[e][id] # "nothing"
=============================================================================
