---------------------------- MODULE RtsapProofs ----------------------------
(***************************************************************************)
(* What holds of two reliable transfer protocol machines over a session    *)
(* for every number of chunks, window, number of transfers and choice of   *)
(* faults.  The session invariants proved in SsapProofs carry over: every  *)
(* step of an RTPM is a step of the session beneath it, or none.  The      *)
(* type of an association block rests on them, since acb_ssn and acb_ack   *)
(* are serial numbers of the session.                                      *)
(***************************************************************************)
EXTENDS RtsapProperties, TLAPS

-----------------------------------------------------------------------------
(* The session beneath.                                                    *)

\* The assumptions of Ssap hold of the instance that the RTPM uses.
LEMMA SessionConstants ==
    /\ {RTS_MYREQUIRE} \subseteq SUBSET S!FunctionalUnits
    /\ FALSE \in BOOLEAN
    /\ ~FALSE => \A req \in {RTS_MYREQUIRE} : "EXPEDITED" \notin req
    /\ [req \in {RTS_MYREQUIRE} |-> Calls] \in
         [{RTS_MYREQUIRE} -> SUBSET S!Primitive]
    /\ {} \subseteq S!Settings
    /\ {0} \subseteq Nat
    /\ MaxChunks + 3 \in Nat /\ 4 * MaxChunks + 8 \in Nat \ {0}
  BY RtBoundsAssumption
  DEF RTS_MYREQUIRE, S!FunctionalUnits, S!Primitive, Calls

LEMMA SameSide == Side = S!Side
  BY DEF Side, S!Side

\* A step of the session, with a minor synchronization point confirmed that
\* was read from an SPDU.
SessionStep ==
    \/ S!Next
    \/ \E s \in Side, ssn \in Nat : S!SMinSyncResponse(s, ssn)
    \/ UNCHANGED session

LEMMA SessionStepKeeps ==
    ASSUME S!Inv, SessionStep
    PROVE  S!Inv'
  <1>1. CASE S!Next
    BY <1>1, S!NextInv, SessionConstants
  <1>2. ASSUME NEW s \in Side, NEW ssn \in Nat, S!SMinSyncResponse(s, ssn)
        PROVE  S!Inv'
    BY <1>2, S!MinSyncResponseKeeps, SessionConstants, SameSide
  <1>3. CASE UNCHANGED session
    BY <1>3, S!NextInv, SessionConstants DEF session, S!vars
  <1> QED
    BY <1>1, <1>2, <1>3 DEF SessionStep

-----------------------------------------------------------------------------
(* The inductive invariant.  The clauses on left, ACB_TURN and ACB_ACT are *)
(* about one association block and the thread that uses it.                *)

InTransferCall == {"first", "next", "window", "bad", "end", "ack"}

Local(a, r) ==
    /\ a \in assocblk /\ r \in thread
    /\ r.call \in {"first", "next", "window"} => r.left > 0
    /\ r.call \in InTransferCall =>
         "ACB_TURN" \in a.acb_flags /\ r.whole # << >>
    /\ r.call \in {"idle", "release"} =>
         "ACB_ACT" \notin a.acb_flags \/ "ACB_TURN" \notin a.acb_flags

RtLocal ==
    /\ mode \in Mode
    /\ DOMAIN acb = Side /\ DOMAIN rts = Side
    /\ acb = [s \in Side |-> acb[s]] /\ rts = [s \in Side |-> rts[s]]
    /\ \A s \in Side : Local(acb[s], rts[s])
    /\ delivered \in [Side -> Seq(Nat)] /\ confirmed \in [Side -> Seq(Nat)]

RtInv == S!Inv /\ RtLocal

LEMMA LocalImplies == RtLocal => RtTypeOK /\ TransferOwned
  BY DEF RtLocal, Local, RtTypeOK, TransferOwned, InTransfer, InTransferCall,
         Sending, Has

LEMMA GoesKeeps ==
    ASSUME RtLocal, NEW s \in Side, NEW a, NEW r, Goes(s, a, r), Local(a, r)
    PROVE  RtLocal'
  BY DEF Goes, RtLocal

LEMMA FlagsType ==
    ASSUME NEW a \in assocblk, NEW f \in SUBSET AcbFlag
    PROVE  /\ With(a, f) \in assocblk /\ Without(a, f) \in assocblk
           /\ With(a, f).acb_flags = a.acb_flags \cup f
           /\ Without(a, f).acb_flags = a.acb_flags \ f
  BY DEF With, Without, assocblk

LEMMA IdleType ==
    /\ newacblk \in assocblk /\ newacblk.acb_flags = {}
    /\ Idle \in thread /\ Idle.call = "idle"
  <1>1. << >> \in Seq(Nat)
    OBVIOUS
  <1> QED
    BY <1>1 DEF newacblk, assocblk, Idle, thread, Call, Do

LEMMA FreeKeeps ==
    ASSUME RtLocal, NEW s \in Side, freeacblk(s)
    PROVE  RtLocal'
  <1> DEFINE r == [Idle EXCEPT !.whole = rts[s].whole]
  <1>1. rts[s].whole \in Seq(Nat)
    BY DEF RtLocal, Local, thread
  <1>2. Local(newacblk, r)
    BY <1>1, IdleType DEF Local, thread, InTransferCall
  <1> QED
    BY <1>2, GoesKeeps DEF freeacblk

\* A handler that only notes the primitive it is about to call.
LEMMA OwesKeeps ==
    ASSUME RtLocal, NEW s \in Side, NEW do \in Do, Owes(s, do)
    PROVE  RtLocal'
  <1>1. Local(acb[s], [rts[s] EXCEPT !.do = do])
    BY DEF RtLocal, Local, thread
  <1> QED
    BY <1>1, GoesKeeps DEF Owes

LEMMA StillKeeps ==
    ASSUME RtLocal, UNCHANGED rtsvars
    PROVE  RtLocal'
  BY DEF RtLocal, rtsvars

\* The numbers an RTPM takes from the session.
LEMMA SessionNumbers ==
    ASSUME S!Inv, NEW s \in Side
    PROVE  /\ sb[s].sb_V_M \in Nat
           /\ net[s] # << >> => Head(net[s]).serial \in Nat
  <1>1. sb[s] \in S!ssapblk /\ net[s] \in Seq(S!Spdu)
    BY SameSide DEF S!Inv, S!TypeOK
  <1>2. net[s] # << >> => Head(net[s]) \in S!Spdu
    BY <1>1
  <1>3. sb[s].sb_V_M \in Nat
    BY <1>1 DEF S!ssapblk
  <1> QED
    BY <1>2, <1>3 DEF S!Spdu

-----------------------------------------------------------------------------
(* Requests and rt2sstrans.                                                *)

LEMMA AfterDataCalls ==
    ASSUME NEW n \in Nat, NEW call \in AfterData(n)
    PROVE  call \in {"end", "next", "bad"} /\ (call = "next" => n > 0)
  BY DEF AfterData, Fails

LEMMA AfterStartCalls ==
    ASSUME NEW n \in Nat, NEW call \in AfterStart(n)
    PROVE  call \in {"end", "first", "bad"} /\ (call = "first" => n > 0)
  BY DEF AfterStart, Fails

LEMMA SizesType == Sizes \subseteq Nat
  BY RtBoundsAssumption DEF Sizes

LEMMA StartKeeps ==
    ASSUME RtLocal, NEW s \in Side, TransStart(s)
    PROVE  RtLocal'
  <1> DEFINE a == IF mode.ckpoint
                  THEN [acb[s] EXCEPT !.acb_ssn = 0, !.acb_ack = 0] ELSE acb[s]
  <1>1. PICK n \in Sizes, secs \in TimeLimits :
          \E call \in AfterStart(n) :
            Goes(s, With(a, {"ACB_ACT"}),
                 [rts[s] EXCEPT !.call = call, !.left = n, !.whole = <<n>>,
                                !.secs = secs])
    BY DEF TransStart
  <1>2. PICK call \in AfterStart(n) :
          Goes(s, With(a, {"ACB_ACT"}),
               [rts[s] EXCEPT !.call = call, !.left = n, !.whole = <<n>>,
                              !.secs = secs])
    BY <1>1
  <1> DEFINE r == [rts[s] EXCEPT !.call = call, !.left = n, !.whole = <<n>>,
                                 !.secs = secs]
  <1>3. n \in Nat /\ <<n>> \in Seq(Nat) /\ <<n>> # << >>
    BY SizesType
  <1>4. call \in {"end", "first", "bad"} /\ (call = "first" => n > 0)
    BY <1>3, AfterStartCalls
  <1>5. secs \in BOOLEAN
    BY DEF TimeLimits
  <1>6. call \in Call
    BY <1>4 DEF Call
  <1>7. /\ r \in thread /\ r.call = call /\ r.left = n /\ r.whole = <<n>>
    BY <1>3, <1>5, <1>6 DEF RtLocal, Local, thread
  <1>8. a \in assocblk /\ "ACB_TURN" \in a.acb_flags
    BY DEF RtLocal, Local, assocblk, TransStart, MayTransfer, Has
  <1>9. {"ACB_ACT"} \in SUBSET AcbFlag
    BY DEF AcbFlag
  <1> HIDE DEF a, r
  <1>10. With(a, {"ACB_ACT"}) \in assocblk /\ "ACB_TURN" \in With(a, {"ACB_ACT"}).acb_flags
    BY <1>8, <1>9, FlagsType
  <1>11. Local(With(a, {"ACB_ACT"}), r)
    BY <1>3, <1>4, <1>7, <1>10 DEF Local, InTransferCall
  <1> QED
    BY <1>2, <1>11, GoesKeeps DEF r

\* The thread of s goes on within rt2sstrans.
LEMMA TransKeeps ==
    ASSUME RtLocal, NEW s \in Side, rts[s].call \in InTransferCall,
           NEW a \in assocblk, "ACB_TURN" \in a.acb_flags,
           NEW call \in InTransferCall, NEW n \in Nat,
           call \in {"first", "next", "window"} => n > 0,
           Goes(s, a, [rts[s] EXCEPT !.call = call, !.left = n])
    PROVE  RtLocal'
  <1> DEFINE r == [rts[s] EXCEPT !.call = call, !.left = n]
  <1>1. call \in Call
    BY DEF Call, InTransferCall
  <1>2. r \in thread /\ r.call = call /\ r.left = n /\ r.whole = rts[s].whole
    BY <1>1 DEF RtLocal, Local, thread
  <1> HIDE DEF r
  <1>3. Local(a, r)
    BY <1>2 DEF RtLocal, Local, InTransferCall
  <1> QED
    BY <1>3, GoesKeeps DEF r

LEMMA ThreadFacts ==
    ASSUME RtLocal, NEW s \in Side, rts[s].call \in InTransferCall
    PROVE  /\ acb[s] \in assocblk /\ "ACB_TURN" \in acb[s].acb_flags
           /\ rts[s] \in thread /\ rts[s].left \in Nat
           /\ rts[s].call \in {"first", "next", "window"} =>
                rts[s].left - 1 \in Nat /\ rts[s].left > 0
           /\ \A call \in Call :
                [rts[s] EXCEPT !.call = call] =
                  [rts[s] EXCEPT !.call = call, !.left = rts[s].left]
  <1>1. acb[s] \in assocblk /\ "ACB_TURN" \in acb[s].acb_flags /\ rts[s] \in thread
    BY DEF RtLocal, Local
  <1>2. rts[s].left \in Nat
    BY <1>1 DEF thread
  <1>3. rts[s].call \in {"first", "next", "window"} =>
          rts[s].left - 1 \in Nat /\ rts[s].left > 0
    BY <1>2 DEF RtLocal, Local
  <1>4. ASSUME NEW call \in Call
        PROVE  [rts[s] EXCEPT !.call = call] =
                 [rts[s] EXCEPT !.call = call, !.left = rts[s].left]
    BY <1>1 DEF thread
  <1> QED
    BY <1>1, <1>2, <1>3, <1>4

LEMMA SendChunkKeeps ==
    ASSUME RtLocal, NEW s \in Side, rts[s].call \in {"first", "window"},
           SendChunk(s)
    PROVE  RtLocal'
  <1>1. rts[s].call \in InTransferCall
    BY DEF InTransferCall
  <1>2. PICK call \in AfterData(rts[s].left - 1) :
          Goes(s, acb[s], [rts[s] EXCEPT !.call = call, !.left = rts[s].left - 1])
    BY DEF SendChunk
  <1>3. rts[s].left - 1 \in Nat
    BY <1>1, ThreadFacts
  <1>4. /\ call \in {"end", "next", "bad"}
        /\ call = "next" => rts[s].left - 1 > 0
    BY <1>3, AfterDataCalls
  <1>5. call \in InTransferCall
    BY <1>4 DEF InTransferCall
  <1> QED
    BY <1>1, <1>2, <1>3, <1>4, <1>5, ThreadFacts, TransKeeps

LEMMA RequestKeeps ==
    ASSUME RtLocal, NEW s \in Side, Requesting(s)
    PROVE  RtLocal'
  <1>1. acb[s] \in assocblk /\ rts[s] \in thread
    BY DEF RtLocal, Local
  <1>2. CASE rt2sspturn(s)
    BY <1>2, StillKeeps DEF rt2sspturn
  <1>3. CASE rt2ssgturn(s)
    <2> DEFINE f == {"ACB_TURN", "ACB_PLEASE"}
    <2>1. f \in SUBSET AcbFlag /\ "ACB_TURN" \in f
      BY DEF AcbFlag
    <2>2. /\ Without(acb[s], f) \in assocblk
          /\ "ACB_TURN" \notin Without(acb[s], f).acb_flags
      BY <1>1, <2>1, FlagsType
    <2>3. rts[s].call = "idle"
      BY <1>3 DEF rt2ssgturn, MayGive, rtsapPsig, At
    <2>4. Local(Without(acb[s], f), rts[s])
      BY <1>1, <2>2, <2>3 DEF Local, InTransferCall
    <2> QED
      BY <1>3, <2>4, GoesKeeps DEF rt2ssgturn
  <1>4. CASE TransStart(s)
    BY <1>4, StartKeeps
  <1>5. CASE RtEndRequest(s)
    <2> DEFINE r == [rts[s] EXCEPT !.call = "release"]
    <2>1. "release" \in Call
      BY DEF Call
    <2>2. r \in thread /\ r.call = "release"
      BY <1>1, <2>1 DEF thread
    <2>3. "ACB_ACT" \notin acb[s].acb_flags
      BY <1>5 DEF RtEndRequest, MayEnd
    <2> HIDE DEF r
    <2>4. Local(acb[s], r)
      BY <1>1, <2>2, <2>3 DEF Local, InTransferCall
    <2> QED
      BY <1>5, <2>4, GoesKeeps DEF RtEndRequest, r
  <1>6. CASE Refused(s)
    BY <1>6, FreeKeeps DEF Refused
  <1> QED
    BY <1>2, <1>3, <1>4, <1>5, <1>6 DEF Requesting

Sends(s) ==
    \/ TransFirst(s) \/ TransSync(s) \/ TransNext(s) \/ TransBad(s)
    \/ TransEnd(s) \/ TransTimer(s)

LEMMA SendsKeeps ==
    ASSUME RtInv, NEW s \in Side, Sends(s)
    PROVE  RtLocal'
  <1>0. RtLocal /\ sb[s].sb_V_M \in Nat
    BY SessionNumbers DEF RtInv
  <1>1. rts[s].call \in InTransferCall
    BY DEF Sends, TransFirst, TransSync, TransNext, TransBad, TransEnd,
           TransTimer, At, InTransferCall
  <1>2. /\ acb[s] \in assocblk /\ "ACB_TURN" \in acb[s].acb_flags
        /\ rts[s] \in thread /\ rts[s].left \in Nat
        /\ rts[s].call = "next" => rts[s].left > 0
    BY <1>0, <1>1, ThreadFacts
  <1>3. \A call \in Call : [rts[s] EXCEPT !.call = call] =
                             [rts[s] EXCEPT !.call = call, !.left = rts[s].left]
    BY <1>0, <1>1, ThreadFacts
  <1> DEFINE counted == [acb[s] EXCEPT !.acb_ssn = sb[s].sb_V_M]
             timed == With(acb[s], {"ACB_TIMER"})
  <1>4. counted \in assocblk /\ "ACB_TURN" \in counted.acb_flags
    BY <1>0, <1>2 DEF assocblk
  <1>5. timed \in assocblk /\ "ACB_TURN" \in timed.acb_flags
    <2>1. {"ACB_TIMER"} \in SUBSET AcbFlag
      BY DEF AcbFlag
    <2> QED
      BY <1>2, <2>1, FlagsType
  <1>6. {"window", "end", "ack"} \subseteq Call \cap InTransferCall
    BY DEF Call, InTransferCall
  <1>7. ASSUME NEW a \in {acb[s], counted, timed}, NEW call \in {"window", "end", "ack"},
               call = "window" => rts[s].call = "next",
               Goes(s, a, [rts[s] EXCEPT !.call = call])
        PROVE  RtLocal'
    <2>1. Goes(s, a, [rts[s] EXCEPT !.call = call, !.left = rts[s].left])
      BY <1>3, <1>6, <1>7
    <2>2. a \in assocblk /\ "ACB_TURN" \in a.acb_flags
      BY <1>2, <1>4, <1>5
    <2>3. call \in InTransferCall /\ (call \in {"first", "next", "window"} => rts[s].left > 0)
      BY <1>2, <1>6, <1>7
    <2> HIDE DEF counted, timed
    <2> QED
      BY <1>0, <1>1, <1>2, <2>1, <2>2, <2>3, TransKeeps
  <1>8. CASE TransFirst(s) \/ TransNext(s)
    BY <1>0, <1>8, SendChunkKeeps DEF TransFirst, TransNext, At
  <1>9. CASE TransSync(s)
    BY <1>7, <1>9 DEF TransSync, At
  <1>10. CASE TransBad(s)
    BY <1>7, <1>10 DEF TransBad
  <1>11. CASE TransEnd(s)
    BY <1>7, <1>11 DEF TransEnd
  <1>12. CASE TransTimer(s)
    BY <1>7, <1>12 DEF TransTimer
  <1> QED
    BY <1>8, <1>9, <1>10, <1>11, <1>12 DEF Sends

LEMMA TransferEndKeeps ==
    ASSUME RtLocal, NEW s \in Side, Ended(s, acb[s])
    PROVE  RtLocal'
  <1>1. acb[s] \in assocblk /\ rts[s] \in thread
    BY DEF RtLocal, Local
  <1>2. {"ACB_ACT"} \in SUBSET AcbFlag /\ {"ACB_ACT", "ACB_TIMER"} \in SUBSET AcbFlag
    BY DEF AcbFlag
  <1>3. CASE rts[s].call # "ack"
    <2> DEFINE a == Without(acb[s], {"ACB_ACT"})
    <2>1. a \in assocblk /\ a.acb_flags = acb[s].acb_flags \ {"ACB_ACT"}
      BY <1>1, <1>2, FlagsType
    <2> HIDE DEF a
    <2>2. Local(a, rts[s])
      BY <2>1 DEF RtLocal, Local
    <2> QED
      BY <1>3, <2>2, GoesKeeps DEF Ended, a
  <1>4. CASE rts[s].call = "ack"
    <2> DEFINE w == Without(acb[s], {"ACB_ACT", "ACB_TIMER"})
               a == [w EXCEPT !.acb_actno = w.acb_actno + 1]
               c == IF Has(s, "ACB_TIMER") THEN confirmed
                    ELSE [confirmed EXCEPT ![s] = confirmed[s] \o rts[s].whole]
    <2>1. w \in assocblk /\ "ACB_ACT" \notin w.acb_flags
      BY <1>1, <1>2, FlagsType
    <2>2. /\ acb' = [acb EXCEPT ![s] = a] /\ rts' = [rts EXCEPT ![s] = Idle]
          /\ confirmed' = c /\ UNCHANGED <<mode, delivered>>
      BY <1>4 DEF Ended
    <2> HIDE DEF w
    <2>3. a \in assocblk /\ "ACB_ACT" \notin a.acb_flags
      BY <2>1 DEF assocblk
    <2>4. c \in [Side -> Seq(Nat)]
      <3>1. rts[s].whole \in Seq(Nat) /\ confirmed \in [Side -> Seq(Nat)]
        BY <1>1 DEF thread, RtLocal
      <3>2. confirmed[s] \o rts[s].whole \in Seq(Nat)
        BY <3>1
      <3> QED
        BY <3>1, <3>2
    <2> HIDE DEF a, c
    <2>5. Local(a, Idle)
      BY <2>3, IdleType DEF Local, InTransferCall
    <2> QED
      BY <2>2, <2>4, <2>5 DEF RtLocal
  <1> QED
    BY <1>3, <1>4

-----------------------------------------------------------------------------
(* Indications, and the primitives their handlers call.                    *)

\* A handler that changes other flags or the counters of the block.
LEMMA BlockLocal ==
    ASSUME RtLocal, NEW s \in Side, NEW a \in assocblk,
           NEW r \in thread, r.call = rts[s].call, r.left = rts[s].left,
           r.whole = rts[s].whole,
           "ACB_TURN" \in a.acb_flags <=> "ACB_TURN" \in acb[s].acb_flags,
           "ACB_ACT" \in a.acb_flags => "ACB_ACT" \in acb[s].acb_flags
    PROVE  Local(a, r)
  <1>1. Local(acb[s], rts[s])
    BY DEF RtLocal
  <1> QED
    BY <1>1 DEF Local

Indicated(s) ==
    \/ ReadOnly(s) \/ doSSdata(s) \/ doSScontrol(s) \/ doSSplease(s)
    \/ RtWaitPlease(s) \/ doSSminorind(s) \/ doSSminorcnf(s) \/ doSSstart(s)
    \/ doSSdiscind(s) \/ doSSdisccnf(s) \/ doSSendind(s) \/ doSSendcnf(s)
    \/ doSSreport(s) \/ doSSfinish(s) \/ doSSabort(s)

LEMMA IndicatedKeeps ==
    ASSUME RtInv, NEW s \in Side, Indicated(s)
    PROVE  RtLocal'
  <1>0. RtLocal /\ acb[s] \in assocblk /\ rts[s] \in thread
    BY DEF RtInv, RtLocal, Local
  <1>1. {"lose", "report", "minor", "interrupt", "discard", "intr_resp",
         "disc_resp", "end_resp"} \subseteq Do
    BY DEF Do
  <1>2. net[s] # << >> => Head(net[s]).serial \in Nat
    BY SessionNumbers DEF RtInv
  <1>3. \A f \in SUBSET AcbFlag :
          /\ With(acb[s], f) \in assocblk /\ Without(acb[s], f) \in assocblk
          /\ With(acb[s], f).acb_flags = acb[s].acb_flags \cup f
          /\ Without(acb[s], f).acb_flags = acb[s].acb_flags \ f
    BY <1>0, FlagsType
  <1>4. /\ {"ACB_TURN"} \in SUBSET AcbFlag /\ {"ACB_ACT"} \in SUBSET AcbFlag
        /\ {"ACB_PLEASE"} \in SUBSET AcbFlag /\ {"ACB_FINN"} \in SUBSET AcbFlag
    BY DEF AcbFlag
  <1>5. CASE ReadOnly(s)
    BY <1>0, <1>5, StillKeeps DEF ReadOnly
  <1>6. CASE doSSdata(s)
    <2> DEFINE a == [acb[s] EXCEPT !.acb_len = acb[s].acb_len + 1]
    <2>1. a \in assocblk /\ a.acb_flags = acb[s].acb_flags
      BY <1>0 DEF assocblk
    <2>2. Goes(s, a, rts[s]) \/ Owes(s, "report") \/ Owes(s, "lose")
      BY <1>6 DEF doSSdata
    <2> HIDE DEF a
    <2>9. Local(a, rts[s])
      BY <1>0, <2>1, BlockLocal
    <2> QED
      BY <1>0, <1>1, <2>1, <2>2, <2>9, GoesKeeps, OwesKeeps
  <1>7. CASE doSScontrol(s)
    <2>1. CASE "ACB_ACT" \notin acb[s].acb_flags /\ Goes(s, With(acb[s], {"ACB_TURN"}), rts[s])
      <3> DEFINE a == With(acb[s], {"ACB_TURN"})
      <3>1. a \in assocblk /\ a.acb_flags = acb[s].acb_flags \cup {"ACB_TURN"}
        BY <1>3, <1>4
      <3> HIDE DEF a
      <3>2. Local(a, rts[s])
        BY <1>0, <2>1, <3>1 DEF RtLocal, Local
      <3> QED
        BY <1>0, <2>1, <3>2, GoesKeeps DEF a
    <2>2. CASE Owes(s, "lose")
      BY <1>0, <1>1, <2>2, OwesKeeps
    <2> QED
      BY <1>7, <2>1, <2>2 DEF doSScontrol, Has
  <1>8. CASE doSSplease(s)
    <2> DEFINE a == With(acb[s], {"ACB_PLEASE"})
    <2>1. a \in assocblk /\ a.acb_flags = acb[s].acb_flags \cup {"ACB_PLEASE"}
      BY <1>3, <1>4
    <2>2. \/ UNCHANGED rtsvars \/ Owes(s, "lose") \/ Owes(s, "interrupt")
          \/ Goes(s, a, rts[s])
      BY <1>8 DEF doSSplease
    <2> HIDE DEF a
    <2>9. Local(a, rts[s])
      BY <1>0, <2>1, BlockLocal
    <2> QED
      BY <1>0, <1>1, <2>1, <2>2, <2>9, GoesKeeps, OwesKeeps, StillKeeps
  <1>9. CASE RtWaitPlease(s)
    <2> DEFINE a == Without(acb[s], {"ACB_PLEASE"})
    <2>1. a \in assocblk /\ a.acb_flags = acb[s].acb_flags \ {"ACB_PLEASE"}
      BY <1>3, <1>4
    <2>2. Goes(s, a, rts[s])
      BY <1>9 DEF RtWaitPlease
    <2> HIDE DEF a
    <2>9. Local(a, rts[s])
      BY <1>0, <2>1, BlockLocal
    <2> QED
      BY <1>0, <2>1, <2>2, <2>9, GoesKeeps
  <1>10. CASE doSSminorind(s)
    <2> DEFINE n == Head(net[s]).serial
               r == [rts[s] EXCEPT !.do = "minor", !.ssn = n]
    <2>1. n \in Nat
      BY <1>2, <1>10 DEF doSSminorind, Reads
    <2>2. \/ UNCHANGED rtsvars \/ Owes(s, "lose") \/ Owes(s, "report")
          \/ Goes(s, acb[s], r)
      BY <1>10 DEF doSSminorind
    <2> HIDE DEF n
    <2>3. /\ r \in thread /\ r.call = rts[s].call /\ r.left = rts[s].left
          /\ r.whole = rts[s].whole
      BY <1>0, <1>1, <2>1 DEF thread
    <2> HIDE DEF r
    <2>9. Local(acb[s], r)
      BY <1>0, <2>3, BlockLocal
    <2> QED
      BY <1>0, <1>1, <2>2, <2>3, <2>9, GoesKeeps, OwesKeeps, StillKeeps
  <1>11. CASE doSSminorcnf(s)
    <2> DEFINE n == Head(net[s]).serial
               a == [acb[s] EXCEPT !.acb_ack = n]
    <2>1. n \in Nat
      BY <1>2, <1>11 DEF doSSminorcnf, Reads
    <2>2. Goes(s, a, rts[s]) \/ Owes(s, "lose")
      BY <1>11 DEF doSSminorcnf
    <2> HIDE DEF n
    <2>3. a \in assocblk /\ a.acb_flags = acb[s].acb_flags
      BY <1>0, <2>1 DEF assocblk
    <2> HIDE DEF a
    <2>9. Local(a, rts[s])
      BY <1>0, <2>3, BlockLocal
    <2> QED
      BY <1>0, <1>1, <2>2, <2>3, <2>9, GoesKeeps, OwesKeeps
  <1>12. CASE doSSstart(s)
    <2> DEFINE a == With(acb[s], {"ACB_ACT"})
    <2>1. a \in assocblk /\ a.acb_flags = acb[s].acb_flags \cup {"ACB_ACT"}
      BY <1>3, <1>4
    <2>2. \/ {"ACB_ACT", "ACB_TURN"} \cap acb[s].acb_flags = {} /\ Goes(s, a, rts[s])
          \/ Owes(s, "lose") \/ Owes(s, "report")
      BY <1>12 DEF doSSstart
    <2> HIDE DEF a
    <2>3. CASE {"ACB_ACT", "ACB_TURN"} \cap acb[s].acb_flags = {} /\ Goes(s, a, rts[s])
      <3>1. Local(a, rts[s])
        BY <1>0, <2>1, <2>3 DEF RtLocal, Local
      <3> QED
        BY <1>0, <2>3, <3>1, GoesKeeps
    <2> QED
      BY <1>0, <1>1, <2>2, <2>3, OwesKeeps
  <1>13. CASE doSSdiscind(s)
    <2>1. \E do \in {"lose", "intr_resp", "disc_resp"} : Owes(s, do)
      BY <1>13 DEF doSSdiscind
    <2> QED
      BY <1>0, <1>1, <2>1, OwesKeeps
  <1>14. CASE doSSdisccnf(s) \/ doSSendcnf(s)
    <2>1. Ended(s, acb[s]) \/ Owes(s, "lose")
      BY <1>14 DEF doSSdisccnf, doSSendcnf
    <2> QED
      BY <1>0, <1>1, <2>1, TransferEndKeeps, OwesKeeps
  <1>15. CASE doSSendind(s) \/ doSSreport(s)
    <2>1. \E do \in {"lose", "end_resp", "report", "discard"} : Owes(s, do)
      BY <1>15 DEF doSSendind, doSSreport
    <2> QED
      BY <1>0, <1>1, <2>1, OwesKeeps
  <1>16. CASE doSSfinish(s)
    <2> DEFINE a == With(acb[s], {"ACB_FINN"})
    <2>1. a \in assocblk /\ a.acb_flags = acb[s].acb_flags \cup {"ACB_FINN"}
      BY <1>3, <1>4
    <2>2. Goes(s, a, rts[s]) \/ Owes(s, "lose")
      BY <1>16 DEF doSSfinish
    <2> HIDE DEF a
    <2>9. Local(a, rts[s])
      BY <1>0, <2>1, BlockLocal
    <2> QED
      BY <1>0, <1>1, <2>1, <2>2, <2>9, GoesKeeps, OwesKeeps
  <1>17. CASE doSSabort(s)
    BY <1>0, <1>17, FreeKeeps DEF doSSabort
  <1> QED
    BY <1>5, <1>6, <1>7, <1>8, <1>9, <1>10, <1>11, <1>12, <1>13, <1>14, <1>15,
       <1>16, <1>17 DEF Indicated

Calling(s) ==
    \/ ReportSent(s) \/ MinorConfirmed(s) \/ ActivityDropped(s)
    \/ Delivered(s) \/ Discarding(s) \/ Interrupting(s) \/ Lose(s)
    \/ RtEndReturns(s) \/ RtEndResponse(s)

LEMMA CallingKeeps ==
    ASSUME RtLocal, NEW s \in Side, Calling(s)
    PROVE  RtLocal'
  <1> DEFINE r == [rts[s] EXCEPT !.do = "none"]
             still == [acb[s] EXCEPT !.acb_len = 0]
             w == Without(acb[s], {"ACB_ACT"})
             over == [w EXCEPT !.acb_len = 0]
  <1>1. acb[s] \in assocblk /\ rts[s] \in thread
    BY DEF RtLocal, Local
  <1>2. "none" \in Do /\ {"ACB_ACT"} \in SUBSET AcbFlag
    BY DEF Do, AcbFlag
  <1>3. /\ r \in thread /\ r.call = rts[s].call /\ r.left = rts[s].left
        /\ r.whole = rts[s].whole
    BY <1>1, <1>2 DEF thread
  <1>4. still \in assocblk /\ still.acb_flags = acb[s].acb_flags
    BY <1>1 DEF assocblk
  <1>5. w \in assocblk /\ w.acb_flags = acb[s].acb_flags \ {"ACB_ACT"}
    BY <1>1, <1>2, FlagsType
  <1> HIDE DEF r, still, w
  <1>6. over \in assocblk /\ over.acb_flags = w.acb_flags
    BY <1>5 DEF assocblk
  <1> HIDE DEF over
  <1>7. Local(acb[s], r) /\ Local(still, r) /\ Local(over, r)
    BY <1>1, <1>3, <1>4, <1>5, <1>6, BlockLocal
  <1>8. CASE ReportSent(s)
    BY <1>7, <1>8, GoesKeeps DEF ReportSent, Done, still, r
  <1>9. CASE MinorConfirmed(s) \/ Discarding(s) \/ Interrupting(s)
    BY <1>7, <1>9, GoesKeeps DEF MinorConfirmed, Discarding, Interrupting, Done, r
  <1>10. CASE ActivityDropped(s)
    BY <1>7, <1>10, GoesKeeps DEF ActivityDropped, Done, over, w, r
  <1>11. CASE Delivered(s)
    <2>1. /\ acb' = [acb EXCEPT ![s] = over] /\ rts' = [rts EXCEPT ![s] = r]
          /\ delivered' = [delivered EXCEPT ![s] = Append(delivered[s], acb[s].acb_len)]
          /\ UNCHANGED <<mode, confirmed>>
      BY <1>11 DEF Delivered, over, w, r, RtLocal
    <2>2. acb[s].acb_len \in Nat
      BY <1>1 DEF assocblk
    <2>3. delivered' \in [Side -> Seq(Nat)]
      BY <2>1, <2>2 DEF RtLocal
    <2> QED
      BY <1>7, <2>1, <2>3 DEF RtLocal
  <1>12. CASE Lose(s) \/ RtEndReturns(s) \/ RtEndResponse(s)
    BY <1>12, FreeKeeps DEF Lose, RtEndReturns, RtEndResponse
  <1> QED
    BY <1>8, <1>9, <1>10, <1>11, <1>12 DEF Calling

-----------------------------------------------------------------------------
(* Every step of an RTPM is a step of its session, or none.                *)

LEMMA NextIsSession ==
    ASSUME RtLocal, Next
    PROVE  SessionStep
  <1>1. ASSUME NEW s \in S!Side,
               \/ S!Requesting(s) \/ S!Responding(s) \/ S!Reading(s)
               \/ S!Releasing(s)
        PROVE  SessionStep
    BY <1>1 DEF SessionStep, S!Next
  <1>2. ASSUME NEW s \in Side, Requesting(s)
        PROVE  SessionStep
    <2>1. S!SPTokenRequest(s, {"DAT"}) => S!Requesting(s)
      BY DEF S!Requesting, S!Token
    <2>2. \/ S!SPTokenRequest(s, {"DAT"}) \/ S!SGControlRequest(s)
          \/ S!SActStartRequest(s) \/ S!SRelRequest(s) \/ S!SUAbortRequest(s)
      BY <1>2 DEF Requesting, rt2sspturn, rt2ssgturn, TransStart, RtEndRequest,
                  Refused
    <2> QED
      BY <1>1, <2>1, <2>2, SameSide DEF S!Requesting
  <1>3. ASSUME NEW s \in Side, Sends(s)
        PROVE  SessionStep
    <2>1. \/ S!SDataRequest(s) \/ S!SMinSyncRequest(s) \/ S!SActDiscRequest(s)
          \/ S!SActEndRequest(s)
      BY <1>3 DEF Sends, TransFirst, TransSync, TransNext, TransBad, TransEnd,
                  TransTimer, SendChunk
    <2> QED
      BY <1>1, <2>1, SameSide DEF S!Requesting
  <1>4. ASSUME NEW s \in Side, Indicated(s)
        PROVE  SessionStep
    <2>1. \/ S!ReadSpin(s) \/ S!ReadGTA(s) \/ S!ReadDT(s) \/ S!ReadGTC(s)
          \/ S!ReadMIP(s) \/ S!ReadMIA(s) \/ S!ReadAS(s) \/ S!ReadAI(s)
          \/ S!ReadAIA(s) \/ S!ReadAE(s) \/ S!ReadMAA(s) \/ S!ReadED(s)
          \/ S!ReadFN(s) \/ S!ReadAB(s) \/ S!TDiscRead(s)
          \/ UNCHANGED session
      BY <1>4 DEF Indicated, ReadOnly, doSSdata, doSScontrol, doSSplease,
           RtWaitPlease, doSSminorind, doSSminorcnf, doSSstart, doSSdiscind,
           doSSdisccnf, doSSendind, doSSendcnf, doSSreport, doSSfinish, doSSabort
    <2>2. S!Reading(s) \/ UNCHANGED session
      BY <2>1 DEF S!Reading
    <2> QED
      BY <1>1, <2>2, SameSide DEF SessionStep
  <1>5. ASSUME NEW s \in Side, Calling(s)
        PROVE  SessionStep
    <2>1. rts[s].ssn \in Nat
      BY DEF RtLocal, Local, thread
    <2>2. \/ S!SUReportRequest(s) \/ S!SMinSyncResponse(s, rts[s].ssn)
          \/ S!SActIntrResponse(s) \/ S!SActDiscResponse(s)
          \/ S!SMajSyncResponseAux(s) \/ S!SActDiscRequest(s)
          \/ S!SActIntrRequest(s) \/ S!SUAbortRequest(s)
          \/ S!RelDN(s) \/ S!RelAB(s) \/ S!RelMangled(s) \/ S!TDiscRead(s)
          \/ S!SRelAccept(s) \/ S!SRelResponseFails(s)
      BY <1>5 DEF Calling, ReportSent, MinorConfirmed, ActivityDropped,
           Delivered, Discarding, Interrupting, Lose, RtEndReturns, RtEndResponse
    <2>3. \/ S!Requesting(s) \/ S!Responding(s) \/ S!Reading(s)
          \/ S!Releasing(s) \/ S!SMinSyncResponse(s, rts[s].ssn)
      BY <2>2 DEF S!Requesting, S!Responding, S!Reading, S!Releasing
    <2> QED
      BY <1>1, <2>1, <2>3, SameSide DEF SessionStep
  <1>6. CASE TransportFails
    BY <1>6 DEF TransportFails, SessionStep, S!Next
  <1> QED
    BY <1>2, <1>3, <1>4, <1>5, <1>6
    DEF Next, Working, Sends, Indicated, Calling

LEMMA InitRt == Init => RtInv
  <1> SUFFICES ASSUME Init PROVE RtInv
    OBVIOUS
  <1>1. S!Inv
    BY S!InitInv, SessionConstants DEF Init
  <1> DEFINE a(s) == [newacblk EXCEPT !.acb_flags =
                        {"ACB_CONN"} \cup
                        (IF sb[s].sb_owned = {} THEN {} ELSE {"ACB_TURN"})]
  <1>2. ASSUME NEW s \in Side
        PROVE  Local(a(s), Idle)
    <2>1. /\ a(s) \in assocblk
          /\ "ACB_ACT" \notin a(s).acb_flags
      BY IdleType DEF assocblk, AcbFlag
    <2> HIDE DEF a
    <2> QED
      BY <2>1, IdleType DEF Local, InTransferCall
  <1>3. /\ acb = [s \in Side |-> a(s)] /\ rts = [s \in Side |-> Idle]
        /\ delivered = [s \in Side |-> << >>] /\ confirmed = [s \in Side |-> << >>]
    BY DEF Init
  <1>4. mode \in Mode
    BY ModesAssumption DEF Init
  <1>5. << >> \in Seq(Nat)
    OBVIOUS
  <1> HIDE DEF a
  <1>6. RtLocal
    BY <1>2, <1>3, <1>4, <1>5 DEF RtLocal
  <1> QED
    BY <1>1, <1>6 DEF RtInv

LEMMA NextRt == RtInv /\ [Next]_vars => RtInv'
  <1> SUFFICES ASSUME RtInv, [Next]_vars PROVE RtInv'
    OBVIOUS
  <1>1. S!Inv /\ RtLocal
    BY DEF RtInv
  <1>2. S!Inv'
    <2>1. SessionStep
      <3>1. CASE Next
        BY <1>1, <3>1, NextIsSession
      <3>2. CASE UNCHANGED vars
        BY <3>2 DEF SessionStep, vars, session
      <3> QED
        BY <3>1, <3>2
    <2> QED
      BY <1>1, <2>1, SessionStepKeeps
  <1>3. RtLocal'
    <2>1. CASE TransportFails
      BY <1>1, <2>1, StillKeeps DEF TransportFails
    <2>2. CASE UNCHANGED vars
      BY <1>1, <2>2, StillKeeps DEF vars, rtsvars
    <2>3. ASSUME NEW s \in Side, Requesting(s) PROVE RtLocal'
      BY <1>1, <2>3, RequestKeeps
    <2>4. ASSUME NEW s \in Side, Sends(s) PROVE RtLocal'
      BY <2>4, SendsKeeps
    <2>5. ASSUME NEW s \in Side, Indicated(s) PROVE RtLocal'
      BY <2>5, IndicatedKeeps
    <2>6. ASSUME NEW s \in Side, Calling(s) PROVE RtLocal'
      BY <1>1, <2>6, CallingKeeps
    <2> QED
      BY <2>1, <2>2, <2>3, <2>4, <2>5, <2>6
      DEF Next, Working, Sends, Indicated, Calling
  <1> QED
    BY <1>2, <1>3 DEF RtInv

-----------------------------------------------------------------------------
(* The theorems.                                                           *)

\* Association blocks and threads keep their types: rt2sstrans never sends
\* more chunks than it has, and the serial numbers it takes from S-MINOR-SYNC
\* and S-ACTIVITY-END are natural numbers.
THEOREM RtTypeCorrect == Spec => []RtTypeOK
  <1>1. RtInv => RtTypeOK
    BY LocalImplies DEF RtInv
  <1> QED
    BY <1>1, InitRt, NextRt, PTL DEF Spec

\* A thread in rt2sstrans keeps the turn until it returns and leaves no
\* activity behind, for every window, number of chunks and set of faults.
THEOREM TransferKeepsTurn == Spec => []TransferOwned
  <1>1. RtInv => TransferOwned
    BY LocalImplies DEF RtInv
  <1> QED
    BY <1>1, InitRt, NextRt, PTL DEF Spec

\* The session beneath an association keeps its invariants: its blocks and
\* SPDUs their types, and a block that release, abort or disconnect has
\* freed is touched by neither RTPM again.
THEOREM SessionKept == Spec => [](S!TypeOK /\ S!FreedIsGone)
  <1>1. RtInv => S!TypeOK /\ S!FreedIsGone
    BY DEF RtInv, S!Inv
  <1> QED
    BY <1>1, InitRt, NextRt, PTL DEF Spec
=============================================================================
