-------------------------- MODULE RtsapRefinement --------------------------
(***************************************************************************)
(* The two RTPMs, over the session, implement RtService, for every window, *)
(* number of chunks and set of faults and for every interleaving of the    *)
(* two ends with what is under way between them.                           *)
(*                                                                         *)
(* What no end can see by itself is in the invariant TransferInv: ACB_TURN *)
(* and the tokens agree (SideOK); a thread in rt2sstrans knows what it has *)
(* asked of the session (ThreadOK); behind an AE, AI, AD or GTC the end    *)
(* with the turn says nothing more, and the other answers once (QueueOK);  *)
(* the turn is at one end or under way (TurnOK); an AE, AI or AD, the      *)
(* handler that answers it, and its answer exclude each other (PhaseOK);   *)
(* chunks to send, under way and received add up to the transfer, and a    *)
(* confirmation under way stands for a transfer handed over (DataOK).      *)
(*                                                                         *)
(* First what the steps of the session do to what the invariant speaks of  *)
(* (Writes, Takes, Frees); then one lemma per step of the RTPM (...Inv);   *)
(* then the step of RtService that each is.                                *)
(***************************************************************************)
EXTENDS RtsapProofs, FiniteSetTheorems, SequenceTheorems

-----------------------------------------------------------------------------
(* What is under way to one end.                                           *)

Carries(q, codes) == \E i \in DOMAIN q : q[i].code \in codes

\* What the end that holds the turn says: the transfer itself, its end, its
\* discard or interrupt, or the turn; and what the other end answers.
Body(q) == Carries(q, {"AS", "DT", "MIP"})
Ending(q) == Carries(q, {"AE"})
Dropping(q) == Carries(q, {"AI", "AD"})
Turning(q) == Carries(q, {"GTC"})
Speaking(q) == Body(q) \/ Ending(q) \/ Dropping(q) \/ Turning(q)
Confirming(q) == Carries(q, {"MAA"})
Agreeing(q) == Carries(q, {"AIA", "ADA"})
Replying(q) == Confirming(q) \/ Agreeing(q)

Chunks(q) == Cardinality({i \in DOMAIN q : q[i].code = "DT"})

ClosingCode == {"AE", "AI", "AD", "GTC"}
SpeakingCode == {"AS", "DT", "MIP"} \cup ClosingCode
ReplyCode == {"MAA", "AIA", "ADA"}

\* Behind its last word the end with the turn says nothing more, and one
\* word of it is answered once.
QueueOK(q) ==
    /\ \A i \in DOMAIN q : ~q[i].expd
    /\ \A i \in DOMAIN q, j \in DOMAIN q :
         i < j /\ q[i].code \in ClosingCode => q[j].code \notin SpeakingCode
    /\ \A i \in DOMAIN q, j \in DOMAIN q :
         i < j /\ q[i].code \in ReplyCode => q[j].code \notin ReplyCode
    /\ Turning(q) => ~Body(q) /\ ~Ending(q) /\ ~Dropping(q)

\* q has nothing of what matters that p has not, but for code.
Adds(p, q, code) ==
    /\ Body(q) => Body(p) \/ code \in {"AS", "DT", "MIP"}
    /\ Ending(q) => Ending(p) \/ code = "AE"
    /\ Dropping(q) => Dropping(p) \/ code \in {"AI", "AD"}
    /\ Turning(q) => Turning(p) \/ code = "GTC"
    /\ Confirming(q) => Confirming(p) \/ code = "MAA"
    /\ Agreeing(q) => Agreeing(p) \/ code \in {"AIA", "ADA"}

LEMMA EmptyQueue ==
    /\ \A codes : ~Carries(<< >>, codes)
    /\ Chunks(<< >>) = 0 /\ QueueOK(<< >>)
  <1>1. DOMAIN << >> = {}
    OBVIOUS
  <1>2. \A codes : ~Carries(<< >>, codes)
    BY <1>1 DEF Carries
  <1>3. {i \in DOMAIN << >> : << >>[i].code = "DT"} = {}
    BY <1>1
  <1>4. Chunks(<< >>) = 0
    BY <1>3, FS_EmptySet DEF Chunks
  <1> QED
    BY <1>1, <1>2, <1>4 DEF QueueOK, Turning

LEMMA AppendCarries ==
    ASSUME NEW T, NEW q \in Seq(T), NEW p \in T, NEW codes
    PROVE  Carries(Append(q, p), codes) <=> Carries(q, codes) \/ p.code \in codes
  <1>1. /\ DOMAIN Append(q, p) = 1 .. Len(q) + 1 /\ DOMAIN q = 1 .. Len(q)
        /\ \A i \in 1 .. Len(q) : Append(q, p)[i] = q[i]
        /\ Append(q, p)[Len(q) + 1] = p
        /\ Len(q) \in Nat
    OBVIOUS
  <1>2. ASSUME NEW i \in 1 .. Len(q) + 1
        PROVE  i \in 1 .. Len(q) \/ i = Len(q) + 1
    BY <1>1
  <1>3. /\ Len(q) + 1 \in 1 .. Len(q) + 1
        /\ \A i \in 1 .. Len(q) : i \in 1 .. Len(q) + 1
    BY <1>1
  <1> HIDE <1>1
  <1> QED
    BY <1>1, <1>2, <1>3 DEF Carries

LEMMA TailCarries ==
    ASSUME NEW T, NEW q \in Seq(T), q # << >>, NEW codes
    PROVE  Carries(q, codes) <=> Head(q).code \in codes \/ Carries(Tail(q), codes)
  <1>1. /\ DOMAIN Tail(q) = 1 .. Len(q) - 1 /\ DOMAIN q = 1 .. Len(q)
        /\ \A i \in 1 .. Len(q) - 1 : Tail(q)[i] = q[i + 1]
        /\ Head(q) = q[1]
        /\ Len(q) \in Nat \ {0}
    OBVIOUS
  <1>2. ASSUME NEW i \in 1 .. Len(q), i # 1
        PROVE  i - 1 \in 1 .. Len(q) - 1 /\ Tail(q)[i - 1] = q[i]
    BY <1>1, <1>2
  <1>3. /\ 1 \in 1 .. Len(q)
        /\ \A i \in 1 .. Len(q) - 1 : i + 1 \in 1 .. Len(q)
    BY <1>1
  <1>4. Carries(q, codes) => Head(q).code \in codes \/ Carries(Tail(q), codes)
    BY <1>1, <1>2 DEF Carries
  <1>5. Head(q).code \in codes \/ Carries(Tail(q), codes) => Carries(q, codes)
    BY <1>1, <1>3 DEF Carries
  <1> QED
    BY <1>4, <1>5

LEMMA ChunkSet ==
    ASSUME NEW T, NEW q \in Seq(T)
    PROVE  /\ IsFiniteSet({i \in DOMAIN q : q[i].code = "DT"})
           /\ Chunks(q) \in Nat
           /\ ~Body(q) => Chunks(q) = 0
  <1> DEFINE D == {i \in DOMAIN q : q[i].code = "DT"}
  <1>1. DOMAIN q = 1 .. Len(q) /\ Len(q) \in Nat
    OBVIOUS
  <1>2. IsFiniteSet(D)
    <2>1. IsFiniteSet(1 .. Len(q)) /\ D \subseteq 1 .. Len(q)
      BY <1>1, FS_Interval
    <2> HIDE DEF D
    <2> QED
      BY <2>1, FS_Subset
  <1>3. ~Body(q) => D = {}
    BY DEF Body, Carries
  <1> HIDE DEF D
  <1> QED
    BY <1>2, <1>3, FS_CardinalityType, FS_EmptySet DEF Chunks, D

LEMMA AppendChunks ==
    ASSUME NEW T, NEW q \in Seq(T), NEW p \in T
    PROVE  Chunks(Append(q, p)) = Chunks(q) + (IF p.code = "DT" THEN 1 ELSE 0)
  <1> DEFINE D(r) == {i \in DOMAIN r : r[i].code = "DT"}
  <1>1. /\ DOMAIN Append(q, p) = 1 .. Len(q) + 1 /\ DOMAIN q = 1 .. Len(q)
        /\ \A i \in 1 .. Len(q) : Append(q, p)[i] = q[i]
        /\ Append(q, p)[Len(q) + 1] = p
        /\ Len(q) \in Nat
    OBVIOUS
  <1>2. IsFiniteSet(D(q)) /\ Cardinality(D(q)) \in Nat
    BY ChunkSet DEF Chunks
  <1>3. p.code = "DT" =>
          D(Append(q, p)) = D(q) \cup {Len(q) + 1} /\ Len(q) + 1 \notin D(q)
    BY <1>1
  <1>4. p.code # "DT" => D(Append(q, p)) = D(q)
    BY <1>1
  <1>5. Chunks(q) = Cardinality(D(q)) /\ Chunks(Append(q, p)) = Cardinality(D(Append(q, p)))
    BY DEF Chunks
  <1> HIDE DEF D
  <1> QED
    BY <1>2, <1>3, <1>4, <1>5, FS_AddElement

LEMMA TailChunks ==
    ASSUME NEW T, NEW q \in Seq(T), q # << >>
    PROVE  Chunks(q) = Chunks(Tail(q)) + (IF Head(q).code = "DT" THEN 1 ELSE 0)
  <1> DEFINE D == {i \in DOMAIN q : q[i].code = "DT"}
             E == {i \in DOMAIN Tail(q) : Tail(q)[i].code = "DT"}
             F == D \ {1}
             f == [i \in E |-> i + 1]
  <1>1. /\ DOMAIN Tail(q) = 1 .. Len(q) - 1 /\ DOMAIN q = 1 .. Len(q)
        /\ \A i \in 1 .. Len(q) - 1 : Tail(q)[i] = q[i + 1]
        /\ Head(q) = q[1]
        /\ Len(q) \in Nat \ {0} /\ Tail(q) \in Seq(T)
    OBVIOUS
  <1>2. IsFiniteSet(D) /\ IsFiniteSet(E) /\ Cardinality(E) \in Nat
    BY <1>1, ChunkSet DEF Chunks
  <1>3. f \in Bijection(E, F)
    <2>1. \A i \in E : i + 1 \in F
      BY <1>1
    <2>2. ASSUME NEW j \in F
          PROVE  j - 1 \in E /\ j = (j - 1) + 1
      BY <1>1
    <2>3. f \in [E -> F] /\ \A i \in E : f[i] = i + 1
      BY <2>1
    <2>4. \A i, j \in E : f[i] = f[j] => i = j
      BY <1>1, <2>3
    <2>5. \A j \in F : \E i \in E : f[i] = j
      BY <2>2, <2>3
    <2> HIDE DEF f, E, F
    <2> QED
      BY <2>3, <2>4, <2>5 DEF Bijection, Injection, Surjection, IsInjective
  <1>4. IsFiniteSet(F) /\ Cardinality(F) = Cardinality(E)
    <2> HIDE DEF D, E, F, f
    <2> QED
      BY <1>2, <1>3, FS_Bijection DEF ExistsBijection
  <1>5. Head(q).code # "DT" => D = F
    BY <1>1
  <1>6. Head(q).code = "DT" => D = F \cup {1} /\ 1 \notin F
    BY <1>1
  <1>7. Chunks(q) = Cardinality(D) /\ Chunks(Tail(q)) = Cardinality(E)
    BY DEF Chunks
  <1> HIDE DEF D, E, F, f
  <1> QED
    BY <1>2, <1>4, <1>5, <1>6, <1>7, FS_AddElement

LEMMA AppendQueue ==
    ASSUME NEW T, NEW q \in Seq(T), NEW p \in T, QueueOK(q), ~p.expd,
           p.code \in SpeakingCode => ~Ending(q) /\ ~Dropping(q) /\ ~Turning(q),
           p.code \in ReplyCode => ~Replying(q),
           p.code = "GTC" => ~Body(q)
    PROVE  QueueOK(Append(q, p)) /\ Adds(q, Append(q, p), p.code)
  <1> DEFINE r == Append(q, p)
  <1>1. /\ DOMAIN r = 1 .. Len(q) + 1 /\ DOMAIN q = 1 .. Len(q)
        /\ \A i \in 1 .. Len(q) : r[i] = q[i]
        /\ r[Len(q) + 1] = p
        /\ Len(q) \in Nat
    OBVIOUS
  <1>2. \A codes : Carries(r, codes) <=> Carries(q, codes) \/ p.code \in codes
    BY AppendCarries
  <1> HIDE DEF r
  <1>3. Adds(q, r, p.code)
    BY <1>2 DEF Adds, Body, Ending, Dropping, Turning, Confirming, Agreeing
  <1>4. \A i \in DOMAIN r : ~r[i].expd
    BY <1>1 DEF QueueOK
  <1>5. ASSUME NEW i \in DOMAIN r, NEW j \in DOMAIN r, i < j
        PROVE  i \in DOMAIN q /\ r[i] = q[i] /\ ((j \in DOMAIN q /\ r[j] = q[j]) \/ r[j] = p)
    BY <1>1, <1>5
  <1>6. ASSUME NEW i \in DOMAIN r, NEW j \in DOMAIN r, i < j, r[i].code \in ClosingCode
        PROVE  r[j].code \notin SpeakingCode
    BY <1>5, <1>6
    DEF QueueOK, ClosingCode, Ending, Dropping, Turning, Carries
  <1>7. ASSUME NEW i \in DOMAIN r, NEW j \in DOMAIN r, i < j, r[i].code \in ReplyCode
        PROVE  r[j].code \notin ReplyCode
    BY <1>5, <1>7
    DEF QueueOK, ReplyCode, Replying, Confirming, Agreeing, Carries
  <1>8. Turning(r) => ~Body(r) /\ ~Ending(r) /\ ~Dropping(r)
    BY <1>3 DEF Adds, QueueOK, SpeakingCode, ClosingCode
  <1> QED
    BY <1>3, <1>4, <1>6, <1>7, <1>8 DEF QueueOK, r

LEMMA TailQueue ==
    ASSUME NEW T, NEW q \in Seq(T), q # << >>, QueueOK(q)
    PROVE  /\ QueueOK(Tail(q)) /\ Adds(q, Tail(q), "none")
           /\ Head(q).code \in {"AS", "DT", "MIP"} => Body(q)
           /\ Head(q).code = "AE" => Ending(q)
           /\ Head(q).code \in {"AI", "AD"} => Dropping(q)
           /\ Head(q).code = "GTC" => Turning(q)
           /\ Head(q).code = "MAA" => Confirming(q)
           /\ Head(q).code \in {"AIA", "ADA"} => Agreeing(q)
           /\ Head(q).code \in ClosingCode => ~Speaking(Tail(q))
           /\ Head(q).code \in ReplyCode => ~Replying(Tail(q))
  <1> DEFINE r == Tail(q)
  <1>1. /\ DOMAIN r = 1 .. Len(q) - 1 /\ DOMAIN q = 1 .. Len(q)
        /\ \A i \in 1 .. Len(q) - 1 : r[i] = q[i + 1]
        /\ Head(q) = q[1]
        /\ Len(q) \in Nat \ {0}
    OBVIOUS
  <1>2. \A codes : Carries(q, codes) <=> Head(q).code \in codes \/ Carries(r, codes)
    BY TailCarries
  <1> HIDE DEF r
  <1>3. Adds(q, r, "none")
    BY <1>2 DEF Adds, Body, Ending, Dropping, Turning, Confirming, Agreeing
  <1>4. /\ Head(q).code \in {"AS", "DT", "MIP"} => Body(q)
        /\ Head(q).code = "AE" => Ending(q)
        /\ Head(q).code \in {"AI", "AD"} => Dropping(q)
        /\ Head(q).code = "GTC" => Turning(q)
        /\ Head(q).code = "MAA" => Confirming(q)
        /\ Head(q).code \in {"AIA", "ADA"} => Agreeing(q)
    BY <1>2 DEF Body, Ending, Dropping, Turning, Confirming, Agreeing
  <1>5. ASSUME NEW i \in DOMAIN r
        PROVE  /\ i + 1 \in DOMAIN q /\ r[i] = q[i + 1] /\ i \in Nat
               /\ 1 \in DOMAIN q /\ 1 < i + 1 /\ q[1] = Head(q)
    BY <1>1
  <1>6. Head(q).code \in ClosingCode => \A i \in DOMAIN r : r[i].code \notin SpeakingCode
    BY <1>5 DEF QueueOK
  <1>7. Head(q).code \in ReplyCode => \A i \in DOMAIN r : r[i].code \notin ReplyCode
    BY <1>5 DEF QueueOK
  <1>8. /\ Head(q).code \in ClosingCode => ~Speaking(r)
        /\ Head(q).code \in ReplyCode => ~Replying(r)
    BY <1>6, <1>7
    DEF Speaking, Body, Ending, Dropping, Turning, Replying, Confirming, Agreeing,
        Carries, SpeakingCode, ClosingCode, ReplyCode
  <1>9. QueueOK(r)
    <2>1. \A i, j \in DOMAIN r : i < j => i + 1 < j + 1
      BY <1>5
    <2>2. \A i \in DOMAIN r : ~r[i].expd
      BY <1>5 DEF QueueOK
    <2>3. \A i, j \in DOMAIN r :
            i < j /\ r[i].code \in ClosingCode => r[j].code \notin SpeakingCode
      BY <1>5, <2>1 DEF QueueOK
    <2>4. \A i, j \in DOMAIN r :
            i < j /\ r[i].code \in ReplyCode => r[j].code \notin ReplyCode
      BY <1>5, <2>1 DEF QueueOK
    <2>5. Turning(r) => ~Body(r) /\ ~Ending(r) /\ ~Dropping(r)
      BY <1>3 DEF Adds, QueueOK
    <2> QED
      BY <2>2, <2>3, <2>4, <2>5 DEF QueueOK
  <1> QED
    BY <1>3, <1>4, <1>8, <1>9 DEF r

-----------------------------------------------------------------------------
(* The inductive invariant.                                                *)

Answer == {"end_resp", "intr_resp", "disc_resp"}

SB(s, flag) == flag \in sb[s].sb_flags

\* One end by itself: its association block, its thread and its session.
SideOK(s) ==
    /\ Has(s, "ACB_CONN") <=> SB(s, "SB_CONN")
    /\ ~SB(s, "SB_CONN") =>
         /\ acb[s].acb_flags = {} /\ acb[s].acb_len = 0
         /\ rts[s].call = "idle" /\ rts[s].do = "none"
    /\ SB(s, "SB_CONN") =>
         /\ sb[s].sb_requirements = RTS_MYREQUIRE /\ sb[s].sb_pr = "PR"
         /\ ~sb[s].sb_xspdu /\ sb[s].sb_spdu = << >>
         /\ sb[s].sb_owned = (IF Has(s, "ACB_TURN") THEN Tokens ELSE {})
         /\ rts[s].call \notin InTransferCall => rts[s].whole = << >>
    /\ Len(rts[s].whole) <= 1

\* The thread of rt2sstrans knows what it has asked of the session.
ThreadOK(s) ==
    /\ rts[s].call = "ack" =>
         /\ Has(s, "ACB_ACT")
         /\ \/ SB(s, "SB_MAP") /\ ~Has(s, "ACB_TIMER")
            \/ SB(s, "SB_AI") /\ Has(s, "ACB_TIMER")
    /\ SB(s, "SB_MAP") => rts[s].call = "ack"
    /\ SB(s, "SB_AI") => ~SB(s, "SB_MAP") /\ rts[s].call \in InTransferCall
    /\ rts[s].call \in InTransferCall /\ ~Has(s, "ACB_ACT") => ~SB(s, "SB_Vact")
    /\ rts[s].call = "end" => rts[s].left = 0 \/ SB(s, "SB_AI")
    /\ rts[s].do \in Answer \cup {"minor", "report"} => ~Has(s, "ACB_TURN")
    /\ rts[s].do \in {"discard", "interrupt"} => rts[s].call \in InTransferCall
    /\ Has(s, "ACB_TIMER") => rts[s].call = "ack"

\* Nothing has been received of a transfer that might still go on.
Held(s) == acb[s].acb_len = 0 /\ ~Receiving(s)

\* The end still takes every chunk it reads.
Fit(s) == ~SB(s, "SB_ED") /\ rts[s].do \notin {"report", "lose"}

\* The turn, between m and its peer p.
TurnOK(m, p) ==
    /\ ~(Has(m, "ACB_TURN") /\ Has(p, "ACB_TURN"))
    /\ Has(p, "ACB_TURN") => ~Speaking(net[p])
    /\ Turning(net[p]) =>
         /\ ~Has(m, "ACB_TURN") /\ ~Has(p, "ACB_TURN")
         /\ ~Speaking(net[m]) /\ mode.twa /\ Held(p)

\* The transfer of m to p: which step of it is on its way.
PhaseOK(m, p) ==
    /\ Has(m, "ACB_CONN") =>
         /\ ~SB(m, "SB_MAP") => /\ ~Ending(net[p]) /\ ~Confirming(net[m])
                                /\ rts[p].do # "end_resp"
         /\ ~SB(m, "SB_AI") => /\ ~Dropping(net[p]) /\ ~Agreeing(net[m])
                               /\ rts[p].do \notin {"intr_resp", "disc_resp"}
         /\ rts[m].call \notin InTransferCall =>
              /\ ~Body(net[p]) /\ ~Ending(net[p]) /\ ~Dropping(net[p])
              /\ Held(p)
    /\ rts[p].do \in Answer => ~Replying(net[m]) /\ ~Speaking(net[p])
    /\ Replying(net[m]) => ~Speaking(net[p]) /\ Held(p)
    /\ SB(p, "SB_ED") \/ rts[p].do = "report" =>
         /\ ~Replying(net[m])
         /\ Has(m, "ACB_CONN") => rts[m].call \in InTransferCall

\* The transfer of m to p: its chunks, and who knows of its end.
DataOK(m, p) ==
    /\ Has(m, "ACB_CONN") /\ ~SB(m, "SB_MAP") => delivered[p] = confirmed[m]
    /\ Ending(net[p]) \/ rts[p].do = "end_resp" =>
         /\ rts[m].whole # << >> /\ delivered[p] = confirmed[m]
         /\ Fit(p) => Chunks(net[p]) + acb[p].acb_len = rts[m].whole[1]
    /\ Sending(m) /\ ~SB(m, "SB_AI") /\ ~SB(m, "SB_MAP") =>
         (Has(p, "ACB_CONN") /\ Fit(p) =>
            rts[m].left + Chunks(net[p]) + acb[p].acb_len = rts[m].whole[1])
    /\ Confirming(net[m]) =>
         /\ rts[m].whole # << >>
         /\ delivered[p] = confirmed[m] \o rts[m].whole

PairOK(m, p) == TurnOK(m, p) /\ PhaseOK(m, p) /\ DataOK(m, p)

TransferInv ==
    \A s \in Side : /\ SideOK(s) /\ ThreadOK(s) /\ QueueOK(net[s])
                    /\ PairOK(s, Peer(s))

LEMMA Sides ==
    ASSUME NEW s \in Side
    PROVE  /\ Peer(s) \in Side /\ Peer(s) # s /\ Peer(Peer(s)) = s
           /\ S!Peer(s) = Peer(s) /\ s \in S!Side
           /\ \A r \in Side : r = s \/ r = Peer(s)
  BY DEF Side, Peer, S!Side, S!Peer

\* To show of a step of s that the invariant is kept, in both directions.
LEMMA BothWays ==
    ASSUME NEW s \in Side,
           SideOK(s)', ThreadOK(s)', QueueOK(net[s])',
           SideOK(Peer(s))', ThreadOK(Peer(s))', QueueOK(net[Peer(s)])',
           PairOK(s, Peer(s))', PairOK(Peer(s), s)'
    PROVE  TransferInv'
  <1>1. ASSUME NEW r \in Side
        PROVE  /\ SideOK(r)' /\ ThreadOK(r)' /\ QueueOK(net[r])'
               /\ PairOK(r, Peer(r))'
    <2>1. CASE r = s
      BY <2>1
    <2>2. CASE r = Peer(s)
      BY <2>2, Sides
    <2> QED
      BY <2>1, <2>2, Sides
  <1> QED
    BY <1>1 DEF TransferInv

-----------------------------------------------------------------------------
(* What a step of the session does to what the invariant speaks of.        *)

\* The block of s keeps what S-CONNECT agreed on and has these flags and
\* tokens; the peer's block is left alone.
Stores(s, flags, owned) ==
    /\ sb'[s].sb_flags = flags /\ sb'[s].sb_owned = owned
    /\ sb'[s].sb_requirements = sb[s].sb_requirements
    /\ sb'[s].sb_pr = sb[s].sb_pr /\ sb'[s].sb_xspdu = sb[s].sb_xspdu
    /\ sb'[s].sb_spdu = sb[s].sb_spdu
    /\ sb'[Peer(s)] = sb[Peer(s)]

\* An SPDU of this code is on its way to p, unless p is gone.
Grows(p, code) ==
    IF SB(p, "SB_CONN")
    THEN \E pkt \in S!Spdu : /\ pkt.code = code /\ ~pkt.expd
                             /\ net'[p] = Append(net[p], pkt)
    ELSE net'[p] = net[p]

\* The two kinds of step: s sends, or s reads the next SPDU.
Writes(s, code, flags, owned) ==
    /\ SB(s, "SB_CONN") /\ Stores(s, flags, owned)
    /\ net'[s] = net[s] /\ Grows(Peer(s), code)

Takes(s, flags, owned) ==
    /\ SB(s, "SB_CONN") /\ Stores(s, flags, owned)
    /\ net[s] # << >> /\ net'[s] = Tail(net[s])
    /\ net'[Peer(s)] = net[Peer(s)] \/ Grows(Peer(s), "GTA")

\* What may follow in a queue.
MayFollow(q, code) ==
    /\ code \in SpeakingCode => ~Ending(q) /\ ~Dropping(q) /\ ~Turning(q)
    /\ code \in ReplyCode => ~Replying(q)
    /\ code = "GTC" => ~Body(q)

LEMMA SessionTypes ==
    ASSUME S!Inv, NEW s \in Side
    PROVE  /\ sb[s] \in S!ssapblk /\ net[s] \in Seq(S!Spdu)
           /\ sb = [r \in Side |-> sb[r]] /\ net = [r \in Side |-> net[r]]
           /\ ~SB(s, "SB_CONN") => net[s] = << >> /\ sb[s].sb_flags = {} /\ ~inRelease[s]
           /\ DOMAIN sb = Side /\ DOMAIN net = Side
  <1>1. S!TypeOK /\ S!FreedIsGone
    BY DEF S!Inv
  <1>2. sb[s] \in S!ssapblk /\ net[s] \in Seq(S!Spdu)
    BY <1>1, SameSide DEF S!TypeOK
  <1>3. /\ sb = [r \in Side |-> sb[r]] /\ net = [r \in Side |-> net[r]]
        /\ DOMAIN sb = Side /\ DOMAIN net = Side
    BY <1>1, SameSide DEF S!TypeOK
  <1>4. ~SB(s, "SB_CONN") => net[s] = << >> /\ sb[s].sb_flags = {} /\ ~inRelease[s]
    BY <1>1, SameSide DEF S!FreedIsGone, S!Connected, SB, S!newsblk
  <1> QED
    BY <1>2, <1>3, <1>4

LEMMA GrowsKeeps ==
    ASSUME S!Inv, NEW p \in Side, QueueOK(net[p]), NEW code,
           Grows(p, code), MayFollow(net[p], code)
    PROVE  /\ QueueOK(net'[p]) /\ Adds(net[p], net'[p], code)
           /\ SB(p, "SB_CONN") =>
                Chunks(net'[p]) = Chunks(net[p]) + (IF code = "DT" THEN 1 ELSE 0)
           /\ code # "DT" => Chunks(net'[p]) = Chunks(net[p])
  <1>1. net[p] \in Seq(S!Spdu) /\ Chunks(net[p]) \in Nat
    BY SessionTypes, ChunkSet
  <1>2. CASE SB(p, "SB_CONN")
    <2>1. PICK pkt \in S!Spdu : /\ pkt.code = code /\ ~pkt.expd
                                /\ net'[p] = Append(net[p], pkt)
      BY <1>2 DEF Grows
    <2>2. QueueOK(Append(net[p], pkt)) /\ Adds(net[p], Append(net[p], pkt), pkt.code)
      BY <1>1, <2>1, AppendQueue DEF MayFollow
    <2>3. Chunks(Append(net[p], pkt)) = Chunks(net[p]) + (IF pkt.code = "DT" THEN 1 ELSE 0)
      BY <1>1, AppendChunks
    <2> QED
      BY <1>1, <2>1, <2>2, <2>3
  <1>3. CASE ~SB(p, "SB_CONN")
    BY <1>3 DEF Grows, Adds
  <1> QED
    BY <1>2, <1>3

LEMMA RequestWrites ==
    ASSUME S!Inv, NEW s \in Side, SB(s, "SB_CONN"), NEW b,
           b.sb_requirements = sb[s].sb_requirements, b.sb_pr = sb[s].sb_pr,
           b.sb_xspdu = sb[s].sb_xspdu, b.sb_spdu = sb[s].sb_spdu,
           NEW p \in S!Spdu, ~p.expd, S!Request(s, b, p)
    PROVE  Writes(s, p.code, b.sb_flags, b.sb_owned)
  <1> DEFINE o == Peer(s)
  <1>1. o \in Side /\ o # s /\ S!Peer(s) = o
    BY Sides
  <1>2. DOMAIN sb = Side /\ DOMAIN net = Side
    BY SessionTypes
  <1>3. /\ sb' = [sb EXCEPT ![s] = b]
        /\ net' = [net EXCEPT ![o] = S!Deliver(o, <<p>>)]
    BY <1>1 DEF S!Request, S!Update, S!SWriteRequestAux
  <1> HIDE DEF o
  <1>4. sb'[s] = b /\ sb'[o] = sb[o] /\ net'[s] = net[s] /\ net'[o] = S!Deliver(o, <<p>>)
    BY <1>1, <1>2, <1>3
  <1>5. net[o] \in Seq(S!Spdu) /\ (~SB(o, "SB_CONN") => net[o] = << >>)
    BY <1>1, SessionTypes
  <1>6. net[o] \o <<p>> = Append(net[o], p)
    BY <1>5
  <1>7. Grows(o, p.code)
    BY <1>4, <1>5, <1>6 DEF Grows, S!Deliver, S!Connected, SB
  <1> QED
    BY <1>4, <1>7 DEF Writes, Stores, o

\* The SPDUs that the session writes for an RTPM.
LEMMA SpdusWritten ==
    /\ \A code \in S!SpduCode \ {"PR"} :
         /\ S!newspkt(code) \in S!Spdu
         /\ S!newspkt(code).code = code /\ ~S!newspkt(code).expd
         /\ \A n \in Nat : LET p == [S!newspkt(code) EXCEPT !.serial = n] IN
              p \in S!Spdu /\ p.code = code /\ ~p.expd
    /\ LET p == [S!newspkt("PT") EXCEPT !.tokens = {"DAT"}] IN
         p \in S!Spdu /\ p.code = "PT" /\ ~p.expd
  <1>1. ASSUME NEW code \in S!SpduCode \ {"PR"}
        PROVE  /\ S!newspkt(code) \in S!Spdu
               /\ S!newspkt(code).code = code /\ ~S!newspkt(code).expd
    BY S!NewspktType, SessionConstants DEF S!newspkt
  <1>2. ASSUME NEW code \in S!SpduCode \ {"PR"}, NEW n \in Nat
        PROVE  LET p == [S!newspkt(code) EXCEPT !.serial = n] IN
                 p \in S!Spdu /\ p.code = code /\ ~p.expd
    BY <1>1, S!SerialSpdu, SessionConstants DEF S!newspkt
  <1>3. LET p == [S!newspkt("PT") EXCEPT !.tokens = {"DAT"}] IN
          p \in S!Spdu /\ p.code = "PT" /\ ~p.expd
    <2>1. "PT" \in S!SpduCode \ {"PR"} /\ {"DAT"} \in SUBSET S!Token
      BY DEF S!SpduCode, S!Token
    <2> QED
      BY <2>1, S!TokensSpdu, SessionConstants DEF S!newspkt
  <1> QED
    BY <1>1, <1>2, <1>3

\* ssapPsig refuses while a confirmation is awaited or an exception stands.
Open(s) == \A f \in {"SB_MAP", "SB_AI", "SB_ED"} : ~SB(s, f)

LEMMA DataWrites ==
    ASSUME S!Inv, NEW s \in Side, S!SDataRequest(s)
    PROVE  Open(s) /\ Writes(s, "DT", sb[s].sb_flags, sb[s].sb_owned)
  <1>1. SB(s, "SB_CONN") /\ Open(s) /\ S!Request(s, sb[s], S!newspkt("DT"))
    BY DEF S!SDataRequest, S!ssapPsig, S!Clear, SB, Open
  <1>2. "DT" \in S!SpduCode \ {"PR"}
    BY DEF S!SpduCode
  <1>3. S!newspkt("DT") \in S!Spdu /\ S!newspkt("DT").code = "DT" /\ ~S!newspkt("DT").expd
    BY <1>2, SpdusWritten
  <1> QED
    BY <1>1, <1>3, RequestWrites

LEMMA PleaseWrites ==
    ASSUME S!Inv, NEW s \in Side, S!SPTokenRequest(s, {"DAT"})
    PROVE  Open(s) /\ Writes(s, "PT", sb[s].sb_flags, sb[s].sb_owned)
  <1> DEFINE p == [S!newspkt("PT") EXCEPT !.tokens = {"DAT"}]
  <1>1. SB(s, "SB_CONN") /\ Open(s) /\ S!Request(s, sb[s], p)
    BY DEF S!SPTokenRequest, S!ssapPsig, S!Clear, SB, Open
  <1>2. p \in S!Spdu /\ p.code = "PT" /\ ~p.expd
    BY SpdusWritten
  <1> HIDE DEF p
  <1> QED
    BY <1>1, <1>2, RequestWrites

\* A request of s for which the session stores b and writes an SPDU p.
LEMMA BlockWrites ==
    ASSUME S!Inv, NEW s \in Side, SB(s, "SB_CONN"), NEW b, NEW p,
           NEW code \in S!SpduCode \ {"PR"}, NEW n \in Nat, NEW flags, NEW owned,
           p = S!newspkt(code) \/ p = [S!newspkt(code) EXCEPT !.serial = n],
           b.sb_requirements = sb[s].sb_requirements, b.sb_pr = sb[s].sb_pr,
           b.sb_xspdu = sb[s].sb_xspdu, b.sb_spdu = sb[s].sb_spdu,
           b.sb_flags = flags, b.sb_owned = owned, S!Request(s, b, p)
    PROVE  Writes(s, code, flags, owned)
  <1>1. p \in S!Spdu /\ p.code = code /\ ~p.expd
    BY SpdusWritten
  <1> QED
    BY <1>1, RequestWrites

LEMMA ControlWrites ==
    ASSUME S!Inv, NEW s \in Side, S!SGControlRequest(s)
    PROVE  /\ Open(s) /\ Writes(s, "GTC", sb[s].sb_flags \cup {"SB_GTC"}, {})
  <1> DEFINE b == [sb[s] EXCEPT !.sb_owned = {}, !.sb_flags = @ \cup {"SB_GTC"}]
  <1>1. SB(s, "SB_CONN") /\ Open(s) /\ S!Request(s, b, S!newspkt("GTC"))
    BY DEF S!SGControlRequest, S!ssapPsig, S!Clear, SB, Open
  <1>2. sb[s] \in S!ssapblk /\ "GTC" \in S!SpduCode \ {"PR"} /\ 0 \in Nat
    BY SessionTypes DEF S!SpduCode
  <1>3. /\ b.sb_requirements = sb[s].sb_requirements /\ b.sb_pr = sb[s].sb_pr
        /\ b.sb_xspdu = sb[s].sb_xspdu /\ b.sb_spdu = sb[s].sb_spdu
        /\ b.sb_flags = sb[s].sb_flags \cup {"SB_GTC"} /\ b.sb_owned = {}
    BY <1>2 DEF S!ssapblk
  <1> HIDE DEF b
  <1> QED
    BY <1>1, <1>2, <1>3, BlockWrites

LEMMA ReportWrites ==
    ASSUME S!Inv, NEW s \in Side, S!SUReportRequest(s)
    PROVE  Open(s) /\ Writes(s, "ED", sb[s].sb_flags \cup {"SB_ED"}, sb[s].sb_owned)
  <1> DEFINE b == [sb[s] EXCEPT !.sb_flags = @ \cup {"SB_ED"}]
  <1>1. SB(s, "SB_CONN") /\ Open(s) /\ S!Request(s, b, S!newspkt("ED"))
    BY DEF S!SUReportRequest, S!ssapPsig, S!Clear, SB, Open
  <1>2. sb[s] \in S!ssapblk /\ "ED" \in S!SpduCode \ {"PR"} /\ 0 \in Nat
    BY SessionTypes DEF S!SpduCode
  <1>3. /\ b.sb_requirements = sb[s].sb_requirements /\ b.sb_pr = sb[s].sb_pr
        /\ b.sb_xspdu = sb[s].sb_xspdu /\ b.sb_spdu = sb[s].sb_spdu
        /\ b.sb_flags = sb[s].sb_flags \cup {"SB_ED"} /\ b.sb_owned = sb[s].sb_owned
    BY <1>2 DEF S!ssapblk
  <1> HIDE DEF b
  <1> QED
    BY <1>1, <1>2, <1>3, BlockWrites

LEMMA StartWrites ==
    ASSUME S!Inv, NEW s \in Side, S!SActStartRequest(s)
    PROVE  /\ Open(s)
           /\ Writes(s, "AS", sb[s].sb_flags \cup {"SB_Vact"}, sb[s].sb_owned)
  <1> DEFINE b == S!Started(sb[s], 1)
  <1>1. SB(s, "SB_CONN") /\ Open(s) /\ S!Request(s, b, S!newspkt("AS"))
    BY DEF S!SActStartRequest, S!ssapPsig, S!Clear, SB, Open
  <1>2. sb[s] \in S!ssapblk /\ "AS" \in S!SpduCode \ {"PR"} /\ 0 \in Nat
    BY SessionTypes DEF S!SpduCode
  <1>3. /\ b.sb_requirements = sb[s].sb_requirements /\ b.sb_pr = sb[s].sb_pr
        /\ b.sb_xspdu = sb[s].sb_xspdu /\ b.sb_spdu = sb[s].sb_spdu
        /\ b.sb_flags = sb[s].sb_flags \cup {"SB_Vact"} /\ b.sb_owned = sb[s].sb_owned
    BY <1>2 DEF S!ssapblk, S!Started
  <1> HIDE DEF b
  <1> QED
    BY <1>1, <1>2, <1>3, BlockWrites

\* The requirements of the RTPM include ACTIVITY.
LEMMA Active ==
    ASSUME NEW s \in Side, SideOK(s), SB(s, "SB_CONN"), S!InActivity(sb[s])
    PROVE  SB(s, "SB_Vact")
  BY DEF SideOK, SB, S!InActivity, RTS_MYREQUIRE

LEMMA MinorWrites ==
    ASSUME S!Inv, NEW s \in Side, SideOK(s), S!SMinSyncRequest(s)
    PROVE  /\ Open(s) /\ SB(s, "SB_Vact")
           /\ Writes(s, "MIP", sb[s].sb_flags \ {"SB_Vsc"}, sb[s].sb_owned)
  <1> DEFINE b == S!IssuePoint(sb[s])
             p == [S!newspkt("MIP") EXCEPT !.serial = sb[s].sb_V_M]
  <1>1. /\ SB(s, "SB_CONN") /\ Open(s) /\ S!InActivity(sb[s])
        /\ S!Request(s, b, p)
    BY DEF S!SMinSyncRequest, S!ssapPsig, S!Clear, SB, Open
  <1>2. sb[s] \in S!ssapblk /\ "MIP" \in S!SpduCode \ {"PR"}
    BY SessionTypes DEF S!SpduCode
  <1>3. sb[s].sb_V_M \in Nat
    BY <1>2 DEF S!ssapblk
  <1>4. /\ b.sb_requirements = sb[s].sb_requirements /\ b.sb_pr = sb[s].sb_pr
        /\ b.sb_xspdu = sb[s].sb_xspdu /\ b.sb_spdu = sb[s].sb_spdu
        /\ b.sb_flags = sb[s].sb_flags \ {"SB_Vsc"} /\ b.sb_owned = sb[s].sb_owned
    BY <1>2 DEF S!ssapblk, S!IssuePoint
  <1>5. SB(s, "SB_Vact")
    BY <1>1, Active
  <1> HIDE DEF b
  <1>6. Writes(s, "MIP", sb[s].sb_flags \ {"SB_Vsc"}, sb[s].sb_owned)
    BY <1>1, <1>2, <1>3, <1>4, BlockWrites
  <1> QED
    BY <1>1, <1>5, <1>6

LEMMA PointWrites ==
    ASSUME S!Inv, NEW s \in Side, NEW ssn \in Nat, S!SMinSyncResponse(s, ssn)
    PROVE  Writes(s, "MIA", sb[s].sb_flags, sb[s].sb_owned)
  <1> DEFINE b == [sb[s] EXCEPT !.sb_V_A = ssn + 1]
             p == [S!newspkt("MIA") EXCEPT !.serial = ssn]
  <1>1. SB(s, "SB_CONN") /\ S!Request(s, b, p)
    BY DEF S!SMinSyncResponse, S!ssapPsig, S!Clear, SB
  <1>2. sb[s] \in S!ssapblk /\ "MIA" \in S!SpduCode \ {"PR"}
    BY SessionTypes DEF S!SpduCode
  <1>3. /\ b.sb_requirements = sb[s].sb_requirements /\ b.sb_pr = sb[s].sb_pr
        /\ b.sb_xspdu = sb[s].sb_xspdu /\ b.sb_spdu = sb[s].sb_spdu
        /\ b.sb_flags = sb[s].sb_flags /\ b.sb_owned = sb[s].sb_owned
    BY <1>2 DEF S!ssapblk
  <1> HIDE DEF b
  <1> QED
    BY <1>1, <1>2, <1>3, BlockWrites

LEMMA EndWrites ==
    ASSUME S!Inv, NEW s \in Side, SideOK(s), S!SActEndRequest(s)
    PROVE  /\ Open(s) /\ SB(s, "SB_Vact")
           /\ Writes(s, "AE",
                (((sb[s].sb_flags \cup {"SB_MAP"}) \ {"SB_Vsc"}) \cup {"SB_AE"})
                   \ {"SB_Vnextact"}, sb[s].sb_owned)
  <1> DEFINE f == (((sb[s].sb_flags \cup {"SB_MAP"}) \ {"SB_Vsc"}) \cup {"SB_AE"})
                     \ {"SB_Vnextact"}
             b == [S!IssuePoint(sb[s]) EXCEPT !.sb_flags = f]
             p == [S!newspkt("AE") EXCEPT !.serial = sb[s].sb_V_M]
  <1>1. /\ SB(s, "SB_CONN") /\ Open(s) /\ S!InActivity(sb[s])
        /\ S!Request(s, b, p)
    BY DEF S!SActEndRequest, S!SMajSyncRequestAux, S!ssapPsig, S!Clear, SB, Open
  <1>2. sb[s] \in S!ssapblk /\ "AE" \in S!SpduCode \ {"PR"}
    BY SessionTypes DEF S!SpduCode
  <1>3. sb[s].sb_V_M \in Nat
    BY <1>2 DEF S!ssapblk
  <1> HIDE DEF f
  <1>4. /\ b.sb_requirements = sb[s].sb_requirements /\ b.sb_pr = sb[s].sb_pr
        /\ b.sb_xspdu = sb[s].sb_xspdu /\ b.sb_spdu = sb[s].sb_spdu
        /\ b.sb_flags = f /\ b.sb_owned = sb[s].sb_owned
    BY <1>2 DEF S!ssapblk, S!IssuePoint
  <1>5. SB(s, "SB_Vact")
    BY <1>1, Active
  <1> HIDE DEF b
  <1>6. Writes(s, "AE", f, sb[s].sb_owned)
    BY <1>1, <1>2, <1>3, <1>4, BlockWrites
  <1> QED
    BY <1>1, <1>5, <1>6 DEF f

LEMMA DropWrites ==
    ASSUME S!Inv, NEW s \in Side, S!SActDiscRequest(s) \/ S!SActIntrRequest(s)
    PROVE  /\ Open(s) /\ SB(s, "SB_Vact")
           /\ \E code \in {"AI", "AD"} :
                Writes(s, code, (sb[s].sb_flags \cup {"SB_AI"}) \ {"SB_EDACK"},
                       sb[s].sb_owned)
  <1> DEFINE f == (sb[s].sb_flags \cup {"SB_AI"}) \ {"SB_EDACK"}
             b(op) == [sb[s] EXCEPT !.sb_rs = op, !.sb_flags = f]
  <1>1. PICK code \in {"AI", "AD"}, op \in {"INTR", "DISC"} :
          S!SActIntrRequestAux(s, code, op)
    BY DEF S!SActDiscRequest, S!SActIntrRequest
  <1>2. /\ SB(s, "SB_CONN") /\ Open(s) /\ SB(s, "SB_Vact")
        /\ S!Request(s, b(op), S!newspkt(code))
    BY <1>1 DEF S!SActIntrRequestAux, S!ssapXsig, S!Clear, SB, Open
  <1>3. sb[s] \in S!ssapblk /\ code \in S!SpduCode \ {"PR"} /\ 0 \in Nat
    BY SessionTypes DEF S!SpduCode
  <1> HIDE DEF f
  <1>4. /\ b(op).sb_requirements = sb[s].sb_requirements /\ b(op).sb_pr = sb[s].sb_pr
        /\ b(op).sb_xspdu = sb[s].sb_xspdu /\ b(op).sb_spdu = sb[s].sb_spdu
        /\ b(op).sb_flags = f /\ b(op).sb_owned = sb[s].sb_owned
    BY <1>3 DEF S!ssapblk
  <1> HIDE DEF b
  <1>5. Writes(s, code, f, sb[s].sb_owned)
    BY <1>2, <1>3, <1>4, BlockWrites
  <1> QED
    BY <1>2, <1>5 DEF f

LEMMA AgreeWrites ==
    ASSUME S!Inv, NEW s \in Side, S!SActDiscResponse(s) \/ S!SActIntrResponse(s)
    PROVE  /\ ~SB(s, "SB_ED")
           /\ \E code \in {"AIA", "ADA"} :
                Writes(s, code, sb[s].sb_flags \ {"SB_AIA", "SB_Vact"}, {})
  <1> DEFINE f == sb[s].sb_flags \ {"SB_AIA", "SB_Vact"}
             b == [sb[s] EXCEPT !.sb_owned = {}, !.sb_flags = f]
  <1>1. PICK code \in {"AIA", "ADA"} : S!SActIntrResponseAux(s, code)
    BY DEF S!SActDiscResponse, S!SActIntrResponse
  <1>2. /\ SB(s, "SB_CONN") /\ ~SB(s, "SB_ED")
        /\ S!Request(s, b, S!newspkt(code))
    BY <1>1 DEF S!SActIntrResponseAux, S!ssapAsig, S!Clear, SB
  <1>3. sb[s] \in S!ssapblk /\ code \in S!SpduCode \ {"PR"} /\ 0 \in Nat
    BY SessionTypes DEF S!SpduCode
  <1> HIDE DEF f
  <1>4. /\ b.sb_requirements = sb[s].sb_requirements /\ b.sb_pr = sb[s].sb_pr
        /\ b.sb_xspdu = sb[s].sb_xspdu /\ b.sb_spdu = sb[s].sb_spdu
        /\ b.sb_flags = f /\ b.sb_owned = {}
    BY <1>3 DEF S!ssapblk
  <1> HIDE DEF b
  <1>5. Writes(s, code, f, {})
    BY <1>2, <1>3, <1>4, BlockWrites
  <1> QED
    BY <1>2, <1>5 DEF f

LEMMA ConfirmWrites ==
    ASSUME S!Inv, NEW s \in Side, S!SMajSyncResponseAux(s)
    PROVE  /\ Open(s)
           /\ Writes(s, "MAA", S!NextAct(sb[s]) \ {"SB_MAA", "SB_AE"}, sb[s].sb_owned)
  <1> DEFINE f == S!NextAct(sb[s]) \ {"SB_MAA", "SB_AE"}
             n == sb[s].sb_V_M
             b == [sb[s] EXCEPT !.sb_V_A = n, !.sb_V_R = n, !.sb_flags = f]
             p == [S!newspkt("MAA") EXCEPT !.serial = n - 1]
  <1>1. SB(s, "SB_CONN") /\ Open(s) /\ n > 0 /\ S!Request(s, b, p)
    BY DEF S!SMajSyncResponseAux, S!MajorResponder, S!ssapPsig, S!Clear, SB, Open
  <1>2. sb[s] \in S!ssapblk /\ "MAA" \in S!SpduCode \ {"PR"}
    BY SessionTypes DEF S!SpduCode
  <1>3. n - 1 \in Nat
    BY <1>1, <1>2 DEF S!ssapblk
  <1> HIDE DEF f
  <1>4. /\ b.sb_requirements = sb[s].sb_requirements /\ b.sb_pr = sb[s].sb_pr
        /\ b.sb_xspdu = sb[s].sb_xspdu /\ b.sb_spdu = sb[s].sb_spdu
        /\ b.sb_flags = f /\ b.sb_owned = sb[s].sb_owned
    BY <1>2 DEF S!ssapblk
  <1> HIDE DEF b
  <1>5. Writes(s, "MAA", f, sb[s].sb_owned)
    BY <1>1, <1>2, <1>3, <1>4, BlockWrites
  <1> QED
    BY <1>1, <1>5 DEF f

LEMMA FinishWrites ==
    ASSUME S!Inv, NEW s \in Side, S!SRelRequest(s)
    PROVE  Writes(s, "FN", sb[s].sb_flags, sb[s].sb_owned)
  <1>1. SB(s, "SB_CONN")
    BY DEF S!SRelRequest, S!ssapPsig, S!Clear, SB
  <1>2. "FN" \in S!SpduCode \ {"PR"}
    BY DEF S!SpduCode
  <1>3. S!newspkt("FN") \in S!Spdu /\ S!newspkt("FN").code = "FN" /\ ~S!newspkt("FN").expd
    BY <1>2, SpdusWritten
  <1> DEFINE o == Peer(s)
             p == S!newspkt("FN")
  <1>4. o \in Side /\ o # s /\ S!Peer(s) = o
    BY Sides
  <1>5. DOMAIN sb = Side /\ DOMAIN net = Side
    BY SessionTypes
  <1>6. /\ sb' = [sb EXCEPT ![s] = sb[s]]
        /\ net' = [net EXCEPT ![o] = S!Deliver(o, <<p>>)]
    BY <1>4 DEF S!SRelRequest, S!Update
  <1> HIDE DEF o, p
  <1>7. sb'[s] = sb[s] /\ sb'[o] = sb[o] /\ net'[s] = net[s] /\ net'[o] = S!Deliver(o, <<p>>)
    BY <1>4, <1>5, <1>6
  <1>8. net[o] \in Seq(S!Spdu) /\ (~SB(o, "SB_CONN") => net[o] = << >>)
    BY <1>4, SessionTypes
  <1>9. p \in S!Spdu /\ p.code = "FN" /\ ~p.expd
    BY <1>3 DEF p
  <1>10. net[o] \o <<p>> = Append(net[o], p)
    BY <1>8, <1>9
  <1>11. Grows(o, "FN")
    BY <1>7, <1>8, <1>9, <1>10 DEF Grows, S!Deliver, S!Connected, SB
  <1> QED
    BY <1>1, <1>7, <1>11 DEF Writes, Stores, o

-----------------------------------------------------------------------------
(* Reading: without expedited data, preparation or an SPDU put back, what  *)
(* is read is the head of the queue, or a T-DISCONNECT.                    *)

LEMMA RemoveFirst ==
    ASSUME NEW T, NEW q \in Seq(T), q # << >>
    PROVE  S!RemoveAt(q, 1) = Tail(q)
  <1>1. SubSeq(q, 1, 1 - 1) = << >>
    OBVIOUS
  <1>2. SubSeq(q, 1 + 1, Len(q)) = Tail(q)
    OBVIOUS
  <1>3. Tail(q) \in Seq(T)
    OBVIOUS
  <1>4. << >> \o Tail(q) = Tail(q)
    BY <1>3
  <1> QED
    BY <1>1, <1>2, <1>4 DEF S!RemoveAt

LEMMA ReadsHead ==
    ASSUME S!Inv, NEW s \in Side, SideOK(s), QueueOK(net[s]), SB(s, "SB_CONN"),
           NEW in \in S!sb2spkt(s), in.p.code # "TDISC"
    PROVE  /\ net[s] # << >>
           /\ in = [p |-> Head(net[s]), b |-> sb[s], q |-> Tail(net[s])]
  <1>1. net[s] \in Seq(S!Spdu)
    BY SessionTypes
  <1>2. ~sb[s].sb_xspdu /\ sb[s].sb_spdu = << >>
    BY DEF SideOK
  <1>3. PICK i \in S!Arrivals(net[s]) :
          in = [p |-> net[s][i], b |-> sb[s], q |-> S!RemoveAt(net[s], i)]
    BY <1>2 DEF S!sb2spkt
  <1>4. i \in DOMAIN net[s] /\ net[s][i].code # "TDISC"
    BY <1>1, <1>3 DEF S!Arrivals
  <1>5. i = 1
    BY <1>4 DEF S!Arrivals, QueueOK
  <1>6. net[s] # << >> /\ net[s][1] = Head(net[s])
    BY <1>1, <1>4, <1>5
  <1> QED
    BY <1>1, <1>3, <1>5, <1>6, RemoveFirst

LEMMA ReceivesHead ==
    ASSUME S!Inv, NEW s \in Side, SideOK(s), QueueOK(net[s]), SB(s, "SB_CONN"),
           NEW codes, "TDISC" \notin codes, NEW in \in S!Received(s, codes)
    PROVE  /\ net[s] # << >> /\ Head(net[s]).code \in codes
           /\ in.p = Head(net[s]) /\ in.b = sb[s] /\ in.q = Tail(net[s])
           /\ ~S!Ignored(sb[s], Head(net[s]))
  <1>1. PICK i \in S!sb2spkt(s) : /\ in = [i EXCEPT !.b = S!Prepared(i.b, i.p)]
                                  /\ i.p.code \in codes /\ ~S!Ignored(i.b, i.p)
    BY DEF S!Received
  <1>2. /\ net[s] # << >>
        /\ i = [p |-> Head(net[s]), b |-> sb[s], q |-> Tail(net[s])]
    BY <1>1, ReadsHead
  <1>3. S!Prepared(sb[s], Head(net[s])) = sb[s]
    BY DEF S!Prepared, S!Ends, SideOK
  <1> QED
    BY <1>1, <1>2, <1>3

LEMMA AcceptTakes ==
    ASSUME S!Inv, NEW s \in Side, SB(s, "SB_CONN"), net[s] # << >>,
           NEW in, in.q = Tail(net[s]), NEW b, NEW flags, NEW owned,
           b.sb_requirements = sb[s].sb_requirements, b.sb_pr = sb[s].sb_pr,
           b.sb_xspdu = sb[s].sb_xspdu, b.sb_spdu = sb[s].sb_spdu,
           b.sb_flags = flags, b.sb_owned = owned,
           S!Accept(s, in, b, << >>) \/ S!Accept(s, in, b, <<S!newspkt("GTA")>>)
    PROVE  Takes(s, flags, owned)
  <1> DEFINE o == Peer(s)
             p == S!newspkt("GTA")
  <1>1. o \in Side /\ o # s /\ S!Peer(s) = o
    BY Sides
  <1>2. DOMAIN sb = Side /\ DOMAIN net = Side
    BY SessionTypes
  <1>3. "GTA" \in S!SpduCode \ {"PR"}
    BY DEF S!SpduCode
  <1>4. p \in S!Spdu /\ p.code = "GTA" /\ ~p.expd
    BY <1>3, SpdusWritten
  <1> HIDE DEF o, p
  <1>5. /\ sb'[s] = b /\ sb'[o] = sb[o] /\ net'[s] = Tail(net[s])
        /\ net'[o] \in {S!Deliver(o, << >>), S!Deliver(o, <<p>>)}
    BY <1>1, <1>2 DEF S!Accept, p
  <1>6. net[o] \in Seq(S!Spdu) /\ (~SB(o, "SB_CONN") => net[o] = << >>)
    BY <1>1, SessionTypes
  <1>7. net[o] \o << >> = net[o] /\ net[o] \o <<p>> = Append(net[o], p)
    BY <1>4, <1>6
  <1>8. S!Deliver(o, << >>) = net[o]
    BY <1>6, <1>7 DEF S!Deliver, S!Connected, SB
  <1>9. net'[o] = S!Deliver(o, <<p>>) => Grows(o, "GTA")
    BY <1>4, <1>6, <1>7 DEF Grows, S!Deliver, S!Connected, SB
  <1> QED
    BY <1>5, <1>8, <1>9 DEF Takes, Stores, o

\* The block that a read leaves behind, when only these two fields change.
Stored(s, b, flags, owned) ==
    /\ b.sb_requirements = sb[s].sb_requirements /\ b.sb_pr = sb[s].sb_pr
    /\ b.sb_xspdu = sb[s].sb_xspdu /\ b.sb_spdu = sb[s].sb_spdu
    /\ b.sb_flags = flags /\ b.sb_owned = owned

\* The reads of an RTPM, and their effect.
LEMMA ReadTakes ==
    ASSUME S!Inv, NEW s \in Side, SideOK(s), QueueOK(net[s])
    PROVE  LET F == sb[s].sb_flags
               O == sb[s].sb_owned
               code == Head(net[s]).code IN
           /\ S!ReadDT(s) => Takes(s, F, O)
           /\ S!ReadGTC(s) => Takes(s, F, Tokens)
           /\ S!ReadGTA(s) => Takes(s, F \ {"SB_GTC"}, O) /\ code = "GTA"
           /\ S!ReadMIP(s) => Takes(s, F \cup {"SB_Vsc"}, O)
           /\ S!ReadMIA(s) => Takes(s, F, O)
           /\ S!ReadAS(s) => Takes(s, F \cup {"SB_Vact"}, O)
           /\ S!ReadAE(s) => Takes(s, (F \ {"SB_Vnextact"}) \cup {"SB_MAA", "SB_AE"}, O)
           /\ S!ReadMAA(s) => Takes(s, S!NextAct(sb[s]) \ {"SB_MAP", "SB_AE"}, O)
           /\ S!ReadAI(s) => Takes(s, (F \ {"SB_RS", "SB_RA"}) \cup {"SB_AIA"}, O)
           /\ S!ReadAIA(s) => Takes(s, F \ {"SB_AI", "SB_Vact"}, Tokens)
           /\ S!ReadFN(s) => Takes(s, F \cup {"SB_FINN"}, O)
           /\ S!ReadED(s) => Takes(s, F, O) \/ Takes(s, F \cup {"SB_EDACK"}, O)
  <1> DEFINE F == sb[s].sb_flags
             O == sb[s].sb_owned
  <1>1. sb[s] \in S!ssapblk
    BY SessionTypes
  <1>2. ASSUME SB(s, "SB_CONN"), NEW codes, "TDISC" \notin codes,
               NEW in \in S!Received(s, codes), NEW b, NEW flags, NEW owned,
               Stored(s, b, flags, owned),
               S!Accept(s, in, b, << >>) \/ S!Accept(s, in, b, <<S!newspkt("GTA")>>)
        PROVE  Takes(s, flags, owned) /\ Head(net[s]).code \in codes
    <2>1. net[s] # << >> /\ in.q = Tail(net[s]) /\ Head(net[s]).code \in codes
      BY <1>2, ReceivesHead
    <2> QED
      BY <1>2, <2>1, AcceptTakes DEF Stored
  <1>3. ASSUME SB(s, "SB_CONN"), NEW codes, "TDISC" \notin codes,
               NEW in \in S!Received(s, codes)
        PROVE  in.b = sb[s]
    BY <1>3, ReceivesHead
  <1>4. S!Reads(s) => SB(s, "SB_CONN")
    BY DEF S!Reads, S!Connected, SB
  <1>5. SB(s, "SB_CONN") => S!Available(sb[s].sb_requirements) = Tokens
    BY DEF SideOK, Tokens, S!Available, Available
  <1>6. ASSUME S!ReadDT(s) PROVE Takes(s, F, O)
    <2>1. PICK in \in S!Received(s, {"DT", "TD", "PT"}) : S!Accept(s, in, in.b, << >>)
      BY <1>6 DEF S!ReadDT
    <2> QED
      BY <1>2, <1>3, <1>4, <1>6, <2>1 DEF S!ReadDT, Stored
  <1>7. ASSUME S!ReadGTC(s) PROVE Takes(s, F, Tokens)
    <2>1. PICK in \in S!Received(s, {"GTC"}) :
            S!Accept(s, in, [in.b EXCEPT !.sb_owned = S!Available(in.b.sb_requirements)],
                     <<S!newspkt("GTA")>>)
      BY <1>7 DEF S!ReadGTC
    <2>2. SB(s, "SB_CONN") /\ in.b = sb[s]
      BY <1>3, <1>4, <1>7 DEF S!ReadGTC
    <2> DEFINE b == [sb[s] EXCEPT !.sb_owned = Tokens]
    <2>3. Stored(s, b, F, Tokens)
      BY <1>1 DEF S!ssapblk, Stored
    <2> HIDE DEF b
    <2> QED
      BY <1>2, <1>5, <2>1, <2>2, <2>3 DEF b
  <1>8. ASSUME NEW code \in {"GTA", "FN", "ED"}, NEW gone, NEW come,
               SB(s, "SB_CONN"), NEW in \in S!Received(s, {code}),
               S!AcceptFlags(s, in, gone, come)
        PROVE  Takes(s, (F \ gone) \cup come, O) /\ Head(net[s]).code = code
    <2> DEFINE b == [sb[s] EXCEPT !.sb_flags = (@ \ gone) \cup come]
    <2>1. S!Accept(s, in, b, << >>)
      BY <1>3, <1>8 DEF S!AcceptFlags
    <2>2. Stored(s, b, (F \ gone) \cup come, O)
      BY <1>1 DEF S!ssapblk, Stored
    <2> HIDE DEF b
    <2> QED
      BY <1>2, <1>8, <2>1, <2>2
  <1>9. ASSUME S!ReadGTA(s) PROVE Takes(s, F \ {"SB_GTC"}, O) /\ Head(net[s]).code = "GTA"
    <2>1. (F \ {"SB_GTC"}) \cup {} = F \ {"SB_GTC"}
      OBVIOUS
    <2> QED
      BY <1>4, <1>8, <1>9, <2>1 DEF S!ReadGTA
  <1>10. ASSUME S!ReadFN(s) PROVE Takes(s, F \cup {"SB_FINN"}, O)
    <2>1. (F \ {}) \cup {"SB_FINN"} = F \cup {"SB_FINN"}
      OBVIOUS
    <2> QED
      BY <1>4, <1>8, <1>10, <2>1 DEF S!ReadFN
  <1>11. ASSUME S!ReadED(s) PROVE Takes(s, F, O) \/ Takes(s, F \cup {"SB_EDACK"}, O)
    <2>1. (F \ {}) \cup {"SB_EDACK"} = F \cup {"SB_EDACK"} /\ (F \ {}) \cup {} = F
      OBVIOUS
    <2> QED
      BY <1>4, <1>8, <1>11, <2>1 DEF S!ReadED
  <1>12. ASSUME S!ReadMIP(s) PROVE Takes(s, F \cup {"SB_Vsc"}, O)
    <2> DEFINE b == [S!CountPoint(sb[s]) EXCEPT !.sb_flags = @ \cup {"SB_Vsc"}]
    <2>1. PICK in \in S!Received(s, {"MIP"}) : S!Accept(s, in, b, << >>)
      BY <1>3, <1>4, <1>12 DEF S!ReadMIP
    <2>2. Stored(s, b, F \cup {"SB_Vsc"}, O)
      BY <1>1 DEF S!ssapblk, S!CountPoint, Stored
    <2> HIDE DEF b
    <2> QED
      BY <1>2, <1>4, <1>12, <2>1, <2>2 DEF S!ReadMIP
  <1>13. ASSUME S!ReadMIA(s) PROVE Takes(s, F, O)
    <2>1. PICK in \in S!Received(s, {"MIA"}) :
            S!Accept(s, in, [sb[s] EXCEPT !.sb_V_A = in.p.serial], << >>)
      BY <1>3, <1>4, <1>13 DEF S!ReadMIA
    <2> DEFINE b == [sb[s] EXCEPT !.sb_V_A = in.p.serial]
    <2>2. Stored(s, b, F, O)
      BY <1>1 DEF S!ssapblk, Stored
    <2> HIDE DEF b
    <2> QED
      BY <1>2, <1>4, <1>13, <2>1, <2>2 DEF S!ReadMIA, b
  <1>14. ASSUME S!ReadAS(s) PROVE Takes(s, F \cup {"SB_Vact"}, O)
    <2> DEFINE b == S!Started(sb[s], 1)
    <2>1. PICK in \in S!Received(s, {"AS"}) : S!Accept(s, in, b, << >>)
      BY <1>3, <1>4, <1>14 DEF S!ReadAS
    <2>2. Stored(s, b, F \cup {"SB_Vact"}, O)
      BY <1>1 DEF S!ssapblk, S!Started, Stored
    <2> HIDE DEF b
    <2> QED
      BY <1>2, <1>4, <1>14, <2>1, <2>2 DEF S!ReadAS
  <1>15. ASSUME S!ReadAE(s)
         PROVE  Takes(s, (F \ {"SB_Vnextact"}) \cup {"SB_MAA", "SB_AE"}, O)
    <2> DEFINE f == (F \ {"SB_Vnextact"}) \cup {"SB_MAA", "SB_AE"}
               b == [S!CountPoint(sb[s]) EXCEPT
                       !.sb_flags = (@ \ {"SB_Vnextact"}) \cup {"SB_MAA", "SB_AE"}]
    <2>1. PICK in \in S!Received(s, {"AE"}) : S!Accept(s, in, b, << >>)
      BY <1>3, <1>4, <1>15 DEF S!ReadAE
    <2>2. Stored(s, b, f, O)
      BY <1>1 DEF S!ssapblk, S!CountPoint, Stored
    <2> HIDE DEF b, f
    <2>3. Takes(s, f, O)
      BY <1>2, <1>4, <1>15, <2>1, <2>2 DEF S!ReadAE
    <2> QED
      BY <2>3 DEF f
  <1>16. ASSUME S!ReadMAA(s) PROVE Takes(s, S!NextAct(sb[s]) \ {"SB_MAP", "SB_AE"}, O)
    <2> DEFINE f == S!NextAct(sb[s]) \ {"SB_MAP", "SB_AE"}
               b == [sb[s] EXCEPT !.sb_V_A = sb[s].sb_V_M, !.sb_V_R = sb[s].sb_V_M,
                                  !.sb_flags = f]
    <2>1. PICK in \in S!Received(s, {"MAA"}) : S!Accept(s, in, b, << >>)
      BY <1>3, <1>4, <1>16 DEF S!ReadMAA
    <2> HIDE DEF f
    <2>2. Stored(s, b, f, O)
      BY <1>1 DEF S!ssapblk, Stored
    <2> HIDE DEF b
    <2>3. Takes(s, f, O)
      BY <1>2, <1>4, <1>16, <2>1, <2>2 DEF S!ReadMAA
    <2> QED
      BY <2>3 DEF f
  <1>17. ASSUME S!ReadAI(s)
         PROVE  Takes(s, (F \ {"SB_RS", "SB_RA"}) \cup {"SB_AIA"}, O)
    <2> DEFINE f == (F \ {"SB_RS", "SB_RA"}) \cup {"SB_AIA"}
               b == [sb[s] EXCEPT !.sb_flags = f, !.sb_rs = "INTR"]
    <2>1. PICK in \in S!Received(s, {"AI", "AD"}) : S!Accept(s, in, b, << >>)
      BY <1>3, <1>4, <1>17 DEF S!ReadAI
    <2> HIDE DEF f
    <2>2. Stored(s, b, f, O)
      BY <1>1 DEF S!ssapblk, Stored
    <2> HIDE DEF b
    <2>3. Takes(s, f, O)
      BY <1>2, <1>4, <1>17, <2>1, <2>2 DEF S!ReadAI
    <2> QED
      BY <2>3 DEF f
  <1>18. ASSUME S!ReadAIA(s) PROVE Takes(s, F \ {"SB_AI", "SB_Vact"}, Tokens)
    <2> DEFINE f == F \ {"SB_AI", "SB_Vact"}
               b == [sb[s] EXCEPT !.sb_flags = f, !.sb_owned = Tokens]
    <2>1. SB(s, "SB_CONN")
      BY <1>4, <1>18 DEF S!ReadAIA
    <2>2. PICK in \in S!Received(s, {"AIA", "ADA"}) : S!Accept(s, in, b, << >>)
      BY <1>3, <1>5, <1>18, <2>1 DEF S!ReadAIA
    <2> HIDE DEF f
    <2>3. Stored(s, b, f, Tokens)
      BY <1>1 DEF S!ssapblk, Stored
    <2> HIDE DEF b
    <2>4. Takes(s, f, Tokens)
      BY <1>2, <2>1, <2>2, <2>3
    <2> QED
      BY <2>4 DEF f
  <1> QED
    BY <1>6, <1>7, <1>9, <1>10, <1>11, <1>12, <1>13, <1>14, <1>15, <1>16, <1>17,
       <1>18

\* What SReadRequest drops is no chunk, unless it has reported an exception.
LEMMA SpinTakes ==
    ASSUME S!Inv, NEW s \in Side, SideOK(s), QueueOK(net[s]), S!ReadSpin(s)
    PROVE  /\ Takes(s, sb[s].sb_flags, sb[s].sb_owned)
           /\ Head(net[s]).code = "DT" => SB(s, "SB_ED")
  <1>1. SB(s, "SB_CONN")
    BY DEF S!ReadSpin, S!Reads, S!Connected, SB
  <1>2. PICK in \in S!sb2spkt(s) :
          /\ in.p.code # "TDISC"
          /\ S!Discarded(s, in.b, in.p) \/ S!Ignored(in.b, in.p)
          /\ S!Accept(s, in, S!Prepared(in.b, in.p), << >>)
    BY DEF S!ReadSpin
  <1>3. /\ net[s] # << >>
        /\ in.p = Head(net[s]) /\ in.b = sb[s] /\ in.q = Tail(net[s])
    <2>1. /\ net[s] # << >>
          /\ in = [p |-> Head(net[s]), b |-> sb[s], q |-> Tail(net[s])]
      BY <1>1, <1>2, ReadsHead
    <2> QED
      BY <2>1
  <1>4. S!Prepared(sb[s], Head(net[s])) = sb[s]
    BY <1>1 DEF S!Prepared, S!Ends, SideOK
  <1>5. Takes(s, sb[s].sb_flags, sb[s].sb_owned)
    BY <1>1, <1>2, <1>3, <1>4, AcceptTakes
  <1>6. net[s] \in Seq(S!Spdu)
    BY SessionTypes
  <1>7. Head(net[s]) \in S!Spdu
    BY <1>3, <1>6
  <1>8. Head(net[s]).code \in S!SpduCode /\ sb[s].sb_pr = "PR"
    BY <1>1, <1>7 DEF S!Spdu, SideOK
  <1>9. ASSUME Head(net[s]).code = "DT" PROVE SB(s, "SB_ED")
    <2>1. ~S!Ignored(sb[s], Head(net[s]))
      BY <1>9 DEF S!Ignored
    <2>2. ~S!LosesCollision(s, sb[s], Head(net[s]))
      BY <1>9 DEF S!LosesCollision
    <2>3. S!Discarded(s, sb[s], Head(net[s]))
      BY <1>2, <1>3, <2>1
    <2>4. S!Passes("PR") = S!SpduCode
      BY DEF S!Passes
    <2> QED
      BY <1>8, <2>2, <2>3, <2>4 DEF S!Discarded, S!InException, SB
  <1> QED
    BY <1>5, <1>9

\* The block of s has gone; nothing of what matters was sent.
Frees(s) ==
    /\ sb'[s] = S!newsblk /\ sb'[Peer(s)] = sb[Peer(s)] /\ net'[s] = << >>
    /\ QueueOK(net'[Peer(s)]) /\ Adds(net[Peer(s)], net'[Peer(s)], "none")
    /\ Chunks(net'[Peer(s)]) = Chunks(net[Peer(s)])

\* T-DISCONNECT, AB and DN are of no matter.
LEMMA QuietAppend ==
    ASSUME NEW q \in Seq(S!Spdu), QueueOK(q), NEW p \in S!Spdu, ~p.expd,
           p.code \in {"TDISC", "AB", "DN"}
    PROVE  /\ Append(q, p) \in Seq(S!Spdu) /\ QueueOK(Append(q, p))
           /\ Adds(q, Append(q, p), "none") /\ Chunks(Append(q, p)) = Chunks(q)
  <1>1. Append(q, p) \in Seq(S!Spdu)
    OBVIOUS
  <1>2. /\ p.code \notin SpeakingCode /\ p.code \notin ReplyCode
        /\ p.code # "GTC" /\ p.code # "DT"
    BY DEF SpeakingCode, ClosingCode, ReplyCode
  <1>3. QueueOK(Append(q, p)) /\ Adds(q, Append(q, p), p.code)
    BY <1>2, AppendQueue
  <1>4. Chunks(Append(q, p)) = Chunks(q)
    <2>1. Chunks(q) \in Nat
      BY ChunkSet
    <2>2. Chunks(Append(q, p)) = Chunks(q) + (IF p.code = "DT" THEN 1 ELSE 0)
      BY AppendChunks
    <2> QED
      BY <1>2, <2>1, <2>2
  <1>5. Adds(q, Append(q, p), "none")
    BY <1>3 DEF Adds
  <1> QED
    BY <1>1, <1>3, <1>4, <1>5

LEMMA DisconnectSpdus ==
    /\ S!TDISC \in S!Spdu /\ S!TDISC.code = "TDISC" /\ ~S!TDISC.expd
    /\ S!AB \in S!Spdu /\ S!AB.code = "AB" /\ ~S!AB.expd
    /\ S!newspkt("DN") \in S!Spdu /\ S!newspkt("DN").code = "DN" /\ ~S!newspkt("DN").expd
  <1>1. {"TDISC", "AB", "DN"} \subseteq S!SpduCode \ {"PR"}
    BY DEF S!SpduCode
  <1>2. S!AB \in S!Spdu
    BY S!AbType, SessionConstants
  <1> QED
    BY <1>1, <1>2, SpdusWritten DEF S!TDISC, S!AB, S!newspkt

LEMMA FreesBlock ==
    ASSUME S!Inv, NEW s \in Side, QueueOK(net[Peer(s)]),
           NEW why, NEW q \in {<< >>, <<S!AB>>, <<S!newspkt("DN")>>},
           S!freesblk(s, why, q)
    PROVE  Frees(s)
  <1> DEFINE o == Peer(s)
             n == net[o]
  <1>1. o \in Side /\ o # s /\ S!Peer(s) = o
    BY Sides
  <1>2. DOMAIN sb = Side /\ DOMAIN net = Side
    BY SessionTypes
  <1>3. /\ sb' = [sb EXCEPT ![s] = S!newsblk]
        /\ net' = [net EXCEPT ![s] = << >>, ![o] = S!Deliver(o, Append(q, S!TDISC))]
    BY <1>1 DEF S!freesblk
  <1> HIDE DEF o
  <1>4. /\ sb'[s] = S!newsblk /\ sb'[o] = sb[o] /\ net'[s] = << >>
        /\ net'[o] = S!Deliver(o, Append(q, S!TDISC))
    BY <1>1, <1>2, <1>3
  <1>5. n \in Seq(S!Spdu) /\ (~SB(o, "SB_CONN") => n = << >>) /\ QueueOK(n)
    BY <1>1, SessionTypes DEF o
  <1> DEFINE good(r) == /\ QueueOK(r) /\ Adds(n, r, "none") /\ Chunks(r) = Chunks(n)
  <1>6. ~SB(o, "SB_CONN") => good(<< >>)
    BY <1>5 DEF Adds
  <1>7. good(Append(n, S!TDISC))
    BY <1>5, DisconnectSpdus, QuietAppend
  <1>8. ASSUME NEW p \in {S!AB, S!newspkt("DN")}
        PROVE  good(Append(Append(n, p), S!TDISC))
    <2>1. /\ Append(n, p) \in Seq(S!Spdu) /\ QueueOK(Append(n, p))
          /\ Adds(n, Append(n, p), "none") /\ Chunks(Append(n, p)) = Chunks(n)
      BY <1>5, DisconnectSpdus, QuietAppend
    <2> DEFINE m == Append(n, p)
    <2> HIDE DEF m
    <2>2. /\ QueueOK(Append(m, S!TDISC)) /\ Adds(m, Append(m, S!TDISC), "none")
          /\ Chunks(Append(m, S!TDISC)) = Chunks(m)
      BY <2>1, DisconnectSpdus, QuietAppend DEF m
    <2>3. Adds(n, Append(m, S!TDISC), "none")
      BY <2>1, <2>2 DEF Adds, m
    <2> QED
      BY <2>1, <2>2, <2>3 DEF m
  <1>9. n \o Append(<< >>, S!TDISC) = Append(n, S!TDISC)
    BY <1>5, DisconnectSpdus
  <1>10. ASSUME NEW p \in {S!AB, S!newspkt("DN")}
         PROVE  n \o Append(<<p>>, S!TDISC) = Append(Append(n, p), S!TDISC)
    <2>1. p \in S!Spdu /\ S!TDISC \in S!Spdu
      BY DisconnectSpdus
    <2> HIDE DEF n
    <2> QED
      BY <1>5, <2>1
  <1>11. SB(o, "SB_CONN") => good(n \o Append(q, S!TDISC))
    BY <1>7, <1>8, <1>9, <1>10
  <1>12. good(net'[o])
    BY <1>4, <1>6, <1>11 DEF S!Deliver, S!Connected, SB
  <1> QED
    BY <1>4, <1>12 DEF Frees, o

LEMMA TakesKeeps ==
    ASSUME S!Inv, NEW s \in Side, QueueOK(net[s]), QueueOK(net[Peer(s)]),
           NEW flags, NEW owned, Takes(s, flags, owned)
    PROVE  /\ QueueOK(net'[s]) /\ Adds(net[s], net'[s], "none")
           /\ QueueOK(net'[Peer(s)]) /\ Adds(net[Peer(s)], net'[Peer(s)], "none")
           /\ Chunks(net'[Peer(s)]) = Chunks(net[Peer(s)])
           /\ Chunks(net[s]) = Chunks(net'[s]) + (IF Head(net[s]).code = "DT" THEN 1 ELSE 0)
           /\ Chunks(net[s]) \in Nat /\ Chunks(net'[s]) \in Nat
           /\ Head(net[s]).code \in {"AS", "DT", "MIP"} => Body(net[s])
           /\ Head(net[s]).code = "AE" => Ending(net[s])
           /\ Head(net[s]).code \in {"AI", "AD"} => Dropping(net[s])
           /\ Head(net[s]).code = "GTC" => Turning(net[s])
           /\ Head(net[s]).code = "MAA" => Confirming(net[s])
           /\ Head(net[s]).code \in {"AIA", "ADA"} => Agreeing(net[s])
           /\ Head(net[s]).code \in ClosingCode => ~Speaking(net'[s])
           /\ Head(net[s]).code \in ReplyCode => ~Replying(net'[s])
  <1> DEFINE o == Peer(s)
  <1>1. o \in Side
    BY Sides
  <1>2. net[s] # << >> /\ net'[s] = Tail(net[s]) /\ (net'[o] = net[o] \/ Grows(o, "GTA"))
    BY DEF Takes
  <1>3. net[s] \in Seq(S!Spdu)
    BY SessionTypes
  <1>4. Tail(net[s]) \in Seq(S!Spdu)
    BY <1>2, <1>3
  <1> HIDE DEF o
  <1>5. /\ QueueOK(net'[o]) /\ Adds(net[o], net'[o], "none")
        /\ Chunks(net'[o]) = Chunks(net[o])
    <2>1. CASE net'[o] = net[o]
      BY <2>1 DEF Adds, o
    <2>2. CASE Grows(o, "GTA")
      <3>1. MayFollow(net[o], "GTA")
        BY DEF MayFollow, SpeakingCode, ClosingCode, ReplyCode
      <3>2. QueueOK(net[o])
        BY DEF o
      <3>3. /\ QueueOK(net'[o]) /\ Adds(net[o], net'[o], "GTA")
            /\ Chunks(net'[o]) = Chunks(net[o])
        BY <1>1, <2>2, <3>1, <3>2, GrowsKeeps
      <3> QED
        BY <3>3 DEF Adds
    <2> QED
      BY <1>2, <2>1, <2>2
  <1>6. Chunks(net[s]) = Chunks(net'[s]) + (IF Head(net[s]).code = "DT" THEN 1 ELSE 0)
    BY <1>2, <1>3, TailChunks
  <1>7. Chunks(net[s]) \in Nat /\ Chunks(net'[s]) \in Nat
    BY <1>2, <1>3, <1>4, ChunkSet
  <1> QED
    BY <1>2, <1>3, <1>5, <1>6, <1>7, TailQueue DEF o

-----------------------------------------------------------------------------
(* What a step of an RTPM does to its own state.                           *)

\* The thread of s takes a step: the peer's state stays.
Frame(s) ==
    /\ acb'[Peer(s)] = acb[Peer(s)] /\ rts'[Peer(s)] = rts[Peer(s)]
    /\ sb'[Peer(s)] = sb[Peer(s)]

LEMMA GoesEffect ==
    ASSUME RtLocal, NEW s \in Side, NEW a, NEW r, Goes(s, a, r)
    PROVE  /\ acb'[s] = a /\ rts'[s] = r
           /\ acb'[Peer(s)] = acb[Peer(s)] /\ rts'[Peer(s)] = rts[Peer(s)]
           /\ mode' = mode /\ delivered' = delivered /\ confirmed' = confirmed
  BY Sides DEF RtLocal, Goes

\* A step that is of no matter to the transfers: what s knows and what is
\* under way stays, but for SPDUs of no matter and for what is dropped.
Quiet(s) ==
    /\ Frame(s) /\ mode' = mode /\ delivered' = delivered /\ confirmed' = confirmed
    /\ \A f \in {"ACB_CONN", "ACB_TURN", "ACB_ACT"} : Has(s, f)' <=> Has(s, f)
    /\ \A f \in {"SB_MAP", "SB_AI", "SB_ED"} : SB(s, f)' <=> SB(s, f)
    /\ acb'[s].acb_len = acb[s].acb_len
    /\ rts'[s].call \in InTransferCall <=> rts[s].call \in InTransferCall
    /\ rts'[s].left = rts[s].left /\ rts'[s].whole = rts[s].whole
    /\ rts'[s].do \notin Answer \cup {"report"}
    /\ rts[s].do \notin {"report", "lose"}
    /\ Adds(net[s], net'[s], "none") /\ Adds(net[Peer(s)], net'[Peer(s)], "none")
    /\ Chunks(net'[Peer(s)]) = Chunks(net[Peer(s)])
    /\ Fit(s)' => Chunks(net'[s]) = Chunks(net[s])

LEMMA QuietKeeps ==
    ASSUME TransferInv, NEW s \in Side, Quiet(s)
    PROVE  PairOK(s, Peer(s))' /\ PairOK(Peer(s), s)'
  <1> DEFINE p == Peer(s)
  <1>1. PairOK(s, p) /\ PairOK(p, s)
    BY Sides DEF TransferInv
  <1> USE DEF Quiet, Frame, Adds, Has, SB, Held, Receiving, Sending, Fit,
              Speaking, Replying, Answer
  <1> HIDE DEF p
  <1>2. TurnOK(s, p)' /\ TurnOK(p, s)'
    BY <1>1 DEF PairOK, TurnOK, p
  <1>3. PhaseOK(s, p)'
    BY <1>1 DEF PairOK, PhaseOK, p
  <1>4. PhaseOK(p, s)'
    BY <1>1 DEF PairOK, PhaseOK, p
  <1>5. DataOK(s, p)'
    BY <1>1 DEF PairOK, DataOK, p
  <1>6. DataOK(p, s)'
    BY <1>1 DEF PairOK, DataOK, p
  <1> QED
    BY <1>2, <1>3, <1>4, <1>5, <1>6 DEF PairOK, p

-----------------------------------------------------------------------------
(* Every step of the RTPM keeps the invariant.                             *)

\* The invariant, as one end and its peer see it.
LEMMA Known ==
    ASSUME TransferInv, NEW s \in Side
    PROVE  /\ SideOK(s) /\ ThreadOK(s) /\ QueueOK(net[s])
           /\ SideOK(Peer(s)) /\ ThreadOK(Peer(s)) /\ QueueOK(net[Peer(s)])
           /\ PairOK(s, Peer(s)) /\ PairOK(Peer(s), s)
  BY Sides DEF TransferInv

\* What every step of s that sends an SPDU of this code has in common.
Written(s, code) ==
    /\ Frame(s) /\ SideOK(Peer(s))' /\ ThreadOK(Peer(s))'
    /\ QueueOK(net[s])' /\ QueueOK(net[Peer(s)])'
    /\ net'[s] = net[s] /\ Adds(net[Peer(s)], net'[Peer(s)], code)
    /\ Has(Peer(s), "ACB_CONN") =>
         Chunks(net'[Peer(s)]) = Chunks(net[Peer(s)]) + (IF code = "DT" THEN 1 ELSE 0)
    /\ code # "DT" => Chunks(net'[Peer(s)]) = Chunks(net[Peer(s)])
    /\ ~Has(Peer(s), "ACB_CONN") => net'[Peer(s)] = net[Peer(s)]

\* What a step of s leaves alone at the peer.
LEMMA PeerKeeps ==
    ASSUME TransferInv, NEW s \in Side, Frame(s)
    PROVE  SideOK(Peer(s))' /\ ThreadOK(Peer(s))'
  <1>1. SideOK(Peer(s)) /\ ThreadOK(Peer(s))
    BY Known
  <1> QED
    BY <1>1 DEF Frame, SideOK, ThreadOK, Has, SB

\* A step that sends what may follow what is already under way.
LEMMA WriteStep ==
    ASSUME RtInv, TransferInv, NEW s \in Side, NEW code, NEW flags, NEW owned,
           Writes(s, code, flags, owned), MayFollow(net[Peer(s)], code),
           acb'[Peer(s)] = acb[Peer(s)], rts'[Peer(s)] = rts[Peer(s)]
    PROVE  Written(s, code)
  <1>1. S!Inv /\ Peer(s) \in Side
    BY Sides DEF RtInv
  <1>2. QueueOK(net[s]) /\ QueueOK(net[Peer(s)]) /\ SideOK(Peer(s))
    BY Known
  <1>3. Frame(s) /\ net'[s] = net[s] /\ Grows(Peer(s), code)
    BY DEF Frame, Writes, Stores
  <1>4. /\ QueueOK(net'[Peer(s)]) /\ Adds(net[Peer(s)], net'[Peer(s)], code)
        /\ SB(Peer(s), "SB_CONN") =>
             Chunks(net'[Peer(s)]) =
               Chunks(net[Peer(s)]) + (IF code = "DT" THEN 1 ELSE 0)
        /\ code # "DT" => Chunks(net'[Peer(s)]) = Chunks(net[Peer(s)])
    BY <1>1, <1>2, <1>3, GrowsKeeps
  <1>5. Has(Peer(s), "ACB_CONN") <=> SB(Peer(s), "SB_CONN")
    BY <1>2 DEF SideOK
  <1>6. ~SB(Peer(s), "SB_CONN") => net'[Peer(s)] = net[Peer(s)]
    BY <1>3 DEF Grows
  <1> QED
    BY <1>2, <1>3, <1>4, <1>5, <1>6, PeerKeeps DEF Written

\* A step of s keeps the invariant if it keeps what s has a part in.
LEMMA Kept ==
    ASSUME NEW s \in Side, SideOK(s)', ThreadOK(s)',
           SideOK(Peer(s))', ThreadOK(Peer(s))',
           QueueOK(net[s])', QueueOK(net[Peer(s)])',
           TurnOK(s, Peer(s))', TurnOK(Peer(s), s)',
           PhaseOK(s, Peer(s))', PhaseOK(Peer(s), s)',
           DataOK(s, Peer(s))', DataOK(Peer(s), s)'
    PROVE  TransferInv'
  <1>1. PairOK(s, Peer(s))' /\ PairOK(Peer(s), s)'
    BY DEF PairOK
  <1> QED
    BY <1>1, BothWays

\* RT-TURN-GIVE: nothing of a transfer is under way when the turn is given.
LEMMA GiveInv ==
    ASSUME RtInv, TransferInv, NEW s \in Side, rt2ssgturn(s)
    PROVE  TransferInv'
  <1> DEFINE p == Peer(s)
  <1>1. /\ SideOK(s) /\ ThreadOK(s) /\ PairOK(s, p) /\ PairOK(p, s)
    BY Known
  <1>2. /\ rts[s].call = "idle" /\ rts[s].do = "none" /\ Has(s, "ACB_CONN")
        /\ Has(s, "ACB_TURN") /\ ~Has(s, "ACB_ACT") /\ mode.twa
        /\ Local(acb[s], rts[s])
    BY DEF rt2ssgturn, MayGive, rtsapPsig, At, RtInv, RtLocal
  <1>3. Open(s) /\ Writes(s, "GTC", sb[s].sb_flags \cup {"SB_GTC"}, {})
    BY ControlWrites DEF rt2ssgturn, RtInv
  <1> DEFINE a == Without(acb[s], {"ACB_TURN", "ACB_PLEASE"})
  <1>4. a.acb_flags = acb[s].acb_flags \ {"ACB_TURN", "ACB_PLEASE"} /\ a.acb_len = acb[s].acb_len
    BY <1>2 DEF Without, Local, assocblk
  <1>5. /\ acb'[s] = a /\ rts'[s] = rts[s] /\ acb'[p] = acb[p] /\ rts'[p] = rts[p]
        /\ mode' = mode /\ delivered' = delivered /\ confirmed' = confirmed
    BY GoesEffect DEF rt2ssgturn, RtInv
  <1> HIDE DEF a
  <1>16. \A f \in {"SB_MAP", "SB_AI", "SB_ED"} : ~SB(s, f)
    BY <1>3 DEF Open
  <1>6. /\ ~Body(net[p]) /\ ~Ending(net[p]) /\ ~Dropping(net[p]) /\ ~Turning(net[p])
        /\ Held(p)
    BY <1>1, <1>2 DEF PairOK, TurnOK, PhaseOK, InTransferCall
  <1>7. Written(s, "GTC")
    BY <1>3, <1>5, <1>6, WriteStep DEF MayFollow, SpeakingCode, ClosingCode, ReplyCode, p
  <1>8. /\ sb'[s].sb_flags = sb[s].sb_flags \cup {"SB_GTC"}
        /\ sb'[s].sb_owned = {}
        /\ sb'[s].sb_requirements = sb[s].sb_requirements
        /\ sb'[s].sb_pr = sb[s].sb_pr /\ sb'[s].sb_xspdu = sb[s].sb_xspdu
        /\ sb'[s].sb_spdu = sb[s].sb_spdu /\ SB(s, "SB_CONN")
    BY <1>3 DEF Writes, Stores
  <1>9. SideOK(s)'
    BY <1>1, <1>2, <1>4, <1>5, <1>8 DEF SideOK, Has, SB
  <1>10. ThreadOK(s)'
    BY <1>1, <1>2, <1>4, <1>5, <1>8 DEF ThreadOK, Has, SB, InTransferCall, Answer
  <1> USE DEF Adds, Has, SB, Held, Receiving, Sending, Fit,
              Speaking, Replying, Answer, Written, Frame, PairOK
  <1> HIDE DEF p
  <1>11. TurnOK(s, p)' /\ TurnOK(p, s)'
    BY <1>1, <1>2, <1>4, <1>5, <1>6, <1>7 DEF TurnOK, p
  <1>12. PhaseOK(s, p)'
    BY <1>1, <1>2, <1>4, <1>5, <1>6, <1>7, <1>8, <1>16 DEF PhaseOK, p
  <1>13. PhaseOK(p, s)'
    BY <1>1, <1>2, <1>4, <1>5, <1>6, <1>7, <1>8, <1>16 DEF PhaseOK, p
  <1>14. DataOK(s, p)'
    BY <1>1, <1>2, <1>4, <1>5, <1>6, <1>7, <1>8, <1>16 DEF DataOK, p
  <1>15. DataOK(p, s)'
    BY <1>1, <1>2, <1>4, <1>5, <1>6, <1>7, <1>8, <1>16 DEF DataOK, p
  <1> QED
    BY <1>7, <1>9, <1>10, <1>11, <1>12, <1>13, <1>14, <1>15, Kept DEF p


-----------------------------------------------------------------------------
(* The end with the turn speaks: AS, DT, MIP, AE, AI or AD.                *)

\* Before: s may say something of its transfer, nothing closes it.
LEMMA MaySpeak ==
    ASSUME TransferInv, NEW s \in Side, Open(s),
           Has(s, "ACB_CONN"), Has(s, "ACB_TURN")
    PROVE  LET p == Peer(s) IN
           /\ ~Ending(net[p]) /\ ~Dropping(net[p]) /\ ~Turning(net[p])
           /\ ~Replying(net[s]) /\ rts[p].do \notin Answer /\ ~Speaking(net[s])
           /\ ~Has(p, "ACB_TURN") /\ delivered[p] = confirmed[s]
           /\ rts[s].call \notin InTransferCall => ~Body(net[p]) /\ Held(p)
  <1> DEFINE p == Peer(s)
  <1>1. PairOK(s, p) /\ PairOK(p, s)
    BY Known
  <1> HIDE DEF p
  <1>2. ~SB(s, "SB_MAP") /\ ~SB(s, "SB_AI")
    BY DEF Open
  <1> QED
    BY <1>1, <1>2 DEF PairOK, TurnOK, PhaseOK, DataOK, Answer, Replying, p

\* The end with the turn says a word of its transfer.
LEMMA SpeaksInv ==
    ASSUME RtInv, TransferInv, NEW s \in Side, Open(s),
           Has(s, "ACB_CONN"), Has(s, "ACB_TURN"),
           NEW code \in {"AS", "DT", "MIP", "AE", "AI", "AD"}, Written(s, code),
           SideOK(s)', ThreadOK(s)',
           mode' = mode, delivered' = delivered, confirmed' = confirmed,
           Has(s, "ACB_CONN")', Has(s, "ACB_TURN")',
           acb'[s].acb_len = acb[s].acb_len, ~SB(s, "SB_ED")',
           rts'[s].call \in InTransferCall,
           rts'[s].do \notin Answer \cup {"report"},
           code = "AE" => /\ SB(s, "SB_MAP")' /\ rts'[s].whole # << >>
                          /\ Has(Peer(s), "ACB_CONN") /\ Fit(Peer(s)) =>
                               Chunks(net[Peer(s)]) + acb[Peer(s)].acb_len
                                 = rts'[s].whole[1],
           code \in {"AI", "AD"} => SB(s, "SB_AI")',
           SB(s, "SB_MAP")' \/ SB(s, "SB_AI")' \/ ~Sending(s)' \/
             (Has(Peer(s), "ACB_CONN") /\ Fit(Peer(s)) =>
                rts'[s].left + Chunks(net'[Peer(s)]) + acb[Peer(s)].acb_len
                  = rts'[s].whole[1])
    PROVE  TransferInv'
  <1> DEFINE p == Peer(s)
  <1>1. PairOK(s, p) /\ PairOK(p, s)
    BY Known
  <1>2. /\ ~Ending(net[p]) /\ ~Dropping(net[p]) /\ ~Turning(net[p])
        /\ ~Replying(net[s]) /\ rts[p].do \notin Answer /\ ~Speaking(net[s])
        /\ ~Has(p, "ACB_TURN") /\ delivered[p] = confirmed[s]
    BY MaySpeak
  <1> HIDE DEF p
  <1> USE DEF Adds, Has, SB, Held, Receiving, Sending, Fit,
              Speaking, Replying, Answer, Written, Frame, PairOK
  <1>3. TurnOK(s, p)' /\ TurnOK(p, s)'
    BY <1>1, <1>2 DEF TurnOK, p
  <1>4. PhaseOK(s, p)'
    BY <1>1, <1>2 DEF PhaseOK, p
  <1>5. PhaseOK(p, s)'
    BY <1>1, <1>2 DEF PhaseOK, p
  <1>6. DataOK(s, p)'
    BY <1>1, <1>2 DEF DataOK, p
  <1>7. DataOK(p, s)'
    BY <1>1, <1>2 DEF DataOK, p
  <1> QED
    BY <1>3, <1>4, <1>5, <1>6, <1>7, Kept DEF p

\* It may always do so: it has said no last word before.
LEMMA SpeakStep ==
    ASSUME RtInv, TransferInv, NEW s \in Side, Open(s),
           Has(s, "ACB_CONN"), Has(s, "ACB_TURN"),
           NEW code \in {"AS", "DT", "MIP", "AE", "AI", "AD"},
           NEW flags, NEW owned, Writes(s, code, flags, owned),
           acb'[Peer(s)] = acb[Peer(s)], rts'[Peer(s)] = rts[Peer(s)]
    PROVE  Written(s, code)
  <1>1. MayFollow(net[Peer(s)], code)
    BY MaySpeak DEF MayFollow, ReplyCode
  <1> QED
    BY <1>1, WriteStep

\* The tokens and the turn stay where they are.
LEMMA SideStays ==
    ASSUME NEW s \in Side, SideOK(s), SB(s, "SB_CONN"),
           NEW flags, Stores(s, flags, sb[s].sb_owned), "SB_CONN" \in flags,
           Has(s, "ACB_CONN")', Has(s, "ACB_TURN")' <=> Has(s, "ACB_TURN"),
           rts'[s].call \notin InTransferCall => rts'[s].whole = << >>,
           Len(rts'[s].whole) <= 1
    PROVE  SideOK(s)'
  BY DEF SideOK, Stores, Has, SB

\* What is known of a thread in rt2sstrans.
LEMMA TransFacts ==
    ASSUME RtInv, TransferInv, NEW s \in Side, rts[s].call \in InTransferCall
    PROVE  /\ Has(s, "ACB_CONN") /\ SB(s, "SB_CONN") /\ Has(s, "ACB_TURN")
           /\ rts[s].whole # << >> /\ Len(rts[s].whole) <= 1
           /\ rts[s] \in thread /\ acb[s] \in assocblk /\ rts[s].left \in Nat
           /\ rts[s].call \in {"first", "next", "window"} => rts[s].left > 0
           /\ acb[Peer(s)].acb_len \in Nat /\ Chunks(net[Peer(s)]) \in Nat
           /\ S!Inv /\ RtLocal /\ SideOK(s) /\ ThreadOK(s)
  <1>1. S!Inv /\ RtLocal /\ SideOK(s) /\ ThreadOK(s) /\ Peer(s) \in Side
    BY Known, Sides DEF RtInv
  <1>2. Local(acb[s], rts[s]) /\ Local(acb[Peer(s)], rts[Peer(s)])
    BY <1>1 DEF RtLocal
  <1>3. /\ rts[s] \in thread /\ acb[s] \in assocblk /\ rts[s].left \in Nat
        /\ acb[Peer(s)].acb_len \in Nat
    BY <1>2 DEF Local, thread, assocblk
  <1>4. Has(s, "ACB_TURN") /\ rts[s].whole # << >>
    BY <1>2 DEF Local, Has
  <1>5. Has(s, "ACB_CONN") /\ SB(s, "SB_CONN") /\ Len(rts[s].whole) <= 1
    BY <1>1, <1>4 DEF SideOK, Has
  <1>6. Chunks(net[Peer(s)]) \in Nat
    BY <1>1, SessionTypes, ChunkSet
  <1> QED
    BY <1>1, <1>2, <1>3, <1>4, <1>5, <1>6 DEF Local

\* A transfer begins; the other end has nothing of an earlier one.
LEMMA StartInv ==
    ASSUME RtInv, TransferInv, NEW s \in Side, TransStart(s)
    PROVE  TransferInv'
  <1> DEFINE p == Peer(s)
             c == IF mode.ckpoint
                  THEN [acb[s] EXCEPT !.acb_ssn = 0, !.acb_ack = 0] ELSE acb[s]
             a == With(c, {"ACB_ACT"})
  <1>1. /\ S!Inv /\ RtLocal /\ SideOK(s) /\ ThreadOK(s) /\ p \in Side
    BY Known, Sides DEF RtInv
  <1>2. /\ rts[s].call = "idle" /\ rts[s].do = "none" /\ Has(s, "ACB_CONN")
        /\ Has(s, "ACB_TURN") /\ acb[s] \in assocblk /\ rts[s] \in thread
        /\ acb[p].acb_len \in Nat
    BY <1>1 DEF TransStart, MayTransfer, rtsapPsig, At, RtLocal, Local, assocblk
  <1>3. Open(s) /\ Writes(s, "AS", sb[s].sb_flags \cup {"SB_Vact"}, sb[s].sb_owned)
    BY <1>1, StartWrites DEF TransStart
  <1>4. PICK n \in Sizes, secs \in TimeLimits :
          \E call \in AfterStart(n) :
            Goes(s, a, [rts[s] EXCEPT !.call = call, !.left = n, !.whole = <<n>>,
                                      !.secs = secs])
    BY DEF TransStart
  <1>5. PICK call \in AfterStart(n) :
          Goes(s, a, [rts[s] EXCEPT !.call = call, !.left = n, !.whole = <<n>>,
                                    !.secs = secs])
    BY <1>4
  <1>6. n \in Nat
    BY SizesType
  <1>7. call \in {"end", "first", "bad"} /\ (call = "end" => n = 0)
    BY <1>6 DEF AfterStart, Fails
  <1>8. a.acb_flags = acb[s].acb_flags \cup {"ACB_ACT"} /\ a.acb_len = acb[s].acb_len
    BY <1>2 DEF With, assocblk
  <1>9. /\ acb'[s] = a /\ acb'[p] = acb[p] /\ rts'[p] = rts[p]
        /\ mode' = mode /\ delivered' = delivered /\ confirmed' = confirmed
        /\ rts'[s] = [rts[s] EXCEPT !.call = call, !.left = n, !.whole = <<n>>,
                                    !.secs = secs]
    BY <1>1, <1>5, GoesEffect
  <1>10. /\ rts'[s].call = call /\ rts'[s].left = n /\ rts'[s].whole = <<n>>
         /\ rts'[s].do = "none"
    BY <1>2, <1>9 DEF thread
  <1>11. Len(<<n>>) = 1 /\ <<n>>[1] = n /\ <<n>> # << >>
    OBVIOUS
  <1> HIDE DEF a, p
  <1>12. Written(s, "AS")
    BY <1>2, <1>3, <1>9, SpeakStep DEF p
  <1>13. /\ Stores(s, sb[s].sb_flags \cup {"SB_Vact"}, sb[s].sb_owned) /\ SB(s, "SB_CONN")
    BY <1>3 DEF Writes
  <1>14. /\ Has(s, "ACB_CONN")' /\ Has(s, "ACB_TURN")' /\ Has(s, "ACB_ACT")'
         /\ Has(s, "ACB_TIMER")' <=> Has(s, "ACB_TIMER")
         /\ acb'[s].acb_len = acb[s].acb_len
    BY <1>2, <1>8, <1>9 DEF Has
  <1>15. \A f \in {"SB_MAP", "SB_AI", "SB_ED"} : ~SB(s, f)'
    BY <1>3, <1>13 DEF Open, Stores, SB
  <1>16. rts'[s].call \in InTransferCall
    BY <1>7, <1>10 DEF InTransferCall
  <1>17. SideOK(s)'
    <2>1. "SB_CONN" \in sb[s].sb_flags \cup {"SB_Vact"}
      BY <1>13 DEF SB
    <2>2. Len(rts'[s].whole) <= 1
      BY <1>10, <1>11
    <2>3. Has(s, "ACB_TURN")' <=> Has(s, "ACB_TURN")
      BY <1>2, <1>14
    <2> QED
      BY <1>1, <1>13, <1>14, <1>16, <2>1, <2>2, <2>3, SideStays
  <1>18. ThreadOK(s)'
    <2>1. ~Has(s, "ACB_TIMER")'
      BY <1>1, <1>2, <1>14 DEF ThreadOK
    <2> QED
      BY <1>7, <1>10, <1>14, <1>15, <2>1 DEF ThreadOK, Answer
  <1>19. Chunks(net[p]) = 0 /\ Held(p)
    <2>1. ~Body(net[p]) /\ Held(p)
      BY <1>2, <1>3, MaySpeak DEF InTransferCall, p
    <2>2. net[p] \in Seq(S!Spdu)
      BY <1>1, SessionTypes DEF p
    <2> QED
      BY <2>1, <2>2, ChunkSet
  <1>20. rts'[s].left + Chunks(net'[p]) + acb[p].acb_len = rts'[s].whole[1]
    BY <1>6, <1>10, <1>11, <1>12, <1>19 DEF Written, Held, p
  <1> QED
    BY <1>2, <1>3, <1>9, <1>10, <1>12, <1>14, <1>15, <1>16, <1>17, <1>18, <1>20,
       SpeaksInv DEF Answer, p

\* A chunk goes from those to send to those under way.
LEMMA ChunkInv ==
    ASSUME RtInv, TransferInv, NEW s \in Side, rts[s].call \in {"first", "window"},
           rts[s].do = "none", SendChunk(s)
    PROVE  TransferInv'
  <1> DEFINE p == Peer(s)
             n == rts[s].left - 1
  <1>1. rts[s].call \in InTransferCall
    BY DEF InTransferCall
  <1>2. /\ Has(s, "ACB_CONN") /\ SB(s, "SB_CONN") /\ Has(s, "ACB_TURN")
        /\ rts[s].whole # << >> /\ Len(rts[s].whole) <= 1
        /\ rts[s] \in thread /\ acb[s] \in assocblk /\ rts[s].left \in Nat
        /\ rts[s].left > 0
        /\ acb[p].acb_len \in Nat /\ Chunks(net[p]) \in Nat
        /\ S!Inv /\ RtLocal /\ SideOK(s) /\ ThreadOK(s)
    BY <1>1, TransFacts
  <1>3. Open(s) /\ Writes(s, "DT", sb[s].sb_flags, sb[s].sb_owned)
    BY <1>2, DataWrites DEF SendChunk
  <1>4. PICK call \in AfterData(n) :
          Goes(s, acb[s], [rts[s] EXCEPT !.call = call, !.left = n])
    BY DEF SendChunk
  <1>5. n \in Nat /\ n + 1 = rts[s].left
    BY <1>2
  <1>6. call \in {"end", "next", "bad"} /\ (call = "end" => n = 0)
    BY <1>5 DEF AfterData, Fails
  <1>7. /\ acb'[s] = acb[s] /\ acb'[p] = acb[p] /\ rts'[p] = rts[p]
        /\ mode' = mode /\ delivered' = delivered /\ confirmed' = confirmed
        /\ rts'[s] = [rts[s] EXCEPT !.call = call, !.left = n]
    BY <1>2, <1>4, GoesEffect
  <1> HIDE DEF n, p
  <1>8. /\ rts'[s].call = call /\ rts'[s].left = n /\ rts'[s].whole = rts[s].whole
        /\ rts'[s].do = "none"
    BY <1>2, <1>7 DEF thread
  <1>9. Written(s, "DT")
    BY <1>2, <1>3, <1>7, SpeakStep DEF p
  <1>10. Stores(s, sb[s].sb_flags, sb[s].sb_owned)
    BY <1>3 DEF Writes
  <1>11. \A f : Has(s, f)' <=> Has(s, f)
    BY <1>7 DEF Has
  <1>12. \A f : SB(s, f)' <=> SB(s, f)
    BY <1>10 DEF Stores, SB
  <1>13. rts'[s].call \in InTransferCall /\ "SB_CONN" \in sb[s].sb_flags
    BY <1>2, <1>6, <1>8 DEF InTransferCall, SB
  <1>14. SideOK(s)'
    BY <1>2, <1>8, <1>10, <1>11, <1>13, SideStays
  <1>15. ThreadOK(s)'
    BY <1>1, <1>2, <1>3, <1>6, <1>8, <1>11, <1>12 DEF ThreadOK, Answer, Open
  <1>16. Sending(s)' /\ Has(p, "ACB_CONN") /\ Fit(p) =>
           rts'[s].left + Chunks(net'[p]) + acb[p].acb_len = rts'[s].whole[1]
    <2> SUFFICES ASSUME Sending(s)', Has(p, "ACB_CONN"), Fit(p)
                 PROVE  rts'[s].left + Chunks(net'[p]) + acb[p].acb_len
                          = rts'[s].whole[1]
      OBVIOUS
    <2>1. PairOK(s, p)
      BY Known DEF p
    <2>2. rts[s].left + Chunks(net[p]) + acb[p].acb_len = rts[s].whole[1]
      BY <1>3, <1>11, <2>1 DEF PairOK, DataOK, Sending, Open
    <2>3. Chunks(net'[p]) = Chunks(net[p]) + 1
      BY <1>9 DEF Written, p
    <2> QED
      BY <1>2, <1>5, <1>8, <2>2, <2>3
  <1> QED
    BY <1>2, <1>3, <1>7, <1>8, <1>9, <1>11, <1>12, <1>13, <1>14, <1>15, <1>16,
       SpeaksInv DEF Answer, Open, p

\* A minor synchronization point before the next chunk.
LEMMA SyncInv ==
    ASSUME RtInv, TransferInv, NEW s \in Side, TransSync(s)
    PROVE  TransferInv'
  <1> DEFINE p == Peer(s)
             a == [acb[s] EXCEPT !.acb_ssn = sb[s].sb_V_M]
             flags == sb[s].sb_flags \ {"SB_Vsc"}
  <1>1. rts[s].call = "next" /\ rts[s].do = "none"
    BY DEF TransSync, At
  <1>2. rts[s].call \in InTransferCall
    BY <1>1 DEF InTransferCall
  <1>3. /\ Has(s, "ACB_CONN") /\ SB(s, "SB_CONN") /\ Has(s, "ACB_TURN")
        /\ Len(rts[s].whole) <= 1
        /\ rts[s] \in thread /\ acb[s] \in assocblk
        /\ S!Inv /\ RtLocal /\ SideOK(s) /\ ThreadOK(s)
    BY <1>2, TransFacts
  <1>4. Open(s) /\ SB(s, "SB_Vact") /\ Writes(s, "MIP", flags, sb[s].sb_owned)
    BY <1>3, MinorWrites DEF TransSync
  <1>5. /\ acb'[s] = a /\ acb'[p] = acb[p] /\ rts'[p] = rts[p]
        /\ mode' = mode /\ delivered' = delivered /\ confirmed' = confirmed
        /\ rts'[s] = [rts[s] EXCEPT !.call = "window"]
    BY <1>3, GoesEffect DEF TransSync
  <1>6. /\ rts'[s].call = "window" /\ rts'[s].left = rts[s].left
        /\ rts'[s].whole = rts[s].whole /\ rts'[s].do = "none"
    BY <1>1, <1>3, <1>5 DEF thread
  <1>7. a.acb_flags = acb[s].acb_flags /\ a.acb_len = acb[s].acb_len
    BY <1>3 DEF assocblk
  <1> HIDE DEF p, a
  <1>8. Written(s, "MIP")
    BY <1>3, <1>4, <1>5, SpeakStep DEF p
  <1>9. \A f : Has(s, f)' <=> Has(s, f)
    BY <1>5, <1>7 DEF Has
  <1>10. Stores(s, flags, sb[s].sb_owned) /\ "SB_CONN" \in flags
    BY <1>3, <1>4 DEF Writes, SB
  <1>11. \A f \in {"SB_MAP", "SB_AI", "SB_ED"} : ~SB(s, f)'
    BY <1>4, <1>10 DEF Stores, SB, Open
  <1> HIDE DEF flags
  <1>12. rts'[s].call \in InTransferCall
    BY <1>6 DEF InTransferCall
  <1>13. SideOK(s)'
    BY <1>3, <1>6, <1>9, <1>10, <1>12, SideStays
  <1>14. Has(s, "ACB_ACT")
    BY <1>2, <1>3, <1>4 DEF ThreadOK
  <1>15. ThreadOK(s)'
    BY <1>1, <1>3, <1>6, <1>9, <1>11, <1>14 DEF ThreadOK, Answer
  <1>16. Has(p, "ACB_CONN") /\ Fit(p) =>
           rts'[s].left + Chunks(net'[p]) + acb[p].acb_len = rts'[s].whole[1]
    <2>1. PairOK(s, p)
      BY Known DEF p
    <2>2. Has(p, "ACB_CONN") /\ Fit(p) =>
            rts[s].left + Chunks(net[p]) + acb[p].acb_len = rts[s].whole[1]
      BY <1>3, <1>4, <1>14, <2>1 DEF PairOK, DataOK, Sending, Open
    <2>3. Chunks(net'[p]) = Chunks(net[p])
      BY <1>8 DEF Written, p
    <2> QED
      BY <1>6, <2>2, <2>3
  <1> QED
    BY <1>3, <1>4, <1>5, <1>6, <1>7, <1>8, <1>9, <1>11, <1>12, <1>13, <1>15, <1>16,
       SpeaksInv DEF Answer, p

\* The sender discards or interrupts its activity: it ran out of time, got
\* nothing from downtrans, was told of an exception or asked for the turn.
LEMMA DropInv ==
    ASSUME RtInv, TransferInv, NEW s \in Side,
           rts[s].call \in InTransferCall,
           S!SActDiscRequest(s) \/ S!SActIntrRequest(s),
           NEW a, NEW call, Goes(s, a, [rts[s] EXCEPT !.call = call, !.do = "none"]),
           a.acb_len = acb[s].acb_len,
           \/ call \in InTransferCall \ {"ack"} /\ a.acb_flags = acb[s].acb_flags
           \/ call = "ack" /\ a.acb_flags = acb[s].acb_flags \cup {"ACB_TIMER"}
    PROVE  TransferInv'
  <1> DEFINE p == Peer(s)
             flags == (sb[s].sb_flags \cup {"SB_AI"}) \ {"SB_EDACK"}
  <1>1. /\ Has(s, "ACB_CONN") /\ SB(s, "SB_CONN") /\ Has(s, "ACB_TURN")
        /\ Len(rts[s].whole) <= 1
        /\ rts[s] \in thread /\ acb[s] \in assocblk
        /\ S!Inv /\ RtLocal /\ SideOK(s) /\ ThreadOK(s)
    BY TransFacts
  <1>2. /\ Open(s) /\ SB(s, "SB_Vact")
        /\ \E code \in {"AI", "AD"} : Writes(s, code, flags, sb[s].sb_owned)
    BY <1>1, DropWrites
  <1>3. PICK code \in {"AI", "AD"} : Writes(s, code, flags, sb[s].sb_owned)
    BY <1>2
  <1>4. /\ acb'[s] = a /\ acb'[p] = acb[p] /\ rts'[p] = rts[p]
        /\ mode' = mode /\ delivered' = delivered /\ confirmed' = confirmed
        /\ rts'[s] = [rts[s] EXCEPT !.call = call, !.do = "none"]
    BY <1>1, GoesEffect
  <1>5. /\ rts'[s].call = call /\ rts'[s].left = rts[s].left
        /\ rts'[s].whole = rts[s].whole /\ rts'[s].do = "none"
    BY <1>1, <1>4 DEF thread
  <1> HIDE DEF p
  <1>6. Written(s, code)
    BY <1>1, <1>2, <1>3, <1>4, SpeakStep DEF p
  <1>7. \A f \in {"ACB_CONN", "ACB_TURN", "ACB_ACT"} : Has(s, f)' <=> Has(s, f)
    BY <1>4 DEF Has
  <1>8. Stores(s, flags, sb[s].sb_owned) /\ "SB_CONN" \in flags
    BY <1>1, <1>3 DEF Writes, SB
  <1>9. ~SB(s, "SB_MAP")' /\ ~SB(s, "SB_ED")' /\ SB(s, "SB_AI")'
    BY <1>2, <1>8 DEF Stores, SB, Open
  <1> HIDE DEF flags
  <1>10. rts'[s].call \in InTransferCall
    BY <1>5 DEF InTransferCall
  <1>11. SideOK(s)'
    BY <1>1, <1>5, <1>7, <1>8, <1>10, SideStays
  <1>12. Has(s, "ACB_ACT")
    BY <1>1, <1>2 DEF ThreadOK
  <1>13. ~Has(s, "ACB_TIMER")
    BY <1>1, <1>2 DEF ThreadOK, Open
  <1>14. call # "ack" => ~Has(s, "ACB_TIMER")'
    BY <1>4, <1>13 DEF Has
  <1>15. call = "ack" => Has(s, "ACB_TIMER")'
    BY <1>4 DEF Has
  <1>16. ThreadOK(s)'
    BY <1>5, <1>7, <1>9, <1>10, <1>12, <1>14, <1>15 DEF ThreadOK, Answer
  <1> QED
    BY <1>1, <1>2, <1>4, <1>5, <1>6, <1>7, <1>9, <1>10, <1>11, <1>16,
       SpeaksInv DEF Answer, p

\* S-ACTIVITY-END, when every chunk is sent and none was discarded.
LEMMA EndInv ==
    ASSUME RtInv, TransferInv, NEW s \in Side, TransEnd(s)
    PROVE  TransferInv'
  <1> DEFINE p == Peer(s)
             a == [acb[s] EXCEPT !.acb_ssn = sb[s].sb_V_M]
             flags == (((sb[s].sb_flags \cup {"SB_MAP"}) \ {"SB_Vsc"}) \cup {"SB_AE"})
                        \ {"SB_Vnextact"}
  <1>1. rts[s].call = "end" /\ rts[s].do = "none"
    BY DEF TransEnd, At
  <1>2. rts[s].call \in InTransferCall
    BY <1>1 DEF InTransferCall
  <1>3. /\ Has(s, "ACB_CONN") /\ SB(s, "SB_CONN") /\ Has(s, "ACB_TURN")
        /\ rts[s].whole # << >> /\ Len(rts[s].whole) <= 1
        /\ rts[s] \in thread /\ acb[s] \in assocblk
        /\ acb[p].acb_len \in Nat /\ Chunks(net[p]) \in Nat
        /\ S!Inv /\ RtLocal /\ SideOK(s) /\ ThreadOK(s)
    BY <1>2, TransFacts
  <1>4. Open(s) /\ SB(s, "SB_Vact") /\ Writes(s, "AE", flags, sb[s].sb_owned)
    BY <1>3, EndWrites DEF TransEnd
  <1>5. /\ acb'[s] = a /\ acb'[p] = acb[p] /\ rts'[p] = rts[p]
        /\ mode' = mode /\ delivered' = delivered /\ confirmed' = confirmed
        /\ rts'[s] = [rts[s] EXCEPT !.call = "ack"]
    BY <1>3, GoesEffect DEF TransEnd
  <1>6. /\ rts'[s].call = "ack" /\ rts'[s].left = rts[s].left
        /\ rts'[s].whole = rts[s].whole /\ rts'[s].do = "none"
    BY <1>1, <1>3, <1>5 DEF thread
  <1>7. a.acb_flags = acb[s].acb_flags /\ a.acb_len = acb[s].acb_len
    BY <1>3 DEF assocblk
  <1> HIDE DEF p, a
  <1>8. Written(s, "AE")
    BY <1>3, <1>4, <1>5, SpeakStep DEF p
  <1>9. \A f : Has(s, f)' <=> Has(s, f)
    BY <1>5, <1>7 DEF Has
  <1>10. Stores(s, flags, sb[s].sb_owned) /\ "SB_CONN" \in flags
    BY <1>3, <1>4 DEF Writes, SB
  <1>11. SB(s, "SB_MAP")' /\ ~SB(s, "SB_AI")' /\ ~SB(s, "SB_ED")'
    BY <1>4, <1>10 DEF Stores, SB, Open
  <1> HIDE DEF flags
  <1>12. rts'[s].call \in InTransferCall
    BY <1>6 DEF InTransferCall
  <1>13. SideOK(s)'
    BY <1>3, <1>6, <1>9, <1>10, <1>12, SideStays
  <1>14. Has(s, "ACB_ACT") /\ ~Has(s, "ACB_TIMER") /\ rts[s].left = 0
    BY <1>1, <1>2, <1>3, <1>4 DEF ThreadOK, Open
  <1>15. ThreadOK(s)'
    BY <1>6, <1>9, <1>11, <1>14 DEF ThreadOK, Answer
  <1>16. Has(p, "ACB_CONN") /\ Fit(p) =>
           Chunks(net[p]) + acb[p].acb_len = rts'[s].whole[1]
    <2>1. PairOK(s, p)
      BY Known DEF p
    <2>2. Has(p, "ACB_CONN") /\ Fit(p) =>
            rts[s].left + Chunks(net[p]) + acb[p].acb_len = rts[s].whole[1]
      BY <1>3, <1>4, <1>14, <2>1 DEF PairOK, DataOK, Sending, Open
    <2> QED
      BY <1>3, <1>6, <1>14, <2>2
  <1> QED
    BY <1>3, <1>4, <1>5, <1>6, <1>7, <1>8, <1>9, <1>11, <1>12, <1>13, <1>15, <1>16,
       SpeaksInv DEF Answer, p

-----------------------------------------------------------------------------
(* The other end hears: it reads AS, DT, MIP, AE, AI or AD.                *)

\* What every step of s that reads an SPDU of this code has in common.
Took(s, code) ==
    /\ Frame(s) /\ SideOK(Peer(s))' /\ ThreadOK(Peer(s))'
    /\ QueueOK(net[s])' /\ QueueOK(net[Peer(s)])'
    /\ Adds(net[s], net'[s], "none") /\ Adds(net[Peer(s)], net'[Peer(s)], "none")
    /\ Chunks(net'[Peer(s)]) = Chunks(net[Peer(s)])
    /\ Chunks(net[s]) = Chunks(net'[s]) + (IF code = "DT" THEN 1 ELSE 0)
    /\ Chunks(net[s]) \in Nat /\ Chunks(net'[s]) \in Nat
    /\ code \in {"AS", "DT", "MIP"} => Body(net[s])
    /\ code = "AE" => Ending(net[s])
    /\ code \in {"AI", "AD"} => Dropping(net[s])
    /\ code = "GTC" => Turning(net[s])
    /\ code = "MAA" => Confirming(net[s])
    /\ code \in {"AIA", "ADA"} => Agreeing(net[s])
    /\ code \in ClosingCode => ~Speaking(net'[s])
    /\ code \in ReplyCode => ~Replying(net'[s])

\* A step that reads the SPDU at the head of the queue.
LEMMA TakeStep ==
    ASSUME RtInv, TransferInv, NEW s \in Side, NEW flags, NEW owned,
           Takes(s, flags, owned),
           acb'[Peer(s)] = acb[Peer(s)], rts'[Peer(s)] = rts[Peer(s)]
    PROVE  Took(s, Head(net[s]).code)
  <1>1. S!Inv
    BY DEF RtInv
  <1>2. QueueOK(net[s]) /\ QueueOK(net[Peer(s)])
    BY Known
  <1>3. Frame(s)
    BY DEF Frame, Takes, Stores
  <1> DEFINE code == Head(net[s]).code
  <1>4. /\ QueueOK(net'[s]) /\ Adds(net[s], net'[s], "none")
        /\ QueueOK(net'[Peer(s)]) /\ Adds(net[Peer(s)], net'[Peer(s)], "none")
        /\ Chunks(net'[Peer(s)]) = Chunks(net[Peer(s)])
        /\ Chunks(net[s]) = Chunks(net'[s]) + (IF code = "DT" THEN 1 ELSE 0)
        /\ Chunks(net[s]) \in Nat /\ Chunks(net'[s]) \in Nat
        /\ code \in {"AS", "DT", "MIP"} => Body(net[s])
        /\ code = "AE" => Ending(net[s])
        /\ code \in {"AI", "AD"} => Dropping(net[s])
        /\ code = "GTC" => Turning(net[s])
        /\ code = "MAA" => Confirming(net[s])
        /\ code \in {"AIA", "ADA"} => Agreeing(net[s])
        /\ code \in ClosingCode => ~Speaking(net'[s])
        /\ code \in ReplyCode => ~Replying(net'[s])
    BY <1>1, <1>2, TakesKeeps
  <1> HIDE DEF code
  <1>5. SideOK(Peer(s))' /\ ThreadOK(Peer(s))'
    BY <1>3, PeerKeeps
  <1>6. Took(s, code)
    BY <1>3, <1>4, <1>5 DEF Took
  <1> QED
    BY <1>6 DEF code

\* The end without the turn reads a word of the transfer.
LEMMA HearsInv ==
    ASSUME RtInv, TransferInv, NEW s \in Side,
           NEW code \in {"AS", "DT", "MIP", "AE", "AI", "AD"}, Took(s, code),
           SideOK(s)', ThreadOK(s)',
           mode' = mode, delivered' = delivered, confirmed' = confirmed,
           Has(s, "ACB_CONN")' <=> Has(s, "ACB_CONN"),
           Has(s, "ACB_TURN")' <=> Has(s, "ACB_TURN"),
           \A f \in {"SB_MAP", "SB_AI", "SB_ED"} : SB(s, f)' <=> SB(s, f),
           rts'[s].call = rts[s].call, rts'[s].left = rts[s].left,
           rts'[s].whole = rts[s].whole, rts[s].do = "none",
           rts'[s].do = "end_resp" => code = "AE",
           rts'[s].do \in {"intr_resp", "disc_resp"} => code \in {"AI", "AD"},
           Fit(s)' => Chunks(net'[s]) + acb'[s].acb_len = Chunks(net[s]) + acb[s].acb_len,
           acb[s].acb_len \in Nat, acb'[s].acb_len \in Nat
    PROVE  TransferInv'
  <1> DEFINE p == Peer(s)
  <1>1. PairOK(s, p) /\ PairOK(p, s) /\ QueueOK(net[s])
    BY Known
  <1>2. Body(net[s]) \/ Ending(net[s]) \/ Dropping(net[s])
    BY DEF Took
  <1>3. ~Has(s, "ACB_TURN") /\ ~Turning(net[s]) /\ ~Replying(net[p])
    BY <1>1, <1>2 DEF PairOK, TurnOK, PhaseOK, QueueOK, Speaking
  <1>4. rts[s].call \notin InTransferCall
    BY <1>3 DEF RtInv, RtLocal, Local, Has
  <1>5. Has(p, "ACB_CONN") => rts[p].call \in InTransferCall
    BY <1>1, <1>2 DEF PairOK, PhaseOK
  <1>6. code \in ClosingCode \/ code \in {"AS", "DT", "MIP"}
    BY DEF ClosingCode
  <1>7. code \in {"AE", "AI", "AD"} => code \in ClosingCode
    BY DEF ClosingCode
  <1>8. Fit(s)' => Fit(s)
    BY DEF Fit, SB
  <1> HIDE DEF p
  <1> USE DEF Adds, Has, SB, Held, Receiving, Sending,
              Speaking, Replying, Answer, Took, Frame, PairOK
  <1>9. TurnOK(s, p)' /\ TurnOK(p, s)'
    BY <1>1, <1>3 DEF TurnOK, p
  <1>10. PhaseOK(s, p)'
    BY <1>1, <1>3, <1>4 DEF PhaseOK, p
  <1>11. PhaseOK(p, s)'
    BY <1>1, <1>3, <1>5, <1>7 DEF PhaseOK, p
  <1>12. DataOK(s, p)'
    <2>1. Fit(p)' <=> Fit(p)
      BY DEF Fit, p
    <2> QED
      BY <1>1, <1>3, <2>1 DEF DataOK, p
  <1>13. DataOK(p, s)'
    <2>1. Ending(net[s])' \/ rts'[s].do = "end_resp" => Ending(net[s])
      OBVIOUS
    <2>2. Sending(p)' => Sending(p) /\ rts'[p] = rts[p]
      BY DEF p
    <2>3. rts'[p] = rts[p] /\ (\A f : SB(p, f)' <=> SB(p, f)) /\ (\A f : Has(p, f)' <=> Has(p, f))
      BY DEF p
    <2> DEFINE x == rts[p].left
               y == rts[p].whole[1]
    <2>4. ASSUME x + Chunks(net[s]) + acb[s].acb_len = y, x \in Nat, Fit(s)'
          PROVE  x + Chunks(net'[s]) + acb'[s].acb_len = y
      BY <2>4
    <2>5. ASSUME Chunks(net[s]) + acb[s].acb_len = y, Fit(s)'
          PROVE  Chunks(net'[s]) + acb'[s].acb_len = y
      BY <2>5
    <2>6. x \in Nat
      BY Sides DEF RtInv, RtLocal, Local, thread, p
    <2>7. Confirming(net[p])' => Confirming(net[p])
      BY DEF p
    <2> QED
      BY <1>1, <1>8, <2>1, <2>2, <2>3, <2>4, <2>5, <2>6, <2>7 DEF DataOK, p
  <1> QED
    BY <1>9, <1>10, <1>11, <1>12, <1>13, Kept DEF p

\* A handler that leaves block and thread alone.
LEMMA StillGoes ==
    ASSUME RtLocal, NEW s \in Side, UNCHANGED rtsvars
    PROVE  Goes(s, acb[s], rts[s])
  BY DEF RtLocal, rtsvars, Goes

\* A handler of what the end with the turn says.
LEMMA HandledInv ==
    ASSUME RtInv, TransferInv, NEW s \in Side, Waits(s),
           NEW code \in {"AS", "DT", "MIP", "AE", "AI", "AD"},
           Head(net[s]).code = code,
           NEW flags, Takes(s, flags, sb[s].sb_owned),
           \A f \in {"SB_CONN", "SB_MAP", "SB_AI", "SB_ED"} :
             f \in flags <=> f \in sb[s].sb_flags,
           NEW a \in assocblk, NEW r \in thread, Goes(s, a, r),
           \A f \in {"ACB_CONN", "ACB_TURN", "ACB_TIMER"} :
             f \in a.acb_flags <=> f \in acb[s].acb_flags,
           r.call = rts[s].call, r.left = rts[s].left, r.whole = rts[s].whole,
           r.do \notin {"discard", "interrupt"},
           r.do = "end_resp" => code = "AE",
           r.do \in {"intr_resp", "disc_resp"} => code \in {"AI", "AD"},
           \/ r.do \in {"report", "lose"} \/ SB(s, "SB_ED")
           \/ a.acb_len = acb[s].acb_len + (IF code = "DT" THEN 1 ELSE 0)
    PROVE  TransferInv'
  <1> DEFINE p == Peer(s)
  <1>1. /\ S!Inv /\ RtLocal /\ SideOK(s) /\ ThreadOK(s) /\ PairOK(p, s)
    BY Known DEF RtInv
  <1>2. rts[s].do = "none"
    BY DEF Waits, At
  <1>3. /\ acb'[s] = a /\ rts'[s] = r /\ acb'[p] = acb[p] /\ rts'[p] = rts[p]
        /\ mode' = mode /\ delivered' = delivered /\ confirmed' = confirmed
    BY <1>1, GoesEffect
  <1>4. Took(s, code)
    BY <1>3, TakeStep
  <1>5. ~Has(s, "ACB_TURN")
    BY <1>1, <1>4 DEF PairOK, TurnOK, Speaking, Took
  <1>6. Local(acb[s], rts[s])
    BY <1>1 DEF RtLocal
  <1>7. rts[s].call \notin InTransferCall /\ acb[s].acb_len \in Nat /\ a.acb_len \in Nat
    BY <1>5, <1>6 DEF Local, Has, assocblk
  <1>8. Stores(s, flags, sb[s].sb_owned) /\ SB(s, "SB_CONN")
    BY DEF Takes
  <1>9. \A f \in {"SB_CONN", "SB_MAP", "SB_AI", "SB_ED"} : SB(s, f)' <=> SB(s, f)
    BY <1>8 DEF Stores, SB
  <1>10. \A f \in {"ACB_CONN", "ACB_TURN", "ACB_TIMER"} : Has(s, f)' <=> Has(s, f)
    BY <1>3 DEF Has
  <1>11. SideOK(s)'
    <2>1. Has(s, "ACB_CONN") /\ "SB_CONN" \in flags
      BY <1>1, <1>8 DEF SideOK, SB
    <2>2. rts[s].whole = << >> /\ Len(rts[s].whole) <= 1
      BY <1>1, <1>7, <1>8 DEF SideOK
    <2> QED
      BY <1>1, <1>3, <1>8, <1>10, <2>1, <2>2, SideStays
  <1>12. ThreadOK(s)'
    <2>1. rts[s].call # "ack" /\ rts[s].call # "end"
      BY <1>7 DEF InTransferCall
    <2>2. ~SB(s, "SB_MAP") /\ ~SB(s, "SB_AI") /\ ~Has(s, "ACB_TIMER")
      BY <1>1, <1>7, <2>1 DEF ThreadOK
    <2> QED
      BY <1>3, <1>5, <1>7, <1>9, <1>10, <2>1, <2>2 DEF ThreadOK
  <1>13. Fit(s)' => Chunks(net'[s]) + acb'[s].acb_len = Chunks(net[s]) + acb[s].acb_len
    <2> SUFFICES ASSUME Fit(s)'
                 PROVE  Chunks(net'[s]) + acb'[s].acb_len
                          = Chunks(net[s]) + acb[s].acb_len
      OBVIOUS
    <2>1. ~SB(s, "SB_ED") /\ r.do \notin {"report", "lose"}
      BY <1>3, <1>9 DEF Fit
    <2>2. a.acb_len = acb[s].acb_len + (IF code = "DT" THEN 1 ELSE 0)
      BY <2>1
    <2>3. /\ Chunks(net[s]) = Chunks(net'[s]) + (IF code = "DT" THEN 1 ELSE 0)
          /\ Chunks(net[s]) \in Nat /\ Chunks(net'[s]) \in Nat
      BY <1>4 DEF Took
    <2> QED
      BY <1>3, <1>7, <2>2, <2>3
  <1> HIDE DEF p
  <1> QED
    BY <1>2, <1>3, <1>4, <1>7, <1>9, <1>10, <1>11, <1>12, <1>13, HearsInv

\* doSSdata, doSSsync and doSSactivity at the end without the turn.
LEMMA HearingInv ==
    ASSUME RtInv, TransferInv, NEW s \in Side,
           \/ doSSdata(s) \/ doSSminorind(s) \/ doSSstart(s) \/ doSSdiscind(s)
           \/ doSSendind(s)
    PROVE  TransferInv'
  <1> DEFINE F == sb[s].sb_flags
             O == sb[s].sb_owned
             Same(flags) == \A f \in {"SB_CONN", "SB_MAP", "SB_AI", "SB_ED"} :
                              f \in flags <=> f \in F
  <1>1. /\ S!Inv /\ RtLocal /\ SideOK(s) /\ QueueOK(net[s])
    BY Known DEF RtInv
  <1>2. acb[s] \in assocblk /\ rts[s] \in thread /\ acb[s].acb_len \in Nat
    BY <1>1 DEF RtLocal, Local, assocblk
  \* The handler owes a call, which is none of the end's own transfer.
  <1>3. ASSUME Waits(s), NEW code \in {"AS", "DT", "MIP", "AE", "AI", "AD"},
               Head(net[s]).code = code, NEW flags, Takes(s, flags, O), Same(flags),
               NEW do \in {"report", "lose", "minor", "intr_resp", "disc_resp", "end_resp"},
               do = "minor" => code = "MIP", do = "end_resp" => code = "AE",
               do \in {"intr_resp", "disc_resp"} => code \in {"AI", "AD"},
               NEW ssn \in Nat,
               \/ Goes(s, acb[s], [rts[s] EXCEPT !.do = do, !.ssn = ssn])
               \/ Owes(s, do)
        PROVE  TransferInv'
    <2> DEFINE r == [rts[s] EXCEPT !.do = do, !.ssn = ssn]
               q == [rts[s] EXCEPT !.do = do]
    <2>1. /\ r \in thread /\ r.call = rts[s].call /\ r.left = rts[s].left
          /\ r.whole = rts[s].whole /\ r.do = do
          /\ q \in thread /\ q.call = rts[s].call /\ q.left = rts[s].left
          /\ q.whole = rts[s].whole /\ q.do = do
      BY <1>2, <1>3 DEF thread, Do
    <2>2. PICK t \in {r, q} : Goes(s, acb[s], t)
      BY <1>3 DEF Owes
    <2> HIDE DEF r, q
    <2>3. /\ t \in thread /\ t.call = rts[s].call /\ t.left = rts[s].left
          /\ t.whole = rts[s].whole /\ t.do = do
      BY <2>1, <2>2
    <2>4. do \in {"report", "lose"} \/ acb[s].acb_len = acb[s].acb_len + (IF code = "DT" THEN 1 ELSE 0)
      BY <1>2, <1>3
    <2> HIDE DEF O
    <2> QED
      BY <1>2, <1>3, <2>2, <2>3, <2>4, HandledInv DEF O
  <1>4. CASE doSSdata(s)
    <2>1. Takes(s, F, O) /\ Same(F) /\ Head(net[s]).code = "DT" /\ Waits(s)
      BY <1>1, <1>4, ReadTakes DEF doSSdata, Reads
    <2>2. CASE Owes(s, "report") \/ Owes(s, "lose")
      BY <1>3, <2>1, <2>2
    <2>3. CASE Goes(s, [acb[s] EXCEPT !.acb_len = acb[s].acb_len + 1], rts[s])
      <3> DEFINE a == [acb[s] EXCEPT !.acb_len = acb[s].acb_len + 1]
      <3>1. a \in assocblk /\ a.acb_flags = acb[s].acb_flags /\ a.acb_len = acb[s].acb_len + 1
        BY <1>2 DEF assocblk
      <3>2. rts[s].do = "none"
        BY <2>1 DEF Waits, At
      <3> HIDE DEF a
      <3> QED
        BY <1>2, <2>1, <2>3, <3>1, <3>2, HandledInv DEF a
    <2> QED
      BY <1>4, <2>2, <2>3 DEF doSSdata
  <1>5. CASE doSSminorind(s)
    <2> DEFINE f == F \cup {"SB_Vsc"}
    <2>1. Takes(s, f, O) /\ Head(net[s]).code = "MIP" /\ Waits(s)
      BY <1>1, <1>5, ReadTakes DEF doSSminorind, Reads
    <2>2. Same(f)
      OBVIOUS
    <2>3. Head(net[s]).serial \in Nat
      BY <1>1, <2>1, SessionNumbers DEF Takes
    <2>4. rts[s].do = "none"
      BY <2>1 DEF Waits, At
    <2> HIDE DEF f
    <2>5. CASE Owes(s, "report") \/ Owes(s, "lose")
      BY <1>3, <2>1, <2>2, <2>5
    <2>6. CASE Goes(s, acb[s], [rts[s] EXCEPT !.do = "minor", !.ssn = Head(net[s]).serial])
      BY <1>3, <2>1, <2>2, <2>3, <2>6
    <2>7. CASE UNCHANGED rtsvars
      <3>1. Goes(s, acb[s], rts[s])
        BY <1>1, <2>7, StillGoes
      <3>2. acb[s].acb_len = acb[s].acb_len + 0
        BY <1>2
      <3> QED
        BY <1>2, <2>1, <2>2, <2>4, <3>1, <3>2, HandledInv
    <2> QED
      BY <1>5, <2>5, <2>6, <2>7 DEF doSSminorind
  <1>6. CASE doSSstart(s)
    <2> DEFINE f == F \cup {"SB_Vact"}
               a == With(acb[s], {"ACB_ACT"})
    <2>1. Takes(s, f, O) /\ Head(net[s]).code = "AS" /\ Waits(s)
      BY <1>1, <1>6, ReadTakes DEF doSSstart, Reads
    <2>2. Same(f)
      OBVIOUS
    <2>3. rts[s].do = "none"
      BY <2>1 DEF Waits, At
    <2> HIDE DEF f
    <2>4. CASE Owes(s, "report") \/ Owes(s, "lose")
      BY <1>3, <2>1, <2>2, <2>4
    <2>5. CASE Goes(s, a, rts[s])
      <3>1. a \in assocblk /\ a.acb_len = acb[s].acb_len + 0
            /\ a.acb_flags = acb[s].acb_flags \cup {"ACB_ACT"}
        BY <1>2 DEF With, assocblk, AcbFlag
      <3>2. \A g \in {"ACB_CONN", "ACB_TURN", "ACB_TIMER"} :
              g \in a.acb_flags <=> g \in acb[s].acb_flags
        BY <3>1
      <3> HIDE DEF a
      <3> QED
        BY <1>2, <2>1, <2>2, <2>3, <2>5, <3>1, <3>2, HandledInv
    <2> QED
      BY <1>6, <2>4, <2>5 DEF doSSstart
  <1>7. CASE doSSdiscind(s)
    <2> DEFINE f == (F \ {"SB_RS", "SB_RA"}) \cup {"SB_AIA"}
    <2>1. PICK code \in {"AI", "AD"} :
            /\ Reads(s, code) /\ S!ReadAI(s)
            /\ Owes(s, IF ~Receiving(s) THEN "lose"
                       ELSE IF code = "AI" THEN "intr_resp" ELSE "disc_resp")
      BY <1>7 DEF doSSdiscind
    <2>2. Takes(s, f, O) /\ Head(net[s]).code = code /\ Waits(s)
      BY <1>1, <2>1, ReadTakes DEF Reads
    <2>3. Same(f)
      OBVIOUS
    <2>4. Owes(s, "lose") \/ Owes(s, "intr_resp") \/ Owes(s, "disc_resp")
      BY <2>1
    <2> HIDE DEF f
    <2> QED
      BY <1>3, <2>1, <2>2, <2>3, <2>4
  <1>8. CASE doSSendind(s)
    <2> DEFINE f == (F \ {"SB_Vnextact"}) \cup {"SB_MAA", "SB_AE"}
    <2>1. Takes(s, f, O) /\ Head(net[s]).code = "AE" /\ Waits(s)
      BY <1>1, <1>8, ReadTakes DEF doSSendind, Reads
    <2>2. Same(f)
      OBVIOUS
    <2>3. Owes(s, "lose") \/ Owes(s, "report") \/ Owes(s, "end_resp")
      BY <1>8 DEF doSSendind
    <2> HIDE DEF f
    <2> QED
      BY <1>3, <2>1, <2>2, <2>3
  <1> QED
    BY <1>4, <1>5, <1>6, <1>7, <1>8

-----------------------------------------------------------------------------
(* The turn, the answers and what else is read.                            *)

\* The turn arrives: nobody else has it, and no transfer is under way.
LEMMA ControlInv ==
    ASSUME RtInv, TransferInv, NEW s \in Side, doSScontrol(s)
    PROVE  TransferInv'
  <1> DEFINE p == Peer(s)
             a == With(acb[s], {"ACB_TURN"})
  <1>1. /\ S!Inv /\ RtLocal /\ SideOK(s) /\ ThreadOK(s) /\ QueueOK(net[s])
        /\ PairOK(s, p) /\ PairOK(p, s) /\ p \in Side
    BY Known, Sides DEF RtInv
  <1>2. /\ Takes(s, sb[s].sb_flags, Tokens) /\ Head(net[s]).code = "GTC" /\ Waits(s)
    BY <1>1, ReadTakes DEF doSScontrol, Reads
  <1>3. Turning(net[s])
    BY <1>1, <1>2, TakesKeeps, Known
  <1>4. /\ mode.twa /\ ~Has(s, "ACB_TURN") /\ ~Has(s, "ACB_ACT") /\ ~Has(p, "ACB_TURN")
        /\ ~Speaking(net[p]) /\ acb[s].acb_len = 0
    BY <1>1, <1>3 DEF PairOK, TurnOK, Held, Receiving
  <1>5. Goes(s, a, rts[s])
    BY <1>4 DEF doSScontrol
  <1>6. acb[s] \in assocblk /\ Local(acb[s], rts[s])
    BY <1>1 DEF RtLocal, Local
  <1>7. a.acb_flags = acb[s].acb_flags \cup {"ACB_TURN"} /\ a.acb_len = acb[s].acb_len
    BY <1>6 DEF With, assocblk
  <1>8. /\ acb'[s] = a /\ rts'[s] = rts[s] /\ acb'[p] = acb[p] /\ rts'[p] = rts[p]
        /\ mode' = mode /\ delivered' = delivered /\ confirmed' = confirmed
    BY <1>1, <1>5, GoesEffect
  <1> HIDE DEF a
  <1>9. Took(s, "GTC")
    BY <1>2, <1>8, TakeStep
  <1>10. rts[s].call \notin InTransferCall /\ rts[s].do = "none"
    BY <1>2, <1>4, <1>6 DEF Local, Has, Waits, At
  <1>11. /\ SB(s, "SB_CONN") /\ sb'[s].sb_flags = sb[s].sb_flags
         /\ sb'[s].sb_owned = Tokens /\ sb'[s].sb_requirements = sb[s].sb_requirements
         /\ sb'[s].sb_pr = sb[s].sb_pr /\ sb'[s].sb_xspdu = sb[s].sb_xspdu
         /\ sb'[s].sb_spdu = sb[s].sb_spdu
    BY <1>2 DEF Takes, Stores
  <1>12. SideOK(s)'
    BY <1>1, <1>7, <1>8, <1>11 DEF SideOK, Has, SB
  <1>13. ThreadOK(s)'
    <2>1. rts[s].call # "ack" /\ rts[s].call # "end"
      BY <1>10 DEF InTransferCall
    <2>2. ~SB(s, "SB_MAP")' /\ ~SB(s, "SB_AI")' /\ ~Has(s, "ACB_TIMER")'
      BY <1>1, <1>7, <1>8, <1>10, <1>11, <2>1 DEF ThreadOK, Has, SB
    <2> QED
      BY <1>8, <1>10, <2>1, <2>2 DEF ThreadOK, Answer
  <1>14. ~Speaking(net'[s])
    BY <1>9 DEF Took, ClosingCode
  <1>20. ~Sending(s)' /\ (\A f : SB(s, f)' <=> SB(s, f)) /\ (Has(s, "ACB_CONN")' <=> Has(s, "ACB_CONN"))
    BY <1>4, <1>7, <1>8, <1>11 DEF Has, Sending, SB
  <1> HIDE DEF p
  <1> USE DEF Adds, Has, SB, Held, Receiving, Sending, Fit,
              Speaking, Replying, Answer, Took, Frame, PairOK
  <1>15. TurnOK(s, p)' /\ TurnOK(p, s)'
    BY <1>1, <1>4, <1>7, <1>8, <1>9, <1>14 DEF TurnOK, p
  <1>16. PhaseOK(s, p)'
    BY <1>1, <1>4, <1>7, <1>8, <1>9, <1>10, <1>11, <1>14 DEF PhaseOK, p
  <1>17. PhaseOK(p, s)'
    BY <1>1, <1>4, <1>7, <1>8, <1>9, <1>10, <1>11, <1>14 DEF PhaseOK, p
  <1>18. DataOK(s, p)'
    BY <1>1, <1>8, <1>9, <1>20 DEF DataOK, p
  <1>19. DataOK(p, s)'
    BY <1>1, <1>4, <1>7, <1>8, <1>9, <1>10, <1>11, <1>14 DEF DataOK, p
  <1> QED
    BY <1>9, <1>12, <1>13, <1>15, <1>16, <1>17, <1>18, <1>19, Kept DEF p

\* The confirmation of a discard or of an interrupt.
LEMMA AgreedInv ==
    ASSUME RtInv, TransferInv, NEW s \in Side, doSSdisccnf(s)
    PROVE  /\ TransferInv'
           /\ rts[s].call = "ack" /\ Sending(s) => Has(s, "ACB_TIMER") /\ delivered[Peer(s)] = confirmed[s]
  <1> DEFINE p == Peer(s)
             flags == sb[s].sb_flags \ {"SB_AI", "SB_Vact"}
  <1>1. /\ S!Inv /\ RtLocal /\ SideOK(s) /\ ThreadOK(s) /\ QueueOK(net[s])
        /\ PairOK(s, p) /\ PairOK(p, s) /\ p \in Side /\ QueueOK(net[p])
    BY Known, Sides DEF RtInv
  <1>2. PICK code \in {"AIA", "ADA"} :
          /\ Reads(s, code) /\ S!ReadAIA(s)
          /\ IF Sending(s) THEN Ended(s, acb[s]) ELSE Owes(s, "lose")
    BY DEF doSSdisccnf
  <1>3. Takes(s, flags, Tokens) /\ Head(net[s]).code = code /\ Waits(s)
    BY <1>1, <1>2, ReadTakes DEF Reads
  <1>4. Agreeing(net[s]) /\ Has(s, "ACB_CONN") /\ SB(s, "SB_CONN")
    BY <1>1, <1>3, TakesKeeps DEF SideOK, Takes
  <1>5. SB(s, "SB_AI") /\ ~SB(s, "SB_MAP") /\ rts[s].call \in InTransferCall
    BY <1>1, <1>4 DEF PairOK, PhaseOK, ThreadOK
  <1>6. /\ Has(s, "ACB_TURN") /\ rts[s].whole # << >> /\ Len(rts[s].whole) <= 1
        /\ rts[s] \in thread /\ acb[s] \in assocblk
    BY <1>5, TransFacts
  <1>7. /\ ~Speaking(net[p]) /\ ~Speaking(net[s]) /\ Held(p) /\ ~Has(p, "ACB_TURN")
        /\ rts[p].do \notin Answer \cup {"report"} /\ ~SB(p, "SB_ED")
        /\ delivered[p] = confirmed[s]
    BY <1>1, <1>4, <1>5, <1>6 DEF PairOK, PhaseOK, TurnOK, DataOK, Replying
  <1>8. rts[s].call \in {"ack", "window"} /\ rts[s].do = "none"
    BY <1>3, <1>5 DEF Waits, At, InTransferCall
  <1>9. rts[s].call = "ack" => Has(s, "ACB_TIMER")
    BY <1>1, <1>5 DEF ThreadOK
  <1>10. /\ rts'[p] = rts[p] /\ acb'[p] = acb[p] /\ mode' = mode
         /\ delivered' = delivered /\ confirmed' = confirmed
         /\ acb'[s].acb_len = acb[s].acb_len
         /\ Has(s, "ACB_CONN")' /\ Has(s, "ACB_TURN")' /\ ~Has(s, "ACB_ACT")'
         /\ rts'[s].do \notin Answer \cup {"report", "minor", "discard", "interrupt"}
         /\ \/ /\ rts[s].call = "ack" /\ rts'[s].call = "idle" /\ rts'[s].whole = << >>
               /\ ~Has(s, "ACB_TIMER")'
            \/ /\ rts[s].call = "window" /\ rts'[s].call = "window"
               /\ rts'[s].whole = rts[s].whole
               /\ Has(s, "ACB_TIMER")' <=> Has(s, "ACB_TIMER")
    <2>1. CASE ~Sending(s)
      <3>1. Goes(s, acb[s], [rts[s] EXCEPT !.do = "lose"])
        BY <1>2, <2>1 DEF Owes
      <3>2. /\ acb'[s] = acb[s] /\ rts'[s] = [rts[s] EXCEPT !.do = "lose"]
            /\ acb'[p] = acb[p] /\ rts'[p] = rts[p]
            /\ mode' = mode /\ delivered' = delivered /\ confirmed' = confirmed
        BY <1>1, <3>1, GoesEffect
      <3>3. ~Has(s, "ACB_ACT") /\ rts[s].call # "ack"
        BY <1>1, <1>6, <2>1 DEF Sending, ThreadOK
      <3>4. /\ rts'[s].call = rts[s].call /\ rts'[s].whole = rts[s].whole
            /\ rts'[s].do = "lose"
        BY <1>6, <3>2 DEF thread
      <3> QED
        BY <1>4, <1>6, <1>8, <3>2, <3>3, <3>4 DEF Has, Answer
    <2>2. CASE Sending(s) /\ rts[s].call # "ack"
      <3> DEFINE a == Without(acb[s], {"ACB_ACT"})
      <3>1. Goes(s, a, rts[s])
        BY <1>2, <2>2 DEF Ended
      <3>2. a.acb_flags = acb[s].acb_flags \ {"ACB_ACT"} /\ a.acb_len = acb[s].acb_len
        BY <1>6 DEF Without, assocblk
      <3>3. /\ acb'[s] = a /\ rts'[s] = rts[s]
            /\ acb'[p] = acb[p] /\ rts'[p] = rts[p]
            /\ mode' = mode /\ delivered' = delivered /\ confirmed' = confirmed
        BY <1>1, <3>1, GoesEffect
      <3> HIDE DEF a
      <3> QED
        BY <1>4, <1>6, <1>8, <2>2, <3>2, <3>3 DEF Has, Answer
    <2>3. CASE Sending(s) /\ rts[s].call = "ack"
      <3> DEFINE a == [Without(acb[s], {"ACB_ACT", "ACB_TIMER"}) EXCEPT
                         !.acb_actno = @ + 1]
      <3>1. /\ acb' = [acb EXCEPT ![s] = a] /\ rts' = [rts EXCEPT ![s] = Idle]
            /\ confirmed' = confirmed /\ mode' = mode /\ delivered' = delivered
        BY <1>2, <1>9, <2>3 DEF Ended
      <3>2. /\ a.acb_flags = acb[s].acb_flags \ {"ACB_ACT", "ACB_TIMER"}
            /\ a.acb_len = acb[s].acb_len
        BY <1>6 DEF Without, assocblk
      <3> HIDE DEF a
      <3>3. /\ acb'[s] = a /\ rts'[s] = Idle /\ acb'[p] = acb[p] /\ rts'[p] = rts[p]
        BY <1>1, <3>1, Sides DEF RtLocal
      <3> QED
        BY <1>4, <1>6, <2>3, <3>1, <3>2, <3>3 DEF Has, Answer, Idle
    <2> QED
      BY <2>1, <2>2, <2>3
  <1>11. Took(s, code)
    BY <1>3, <1>10, TakeStep
  <1>12. ~Replying(net'[s])
    BY <1>11 DEF Took, ReplyCode
  <1>13. /\ sb'[s].sb_flags = flags /\ sb'[s].sb_owned = Tokens
         /\ sb'[s].sb_requirements = sb[s].sb_requirements
         /\ sb'[s].sb_pr = sb[s].sb_pr /\ sb'[s].sb_xspdu = sb[s].sb_xspdu
         /\ sb'[s].sb_spdu = sb[s].sb_spdu
    BY <1>3 DEF Takes, Stores
  <1>14. /\ ~SB(s, "SB_AI")' /\ ~SB(s, "SB_MAP")' /\ ~SB(s, "SB_Vact")'
         /\ SB(s, "SB_CONN")'
         /\ SB(s, "SB_ED")' <=> SB(s, "SB_ED")
    BY <1>4, <1>5, <1>13 DEF SB
  <1> HIDE DEF flags
  <1>15. SideOK(s)'
    <2>1. Len(<< >>) = 0
      OBVIOUS
    <2> QED
      BY <1>1, <1>4, <1>6, <1>10, <1>13, <1>14, <2>1 DEF SideOK, InTransferCall
  <1>16. ThreadOK(s)'
    BY <1>1, <1>8, <1>9, <1>10, <1>14 DEF ThreadOK, InTransferCall
  <1> HIDE DEF p
  <1> USE DEF Adds, Has, SB, Held, Receiving, Sending, Fit,
              Speaking, Replying, Answer, Took, Frame, PairOK
  <1>17. TurnOK(s, p)' /\ TurnOK(p, s)'
    BY <1>1, <1>6, <1>7, <1>10, <1>11 DEF TurnOK, p
  <1>18. PhaseOK(s, p)'
    BY <1>1, <1>7, <1>10, <1>11, <1>12, <1>14 DEF PhaseOK, p
  <1>19. PhaseOK(p, s)'
    BY <1>1, <1>6, <1>7, <1>10, <1>11, <1>14 DEF PhaseOK, p
  <1>20. DataOK(s, p)'
    BY <1>1, <1>7, <1>10, <1>11, <1>12, <1>14 DEF DataOK, p
  <1>21. DataOK(p, s)'
    BY <1>1, <1>7, <1>10, <1>11, <1>14 DEF DataOK, p
  <1>22. TransferInv'
    BY <1>11, <1>15, <1>16, <1>17, <1>18, <1>19, <1>20, <1>21, Kept DEF p
  <1> QED
    BY <1>7, <1>9, <1>22 DEF p

\* The confirmation of a transfer.
LEMMA ConfirmedInv ==
    ASSUME RtInv, TransferInv, NEW s \in Side, doSSendcnf(s)
    PROVE  /\ TransferInv'
           /\ rts[s].call = "ack" /\ Sending(s) /\ ~Has(s, "ACB_TIMER")
           /\ rts[s].whole # << >>
           /\ delivered[Peer(s)] = confirmed[s] \o rts[s].whole
  <1> DEFINE p == Peer(s)
             flags == S!NextAct(sb[s]) \ {"SB_MAP", "SB_AE"}
             a == [Without(acb[s], {"ACB_ACT", "ACB_TIMER"}) EXCEPT !.acb_actno = @ + 1]
  <1>1. /\ S!Inv /\ RtLocal /\ SideOK(s) /\ ThreadOK(s) /\ QueueOK(net[s])
        /\ PairOK(s, p) /\ PairOK(p, s) /\ p \in Side /\ QueueOK(net[p])
    BY Known, Sides DEF RtInv
  <1>2. /\ Takes(s, flags, sb[s].sb_owned) /\ Head(net[s]).code = "MAA" /\ Waits(s)
    BY <1>1, ReadTakes DEF doSSendcnf, Reads
  <1>3. Confirming(net[s]) /\ Has(s, "ACB_CONN") /\ SB(s, "SB_CONN")
    BY <1>1, <1>2, TakesKeeps DEF SideOK, Takes
  <1>4. /\ SB(s, "SB_MAP") /\ ~SB(s, "SB_AI") /\ rts[s].call = "ack"
        /\ ~Has(s, "ACB_TIMER") /\ Has(s, "ACB_ACT")
    BY <1>1, <1>3 DEF PairOK, PhaseOK, ThreadOK
  <1>5. rts[s].call \in InTransferCall
    BY <1>4 DEF InTransferCall
  <1>6. /\ Has(s, "ACB_TURN") /\ rts[s].whole # << >>
        /\ rts[s] \in thread /\ acb[s] \in assocblk
    BY <1>5, TransFacts
  <1>7. /\ ~Speaking(net[p]) /\ ~Speaking(net[s]) /\ Held(p) /\ ~Has(p, "ACB_TURN")
        /\ rts[p].do \notin Answer \cup {"report"} /\ ~SB(p, "SB_ED")
        /\ delivered[p] = confirmed[s] \o rts[s].whole
    BY <1>1, <1>3, <1>6 DEF PairOK, PhaseOK, TurnOK, DataOK, Replying
  <1>8. /\ acb' = [acb EXCEPT ![s] = a] /\ rts' = [rts EXCEPT ![s] = Idle]
        /\ confirmed' = [confirmed EXCEPT ![s] = confirmed[s] \o rts[s].whole]
        /\ mode' = mode /\ delivered' = delivered
    BY <1>4, <1>6 DEF doSSendcnf, Sending, Ended
  <1>9. /\ a.acb_flags = acb[s].acb_flags \ {"ACB_ACT", "ACB_TIMER"}
        /\ a.acb_len = acb[s].acb_len
    BY <1>6 DEF Without, assocblk
  <1> HIDE DEF a
  <1>10. /\ acb'[s] = a /\ rts'[s] = Idle /\ acb'[p] = acb[p] /\ rts'[p] = rts[p]
         /\ confirmed'[s] = delivered[p] /\ confirmed'[p] = confirmed[p]
    BY <1>1, <1>7, <1>8, Sides DEF RtLocal
  <1>11. /\ Has(s, "ACB_CONN")' /\ Has(s, "ACB_TURN")' /\ ~Has(s, "ACB_ACT")'
         /\ ~Has(s, "ACB_TIMER")' /\ acb'[s].acb_len = acb[s].acb_len
         /\ rts'[s].call = "idle" /\ rts'[s].do = "none" /\ rts'[s].whole = << >>
    BY <1>3, <1>6, <1>9, <1>10 DEF Has, Idle
  <1>12. Took(s, "MAA")
    BY <1>2, <1>10, TakeStep
  <1>13. ~Replying(net'[s])
    BY <1>12 DEF Took, ReplyCode
  <1>14. /\ sb'[s].sb_flags = flags /\ Stores(s, flags, sb[s].sb_owned)
    BY <1>2 DEF Takes, Stores
  <1>15. /\ ~SB(s, "SB_AI")' /\ ~SB(s, "SB_MAP")' /\ SB(s, "SB_CONN")'
         /\ SB(s, "SB_ED")' <=> SB(s, "SB_ED")
    BY <1>3, <1>4, <1>14 DEF SB, S!NextAct
  <1>16. SideOK(s)'
    <2>1. Len(rts'[s].whole) <= 1
      BY <1>11
    <2>2. "SB_CONN" \in flags
      BY <1>14, <1>15 DEF SB
    <2> HIDE DEF flags
    <2> QED
      BY <1>1, <1>3, <1>6, <1>11, <1>14, <2>1, <2>2, SideStays
  <1>17. ThreadOK(s)'
    BY <1>11, <1>15 DEF ThreadOK, InTransferCall, Answer
  <1> HIDE DEF flags, p
  <1> USE DEF Adds, Has, SB, Held, Receiving, Sending, Fit,
              Speaking, Replying, Answer, Took, Frame, PairOK
  <1>18. TurnOK(s, p)' /\ TurnOK(p, s)'
    BY <1>1, <1>6, <1>7, <1>8, <1>11, <1>12 DEF TurnOK, p
  <1>19. PhaseOK(s, p)'
    BY <1>1, <1>7, <1>10, <1>11, <1>12, <1>13, <1>15 DEF PhaseOK, p
  <1>20. PhaseOK(p, s)'
    BY <1>1, <1>6, <1>7, <1>10, <1>11, <1>12, <1>15 DEF PhaseOK, p
  <1>21. DataOK(s, p)'
    BY <1>1, <1>7, <1>8, <1>10, <1>11, <1>12, <1>13, <1>15 DEF DataOK, p
  <1>22. DataOK(p, s)'
    BY <1>1, <1>7, <1>8, <1>10, <1>11, <1>12, <1>15 DEF DataOK, p
  <1>23. TransferInv'
    BY <1>12, <1>16, <1>17, <1>18, <1>19, <1>20, <1>21, <1>22, Kept DEF p
  <1> QED
    BY <1>4, <1>6, <1>7, <1>23 DEF p

\* S-U-EXCEPTION-REPORT: from here on the rest of the transfer is dropped.
LEMMA ReportInv ==
    ASSUME RtInv, TransferInv, NEW s \in Side, ReportSent(s)
    PROVE  TransferInv'
  <1> DEFINE p == Peer(s)
             flags == sb[s].sb_flags \cup {"SB_ED"}
             a == [acb[s] EXCEPT !.acb_len = 0]
  <1>1. /\ S!Inv /\ RtLocal /\ SideOK(s) /\ ThreadOK(s)
        /\ PairOK(s, p) /\ PairOK(p, s) /\ p \in Side
    BY Known, Sides DEF RtInv
  <1>2. Open(s) /\ Writes(s, "ED", flags, sb[s].sb_owned)
    BY <1>1, ReportWrites DEF ReportSent
  <1>3. rts[s].do = "report" /\ ~Has(s, "ACB_TURN") /\ SB(s, "SB_CONN") /\ Has(s, "ACB_CONN")
    BY <1>1, <1>2 DEF ReportSent, Due, ThreadOK, SideOK, Writes
  <1>4. acb[s] \in assocblk /\ rts[s] \in thread /\ Local(acb[s], rts[s])
    BY <1>1 DEF RtLocal, Local
  <1>5. a.acb_flags = acb[s].acb_flags /\ a.acb_len = 0
    BY <1>4 DEF assocblk
  <1>6. /\ acb'[s] = a /\ rts'[s] = [rts[s] EXCEPT !.do = "none"]
        /\ acb'[p] = acb[p] /\ rts'[p] = rts[p]
        /\ mode' = mode /\ delivered' = delivered /\ confirmed' = confirmed
    BY <1>1, GoesEffect DEF ReportSent, Done
  <1>7. /\ rts'[s].do = "none" /\ rts'[s].call = rts[s].call
        /\ rts'[s].left = rts[s].left /\ rts'[s].whole = rts[s].whole
    BY <1>4, <1>6 DEF thread
  <1> HIDE DEF a
  <1>8. Written(s, "ED")
    BY <1>2, <1>6, WriteStep DEF MayFollow, SpeakingCode, ClosingCode, ReplyCode
  <1>9. \A f : Has(s, f)' <=> Has(s, f)
    BY <1>5, <1>6 DEF Has
  <1>10. Stores(s, flags, sb[s].sb_owned) /\ "SB_CONN" \in flags
    BY <1>2, <1>3 DEF Writes, SB
  <1>11. /\ SB(s, "SB_ED")'
         /\ \A f \in {"SB_MAP", "SB_AI", "SB_Vact"} : SB(s, f)' <=> SB(s, f)
    BY <1>10 DEF Stores, SB
  <1>12. rts[s].call \notin InTransferCall
    BY <1>3, <1>4 DEF Local, Has
  <1> HIDE DEF flags
  <1>13. SideOK(s)'
    <2>1. rts[s].whole = << >> /\ Len(rts[s].whole) <= 1
      BY <1>1, <1>3, <1>12 DEF SideOK
    <2> QED
      BY <1>1, <1>3, <1>7, <1>9, <1>10, <2>1, SideStays
  <1>14. ThreadOK(s)'
    BY <1>1, <1>7, <1>9, <1>11, <1>12 DEF ThreadOK, Answer
  <1> HIDE DEF p
  <1> USE DEF Adds, Has, SB, Held, Receiving, Sending, Fit,
              Speaking, Replying, Answer, Written, Frame, PairOK
  <1>15. TurnOK(s, p)' /\ TurnOK(p, s)'
    BY <1>1, <1>5, <1>6, <1>8, <1>9 DEF TurnOK, p
  <1>16. PhaseOK(s, p)'
    BY <1>1, <1>6, <1>7, <1>8, <1>9, <1>11, <1>12 DEF PhaseOK, p
  <1>17. PhaseOK(p, s)'
    BY <1>1, <1>3, <1>5, <1>6, <1>7, <1>8, <1>9, <1>11 DEF PhaseOK, p
  <1>18. DataOK(s, p)'
    BY <1>1, <1>3, <1>6, <1>7, <1>8, <1>9, <1>11 DEF DataOK, p
  <1>19. DataOK(p, s)'
    BY <1>1, <1>3, <1>6, <1>7, <1>8, <1>9, <1>11 DEF DataOK, p
  <1> QED
    BY <1>8, <1>13, <1>14, <1>15, <1>16, <1>17, <1>18, <1>19, Kept DEF p

\* The activity is given up at the receiver, and the chunks with it.
LEMMA DroppedInv ==
    ASSUME RtInv, TransferInv, NEW s \in Side, ActivityDropped(s)
    PROVE  TransferInv'
  <1> DEFINE p == Peer(s)
             flags == sb[s].sb_flags \ {"SB_AIA", "SB_Vact"}
             a == [Without(acb[s], {"ACB_ACT"}) EXCEPT !.acb_len = 0]
  <1>1. /\ S!Inv /\ RtLocal /\ SideOK(s) /\ ThreadOK(s)
        /\ PairOK(s, p) /\ PairOK(p, s) /\ p \in Side
    BY Known, Sides DEF RtInv
  <1>2. /\ ~SB(s, "SB_ED")
        /\ \E code \in {"AIA", "ADA"} : Writes(s, code, flags, {})
    BY <1>1, AgreeWrites DEF ActivityDropped
  <1>3. PICK code \in {"AIA", "ADA"} : Writes(s, code, flags, {})
    BY <1>2
  <1>4. /\ rts[s].do \in {"intr_resp", "disc_resp"} /\ ~Has(s, "ACB_TURN")
        /\ SB(s, "SB_CONN") /\ Has(s, "ACB_CONN")
    BY <1>1, <1>3 DEF ActivityDropped, Due, ThreadOK, SideOK, Writes, Answer
  <1>5. acb[s] \in assocblk /\ rts[s] \in thread /\ Local(acb[s], rts[s])
    BY <1>1 DEF RtLocal, Local
  <1>6. a.acb_flags = acb[s].acb_flags \ {"ACB_ACT"} /\ a.acb_len = 0
    BY <1>5 DEF assocblk, Without
  <1>7. /\ acb'[s] = a /\ rts'[s] = [rts[s] EXCEPT !.do = "none"]
        /\ acb'[p] = acb[p] /\ rts'[p] = rts[p]
        /\ mode' = mode /\ delivered' = delivered /\ confirmed' = confirmed
    BY <1>1, GoesEffect DEF ActivityDropped, Done
  <1>8. /\ rts'[s].do = "none" /\ rts'[s].call = rts[s].call
        /\ rts'[s].left = rts[s].left /\ rts'[s].whole = rts[s].whole
    BY <1>5, <1>7 DEF thread
  <1> HIDE DEF a
  <1>9. ~Replying(net[p]) /\ ~Speaking(net[s]) /\ (Has(p, "ACB_CONN") => SB(p, "SB_AI"))
    BY <1>1, <1>4 DEF PairOK, PhaseOK, Answer
  <1>22. Sending(p) => SB(p, "SB_AI")
    BY <1>9, Known DEF Sending, SideOK, Has
  <1>10. Written(s, code)
    BY <1>3, <1>7, <1>9, WriteStep DEF MayFollow, SpeakingCode, ClosingCode, ReplyCode
  <1>11. /\ \A f \in {"ACB_CONN", "ACB_TURN", "ACB_TIMER"} : Has(s, f)' <=> Has(s, f)
         /\ ~Has(s, "ACB_ACT")' /\ acb'[s].acb_len = 0
    BY <1>6, <1>7 DEF Has
  <1>12. Stores(s, flags, sb[s].sb_owned) /\ "SB_CONN" \in flags
    BY <1>1, <1>3, <1>4 DEF Writes, SB, SideOK
  <1>13. \A f \in {"SB_MAP", "SB_AI", "SB_ED"} : SB(s, f)' <=> SB(s, f)
    BY <1>12 DEF Stores, SB
  <1>14. rts[s].call \notin InTransferCall
    BY <1>4, <1>5 DEF Local, Has
  <1> HIDE DEF flags
  <1>15. SideOK(s)'
    <2>1. rts[s].whole = << >> /\ Len(rts[s].whole) <= 1
      BY <1>1, <1>4, <1>14 DEF SideOK
    <2> QED
      BY <1>1, <1>4, <1>8, <1>11, <1>12, <2>1, SideStays
  <1>16. ThreadOK(s)'
    BY <1>1, <1>8, <1>11, <1>13, <1>14 DEF ThreadOK, Answer, InTransferCall
  <1> HIDE DEF p
  <1> USE DEF Adds, Has, SB, Held, Receiving, Sending, Fit,
              Speaking, Replying, Answer, Written, Frame, PairOK
  <1>17. TurnOK(s, p)' /\ TurnOK(p, s)'
    BY <1>1, <1>7, <1>9, <1>10, <1>11 DEF TurnOK, p
  <1>18. PhaseOK(s, p)'
    BY <1>1, <1>7, <1>8, <1>10, <1>11, <1>13, <1>14 DEF PhaseOK, p
  <1>19. PhaseOK(p, s)'
    BY <1>1, <1>2, <1>7, <1>8, <1>9, <1>10, <1>11, <1>13 DEF PhaseOK, p
  <1>20. DataOK(s, p)'
    BY <1>1, <1>4, <1>7, <1>8, <1>10, <1>11, <1>13 DEF DataOK, p
  <1>21. DataOK(p, s)'
    BY <1>1, <1>4, <1>7, <1>8, <1>9, <1>10, <1>11, <1>13, <1>22 DEF DataOK, p
  <1> QED
    BY <1>10, <1>15, <1>16, <1>17, <1>18, <1>19, <1>20, <1>21, Kept DEF p

\* The chunks of a transfer are what is handed over of it.
LEMMA WholeOne ==
    ASSUME NEW w \in Seq(Nat), w # << >>, Len(w) <= 1, NEW q \in Seq(Nat)
    PROVE  Append(q, w[1]) = q \o w
  <1>1. Len(w) = 1
    <2>1. Len(w) \in Nat \ {0}
      BY EmptySeq
    <2>2. \A n \in Nat \ {0} : n <= 1 => n = 1
      OBVIOUS
    <2> QED
      BY <2>1, <2>2, Zenon
  <1>2. w[1] \in Nat
    BY <1>1, ElementOfSeq
  <1>3. w = <<w[1]>>
    <2>1. <<w[1]>> \in Seq(Nat) /\ Len(<<w[1]>>) = 1 /\ <<w[1]>>[1] = w[1]
      BY <1>2
    <2>2. \A i \in 1 .. Len(w) : w[i] = <<w[1]>>[i]
      BY <1>1, <2>1
    <2> QED
      BY <1>1, <2>1, <2>2, SeqEqual
  <1>4. Append(q, w[1]) = q \o <<w[1]>>
    BY <1>2, AppendIsConcat
  <1> QED
    BY <1>3, <1>4

\* RTI_TRANSFER: what is handed over is the transfer that was asked for.
LEMMA DeliveredInv ==
    ASSUME RtInv, TransferInv, NEW s \in Side, Delivered(s)
    PROVE  /\ TransferInv'
           /\ rts[Peer(s)].whole # << >> /\ delivered[s] = confirmed[Peer(s)]
           /\ delivered'[s] = delivered[s] \o rts[Peer(s)].whole
  <1> DEFINE p == Peer(s)
             flags == S!NextAct(sb[s]) \ {"SB_MAA", "SB_AE"}
             a == [Without(acb[s], {"ACB_ACT"}) EXCEPT !.acb_len = 0]
  <1>1. /\ S!Inv /\ RtLocal /\ SideOK(s) /\ ThreadOK(s) /\ SideOK(p)
        /\ PairOK(s, p) /\ PairOK(p, s) /\ p \in Side
    BY Known, Sides DEF RtInv
  <1>2. Open(s) /\ Writes(s, "MAA", flags, sb[s].sb_owned)
    BY <1>1, ConfirmWrites DEF Delivered
  <1>3. /\ rts[s].do = "end_resp" /\ ~Has(s, "ACB_TURN")
        /\ SB(s, "SB_CONN") /\ Has(s, "ACB_CONN") /\ ~SB(s, "SB_ED")
    BY <1>1, <1>2 DEF Delivered, Due, ThreadOK, SideOK, Writes, Answer, Open
  <1>4. /\ acb[s] \in assocblk /\ rts[s] \in thread /\ Local(acb[s], rts[s])
        /\ acb[s].acb_len \in Nat /\ rts[p].whole \in Seq(Nat)
        /\ delivered[s] \in Seq(Nat)
    BY <1>1 DEF RtLocal, Local, assocblk, thread
  <1>5. a.acb_flags = acb[s].acb_flags \ {"ACB_ACT"} /\ a.acb_len = 0
    BY <1>4 DEF assocblk, Without
  <1>6. /\ acb' = [acb EXCEPT ![s] = a] /\ rts' = [rts EXCEPT ![s].do = "none"]
        /\ delivered' = [delivered EXCEPT ![s] = Append(delivered[s], acb[s].acb_len)]
        /\ mode' = mode /\ confirmed' = confirmed
    BY DEF Delivered
  <1> HIDE DEF a
  <1>7. /\ acb'[s] = a /\ rts'[s] = [rts[s] EXCEPT !.do = "none"]
        /\ acb'[p] = acb[p] /\ rts'[p] = rts[p]
        /\ delivered'[p] = delivered[p]
        /\ delivered'[s] = Append(delivered[s], acb[s].acb_len)
    BY <1>1, <1>6, Sides DEF RtLocal
  <1>8. /\ rts'[s].do = "none" /\ rts'[s].call = rts[s].call
        /\ rts'[s].left = rts[s].left /\ rts'[s].whole = rts[s].whole
    BY <1>4, <1>7 DEF thread
  <1>9. /\ ~Replying(net[p]) /\ ~Speaking(net[s])
        /\ Has(p, "ACB_CONN") => SB(p, "SB_MAP")
    BY <1>1, <1>3 DEF PairOK, PhaseOK, Answer
  <1>26. Sending(p) => SB(p, "SB_MAP")
    BY <1>1, <1>9 DEF Sending, SideOK, Has
  <1>10. /\ rts[p].whole # << >> /\ delivered[s] = confirmed[p]
         /\ Chunks(net[s]) + acb[s].acb_len = rts[p].whole[1]
    BY <1>1, <1>3 DEF PairOK, DataOK, Fit
  <1>11. acb[s].acb_len = rts[p].whole[1]
    <2>1. Chunks(net[s]) = 0
      <3>1. net[s] \in Seq(S!Spdu)
        BY <1>1, SessionTypes
      <3> QED
        BY <1>9, <3>1, ChunkSet DEF Speaking
    <2> QED
      BY <1>4, <1>10, <2>1
  <1>12. delivered'[s] = delivered[s] \o rts[p].whole
    <2>1. Len(rts[p].whole) <= 1
      BY <1>1 DEF SideOK
    <2> QED
      BY <1>4, <1>7, <1>10, <1>11, <2>1, WholeOne
  <1>13. Written(s, "MAA")
    BY <1>2, <1>7, <1>9, WriteStep DEF MayFollow, SpeakingCode, ClosingCode, ReplyCode
  <1>14. /\ \A f \in {"ACB_CONN", "ACB_TURN", "ACB_TIMER"} : Has(s, f)' <=> Has(s, f)
         /\ ~Has(s, "ACB_ACT")' /\ acb'[s].acb_len = 0
    BY <1>5, <1>7 DEF Has
  <1>15. Stores(s, flags, sb[s].sb_owned) /\ "SB_CONN" \in flags
    BY <1>2, <1>3 DEF Writes, SB, S!NextAct
  <1>16. \A f \in {"SB_MAP", "SB_AI", "SB_ED"} : SB(s, f)' <=> SB(s, f)
    BY <1>15 DEF Stores, SB, S!NextAct
  <1>17. rts[s].call \notin InTransferCall
    BY <1>3, <1>4 DEF Local, Has
  <1> HIDE DEF flags
  <1>18. SideOK(s)'
    <2>1. rts[s].whole = << >> /\ Len(rts[s].whole) <= 1
      BY <1>1, <1>3, <1>17 DEF SideOK
    <2> QED
      BY <1>1, <1>3, <1>8, <1>14, <1>15, <2>1, SideStays
  <1>19. ThreadOK(s)'
    BY <1>1, <1>8, <1>14, <1>16, <1>17 DEF ThreadOK, Answer, InTransferCall
  <1> HIDE DEF p
  <1> USE DEF Adds, Has, SB, Held, Receiving, Sending, Fit,
              Speaking, Replying, Answer, Written, Frame, PairOK
  <1>20. TurnOK(s, p)' /\ TurnOK(p, s)'
    BY <1>1, <1>6, <1>7, <1>9, <1>13, <1>14 DEF TurnOK, p
  <1>21. PhaseOK(s, p)'
    BY <1>1, <1>7, <1>8, <1>13, <1>14, <1>16, <1>17 DEF PhaseOK, p
  <1>22. PhaseOK(p, s)'
    BY <1>1, <1>3, <1>7, <1>8, <1>9, <1>13, <1>14, <1>16 DEF PhaseOK, p
  <1>23. DataOK(s, p)'
    BY <1>1, <1>3, <1>6, <1>7, <1>8, <1>13, <1>14, <1>16 DEF DataOK, p
  <1>24. DataOK(p, s)'
    BY <1>1, <1>3, <1>6, <1>7, <1>8, <1>9, <1>10, <1>12, <1>13, <1>14, <1>16, <1>26
    DEF DataOK, p
  <1>25. TransferInv'
    BY <1>13, <1>18, <1>19, <1>20, <1>21, <1>22, <1>23, <1>24, Kept DEF p
  <1> QED
    BY <1>10, <1>12, <1>25 DEF p

-----------------------------------------------------------------------------
(* The association goes, and the steps that are of no matter.              *)

\* freeacblk and freesblk at one end.
LEMMA FreedInv ==
    ASSUME RtInv, TransferInv, NEW s \in Side, freeacblk(s),
           NEW why, NEW q \in {<< >>, <<S!AB>>, <<S!newspkt("DN")>>},
           S!freesblk(s, why, q)
    PROVE  TransferInv'
  <1> DEFINE p == Peer(s)
  <1>1. /\ S!Inv /\ RtLocal /\ SideOK(s) /\ PairOK(s, p) /\ PairOK(p, s)
        /\ QueueOK(net[p])
    BY Known DEF RtInv
  <1>2. Frees(s)
    BY <1>1, FreesBlock
  <1>3. /\ acb'[s] = newacblk /\ rts'[s] = [Idle EXCEPT !.whole = rts[s].whole]
        /\ acb'[p] = acb[p] /\ rts'[p] = rts[p]
        /\ mode' = mode /\ delivered' = delivered /\ confirmed' = confirmed
    BY <1>1, GoesEffect DEF freeacblk
  <1>4. /\ rts'[s].call = "idle" /\ rts'[s].do = "none"
        /\ rts'[s].whole = rts[s].whole
        /\ acb'[s].acb_len = 0 /\ acb'[s].acb_flags = {}
    BY <1>3 DEF Idle, newacblk
  <1>5. /\ sb'[s].sb_flags = {} /\ net'[s] = << >>
        /\ sb'[p] = sb[p] /\ QueueOK(net'[p]) /\ Adds(net[p], net'[p], "none")
        /\ Chunks(net'[p]) = Chunks(net[p])
    BY <1>2 DEF Frees, S!newsblk
  <1>6. \A codes : ~Carries(net'[s], codes)
    BY <1>5, EmptyQueue
  <1>7. /\ ~Speaking(net'[s]) /\ ~Replying(net'[s]) /\ ~Ending(net'[s])
        /\ ~Confirming(net'[s]) /\ ~Turning(net'[s]) /\ ~Body(net'[s])
        /\ ~Dropping(net'[s]) /\ ~Agreeing(net'[s])
    BY <1>6 DEF Speaking, Replying, Body, Ending, Dropping, Turning, Confirming, Agreeing
  <1>8. Frame(s)
    BY <1>3, <1>5 DEF Frame
  <1>9. SideOK(Peer(s))' /\ ThreadOK(Peer(s))' /\ QueueOK(net'[s])
    BY <1>5, <1>8, PeerKeeps, EmptyQueue
  <1>10. SideOK(s)'
    BY <1>1, <1>4, <1>5 DEF SideOK, Has, SB
  <1>11. ThreadOK(s)'
    BY <1>4, <1>5 DEF ThreadOK, Has, SB, Answer, InTransferCall
  <1> HIDE DEF p
  <1> USE DEF Adds, Has, SB, Held, Receiving, Sending, Fit, Answer, PairOK
  <1>12. TurnOK(s, p)' /\ TurnOK(p, s)'
    BY <1>1, <1>3, <1>4, <1>5, <1>7 DEF TurnOK, Speaking
  <1>13. PhaseOK(s, p)'
    BY <1>1, <1>3, <1>4, <1>5, <1>7 DEF PhaseOK, Speaking, Replying
  <1>14. PhaseOK(p, s)'
    BY <1>1, <1>3, <1>4, <1>5, <1>7 DEF PhaseOK, Speaking, Replying
  <1>15. DataOK(s, p)'
    BY <1>1, <1>3, <1>4, <1>5, <1>7 DEF DataOK
  <1>16. DataOK(p, s)'
    BY <1>1, <1>3, <1>4, <1>5, <1>7 DEF DataOK
  <1> QED
    BY <1>5, <1>9, <1>10, <1>11, <1>12, <1>13, <1>14, <1>15, <1>16, Kept DEF p

\* Nothing but what is under way changes, by SPDUs of no matter.
LEMMA StillInv ==
    ASSUME TransferInv, UNCHANGED rtsvars, sb' = sb,
           \A s \in Side : /\ QueueOK(net'[s]) /\ Adds(net[s], net'[s], "none")
                           /\ Chunks(net'[s]) = Chunks(net[s])
    PROVE  TransferInv'
  <1>1. /\ mode' = mode /\ acb' = acb /\ rts' = rts
        /\ delivered' = delivered /\ confirmed' = confirmed
    BY DEF rtsvars
  <1>2. ASSUME NEW s \in Side
        PROVE  /\ SideOK(s)' /\ ThreadOK(s)' /\ QueueOK(net[s])' /\ PairOK(s, Peer(s))'
    <2> DEFINE p == Peer(s)
    <2>1. SideOK(s) /\ ThreadOK(s) /\ PairOK(s, p) /\ p \in Side
      BY Known, Sides
    <2>2. /\ QueueOK(net'[s]) /\ Adds(net[s], net'[s], "none")
          /\ Adds(net[p], net'[p], "none") /\ Chunks(net'[p]) = Chunks(net[p])
      BY <2>1
    <2> HIDE DEF p
    <2>3. SideOK(s)' /\ ThreadOK(s)'
      BY <1>1, <2>1 DEF SideOK, ThreadOK, Has, SB
    <2> USE DEF Adds, Has, SB, Held, Receiving, Sending, Fit, Speaking, Replying, PairOK
    <2>4. TurnOK(s, p)'
      BY <1>1, <2>1, <2>2 DEF TurnOK
    <2>5. PhaseOK(s, p)'
      BY <1>1, <2>1, <2>2 DEF PhaseOK
    <2>6. DataOK(s, p)'
      BY <1>1, <2>1, <2>2 DEF DataOK
    <2> QED
      BY <2>2, <2>3, <2>4, <2>5, <2>6 DEF p
  <1> QED
    BY <1>2 DEF TransferInv

\* The transport disconnects both ends.
LEMMA FailsInv ==
    ASSUME RtInv, TransferInv, TransportFails
    PROVE  TransferInv'
  <1>1. ASSUME NEW s \in Side
        PROVE  /\ QueueOK(net'[s]) /\ Adds(net[s], net'[s], "none")
               /\ Chunks(net'[s]) = Chunks(net[s])
    <2>1. net'[s] = Append(net[s], S!TDISC)
      BY SameSide DEF TransportFails, S!TransportFails
    <2>2. net[s] \in Seq(S!Spdu) /\ QueueOK(net[s])
      BY SessionTypes, Known DEF RtInv
    <2> QED
      BY <2>1, <2>2, DisconnectSpdus, QuietAppend
  <1>2. UNCHANGED rtsvars /\ sb' = sb
    BY DEF TransportFails, S!TransportFails
  <1> QED
    BY <1>1, <1>2, StillInv

\* Nothing happens.
LEMMA StutterInv ==
    ASSUME TransferInv, UNCHANGED vars
    PROVE  TransferInv'
  <1>1. UNCHANGED rtsvars /\ sb' = sb /\ net' = net
    BY DEF vars, rtsvars, session
  <1>2. ASSUME NEW s \in Side
        PROVE  /\ QueueOK(net'[s]) /\ Adds(net[s], net'[s], "none")
               /\ Chunks(net'[s]) = Chunks(net[s])
    BY <1>1, Known DEF Adds
  <1> QED
    BY <1>1, <1>2, StillInv

\* What a step of no matter does to the session, to the association block
\* and to the thread of s.
QuietSession(s, flags) ==
    /\ \/ \E code \in {"PT", "FN", "MIA"} : Writes(s, code, flags, sb[s].sb_owned)
       \/ /\ Takes(s, flags, sb[s].sb_owned)
          /\ Head(net[s]).code = "DT" => SB(s, "SB_ED")
       \/ UNCHANGED session /\ SB(s, "SB_CONN") /\ flags = sb[s].sb_flags
    /\ \A f \in {"SB_CONN", "SB_MAP", "SB_AI", "SB_ED", "SB_Vact"} :
         f \in flags <=> f \in sb[s].sb_flags

QuietBlock(s, a) ==
    /\ a \in assocblk /\ a.acb_len = acb[s].acb_len
    /\ \A f \in {"ACB_CONN", "ACB_TURN", "ACB_ACT", "ACB_TIMER"} :
         f \in a.acb_flags <=> f \in acb[s].acb_flags

QuietThread(s, r) ==
    /\ r \in thread /\ r.left = rts[s].left /\ r.whole = rts[s].whole
    /\ r.call # rts[s].call => r.call = "release" /\ rts[s].call = "idle"
    /\ r.do \in {"none", "lose", "discard", "interrupt"}
    /\ r.do \in {"discard", "interrupt"} => r.call \in InTransferCall
    /\ rts[s].do \notin {"report", "lose"}

\* A step of no matter to the transfers keeps the invariant.
LEMMA QuietInv ==
    ASSUME RtInv, TransferInv, NEW s \in Side,
           NEW a, QuietBlock(s, a), NEW r, QuietThread(s, r), Goes(s, a, r),
           NEW flags, QuietSession(s, flags)
    PROVE  TransferInv'
  <1> USE DEF QuietSession, QuietBlock, QuietThread
  <1> DEFINE p == Peer(s)
  <1>1. /\ S!Inv /\ RtLocal /\ SideOK(s) /\ ThreadOK(s) /\ QueueOK(net[s])
        /\ QueueOK(net[p])
    BY Known DEF RtInv
  <1>2. /\ acb'[s] = a /\ rts'[s] = r /\ acb'[p] = acb[p] /\ rts'[p] = rts[p]
        /\ mode' = mode /\ delivered' = delivered /\ confirmed' = confirmed
    BY <1>1, GoesEffect
  <1>3. /\ Frame(s) /\ Stores(s, flags, sb[s].sb_owned) /\ SB(s, "SB_CONN")
        /\ QueueOK(net'[s]) /\ QueueOK(net'[p])
        /\ Adds(net[s], net'[s], "none") /\ Adds(net[p], net'[p], "none")
        /\ Chunks(net'[p]) = Chunks(net[p])
        /\ ~SB(s, "SB_ED") => Chunks(net'[s]) = Chunks(net[s])
    <2>1. ASSUME NEW code \in {"PT", "FN", "MIA"},
                 Writes(s, code, flags, sb[s].sb_owned)
          PROVE  /\ Frame(s) /\ Stores(s, flags, sb[s].sb_owned) /\ SB(s, "SB_CONN")
                 /\ QueueOK(net'[s]) /\ QueueOK(net'[p])
                 /\ Adds(net[s], net'[s], "none") /\ Adds(net[p], net'[p], "none")
                 /\ Chunks(net'[p]) = Chunks(net[p])
                 /\ Chunks(net'[s]) = Chunks(net[s])
      <3>1. Written(s, code)
        BY <1>2, <2>1, WriteStep DEF MayFollow, SpeakingCode, ClosingCode, ReplyCode
      <3>2. Adds(net[p], net'[p], "none")
        BY <3>1 DEF Written, Adds
      <3>3. net'[s] = net[s] /\ Adds(net[s], net[s], "none")
        BY <3>1 DEF Written, Adds
      <3> QED
        BY <2>1, <3>1, <3>2, <3>3 DEF Written, Writes
    <2>2. CASE /\ Takes(s, flags, sb[s].sb_owned)
               /\ Head(net[s]).code = "DT" => SB(s, "SB_ED")
      <3>1. Took(s, Head(net[s]).code)
        BY <1>2, <2>2, TakeStep
      <3>2. Head(net[s]).code # "DT" => Chunks(net'[s]) = Chunks(net[s])
        <4>1. /\ Chunks(net[s]) = Chunks(net'[s]) + (IF Head(net[s]).code = "DT" THEN 1 ELSE 0)
              /\ Chunks(net[s]) \in Nat /\ Chunks(net'[s]) \in Nat
          BY <3>1 DEF Took
        <4> QED
          BY <4>1
      <3> QED
        BY <2>2, <3>1, <3>2 DEF Took, Takes
    <2>3. CASE UNCHANGED session /\ SB(s, "SB_CONN") /\ flags = sb[s].sb_flags
      BY <1>1, <1>2, <2>3 DEF session, Frame, Stores, Adds
    <2> QED
      BY <2>1, <2>2, <2>3
  <1>4. \A f \in {"SB_CONN", "SB_MAP", "SB_AI", "SB_ED", "SB_Vact"} : SB(s, f)' <=> SB(s, f)
    BY <1>3 DEF Stores, SB
  <1>5. \A f \in {"ACB_CONN", "ACB_TURN", "ACB_ACT", "ACB_TIMER"} : Has(s, f)' <=> Has(s, f)
    BY <1>2 DEF Has
  <1>6. r.call \in InTransferCall <=> rts[s].call \in InTransferCall
    BY DEF InTransferCall
  <1>7. SideOK(s)'
    <2>1. /\ rts[s].call \notin InTransferCall => rts[s].whole = << >>
          /\ Len(rts[s].whole) <= 1 /\ Has(s, "ACB_CONN")
      BY <1>1, <1>3 DEF SideOK
    <2>2. "SB_CONN" \in flags
      BY <1>3 DEF SB
    <2> QED
      BY <1>1, <1>2, <1>3, <1>5, <1>6, <2>1, <2>2, SideStays
  <1>8. ThreadOK(s)'
    <2>1. (r.call = "ack" <=> rts[s].call = "ack") /\ (r.call = "end" <=> rts[s].call = "end")
      OBVIOUS
    <2> QED
      BY <1>1, <1>2, <1>4, <1>5, <1>6, <2>1 DEF ThreadOK, Answer
  <1>9. Quiet(s)
    <2>1. Fit(s)' => Chunks(net'[s]) = Chunks(net[s])
      BY <1>3, <1>4 DEF Fit
    <2> QED
      BY <1>2, <1>3, <1>4, <1>5, <1>6, <2>1 DEF Quiet, Answer
  <1>10. PairOK(s, Peer(s))' /\ PairOK(Peer(s), s)'
    BY <1>9, QuietKeeps
  <1>11. SideOK(Peer(s))' /\ ThreadOK(Peer(s))'
    BY <1>3, PeerKeeps
  <1> QED
    BY <1>3, <1>7, <1>8, <1>10, <1>11, BothWays

\* Which steps those are.
LEMMA QuietSteps ==
    ASSUME RtInv, TransferInv, NEW s \in Side,
           \/ rt2sspturn(s) \/ RtEndRequest(s) \/ ReadOnly(s) \/ doSSplease(s)
           \/ RtWaitPlease(s) \/ doSSminorcnf(s) \/ doSSreport(s) \/ doSSfinish(s)
           \/ MinorConfirmed(s)
    PROVE  TransferInv'
  <1> DEFINE F == sb[s].sb_flags
             O == sb[s].sb_owned
  <1>1. /\ S!Inv /\ RtLocal /\ SideOK(s) /\ ThreadOK(s) /\ QueueOK(net[s])
    BY Known DEF RtInv
  <1>2. /\ acb[s] \in assocblk /\ rts[s] \in thread /\ rts[s].ssn \in Nat
        /\ Local(acb[s], rts[s])
    BY <1>1 DEF RtLocal, Local, thread
  <1>3. QuietBlock(s, acb[s])
    BY <1>2 DEF QuietBlock
  <1>4. rts[s].do = "none" => QuietThread(s, rts[s])
    BY <1>2 DEF QuietThread
  <1>5. ASSUME NEW do \in {"none", "lose", "discard", "interrupt"},
               do \in {"discard", "interrupt"} => rts[s].call \in InTransferCall,
               rts[s].do \notin {"report", "lose"}
        PROVE  QuietThread(s, [rts[s] EXCEPT !.do = do])
    BY <1>2, <1>5 DEF thread, Do, QuietThread
  <1>6. Waits(s) => rts[s].do = "none" /\ rts[s].call \in {"idle", "ack", "window"}
    BY DEF Waits, At
  <1>7. CASE rt2sspturn(s)
    <2>1. Writes(s, "PT", F, O) /\ rts[s].do = "none"
      BY <1>1, <1>7, PleaseWrites DEF rt2sspturn, MayPlease, rtsapPsig, At
    <2>2. QuietSession(s, F)
      BY <2>1 DEF QuietSession
    <2>3. Goes(s, acb[s], rts[s])
      BY <1>1, <1>7, StillGoes DEF rt2sspturn
    <2> QED
      BY <1>3, <1>4, <2>1, <2>2, <2>3, QuietInv
  <1>8. CASE RtEndRequest(s)
    <2> DEFINE r == [rts[s] EXCEPT !.call = "release"]
    <2>1. /\ Writes(s, "FN", F, O) /\ rts[s].do = "none" /\ rts[s].call = "idle"
          /\ Goes(s, acb[s], r)
      BY <1>1, <1>8, FinishWrites DEF RtEndRequest, MayEnd, rtsapPsig, At
    <2>2. QuietSession(s, F)
      BY <2>1 DEF QuietSession
    <2>3. QuietThread(s, r)
      BY <1>2, <2>1 DEF thread, Call, QuietThread
    <2> HIDE DEF r
    <2> QED
      BY <1>3, <2>1, <2>2, <2>3, QuietInv
  <1>9. CASE ReadOnly(s)
    <2> DEFINE f == F \ {"SB_GTC"}
    <2>1. Goes(s, acb[s], rts[s]) /\ rts[s].do = "none"
      BY <1>1, <1>6, <1>9, StillGoes DEF ReadOnly
    <2>2. S!ReadSpin(s) => QuietSession(s, F)
      BY <1>1, SpinTakes DEF QuietSession
    <2>3. S!ReadGTA(s) => QuietSession(s, f)
      BY <1>1, ReadTakes DEF QuietSession
    <2> HIDE DEF f
    <2> QED
      BY <1>3, <1>4, <1>9, <2>1, <2>2, <2>3, QuietInv DEF ReadOnly
  <1>10. CASE doSSplease(s)
    <2> DEFINE a == With(acb[s], {"ACB_PLEASE"})
    <2>1. Takes(s, F, O) /\ Head(net[s]).code # "DT" /\ rts[s].do = "none"
      BY <1>1, <1>6, <1>10, ReadTakes DEF doSSplease, Reads
    <2>2. QuietBlock(s, a)
      BY <1>2 DEF With, assocblk, AcbFlag, QuietBlock
    <2>3. QuietSession(s, F)
      BY <2>1 DEF QuietSession
    <2>4. CASE UNCHANGED rtsvars
      BY <1>1, <1>3, <1>4, <2>1, <2>3, <2>4, StillGoes, QuietInv
    <2>5. CASE Goes(s, a, rts[s])
      <3> HIDE DEF a
      <3> QED
        BY <1>4, <2>1, <2>2, <2>3, <2>5, QuietInv
    <2>6. ASSUME NEW do \in {"lose", "interrupt"}, Owes(s, do),
                 do = "interrupt" => trans(s)
          PROVE  TransferInv'
      <3>1. do = "interrupt" => rts[s].call \in InTransferCall
        BY <2>6 DEF trans, InTransferCall
      <3>2. QuietThread(s, [rts[s] EXCEPT !.do = do])
        BY <1>5, <2>1, <2>6, <3>1
      <3> QED
        BY <1>3, <2>3, <2>6, <3>2, QuietInv DEF Owes
    <2> QED
      BY <1>10, <2>4, <2>5, <2>6 DEF doSSplease
  <1>11. CASE RtWaitPlease(s)
    <2> DEFINE a == Without(acb[s], {"ACB_PLEASE"})
    <2>1. /\ Goes(s, a, rts[s]) /\ UNCHANGED session /\ rts[s].do = "none"
          /\ SB(s, "SB_CONN")
      BY <1>1, <1>11 DEF RtWaitPlease, rtsapPsig, At, SideOK
    <2>2. QuietBlock(s, a)
      BY <1>2 DEF Without, assocblk, QuietBlock
    <2>3. QuietSession(s, F)
      BY <2>1 DEF QuietSession
    <2> HIDE DEF a
    <2> QED
      BY <1>4, <2>1, <2>2, <2>3, QuietInv
  <1>12. CASE doSSminorcnf(s)
    <2> DEFINE a == [acb[s] EXCEPT !.acb_ack = Head(net[s]).serial]
               r == [rts[s] EXCEPT !.do = "lose"]
    <2>1. Takes(s, F, O) /\ Head(net[s]).code # "DT" /\ rts[s].do = "none"
      BY <1>1, <1>6, <1>12, ReadTakes DEF doSSminorcnf, Reads
    <2>2. Head(net[s]).serial \in Nat
      BY <1>1, <2>1, SessionNumbers DEF Takes
    <2>3. QuietBlock(s, a)
      BY <1>2, <2>2 DEF assocblk, QuietBlock
    <2>4. QuietThread(s, r)
      BY <1>5, <2>1
    <2>5. Goes(s, a, rts[s]) \/ Goes(s, acb[s], r)
      BY <1>12 DEF doSSminorcnf, Owes
    <2>6. QuietSession(s, F)
      BY <2>1 DEF QuietSession
    <2> HIDE DEF a, r
    <2> QED
      BY <1>3, <1>4, <2>1, <2>3, <2>4, <2>5, <2>6, QuietInv
  <1>13. CASE doSSreport(s)
    <2>1. PICK do \in {"discard", "lose"} :
            /\ do = "discard" => Sending(s)
            /\ Goes(s, acb[s], [rts[s] EXCEPT !.do = do])
      BY <1>13 DEF doSSreport, Owes
    <2> DEFINE f == F \cup {"SB_EDACK"}
    <2>2. (Takes(s, F, O) \/ Takes(s, f, O)) /\ Head(net[s]).code # "DT" /\ Waits(s)
      BY <1>1, <1>13, ReadTakes DEF doSSreport, Reads
    <2>3. QuietSession(s, F) \/ QuietSession(s, f)
      BY <2>2 DEF QuietSession
    <2>4. do = "discard" => rts[s].call \in InTransferCall
      BY <1>2, <1>6, <2>1, <2>2 DEF Local, Sending, Has, InTransferCall
    <2>5. QuietThread(s, [rts[s] EXCEPT !.do = do])
      BY <1>5, <1>6, <2>2, <2>4
    <2> HIDE DEF f
    <2> QED
      BY <1>3, <2>1, <2>3, <2>5, QuietInv
  <1>14. CASE doSSfinish(s)
    <2> DEFINE a == With(acb[s], {"ACB_FINN"})
               r == [rts[s] EXCEPT !.do = "lose"]
               f == F \cup {"SB_FINN"}
    <2>1. Takes(s, f, O) /\ Head(net[s]).code # "DT" /\ rts[s].do = "none"
      BY <1>1, <1>6, <1>14, ReadTakes DEF doSSfinish, Reads
    <2>2. QuietBlock(s, a)
      BY <1>2 DEF With, assocblk, AcbFlag, QuietBlock
    <2>3. QuietSession(s, f)
      BY <2>1 DEF QuietSession
    <2>4. QuietThread(s, r)
      BY <1>5, <2>1
    <2>5. Goes(s, a, rts[s]) \/ Goes(s, acb[s], r)
      BY <1>14 DEF doSSfinish, Owes
    <2> HIDE DEF a, r, f
    <2> QED
      BY <1>3, <1>4, <2>1, <2>2, <2>3, <2>4, <2>5, QuietInv
  <1>15. CASE MinorConfirmed(s)
    <2> DEFINE r == [rts[s] EXCEPT !.do = "none"]
    <2>1. Writes(s, "MIA", F, O) /\ rts[s].do = "minor" /\ Goes(s, acb[s], r)
      BY <1>1, <1>2, <1>15, PointWrites DEF MinorConfirmed, Due, Done
    <2>2. QuietThread(s, r)
      BY <1>5, <2>1
    <2>3. QuietSession(s, F)
      BY <2>1 DEF QuietSession
    <2> HIDE DEF r
    <2> QED
      BY <1>3, <2>1, <2>2, <2>3, QuietInv
  <1> QED
    BY <1>7, <1>8, <1>9, <1>10, <1>11, <1>12, <1>13, <1>14, <1>15

\* The block and the association go: every way in which they do.
Losing(s) ==
    \/ Refused(s) \/ doSSabort(s) \/ Lose(s) \/ RtEndReturns(s) \/ RtEndResponse(s)

\* Whoever loses the association, nothing is left that contradicts it.
LEMMA GoneInv ==
    ASSUME RtInv, TransferInv, NEW s \in Side, Losing(s)
    PROVE  TransferInv' /\ freeacblk(s)
  <1>1. /\ freeacblk(s)
        /\ \/ S!SUAbortRequest(s) \/ S!ReadAB(s) \/ S!TDiscRead(s) \/ S!RelDN(s)
           \/ S!RelAB(s) \/ S!RelMangled(s) \/ S!SRelAccept(s) \/ S!SRelResponseFails(s)
    BY DEF Losing, Refused, doSSabort, Lose, RtEndReturns, RtEndResponse
  <1>2. \/ S!freesblk(s, "uabort", <<S!AB>>) \/ S!freesblk(s, "abort", << >>)
        \/ S!freesblk(s, "disc", << >>) \/ S!freesblk(s, "released", << >>)
        \/ S!freesblk(s, "protocol", <<S!AB>>)
        \/ S!freesblk(s, "released", <<S!newspkt("DN")>>)
    BY <1>1 DEF S!SUAbortRequest, S!ReadAB, S!TDiscRead, S!RelDN, S!RelAB, S!RelMangled,
                S!SRelAccept, S!SRelResponseFails
  <1>3. ASSUME NEW why, NEW q \in {<< >>, <<S!AB>>, <<S!newspkt("DN")>>},
               S!freesblk(s, why, q)
        PROVE  TransferInv'
    BY <1>1, <1>3, FreedInv
  <1> QED
    BY <1>1, <1>2, <1>3

\* The steps of rt2sstrans that send.
LEMMA SendsInv ==
    ASSUME RtInv, TransferInv, NEW s \in Side, Sends(s)
    PROVE  TransferInv'
  <1>1. /\ rts[s].call \in InTransferCall
        /\ TransBad(s) \/ TransTimer(s) => rts[s].do = "none"
    BY DEF Sends, TransFirst, TransSync, TransNext, TransBad, TransEnd,
           TransTimer, At, InTransferCall
  <1>2. rts[s] \in thread /\ acb[s] \in assocblk
    BY <1>1, TransFacts
  <1>3. ASSUME rts[s].do = "none", NEW call
        PROVE  [rts[s] EXCEPT !.call = call] = [rts[s] EXCEPT !.call = call, !.do = "none"]
    BY <1>2, <1>3 DEF thread
  <1>4. CASE TransFirst(s) \/ TransNext(s)
    BY <1>4, ChunkInv DEF TransFirst, TransNext, At
  <1>5. CASE TransBad(s)
    <2>1. /\ S!SActDiscRequest(s) /\ "end" \in InTransferCall \ {"ack"}
          /\ Goes(s, acb[s], [rts[s] EXCEPT !.call = "end", !.do = "none"])
      BY <1>1, <1>3, <1>5 DEF TransBad, InTransferCall
    <2> QED
      BY <1>1, <2>1, DropInv
  <1>6. CASE TransTimer(s)
    <2> DEFINE a == With(acb[s], {"ACB_TIMER"})
    <2>1. /\ S!SActDiscRequest(s)
          /\ Goes(s, a, [rts[s] EXCEPT !.call = "ack", !.do = "none"])
      BY <1>1, <1>3, <1>6 DEF TransTimer
    <2>2. a.acb_len = acb[s].acb_len /\ a.acb_flags = acb[s].acb_flags \cup {"ACB_TIMER"}
      BY <1>2 DEF With, assocblk
    <2> HIDE DEF a
    <2> QED
      BY <1>1, <2>1, <2>2, DropInv
  <1> QED
    BY <1>4, <1>5, <1>6, SyncInv, EndInv DEF Sends

\* The handlers that discard or interrupt the transfer of their own end.
LEMMA OwnDropInv ==
    ASSUME RtInv, TransferInv, NEW s \in Side, Discarding(s) \/ Interrupting(s)
    PROVE  TransferInv'
  <1>1. /\ rts[s].do \in {"discard", "interrupt"}
        /\ S!SActDiscRequest(s) \/ S!SActIntrRequest(s)
        /\ Goes(s, acb[s], [rts[s] EXCEPT !.do = "none"])
    BY DEF Discarding, Interrupting, Due, Done
  <1>2. rts[s].call \in InTransferCall
    BY <1>1, Known DEF ThreadOK
  <1>3. /\ rts[s] \in thread /\ acb[s] \in assocblk /\ S!Inv /\ ThreadOK(s)
    BY <1>2, TransFacts
  <1>4. [rts[s] EXCEPT !.do = "none"] = [rts[s] EXCEPT !.call = rts[s].call, !.do = "none"]
    BY <1>3 DEF thread
  <1>5. Open(s)
    BY <1>1, <1>3, DropWrites
  <1>6. rts[s].call # "ack"
    BY <1>3, <1>5 DEF Open, ThreadOK, SB
  <1> QED
    BY <1>1, <1>2, <1>4, <1>6, DropInv

\* The invariant holds when RT-BEGIN is over.
LEMMA InitTransfer == Init => TransferInv
  <1> SUFFICES ASSUME Init PROVE TransferInv
    OBVIOUS
  <1>1. /\ "DAT" \in Tokens /\ S!Available(RTS_MYREQUIRE) = Tokens
        /\ S!Side = Side
    BY SameSide DEF Tokens, Available, S!Available, RTS_MYREQUIRE
  <1>2. PICK mine \in SUBSET Tokens :
          sb = [s \in Side |->
                  S!ConnectedBlock(RTS_MYREQUIRE,
                                   IF s = "init" THEN mine ELSE Tokens \ mine, 0)]
    <2>1. \E req \in {RTS_MYREQUIRE}, isn \in {0} :
            \E mine \in SUBSET S!Available(req) :
              sb = [s \in S!Side |->
                      S!ConnectedBlock(req, IF s = "init" THEN mine
                                            ELSE S!Available(req) \ mine, isn)]
      BY DEF Init, S!Init
    <2> QED
      BY <1>1, <2>1
  <1>3. PICK h \in Side : sb[h].sb_owned = Tokens
    BY DEF Init
  <1> DEFINE owned(s) == IF s = "init" THEN mine ELSE Tokens \ mine
  <1>4. ASSUME NEW s \in Side
        PROVE  /\ sb[s].sb_flags = {"SB_CONN"} /\ sb[s].sb_owned = owned(s)
               /\ sb[s].sb_requirements = RTS_MYREQUIRE
               /\ sb[s].sb_pr = "PR" /\ sb[s].sb_xspdu = FALSE /\ sb[s].sb_spdu = << >>
               /\ net[s] = << >>
    BY <1>1, <1>2 DEF S!ConnectedBlock, S!newsblk, Init, S!Init
  <1>5. owned(h) = Tokens /\ owned(Peer(h)) = {} /\ Peer(h) \in Side
    BY <1>3, <1>4, Sides DEF Side, Peer
  <1> HIDE DEF owned
  <1>6. ASSUME NEW s \in Side
        PROVE  /\ acb[s].acb_len = 0
               /\ acb[s].acb_flags = {"ACB_CONN"} \cup
                    (IF s = h THEN {"ACB_TURN"} ELSE {})
               /\ sb[s].sb_owned = (IF s = h THEN Tokens ELSE {})
               /\ rts[s] = Idle /\ delivered[s] = << >> /\ confirmed[s] = << >>
    <2>1. sb[s].sb_owned = (IF s = h THEN Tokens ELSE {})
      BY <1>4, <1>5, Sides
    <2>2. /\ acb[s] = [newacblk EXCEPT !.acb_flags =
                         {"ACB_CONN"} \cup
                         (IF sb[s].sb_owned = {} THEN {} ELSE {"ACB_TURN"})]
          /\ rts[s] = Idle /\ delivered[s] = << >> /\ confirmed[s] = << >>
      BY DEF Init
    <2> QED
      BY <1>1, <2>1, <2>2 DEF newacblk
  <1>7. ASSUME NEW s \in Side
        PROVE  /\ rts[s].call = "idle" /\ rts[s].do = "none" /\ rts[s].whole = << >>
               /\ Len(rts[s].whole) <= 1 /\ ~Receiving(s) /\ ~Sending(s)
               /\ Has(s, "ACB_CONN") /\ SB(s, "SB_CONN")
               /\ Has(s, "ACB_TURN") <=> s = h
               /\ ~Has(s, "ACB_ACT") /\ ~Has(s, "ACB_TIMER")
               /\ \A f : f # "SB_CONN" => ~SB(s, f)
    <2>1. /\ rts[s].call = "idle" /\ rts[s].do = "none" /\ rts[s].whole = << >>
      BY <1>6 DEF Idle
    <2>2. /\ Has(s, "ACB_CONN") /\ ~Has(s, "ACB_ACT") /\ ~Has(s, "ACB_TIMER")
          /\ Has(s, "ACB_TURN") <=> s = h
      BY <1>6 DEF Has
    <2>3. SB(s, "SB_CONN") /\ \A f : f # "SB_CONN" => ~SB(s, f)
      BY <1>4 DEF SB
    <2> QED
      BY <2>1, <2>2, <2>3 DEF Receiving, Sending
  <1>8. ASSUME NEW s \in Side
        PROVE  /\ ~Body(net[s]) /\ ~Ending(net[s]) /\ ~Dropping(net[s])
               /\ ~Turning(net[s]) /\ ~Confirming(net[s]) /\ ~Agreeing(net[s])
               /\ QueueOK(net[s])
    BY <1>4, EmptyQueue
    DEF Body, Ending, Dropping, Turning, Confirming, Agreeing
  <1>9. ASSUME NEW s \in Side
        PROVE  SideOK(s) /\ ThreadOK(s)
    <2>1. SideOK(s)
      BY <1>4, <1>6, <1>7 DEF SideOK
    <2>2. ThreadOK(s)
      BY <1>7 DEF ThreadOK, Answer, InTransferCall
    <2> QED
      BY <2>1, <2>2
  <1>10. ASSUME NEW s \in Side
         PROVE  PairOK(s, Peer(s))
    <2>1. Peer(s) \in Side /\ Peer(s) # s
      BY Sides
    <2>2. TurnOK(s, Peer(s))
      BY <1>7, <1>8, <2>1 DEF TurnOK, Speaking
    <2>3. PhaseOK(s, Peer(s))
      BY <1>6, <1>7, <1>8, <2>1 DEF PhaseOK, Held, Replying, Answer
    <2>4. DataOK(s, Peer(s))
      BY <1>6, <1>7, <1>8, <2>1 DEF DataOK
    <2> QED
      BY <2>2, <2>3, <2>4 DEF PairOK
  <1> QED
    BY <1>8, <1>9, <1>10 DEF TransferInv

\* The invariant is inductive, given the types and the local facts of RtInv.
LEMMA NextTransfer == RtInv /\ TransferInv /\ [Next]_vars => TransferInv'
  <1> SUFFICES ASSUME RtInv, TransferInv, [Next]_vars PROVE TransferInv'
    OBVIOUS
  <1>1. ASSUME NEW s \in Side, Requesting(s) PROVE TransferInv'
    BY <1>1, QuietSteps, GiveInv, StartInv, GoneInv DEF Requesting, Losing
  <1>2. ASSUME NEW s \in Side, Sends(s) PROVE TransferInv'
    BY <1>2, SendsInv
  <1>3. ASSUME NEW s \in Side, Indicated(s) PROVE TransferInv'
    BY <1>3, QuietSteps, HearingInv, ControlInv, AgreedInv, ConfirmedInv, GoneInv
       DEF Indicated, Losing
  <1>4. ASSUME NEW s \in Side, Calling(s) PROVE TransferInv'
    BY <1>4, QuietSteps, ReportInv, DroppedInv, DeliveredInv, OwnDropInv, GoneInv
       DEF Calling, Losing
  <1> QED
    BY <1>1, <1>2, <1>3, <1>4, FailsInv, StutterInv
    DEF Next, Working, Sends, Indicated, Calling

-----------------------------------------------------------------------------
(* Every step of the RTPM is a step of the service, or none.               *)

\* What the service shows of the association.
Up == [s \in Side |-> Has(s, "ACB_CONN")]
Turn == {s \in Side : Has(s, "ACB_TURN")}
Asked == [s \in Side |-> rts[s].whole]

\* A step of s changes what the service shows of s alone.
LEMMA Shown ==
    ASSUME NEW s \in Side, acb'[Peer(s)] = acb[Peer(s)], rts'[Peer(s)] = rts[Peer(s)]
    PROVE  /\ Up' = [Up EXCEPT ![s] = Has(s, "ACB_CONN")']
           /\ (Has(s, "ACB_CONN")' <=> Has(s, "ACB_CONN")) => Up' = Up
           /\ Turn' = (Turn \ {s}) \cup (IF Has(s, "ACB_TURN")' THEN {s} ELSE {})
           /\ Asked' = [Asked EXCEPT ![s] = rts'[s].whole]
  <1>1. \A r \in Side : r # s => acb'[r] = acb[r] /\ rts'[r] = rts[r]
    BY Sides
  <1>2. \A r \in Side : r # s => /\ Has(r, "ACB_CONN")' <=> Has(r, "ACB_CONN")
                                 /\ Has(r, "ACB_TURN")' <=> Has(r, "ACB_TURN")
    BY <1>1 DEF Has
  <1>3. Up' = [Up EXCEPT ![s] = Has(s, "ACB_CONN")']
    <2>1. \A r \in Side : r # s => Has(r, "ACB_CONN")' = Has(r, "ACB_CONN")
      BY <1>2, SMT DEF Has
    <2> DEFINE new == Has(s, "ACB_CONN")'
               u == [r \in Side |-> Has(r, "ACB_CONN")]
               v == [r \in Side |-> Has(r, "ACB_CONN")']
    <2>2. \A r \in Side : v[r] = [u EXCEPT ![s] = new][r]
      BY <2>1, Zenon
    <2>3. v = [u EXCEPT ![s] = new]
      BY <2>2, Zenon
    <2> QED
      BY <2>3 DEF Up
  <1>4. Turn' = (Turn \ {s}) \cup (IF Has(s, "ACB_TURN")' THEN {s} ELSE {})
    BY <1>2 DEF Turn
  <1>5. Asked' = [Asked EXCEPT ![s] = rts'[s].whole]
    BY <1>1 DEF Asked
  <1>6. ASSUME Has(s, "ACB_CONN")' <=> Has(s, "ACB_CONN") PROVE Up' = Up
    <2>1. \A r \in Side : Has(r, "ACB_CONN")' <=> Has(r, "ACB_CONN")
      BY <1>2, <1>6
    <2>2. \A r \in Side : Has(r, "ACB_CONN")' = Has(r, "ACB_CONN")
      BY <2>1, SMT DEF Has
    <2> QED
      BY <2>2, Zenon DEF Up
  <1> QED
    BY <1>3, <1>4, <1>5, <1>6

\* The service in these terms.
LEMMA InService ==
    /\ Service!End = Side /\ \A s \in Side : Service!Other(s) = Peer(s)
    /\ UNCHANGED <<Up, Turn, Asked, delivered, confirmed>> => UNCHANGED Service!rtvars
  BY DEF Service!End, Service!Other, Service!rtvars, Side, Peer, Up, Turn, Asked

\* A step that the users see nothing of.
LEMMA Hidden ==
    ASSUME RtLocal, NEW s \in Side, NEW a, NEW r, Goes(s, a, r),
           r.whole = rts[s].whole,
           "ACB_CONN" \in a.acb_flags <=> Has(s, "ACB_CONN"),
           "ACB_TURN" \in a.acb_flags <=> Has(s, "ACB_TURN")
    PROVE  UNCHANGED Service!rtvars
  <1>1. /\ acb'[s] = a /\ rts'[s] = r
        /\ acb'[Peer(s)] = acb[Peer(s)] /\ rts'[Peer(s)] = rts[Peer(s)]
        /\ delivered' = delivered /\ confirmed' = confirmed
    BY GoesEffect
  <1>2. /\ Has(s, "ACB_CONN")' <=> Has(s, "ACB_CONN")
        /\ Has(s, "ACB_TURN")' <=> Has(s, "ACB_TURN")
    BY <1>1 DEF Has
  <1>3. Turn' = Turn /\ Asked' = Asked
    BY <1>1, <1>2, Shown DEF Turn, Asked
  <1>4. Up' = Up
    BY <1>1, <1>2, Shown
  <1> QED
    BY <1>1, <1>3, <1>4, InService

\* Everything that the users see nothing of.
Unseen(s) ==
    \/ rt2sspturn(s) \/ RtEndRequest(s) \/ Sends(s)
    \/ ReadOnly(s) \/ doSSdata(s) \/ doSSplease(s)
    \/ RtWaitPlease(s) \/ doSSminorind(s) \/ doSSminorcnf(s) \/ doSSstart(s)
    \/ doSSdiscind(s) \/ doSSendind(s) \/ doSSreport(s) \/ doSSfinish(s)
    \/ ReportSent(s) \/ MinorConfirmed(s) \/ ActivityDropped(s)
    \/ Discarding(s) \/ Interrupting(s)

\* None of these steps changes what the service shows.
LEMMA UnseenSteps ==
    ASSUME RtInv, NEW s \in Side, Unseen(s)
    PROVE  UNCHANGED Service!rtvars
  <1>1. RtLocal /\ acb[s] \in assocblk /\ rts[s] \in thread
    BY DEF RtInv, RtLocal, Local
  <1> DEFINE Like(a) == /\ "ACB_CONN" \in a.acb_flags <=> Has(s, "ACB_CONN")
                        /\ "ACB_TURN" \in a.acb_flags <=> Has(s, "ACB_TURN")
  <1>2. ASSUME NEW a, NEW r, Goes(s, a, r), Like(a), r.whole = rts[s].whole
        PROVE  UNCHANGED Service!rtvars
    BY <1>1, <1>2, Hidden
  <1>3. /\ Like(acb[s])
        /\ \A n : Like([acb[s] EXCEPT !.acb_ssn = n]) /\ Like([acb[s] EXCEPT !.acb_ack = n])
        /\ \A n : Like([acb[s] EXCEPT !.acb_len = n])
        /\ \A f \in {"ACB_TIMER", "ACB_PLEASE", "ACB_ACT", "ACB_FINN"} :
             Like(With(acb[s], {f})) /\ Like(Without(acb[s], {f}))
        /\ Like([Without(acb[s], {"ACB_ACT"}) EXCEPT !.acb_len = 0])
    BY <1>1 DEF assocblk, With, Without, Has
  <1> HIDE DEF Like
  <1>4. ASSUME NEW call, NEW do
        PROVE  /\ [rts[s] EXCEPT !.call = call].whole = rts[s].whole
               /\ [rts[s] EXCEPT !.do = do].whole = rts[s].whole
    BY <1>1 DEF thread
  <1>5. UNCHANGED rtsvars => UNCHANGED Service!rtvars
    BY <1>1, <1>2, <1>3, StillGoes
  <1>6. \A do : Owes(s, do) => UNCHANGED Service!rtvars
    BY <1>2, <1>3, <1>4 DEF Owes
  <1>7. CASE rt2sspturn(s) \/ ReadOnly(s)
    BY <1>5, <1>7 DEF rt2sspturn, ReadOnly
  <1>8. CASE RtEndRequest(s) \/ Sends(s)
    <2>1. CASE RtEndRequest(s) \/ TransSync(s) \/ TransBad(s) \/ TransEnd(s) \/ TransTimer(s)
      BY <1>2, <1>3, <1>4, <2>1 DEF RtEndRequest, TransSync, TransBad, TransEnd, TransTimer
    <2>2. CASE TransFirst(s) \/ TransNext(s)
      <3>1. PICK call :
              Goes(s, acb[s], [rts[s] EXCEPT !.call = call, !.left = rts[s].left - 1])
        BY <2>2 DEF TransFirst, TransNext, SendChunk
      <3> DEFINE r == [rts[s] EXCEPT !.call = call, !.left = rts[s].left - 1]
      <3>2. Goes(s, acb[s], r) /\ r.whole = rts[s].whole
        BY <1>1, <3>1 DEF thread
      <3> HIDE DEF r
      <3> QED
        BY <1>2, <1>3, <3>2
    <2> QED
      BY <1>8, <2>1, <2>2 DEF Sends
  <1>9. CASE doSSdata(s) \/ doSSminorind(s) \/ doSSminorcnf(s)
    <2>1. CASE Goes(s, [acb[s] EXCEPT !.acb_len = acb[s].acb_len + 1], rts[s])
      BY <1>2, <1>3, <2>1
    <2>2. CASE Goes(s, acb[s], [rts[s] EXCEPT !.do = "minor", !.ssn = Head(net[s]).serial])
      <3> DEFINE r == [rts[s] EXCEPT !.do = "minor", !.ssn = Head(net[s]).serial]
      <3>1. Goes(s, acb[s], r) /\ r.whole = rts[s].whole
        BY <1>1, <2>2 DEF thread
      <3> HIDE DEF r
      <3> QED
        BY <1>2, <1>3, <3>1
    <2>3. CASE Goes(s, [acb[s] EXCEPT !.acb_ack = Head(net[s]).serial], rts[s])
      BY <1>2, <1>3, <2>3
    <2> QED
      BY <1>5, <1>6, <1>9, <2>1, <2>2, <2>3 DEF doSSdata, doSSminorind, doSSminorcnf
  <1>10. CASE doSSplease(s) \/ doSSstart(s) \/ doSSdiscind(s) \/ doSSendind(s)
    BY <1>2, <1>3, <1>5, <1>6, <1>10 DEF doSSplease, doSSstart, doSSdiscind, doSSendind
  <1>11. CASE doSSreport(s) \/ doSSfinish(s) \/ RtWaitPlease(s)
    BY <1>2, <1>3, <1>6, <1>11 DEF doSSreport, doSSfinish, RtWaitPlease
  <1>12. CASE \/ ReportSent(s) \/ MinorConfirmed(s) \/ ActivityDropped(s)
              \/ Discarding(s) \/ Interrupting(s)
    BY <1>2, <1>3, <1>4, <1>12
    DEF ReportSent, MinorConfirmed, ActivityDropped, Discarding, Interrupting, Done
  <1> QED
    BY <1>7, <1>8, <1>9, <1>10, <1>11, <1>12 DEF Unseen

\* A step in which the user of s sees something of his own end alone.
LEMMA OwnStep ==
    ASSUME RtLocal, NEW s \in Side, NEW a, NEW r, Goes(s, a, r)
    PROVE  /\ Up' = [Up EXCEPT ![s] = ("ACB_CONN" \in a.acb_flags)]
           /\ ("ACB_CONN" \in a.acb_flags <=> Has(s, "ACB_CONN")) => Up' = Up
           /\ Turn' = (Turn \ {s}) \cup (IF "ACB_TURN" \in a.acb_flags THEN {s} ELSE {})
           /\ Asked' = [Asked EXCEPT ![s] = r.whole]
           /\ delivered' = delivered /\ confirmed' = confirmed
  <1>1. /\ acb'[s] = a /\ rts'[s] = r
        /\ acb'[Peer(s)] = acb[Peer(s)] /\ rts'[Peer(s)] = rts[Peer(s)]
        /\ delivered' = delivered /\ confirmed' = confirmed
    BY GoesEffect
  <1>2. /\ Up' = [Up EXCEPT ![s] = Has(s, "ACB_CONN")']
        /\ Turn' = (Turn \ {s}) \cup (IF Has(s, "ACB_TURN")' THEN {s} ELSE {})
        /\ Asked' = [Asked EXCEPT ![s] = rts'[s].whole]
    BY <1>1, Shown
  <1>3. /\ Up' = [Up EXCEPT ![s] = ("ACB_CONN" \in acb'[s].acb_flags)]
        /\ Turn' = (Turn \ {s}) \cup (IF "ACB_TURN" \in acb'[s].acb_flags THEN {s} ELSE {})
    BY <1>2 DEF Has
  <1>4. ("ACB_CONN" \in acb'[s].acb_flags <=> Has(s, "ACB_CONN")) => Up' = Up
    <2>1. (Has(s, "ACB_CONN")' <=> Has(s, "ACB_CONN")) => Up' = Up
      BY <1>1, Shown
    <2> QED
      BY <2>1 DEF Has
  <1> QED
    BY <1>1, <1>2, <1>3, <1>4

\* What the service shows of one end.
LEMMA Lookup ==
    ASSUME NEW s \in Side
    PROVE  /\ Up[s] <=> Has(s, "ACB_CONN") 
           /\ s \in Turn <=> Has(s, "ACB_TURN")
           /\ Asked[s] = rts[s].whole /\ DOMAIN Asked = Side /\ Turn \subseteq Side
  BY DEF Up, Turn, Asked

\* RtTransferRequest begins.
LEMMA StartIsRequest ==
    ASSUME RtInv, TransferInv, NEW s \in Side, TransStart(s)
    PROVE  Service!Request(s)
  <1> DEFINE c == IF mode.ckpoint
                  THEN [acb[s] EXCEPT !.acb_ssn = 0, !.acb_ack = 0] ELSE acb[s]
             a == With(c, {"ACB_ACT"})
  <1>1. /\ RtLocal /\ acb[s] \in assocblk /\ rts[s] \in thread /\ mode \in Mode
        /\ SideOK(s)
    BY Known DEF RtInv, RtLocal, Local
  <1>2. /\ Has(s, "ACB_CONN") /\ Has(s, "ACB_TURN") /\ rts[s].call = "idle"
    BY DEF TransStart, MayTransfer, rtsapPsig, At
  <1>3. PICK n \in Sizes, secs \in BOOLEAN :
          \E call : Goes(s, a, [rts[s] EXCEPT !.call = call, !.left = n,
                                              !.whole = <<n>>, !.secs = secs])
    BY DEF TransStart, TimeLimits
  <1>4. PICK call : Goes(s, a, [rts[s] EXCEPT !.call = call, !.left = n,
                                              !.whole = <<n>>, !.secs = secs])
    BY <1>3
  <1> DEFINE r == [rts[s] EXCEPT !.call = call, !.left = n, !.whole = <<n>>,
                                 !.secs = secs]
  <1>5. n \in 0 .. MaxChunks
    BY RtBoundsAssumption DEF Sizes
  <1>6. /\ Goes(s, a, r) /\ r.whole = <<n>>
        /\ "ACB_CONN" \in a.acb_flags /\ "ACB_TURN" \in a.acb_flags
    BY <1>1, <1>2, <1>4 DEF assocblk, thread, With, Has
  <1> HIDE DEF a, r
  <1>7. /\ Up' = Up /\ Turn' = Turn /\ Asked' = [Asked EXCEPT ![s] = <<n>>]
        /\ delivered' = delivered /\ confirmed' = confirmed
    <2>1. /\ Up' = [Up EXCEPT ![s] = ("ACB_CONN" \in a.acb_flags)]
          /\ Turn' = (Turn \ {s}) \cup (IF "ACB_TURN" \in a.acb_flags THEN {s} ELSE {})
          /\ Asked' = [Asked EXCEPT ![s] = r.whole]
          /\ delivered' = delivered /\ confirmed' = confirmed
      BY <1>1, <1>6, OwnStep
    <2>2. Turn' = Turn
      BY <1>2, <1>6, <2>1, Lookup
    <2>3. Up' = Up
      BY <1>1, <1>2, <1>6, OwnStep
    <2> QED
      BY <1>6, <2>1, <2>2, <2>3
  <1>8. rts[s].whole = << >>
    BY <1>1, <1>2 DEF SideOK, InTransferCall
  <1> QED
    BY <1>2, <1>5, <1>7, <1>8, Lookup DEF Service!Request, Up, Turn, Asked

\* RT-TURN-GIVE.
LEMMA GiveIsGive ==
    ASSUME RtInv, TransferInv, NEW s \in Side, rt2ssgturn(s)
    PROVE  Service!Give(s)
  <1> DEFINE a == Without(acb[s], {"ACB_TURN", "ACB_PLEASE"})
  <1>1. RtLocal /\ acb[s] \in assocblk /\ SideOK(s)
    BY Known DEF RtInv, RtLocal, Local
  <1>2. /\ Has(s, "ACB_CONN") /\ Has(s, "ACB_TURN") /\ rts[s].call = "idle"
        /\ Goes(s, a, rts[s])
    BY DEF rt2ssgturn, MayGive, rtsapPsig, At
  <1>3. "ACB_CONN" \in a.acb_flags /\ "ACB_TURN" \notin a.acb_flags
    BY <1>1, <1>2 DEF assocblk, Without, Has
  <1> HIDE DEF a
  <1>4. /\ Up' = Up /\ Turn' = Turn \ {s}
        /\ Asked' = [Asked EXCEPT ![s] = rts[s].whole]
        /\ delivered' = delivered /\ confirmed' = confirmed
    BY <1>1, <1>2, <1>3, OwnStep
  <1>5. Asked' = Asked /\ rts[s].whole = << >>
    BY <1>1, <1>2, <1>4, Lookup DEF SideOK, InTransferCall, Asked
  <1> QED
    BY <1>2, <1>4, <1>5, Lookup DEF Service!Give, Up, Turn, Asked

\* The turn arrives, and is nobody's when it does.
LEMMA ControlIsTake ==
    ASSUME RtInv, TransferInv, NEW s \in Side, doSScontrol(s)
    PROVE  Service!Take(s)
  <1> DEFINE p == Peer(s)
             a == With(acb[s], {"ACB_TURN"})
  <1>1. /\ S!Inv /\ RtLocal /\ SideOK(s) /\ PairOK(p, s) /\ acb[s] \in assocblk
        /\ ThreadOK(s) /\ QueueOK(net[s]) /\ p \in Side
    BY Known, Sides DEF RtInv, RtLocal, Local
  <1>2. Takes(s, sb[s].sb_flags, Tokens) /\ Head(net[s]).code = "GTC"
    BY <1>1, ReadTakes DEF doSScontrol, Reads
  <1>3. Turning(net[s])
    BY <1>1, <1>2, TakesKeeps, Known
  <1>4. /\ mode.twa /\ ~Has(s, "ACB_TURN") /\ ~Has(s, "ACB_ACT") /\ ~Has(p, "ACB_TURN")
        /\ Has(s, "ACB_CONN")
    BY <1>1, <1>2, <1>3 DEF PairOK, TurnOK, Held, Receiving, SideOK, Takes
  <1>5. Goes(s, a, rts[s]) /\ "ACB_CONN" \in a.acb_flags /\ "ACB_TURN" \in a.acb_flags
    BY <1>1, <1>4 DEF doSScontrol, assocblk, With, Has
  <1> HIDE DEF a
  <1>6. /\ Up' = Up /\ Turn' = (Turn \ {s}) \cup {s}
        /\ Asked' = [Asked EXCEPT ![s] = rts[s].whole]
        /\ delivered' = delivered /\ confirmed' = confirmed
    BY <1>1, <1>4, <1>5, OwnStep
  <1>7. Turn = {}
    BY <1>4, Sides DEF Turn
  <1>8. Asked' = Asked
    BY <1>6, Lookup DEF Asked
  <1>9. Turn' = {s}
    BY <1>6, <1>7
  <1> QED
    BY <1>4, <1>6, <1>7, <1>8, <1>9, Lookup DEF Service!Take, Up, Turn, Asked

\* freeacblk: the association goes, and the transfer asked for is in doubt.
LEMMA FreedIsGone ==
    ASSUME RtInv, TransferInv, NEW s \in Side, freeacblk(s)
    PROVE  Service!Gone(s) \/ UNCHANGED Service!rtvars
  <1> DEFINE r == [Idle EXCEPT !.whole = rts[s].whole]
  <1>1. RtLocal /\ SideOK(s)
    BY Known DEF RtInv
  <1>2. /\ Goes(s, newacblk, r) /\ r.whole = rts[s].whole /\ newacblk.acb_flags = {}
    BY DEF freeacblk, Idle, newacblk
  <1> HIDE DEF r
  <1>3. CASE ~Has(s, "ACB_CONN")
    <2>1. ~Has(s, "ACB_TURN")
      BY <1>1, <1>3 DEF SideOK, Has
    <2> QED
      BY <1>1, <1>2, <1>3, <2>1, Hidden
  <1>4. CASE Has(s, "ACB_CONN")
    <2>1. /\ Up' = [Up EXCEPT ![s] = ("ACB_CONN" \in newacblk.acb_flags)]
          /\ Turn' = Turn \ {s}
          /\ Asked' = [Asked EXCEPT ![s] = rts[s].whole]
          /\ delivered' = delivered /\ confirmed' = confirmed
      BY <1>1, <1>2, OwnStep
    <2>2. Up' = [Up EXCEPT ![s] = FALSE] /\ Asked' = Asked
      <3>1. ("ACB_CONN" \in newacblk.acb_flags) = FALSE
        BY <1>2, SMT
      <3>2. Asked' = Asked
        BY <2>1, Lookup DEF Asked
      <3> QED
        BY <2>1, <3>1, <3>2
    <2> QED
      BY <1>4, <2>1, <2>2, Lookup DEF Service!Gone, Up, Turn, Asked
  <1> QED
    BY <1>3, <1>4

\* RT-TRANSFER.indication.
LEMMA DeliveredIsDeliver ==
    ASSUME RtInv, TransferInv, NEW s \in Side, Delivered(s)
    PROVE  Service!Deliver(Peer(s))
  <1> DEFINE p == Peer(s)
             a == [Without(acb[s], {"ACB_ACT"}) EXCEPT !.acb_len = 0]
             r == [rts[s] EXCEPT !.do = "none"]
  <1>1. /\ S!Inv /\ RtLocal /\ acb[s] \in assocblk /\ rts[s] \in thread
        /\ SideOK(s) /\ p \in Side /\ Peer(p) = s
    BY Known, Sides DEF RtInv, RtLocal, Local
  <1>2. /\ rts[p].whole # << >> /\ delivered[s] = confirmed[p]
        /\ delivered'[s] = delivered[s] \o rts[p].whole
    BY DeliveredInv
  <1>3. Has(s, "ACB_CONN")
    <2>1. S!SMajSyncResponseAux(s)
      BY DEF Delivered
    <2>2. SB(s, "SB_CONN")
      BY <1>1, <2>1, ConfirmWrites DEF Writes
    <2> QED
      BY <1>1, <2>2 DEF SideOK
  <1>4. /\ acb' = [acb EXCEPT ![s] = a] /\ rts' = [rts EXCEPT ![s] = r]
        /\ delivered' = [delivered EXCEPT ![s] = Append(delivered[s], acb[s].acb_len)]
        /\ confirmed' = confirmed
    BY DEF Delivered
  <1>5. /\ r.whole = rts[s].whole
        /\ "ACB_CONN" \in a.acb_flags <=> Has(s, "ACB_CONN")
        /\ "ACB_TURN" \in a.acb_flags <=> Has(s, "ACB_TURN")
    BY <1>1 DEF assocblk, thread, Without, Has
  <1> HIDE DEF a, r
  <1>6. /\ acb'[s] = a /\ rts'[s] = r /\ acb'[p] = acb[p] /\ rts'[p] = rts[p]
    BY <1>1, <1>4, Sides DEF RtLocal
  <1>7. /\ Has(s, "ACB_CONN")' <=> Has(s, "ACB_CONN")
        /\ Has(s, "ACB_TURN")' <=> Has(s, "ACB_TURN")
    BY <1>5, <1>6 DEF Has
  <1>8. /\ Up' = Up /\ Turn' = Turn /\ Asked' = Asked
    <2>1. /\ Up' = Up
          /\ Turn' = (Turn \ {s}) \cup (IF Has(s, "ACB_TURN")' THEN {s} ELSE {})
          /\ Asked' = [Asked EXCEPT ![s] = rts'[s].whole]
      BY <1>6, <1>7, Shown
    <2> QED
      BY <1>5, <1>6, <1>7, <2>1, Lookup DEF Asked
  <1>9. delivered' = [delivered EXCEPT ![s] = delivered[s] \o rts[p].whole]
    BY <1>1, <1>2, <1>4 DEF RtLocal
  <1>10. Service!Other(p) = s
    BY <1>1, InService
  <1> HIDE DEF p
  <1> QED
    BY <1>1, <1>2, <1>3, <1>4, <1>8, <1>9, <1>10, Lookup
    DEF Service!Deliver, Service!Handed, Up, Turn, Asked, p

\* rt2sstrans returns, and with what.
LEMMA EndedShown ==
    ASSUME RtLocal, NEW s \in Side, rts[s].call = "ack", Ended(s, acb[s])
    PROVE  /\ Up' = Up /\ Turn' = Turn /\ Asked' = [Asked EXCEPT ![s] = << >>]
           /\ delivered' = delivered
           /\ confirmed' = IF Has(s, "ACB_TIMER") THEN confirmed
                           ELSE [confirmed EXCEPT ![s] = confirmed[s] \o rts[s].whole]
  <1> DEFINE a == [Without(acb[s], {"ACB_ACT", "ACB_TIMER"}) EXCEPT !.acb_actno = @ + 1]
  <1>1. acb[s] \in assocblk
    BY DEF RtLocal, Local
  <1>2. /\ "ACB_CONN" \in a.acb_flags <=> Has(s, "ACB_CONN")
        /\ "ACB_TURN" \in a.acb_flags <=> Has(s, "ACB_TURN")
    BY <1>1 DEF assocblk, Without, Has
  <1>3. /\ acb' = [acb EXCEPT ![s] = a] /\ rts' = [rts EXCEPT ![s] = Idle]
        /\ delivered' = delivered
        /\ confirmed' = IF Has(s, "ACB_TIMER") THEN confirmed
                        ELSE [confirmed EXCEPT ![s] = confirmed[s] \o rts[s].whole]
    BY DEF Ended
  <1> HIDE DEF a
  <1>4. /\ acb'[s] = a /\ rts'[s] = Idle
        /\ acb'[Peer(s)] = acb[Peer(s)] /\ rts'[Peer(s)] = rts[Peer(s)]
    BY <1>3, Sides DEF RtLocal
  <1>5. /\ Has(s, "ACB_CONN")' <=> Has(s, "ACB_CONN")
        /\ Has(s, "ACB_TURN")' <=> Has(s, "ACB_TURN")
    BY <1>2, <1>4 DEF Has
  <1>6. /\ Up' = Up /\ Asked' = [Asked EXCEPT ![s] = Idle.whole]
        /\ Turn' = (Turn \ {s}) \cup (IF Has(s, "ACB_TURN")' THEN {s} ELSE {})
    BY <1>4, <1>5, Shown
  <1>7. Turn' = Turn /\ Idle.whole = << >>
    BY <1>5, <1>6, Lookup DEF Idle
  <1> QED
    BY <1>3, <1>6, <1>7

\* What is handed over and not yet confirmed is what makes the difference.
LEMMA LongerDiffers ==
    ASSUME NEW q \in Seq(Nat), NEW w \in Seq(Nat), w # << >>
    PROVE  q \o w # q
  <1>1. Len(q \o w) = Len(q) + Len(w) /\ Len(w) \in Nat /\ Len(q) \in Nat
    OBVIOUS
  <1>2. Len(w) # 0
    BY EmptySeq
  <1> QED
    BY <1>1, <1>2

\* RT-TRANSFER.confirm.
LEMMA ConfirmedIsConfirm ==
    ASSUME RtInv, TransferInv, NEW s \in Side, doSSendcnf(s)
    PROVE  Service!Confirm(s)
  <1>1. /\ rts[s].call = "ack" /\ Sending(s) /\ ~Has(s, "ACB_TIMER")
        /\ rts[s].whole # << >>
        /\ delivered[Peer(s)] = confirmed[s] \o rts[s].whole
    BY ConfirmedInv
  <1>2. /\ RtLocal /\ SideOK(s) /\ confirmed[s] \in Seq(Nat) /\ rts[s].whole \in Seq(Nat)
    BY Known DEF RtInv, RtLocal, Local, thread
  <1>3. Ended(s, acb[s])
    BY <1>1 DEF doSSendcnf
  <1>4. /\ Up' = Up /\ Turn' = Turn /\ Asked' = [Asked EXCEPT ![s] = << >>]
        /\ delivered' = delivered
        /\ confirmed' = [confirmed EXCEPT ![s] = confirmed[s] \o rts[s].whole]
    BY <1>1, <1>2, <1>3, EndedShown
  <1>5. Has(s, "ACB_CONN")
    BY <1>1, <1>2, TransFacts DEF InTransferCall
  <1>6. Service!Handed(s)
    BY <1>1, <1>2, LongerDiffers, InService DEF Service!Handed
  <1> QED
    BY <1>1, <1>4, <1>5, <1>6, Lookup DEF Service!Confirm, Up, Turn, Asked

\* RtTransferRequest gives NOTOK and the association lives.
LEMMA AgreedIsFail ==
    ASSUME RtInv, TransferInv, NEW s \in Side, doSSdisccnf(s)
    PROVE  Service!Fail(s) \/ UNCHANGED Service!rtvars
  <1>1. RtLocal /\ SideOK(s) /\ acb[s] \in assocblk /\ rts[s] \in thread
    BY Known DEF RtInv, RtLocal, Local
  <1>2. IF Sending(s) THEN Ended(s, acb[s]) ELSE Owes(s, "lose")
    BY DEF doSSdisccnf
  <1>3. CASE ~Sending(s)
    <2> DEFINE r == [rts[s] EXCEPT !.do = "lose"]
    <2>1. Goes(s, acb[s], r) /\ r.whole = rts[s].whole
      BY <1>1, <1>2, <1>3 DEF Owes, thread
    <2> HIDE DEF r
    <2> QED
      BY <1>1, <2>1, Hidden DEF Has
  <1>4. CASE Sending(s) /\ rts[s].call # "ack"
    <2> DEFINE a == Without(acb[s], {"ACB_ACT"})
    <2>1. Goes(s, a, rts[s])
      BY <1>2, <1>4 DEF Ended
    <2>2. /\ "ACB_CONN" \in a.acb_flags <=> Has(s, "ACB_CONN")
          /\ "ACB_TURN" \in a.acb_flags <=> Has(s, "ACB_TURN")
      BY <1>1 DEF assocblk, Without, Has
    <2> HIDE DEF a
    <2> QED
      BY <1>1, <2>1, <2>2, Hidden
  <1>5. CASE Sending(s) /\ rts[s].call = "ack"
    <2>1. Has(s, "ACB_TIMER") /\ delivered[Peer(s)] = confirmed[s]
      BY <1>5, AgreedInv
    <2>2. /\ Up' = Up /\ Turn' = Turn /\ Asked' = [Asked EXCEPT ![s] = << >>]
          /\ delivered' = delivered /\ confirmed' = confirmed
      BY <1>1, <1>2, <1>5, <2>1, EndedShown
    <2>3. Has(s, "ACB_CONN") /\ rts[s].whole # << >>
      BY <1>5, TransFacts DEF InTransferCall
    <2>4. ~Service!Handed(s)
      BY <2>1, InService DEF Service!Handed
    <2> QED
      BY <2>2, <2>3, <2>4, Lookup DEF Service!Fail, Up, Turn, Asked
  <1> QED
    BY <1>3, <1>4, <1>5

\* The service begins as the association does.
LEMMA InitIsService == Init => Service!RtInit
  <1> SUFFICES ASSUME Init PROVE Service!RtInit
    OBVIOUS
  <1>1. TransferInv
    BY InitTransfer
  <1>2. PICK h \in Side : sb[h].sb_owned = Tokens
    BY DEF Init
  <1>3. "DAT" \in Tokens
    BY DEF Tokens, Available, RTS_MYREQUIRE
  <1>4. \A s \in Side : /\ acb[s].acb_flags = {"ACB_CONN"} \cup
                             (IF sb[s].sb_owned = {} THEN {} ELSE {"ACB_TURN"})
                        /\ rts[s].whole = << >>
    BY DEF Init, newacblk, Idle
  <1>5. \A s \in Side : Has(s, "ACB_CONN")
    BY <1>4 DEF Has
  <1>6. Has(h, "ACB_TURN")
    BY <1>2, <1>3, <1>4 DEF Has
  <1>7. ~Has(Peer(h), "ACB_TURN")
    BY <1>1, <1>6, Known DEF PairOK, TurnOK
  <1>8. Turn = {h}
    BY <1>6, <1>7, Sides DEF Turn
  <1>9. Up = [s \in Side |-> TRUE]
    <2>1. \A s \in Side : Has(s, "ACB_CONN") = TRUE
      BY <1>5, SMT DEF Has
    <2> QED
      BY <2>1, Zenon DEF Up
  <1>10. Asked = [s \in Side |-> << >>]
    BY <1>4 DEF Asked
  <1>11. delivered = [s \in Side |-> << >>] /\ confirmed = [s \in Side |-> << >>]
    BY DEF Init
  <1> QED
    BY <1>8, <1>9, <1>10, <1>11, InService DEF Service!RtInit, Up, Turn, Asked

\* Every step is a step of the service, or is not seen by the users.
LEMMA NextIsService ==
    ASSUME RtInv, TransferInv, [Next]_vars
    PROVE  [Service!RtNext]_(Service!rtvars)
  <1>1. ASSUME NEW s \in Side,
               \/ Service!Request(s) \/ Service!Deliver(s) \/ Service!Confirm(s)
               \/ Service!Fail(s) \/ Service!Give(s) \/ Service!Take(s) \/ Service!Gone(s)
        PROVE  Service!RtNext
    BY <1>1, InService DEF Service!RtNext
  <1>2. ASSUME NEW s \in Side, Unseen(s) PROVE UNCHANGED Service!rtvars
    BY <1>2, UnseenSteps
  <1>3. ASSUME NEW s \in Side, Losing(s) PROVE Service!RtNext \/ UNCHANGED Service!rtvars
    BY <1>1, <1>3, GoneInv, FreedIsGone
  <1>4. ASSUME NEW s \in Side, Requesting(s)
        PROVE  Service!RtNext \/ UNCHANGED Service!rtvars
    BY <1>1, <1>2, <1>3, <1>4, GiveIsGive, StartIsRequest DEF Requesting, Unseen, Losing
  <1>5. ASSUME NEW s \in Side, Indicated(s)
        PROVE  Service!RtNext \/ UNCHANGED Service!rtvars
    BY <1>1, <1>2, <1>3, <1>5, ControlIsTake, AgreedIsFail, ConfirmedIsConfirm
    DEF Indicated, Unseen, Losing
  <1>6. ASSUME NEW s \in Side, Calling(s)
        PROVE  Service!RtNext \/ UNCHANGED Service!rtvars
    BY <1>1, <1>2, <1>3, <1>6, DeliveredIsDeliver, Sides DEF Calling, Unseen, Losing
  <1>7. ASSUME UNCHANGED rtsvars PROVE UNCHANGED Service!rtvars
    BY <1>7 DEF rtsvars, Service!rtvars, Has
  <1>8. ASSUME NEW s \in Side, Sends(s) PROVE UNCHANGED Service!rtvars
    BY <1>2, <1>8 DEF Unseen
  <1>9. TransportFails \/ UNCHANGED vars => UNCHANGED rtsvars
    BY DEF TransportFails, vars, rtsvars
  <1> QED
    BY <1>4, <1>5, <1>6, <1>7, <1>8, <1>9
    DEF Next, Working, Sends, Indicated, Calling

\* The two RTPMs implement RtService: whatever is lost, refused, timed out or
\* aborted, every step of rt2sstrans, of the doSS... handlers and of
\* freeacblk is a step of the service or none.  RtTransferRequest returns OK
\* only for a transfer that the other user was handed, whole and once, and
\* NOTOK with the association alive only for one he was not.
THEOREM RtImplementsService == Spec => ServiceKept
  <1>1. RtInv /\ TransferInv /\ [Next]_vars => [Service!RtNext]_(Service!rtvars)
    BY NextIsService
  <1> QED
    BY <1>1, InitRt, NextRt, InitTransfer, NextTransfer, InitIsService, PTL
    DEF Spec, ServiceKept, Service!RtSpec

\* ACB_TURN says what the session says, at both ends and in every state: the
\* end with the turn has every token, although S-ACTIVITY-DISCARD,
\* S-ACTIVITY-INTERRUPT and S-CONTROL-GIVE move tokens in the session alone.
THEOREM TurnFollowsTokens == Spec => []TurnIsTokens
  <1>1. TransferInv => TurnIsTokens
    BY DEF TransferInv, SideOK, TurnIsTokens
  <1> QED
    BY <1>1, InitRt, NextRt, InitTransfer, NextTransfer, PTL DEF Spec

\* What the users may rely on: the transfers confirmed to one are the first
\* of those the other was handed, each once and in order, and the turn is
\* never at both ends.
THEOREM RtIsReliable == Spec => [](Service!Reliable /\ Service!TurnExclusive)
  BY RtImplementsService, Service!ReliableService, Service!OneTurn, PTL DEF ServiceKept
=============================================================================
