---------------------------- MODULE RtsapPoints ----------------------------
(***************************************************************************)
(* The synchronization points of a transfer, for every window and number   *)
(* of chunks: PointsOrdered and WindowKept of RtsapProperties.             *)
(*                                                                         *)
(* Sender and receiver count points on their own, in the session (V_M) and *)
(* in the RTPM (acb_ssn, acb_ack), and the receiver is told a number that  *)
(* the session does not compare with its own.  What ties them together is  *)
(* the numbers under way.  In the transfer of m to p, in this order,       *)
(*     acb_ack of m < those of the MIAs to m < the one p is about to       *)
(*     confirm < V_M of p <= those of the MIPs to p < V_M of m             *)
(* and the MIPs leave no number out (PointsOK, Numbered).  A window bounds *)
(* how far the first and the last of these are apart (SenderOK).           *)
(***************************************************************************)
EXTENDS RtsapRefinement

-----------------------------------------------------------------------------
(* The inductive invariant, on top of TransferInv.                         *)

\* The MIPs of a queue have the numbers from lo to hi - 1, in order.
Numbered(q, lo, hi) ==
    /\ \A i \in DOMAIN q : q[i].code = "MIP" => lo <= q[i].serial /\ q[i].serial < hi
    /\ \A i \in DOMAIN q, j \in DOMAIN q :
         i < j /\ q[i].code = "MIP" /\ q[j].code = "MIP" => q[i].serial < q[j].serial
    /\ \A n \in Nat : lo <= n /\ n < hi =>
         \E i \in DOMAIN q : q[i].code = "MIP" /\ q[i].serial = n

\* An activity starts before its points and chunks; behind the answer that
\* ends it no point is confirmed; points are confirmed in order.
OrderOK(q) ==
    \A i \in DOMAIN q, j \in DOMAIN q : i < j =>
      /\ q[j].code = "AS" => q[i].code \notin {"AS", "DT", "MIP", "AE"}
      /\ q[i].code \in ReplyCode => q[j].code # "MIA"
      /\ q[i].code = "MIA" /\ q[j].code = "MIA" => q[i].serial < q[j].serial

Starting(q) == Carries(q, {"AS"})

\* The number of the next point that p reads.
NextPoint(p) == IF Starting(net[p]) THEN 1 ELSE sb[p].sb_V_M

\* One end by itself, as the receiver of points.
ReceiverOK(s) ==
    /\ sb[s].sb_V_A <= sb[s].sb_V_M
    /\ ~SB(s, "SB_Vnextact")
    /\ Due(s, "minor") => Receiving(s) /\ rts[s].ssn < sb[s].sb_V_M
    /\ Starting(net[s]) => /\ ~SB(s, "SB_Vact") /\ ~SB(s, "SB_ED")
                           /\ rts[s].do # "report" /\ ~Receiving(s)
    /\ \E hi \in Nat : Numbered(net[s], NextPoint(s), hi)
    /\ OrderOK(net[s])

\* One end by itself, as the sender of points.
SenderOK(s) ==
    /\ acb[s].acb_ack <= acb[s].acb_ssn
    /\ mode.ckpoint /\ Sending(s) =>
         /\ acb[s].acb_ssn + 1 = sb[s].sb_V_M
         /\ acb[s].acb_ssn <= acb[s].acb_ack + mode.window
         /\ rts[s].call \in {"first", "next", "bad", "end"} =>
              acb[s].acb_ssn < acb[s].acb_ack + mode.window
    /\ ~mode.ckpoint =>
         /\ acb[s].acb_ack = 0 /\ ~Due(s, "minor") /\ ~Carries(net[s], {"MIP", "MIA"})
         /\ rts[s].call \notin {"next", "window"}
         /\ rts[s].call = "first" => rts[s].left = 1

\* The transfer of m to p: its activity.
ActivityOK(m, p) ==
    /\ Has(m, "ACB_CONN") /\ ~Sending(m) =>
         /\ ~Carries(net[m], {"MIA"}) /\ ~Carries(net[p], {"AS", "MIP"})
         /\ ~Receiving(p)
    /\ Has(m, "ACB_TURN") /\ ~Sending(m) => ~SB(p, "SB_Vact")
    /\ Turning(net[m]) \/ Replying(net[m]) => ~SB(p, "SB_Vact")

\* The transfer of m to p: its points.
PointsOK(m, p) ==
    Sending(m) =>
      /\ Has(p, "ACB_CONN") => acb[m].acb_ack < NextPoint(p)
      /\ Has(p, "ACB_CONN") /\ ~SB(m, "SB_MAP") =>
           /\ NextPoint(p) <= sb[m].sb_V_M
           /\ Numbered(net[p], NextPoint(p), sb[m].sb_V_M)
      /\ \A i \in DOMAIN net[p] : net[p][i].code = "MIP" => net[p][i].serial < sb[m].sb_V_M
      /\ \A i \in DOMAIN net[m] : net[m][i].code = "MIA" =>
           /\ acb[m].acb_ack < net[m][i].serial /\ net[m][i].serial < sb[m].sb_V_M
           /\ Has(p, "ACB_CONN") => net[m][i].serial < NextPoint(p)
           /\ Due(p, "minor") => net[m][i].serial < rts[p].ssn
      /\ Due(p, "minor") => /\ acb[m].acb_ack < rts[p].ssn
                            /\ rts[p].ssn < sb[m].sb_V_M

PointInv ==
    \A s \in Side : /\ ReceiverOK(s) /\ SenderOK(s)
                    /\ ActivityOK(s, Peer(s)) /\ PointsOK(s, Peer(s))

-----------------------------------------------------------------------------
(* Queues and their points.                                                *)

\* r has the points of q and the start of an activity that q has; of the
\* confirmations it may have fewer.
SamePoints(q, r) ==
    /\ \A lo, hi : Numbered(q, lo, hi) => Numbered(r, lo, hi)
    /\ OrderOK(q) => OrderOK(r)
    /\ Starting(r) <=> Starting(q)
    /\ \A i \in DOMAIN r : r[i].code \in {"MIP", "MIA"} =>
         \E j \in DOMAIN q : q[j] = r[i]

LEMMA SameItself == \A q : SamePoints(q, q)
  BY DEF SamePoints

LEMMA SameTwice ==
    ASSUME NEW q, NEW r, NEW t, SamePoints(q, r), SamePoints(r, t)
    PROVE  SamePoints(q, t)
  BY DEF SamePoints

LEMMA SameCarries ==
    ASSUME NEW q, NEW r, SamePoints(q, r), NEW codes \in SUBSET {"AS", "MIP", "MIA"},
           Carries(r, codes)
    PROVE  Carries(q, codes)
  BY DEF SamePoints, Starting, Carries

\* A queue without points, whatever the next number.
LEMMA NoPoints ==
    ASSUME NEW q, ~Carries(q, {"MIP"}), NEW n \in Nat
    PROVE  Numbered(q, n, n)
  BY DEF Numbered, Carries

LEMMA AppendShape ==
    ASSUME NEW T, NEW q \in Seq(T), NEW p \in T
    PROVE  LET r == Append(q, p)
               k == Len(q) + 1 IN
           /\ DOMAIN r = DOMAIN q \cup {k} /\ k \notin DOMAIN q /\ r[k] = p
           /\ \A i \in DOMAIN q : r[i] = q[i] /\ i < k /\ i \in Nat
           /\ k \in Nat
  OBVIOUS

LEMMA TailShape ==
    ASSUME NEW T, NEW q \in Seq(T), q # << >>
    PROVE  LET r == Tail(q) IN
           /\ \A i \in DOMAIN r : i + 1 \in DOMAIN q /\ r[i] = q[i + 1] /\ i \in Nat /\ 1 < i + 1
           /\ \A j \in DOMAIN q : j \in Nat /\
                (j = 1 \/ (1 < j /\ j - 1 \in DOMAIN r /\ r[j - 1] = q[j]))
           /\ 1 \in DOMAIN q /\ q[1] = Head(q)
           /\ \A i, j \in DOMAIN r : i < j => i + 1 < j + 1
  OBVIOUS

LEMMA AppendPlain ==
    ASSUME NEW T, NEW q \in Seq(T), NEW p \in T, p.code \notin {"AS", "MIP", "MIA"}
    PROVE  SamePoints(q, Append(q, p))
  <1> DEFINE r == Append(q, p)
             k == Len(q) + 1
  <1>1. /\ DOMAIN r = DOMAIN q \cup {k} /\ k \notin DOMAIN q /\ r[k] = p
        /\ \A i \in DOMAIN q : r[i] = q[i] /\ i < k /\ i \in Nat
        /\ k \in Nat
    BY AppendShape
  <1>2. Starting(r) <=> Starting(q)
    BY AppendCarries DEF Starting
  <1> HIDE DEF r, k
  <1>3. \A i \in DOMAIN r : r[i].code \in {"AS", "MIP", "MIA"} => i \in DOMAIN q
    BY <1>1
  <1>4. ASSUME NEW lo, NEW hi, Numbered(q, lo, hi)
        PROVE  Numbered(r, lo, hi)
    BY <1>1, <1>3, <1>4 DEF Numbered
  <1>5. ASSUME OrderOK(q)
        PROVE  OrderOK(r)
    <2> SUFFICES ASSUME NEW i \in DOMAIN r, NEW j \in DOMAIN r, i < j
                 PROVE  /\ r[j].code = "AS" => r[i].code \notin {"AS", "DT", "MIP", "AE"}
                        /\ r[i].code \in ReplyCode => r[j].code # "MIA"
                        /\ r[i].code = "MIA" /\ r[j].code = "MIA"
                             => r[i].serial < r[j].serial
      BY DEF OrderOK
    <2>1. j \in DOMAIN q => i \in DOMAIN q
      BY <1>1
    <2> QED
      BY <1>1, <1>3, <1>5, <2>1 DEF OrderOK
  <1> QED
    BY <1>1, <1>2, <1>3, <1>4, <1>5 DEF SamePoints, r

\* The points of what is left of a queue come in order if those of the queue
\* do.
LEMMA TailGrows ==
    ASSUME NEW T, NEW q \in Seq(T), q # << >>,
           \A i \in DOMAIN q, j \in DOMAIN q :
             i < j /\ q[i].code = "MIP" /\ q[j].code = "MIP" => q[i].serial < q[j].serial
    PROVE  \A i \in DOMAIN Tail(q), j \in DOMAIN Tail(q) :
             i < j /\ Tail(q)[i].code = "MIP" /\ Tail(q)[j].code = "MIP"
               => Tail(q)[i].serial < Tail(q)[j].serial
  <1> DEFINE r == Tail(q)
  <1>1. /\ \A i \in DOMAIN r : i + 1 \in DOMAIN q /\ r[i] = q[i + 1]
        /\ \A i, j \in DOMAIN r : i < j => i + 1 < j + 1
    BY TailShape
  <1> HIDE DEF r
  <1> SUFFICES ASSUME NEW i \in DOMAIN r, NEW j \in DOMAIN r, i < j,
                      r[i].code = "MIP", r[j].code = "MIP"
               PROVE  r[i].serial < r[j].serial
    BY DEF r
  <1>2. /\ i + 1 \in DOMAIN q /\ r[i] = q[i + 1] /\ j + 1 \in DOMAIN q /\ r[j] = q[j + 1]
        /\ i + 1 < j + 1
    BY <1>1
  <1> DEFINE k == i + 1
             l == j + 1
  <1>3. k \in DOMAIN q /\ l \in DOMAIN q /\ k < l /\ r[i] = q[k] /\ r[j] = q[l]
    BY <1>2
  <1> HIDE DEF k, l
  <1> QED
    BY <1>3

\* What is read is no point.
LEMMA TailNumbered ==
    ASSUME NEW T, NEW q \in Seq(T), q # << >>, Head(q).code # "MIP",
           NEW lo, NEW hi, Numbered(q, lo, hi)
    PROVE  Numbered(Tail(q), lo, hi)
  <1> DEFINE r == Tail(q)
  <1>1. /\ \A i \in DOMAIN r : i + 1 \in DOMAIN q /\ r[i] = q[i + 1] /\ i \in Nat /\ 1 < i + 1
        /\ \A j \in DOMAIN q : j \in Nat /\
             (j = 1 \/ (1 < j /\ j - 1 \in DOMAIN r /\ r[j - 1] = q[j]))
        /\ 1 \in DOMAIN q /\ q[1] = Head(q)
        /\ \A i, j \in DOMAIN r : i < j => i + 1 < j + 1
    BY TailShape
  <1> HIDE DEF r
  <1>2. \A i \in DOMAIN r : r[i].code = "MIP" => lo <= r[i].serial /\ r[i].serial < hi
    BY <1>1 DEF Numbered
  <1>3. \A i \in DOMAIN r, j \in DOMAIN r :
          i < j /\ r[i].code = "MIP" /\ r[j].code = "MIP" => r[i].serial < r[j].serial
    BY TailGrows DEF Numbered, r
  <1>4. \A n \in Nat : lo <= n /\ n < hi =>
          \E i \in DOMAIN r : r[i].code = "MIP" /\ r[i].serial = n
    <2> SUFFICES ASSUME NEW n \in Nat, lo <= n, n < hi
                 PROVE  \E i \in DOMAIN r : r[i].code = "MIP" /\ r[i].serial = n
      OBVIOUS
    <2>1. PICK j \in DOMAIN q : q[j].code = "MIP" /\ q[j].serial = n
      BY DEF Numbered
    <2>2. j # 1
      BY <1>1, <2>1
    <2> QED
      BY <1>1, <2>1, <2>2
  <1>5. Numbered(r, lo, hi)
    BY <1>2, <1>3, <1>4 DEF Numbered
  <1> QED
    BY <1>5 DEF r

LEMMA TailPlain ==
    ASSUME NEW T, NEW q \in Seq(T), q # << >>, Head(q).code \notin {"AS", "MIP"}
    PROVE  SamePoints(q, Tail(q))
  <1> DEFINE r == Tail(q)
  <1>1. /\ \A i \in DOMAIN r : i + 1 \in DOMAIN q /\ r[i] = q[i + 1] /\ i \in Nat /\ 1 < i + 1
        /\ \A j \in DOMAIN q : j \in Nat /\
             (j = 1 \/ (1 < j /\ j - 1 \in DOMAIN r /\ r[j - 1] = q[j]))
        /\ 1 \in DOMAIN q /\ q[1] = Head(q)
        /\ \A i, j \in DOMAIN r : i < j => i + 1 < j + 1
    BY TailShape
  <1>2. Starting(r) <=> Starting(q)
    BY TailCarries DEF Starting
  <1> HIDE DEF r
  <1>3. ASSUME NEW lo, NEW hi, Numbered(q, lo, hi)
        PROVE  Numbered(r, lo, hi)
    BY <1>3, TailNumbered DEF r
  <1>4. OrderOK(q) => OrderOK(r)
    BY <1>1 DEF OrderOK
  <1>5. \A i \in DOMAIN r : r[i].code \in {"MIP", "MIA"} => \E j \in DOMAIN q : q[j] = r[i]
    BY <1>1
  <1> QED
    BY <1>2, <1>3, <1>4, <1>5 DEF SamePoints, r

\* The next point is written.
LEMMA AppendPoint ==
    ASSUME NEW T, NEW q \in Seq(T), NEW p \in T, p.code = "MIP",
           NEW lo \in Nat, p.serial \in Nat, lo <= p.serial,
           Numbered(q, lo, p.serial),
           \A i \in DOMAIN q : q[i].code = "MIP" => q[i].serial \in Nat
    PROVE  Numbered(Append(q, p), lo, p.serial + 1)
  <1> DEFINE r == Append(q, p)
             k == Len(q) + 1
             hi == p.serial
  <1>1. /\ DOMAIN r = DOMAIN q \cup {k} /\ k \notin DOMAIN q /\ r[k] = p
        /\ \A i \in DOMAIN q : r[i] = q[i] /\ i < k /\ i \in Nat
        /\ k \in Nat
    BY AppendShape
  <1>2. hi \in Nat /\ lo <= hi /\ r[k].code = "MIP" /\ r[k].serial = hi
    BY <1>1
  <1>3. Numbered(q, lo, hi)
    OBVIOUS
  <1> HIDE DEF r, k, hi
  <1>4. \A i \in DOMAIN r : r[i].code = "MIP" => lo <= r[i].serial /\ r[i].serial < hi + 1
    BY <1>1, <1>2, <1>3 DEF Numbered
  <1>5. \A i \in DOMAIN r, j \in DOMAIN r :
          i < j /\ r[i].code = "MIP" /\ r[j].code = "MIP" => r[i].serial < r[j].serial
    <2> SUFFICES ASSUME NEW i \in DOMAIN r, NEW j \in DOMAIN r, i < j,
                        r[i].code = "MIP", r[j].code = "MIP"
                 PROVE  r[i].serial < r[j].serial
      OBVIOUS
    <2>1. i \in DOMAIN q
      BY <1>1
    <2>2. CASE j = k
      BY <1>1, <1>2, <1>3, <2>1, <2>2 DEF Numbered
    <2>3. CASE j \in DOMAIN q
      BY <1>1, <1>3, <2>1, <2>3 DEF Numbered
    <2> QED
      BY <1>1, <2>2, <2>3
  <1>6. \A n \in Nat : lo <= n /\ n < hi + 1 =>
          \E i \in DOMAIN r : r[i].code = "MIP" /\ r[i].serial = n
    <2> SUFFICES ASSUME NEW n \in Nat, lo <= n, n < hi + 1
                 PROVE  \E i \in DOMAIN r : r[i].code = "MIP" /\ r[i].serial = n
      OBVIOUS
    <2>1. n < hi \/ n = hi
      BY <1>2
    <2>2. CASE n = hi
      BY <1>1, <1>2, <2>2
    <2>3. CASE n < hi
      BY <1>1, <1>3, <2>3 DEF Numbered
    <2> QED
      BY <2>1, <2>2, <2>3
  <1>7. Numbered(r, lo, hi + 1)
    BY <1>4, <1>5, <1>6 DEF Numbered
  <1> QED
    BY <1>7 DEF r, hi

\* The next point is read: it has the number expected.
LEMMA TailPoint ==
    ASSUME NEW T, NEW q \in Seq(T), q # << >>, Head(q).code = "MIP",
           \A i \in DOMAIN q : q[i].serial \in Nat,
           NEW lo \in Nat, NEW hi \in Nat, Numbered(q, lo, hi)
    PROVE  Head(q).serial = lo /\ lo < hi /\ Numbered(Tail(q), lo + 1, hi)
  <1> DEFINE r == Tail(q)
  <1>1. /\ \A i \in DOMAIN r : i + 1 \in DOMAIN q /\ r[i] = q[i + 1] /\ i \in Nat /\ 1 < i + 1
        /\ \A j \in DOMAIN q : j \in Nat /\
             (j = 1 \/ (1 < j /\ j - 1 \in DOMAIN r /\ r[j - 1] = q[j]))
        /\ 1 \in DOMAIN q /\ q[1] = Head(q)
        /\ \A i, j \in DOMAIN r : i < j => i + 1 < j + 1
    BY TailShape
  <1> HIDE DEF r
  <1>2. /\ q[1].code = "MIP" /\ q[1].serial \in Nat
        /\ lo <= q[1].serial /\ q[1].serial < hi
    BY <1>1 DEF Numbered
  <1>3. lo < hi
    BY <1>2
  <1>4. PICK j \in DOMAIN q : q[j].code = "MIP" /\ q[j].serial = lo
    BY <1>3 DEF Numbered
  <1>5. q[1].serial = lo
    <2>1. CASE j = 1
      BY <1>4, <2>1
    <2>2. CASE 1 < j
      <3>1. q[1].serial < lo
        BY <1>1, <1>2, <1>4, <2>2 DEF Numbered
      <3> QED
        BY <1>2, <3>1
    <2> QED
      BY <1>1, <2>1, <2>2
  <1>6. \A i \in DOMAIN r : r[i].code = "MIP" => lo + 1 <= r[i].serial /\ r[i].serial < hi
    <2> SUFFICES ASSUME NEW i \in DOMAIN r, r[i].code = "MIP"
                 PROVE  lo + 1 <= r[i].serial /\ r[i].serial < hi
      OBVIOUS
    <2>1. q[1].serial < q[i + 1].serial /\ q[i + 1].serial < hi /\ q[i + 1].serial \in Nat
      BY <1>1, <1>2 DEF Numbered
    <2> QED
      BY <1>1, <1>5, <2>1
  <1>7. \A i \in DOMAIN r, m \in DOMAIN r :
          i < m /\ r[i].code = "MIP" /\ r[m].code = "MIP" => r[i].serial < r[m].serial
    BY TailGrows DEF Numbered, r
  <1>8. \A n \in Nat : lo + 1 <= n /\ n < hi =>
          \E i \in DOMAIN r : r[i].code = "MIP" /\ r[i].serial = n
    <2> SUFFICES ASSUME NEW n \in Nat, lo + 1 <= n, n < hi
                 PROVE  \E i \in DOMAIN r : r[i].code = "MIP" /\ r[i].serial = n
      OBVIOUS
    <2>1. lo <= n /\ n # lo
      OBVIOUS
    <2>2. PICK m \in DOMAIN q : q[m].code = "MIP" /\ q[m].serial = n
      BY <2>1 DEF Numbered
    <2>3. m # 1
      BY <1>5, <2>1, <2>2
    <2> QED
      BY <1>1, <2>2, <2>3
  <1>9. Numbered(r, lo + 1, hi)
    BY <1>6, <1>7, <1>8 DEF Numbered
  <1> QED
    BY <1>1, <1>3, <1>5, <1>9 DEF r

\* An activity starts: nothing of another is in front of it.
LEMMA AppendStart ==
    ASSUME NEW T, NEW q \in Seq(T), NEW p \in T, p.code = "AS", OrderOK(q),
           ~Carries(q, {"AS", "DT", "MIP", "AE"})
    PROVE  /\ OrderOK(Append(q, p)) /\ Starting(Append(q, p))
           /\ ~Carries(Append(q, p), {"MIP"})
           /\ \A i \in DOMAIN Append(q, p) : Append(q, p)[i].code = "MIA" =>
                i \in DOMAIN q /\ Append(q, p)[i] = q[i]
  <1> DEFINE r == Append(q, p)
             k == Len(q) + 1
  <1>1. /\ DOMAIN r = DOMAIN q \cup {k} /\ k \notin DOMAIN q /\ r[k] = p
        /\ \A i \in DOMAIN q : r[i] = q[i] /\ i < k /\ i \in Nat
        /\ k \in Nat
    BY AppendShape
  <1>2. Starting(r) /\ (Carries(r, {"MIP"}) => Carries(q, {"MIP"}))
    BY AppendCarries DEF Starting
  <1>3. ~Carries(q, {"MIP"})
    BY DEF Carries
  <1> HIDE DEF r, k
  <1>4. OrderOK(r)
    <2> SUFFICES ASSUME NEW i \in DOMAIN r, NEW j \in DOMAIN r, i < j
                 PROVE  /\ r[j].code = "AS" => r[i].code \notin {"AS", "DT", "MIP", "AE"}
                        /\ r[i].code \in ReplyCode => r[j].code # "MIA"
                        /\ r[i].code = "MIA" /\ r[j].code = "MIA"
                             => r[i].serial < r[j].serial
      BY DEF OrderOK
    <2>1. i \in DOMAIN q
      BY <1>1
    <2>2. CASE j = k
      BY <1>1, <2>1, <2>2 DEF Carries
    <2>3. CASE j \in DOMAIN q
      BY <1>1, <2>1, <2>3 DEF OrderOK
    <2> QED
      BY <1>1, <2>2, <2>3
  <1>5. \A i \in DOMAIN r : r[i].code = "MIA" => i \in DOMAIN q /\ r[i] = q[i]
    BY <1>1
  <1> QED
    BY <1>2, <1>3, <1>4, <1>5 DEF r

\* A point is confirmed, in order and before the answer to the whole.
LEMMA AppendConfirm ==
    ASSUME NEW T, NEW q \in Seq(T), NEW p \in T, p.code = "MIA", OrderOK(q),
           ~Replying(q),
           \A i \in DOMAIN q : q[i].code = "MIA" => q[i].serial < p.serial
    PROVE  /\ OrderOK(Append(q, p)) /\ (Starting(Append(q, p)) <=> Starting(q))
           /\ \A lo, hi : Numbered(q, lo, hi) => Numbered(Append(q, p), lo, hi)
           /\ \A i \in DOMAIN Append(q, p) :
                \/ i \in DOMAIN q /\ Append(q, p)[i] = q[i]
                \/ Append(q, p)[i] = p
  <1> DEFINE r == Append(q, p)
             k == Len(q) + 1
  <1>1. /\ DOMAIN r = DOMAIN q \cup {k} /\ k \notin DOMAIN q /\ r[k] = p
        /\ \A i \in DOMAIN q : r[i] = q[i] /\ i < k /\ i \in Nat
        /\ k \in Nat
    BY AppendShape
  <1>2. Starting(r) <=> Starting(q)
    BY AppendCarries DEF Starting
  <1> HIDE DEF r, k
  <1>3. \A i \in DOMAIN q : q[i].code \notin ReplyCode
    BY DEF Replying, Confirming, Agreeing, Carries, ReplyCode
  <1>4. OrderOK(r)
    <2> SUFFICES ASSUME NEW i \in DOMAIN r, NEW j \in DOMAIN r, i < j
                 PROVE  /\ r[j].code = "AS" => r[i].code \notin {"AS", "DT", "MIP", "AE"}
                        /\ r[i].code \in ReplyCode => r[j].code # "MIA"
                        /\ r[i].code = "MIA" /\ r[j].code = "MIA"
                             => r[i].serial < r[j].serial
      BY DEF OrderOK
    <2>1. i \in DOMAIN q
      BY <1>1
    <2>2. CASE j = k
      BY <1>1, <1>3, <2>1, <2>2
    <2>3. CASE j \in DOMAIN q
      BY <1>1, <2>1, <2>3 DEF OrderOK
    <2> QED
      BY <1>1, <2>2, <2>3
  <1>5. \A i \in DOMAIN r : r[i].code = "MIP" => i \in DOMAIN q
    BY <1>1
  <1>6. ASSUME NEW lo, NEW hi, Numbered(q, lo, hi)
        PROVE  Numbered(r, lo, hi)
    BY <1>1, <1>5, <1>6 DEF Numbered
  <1> QED
    BY <1>1, <1>2, <1>4, <1>6 DEF r

-----------------------------------------------------------------------------
(* What the primitives do to the serial numbers of a session.              *)

Counts(s, a, m) == sb'[s].sb_V_A = a /\ sb'[s].sb_V_M = m

\* A point of either end has been counted: V_A may have moved up to V_M.
CountsPoint(s) ==
    \E a \in {sb[s].sb_V_A, sb[s].sb_V_M} : Counts(s, a, sb[s].sb_V_M + 1)

LEMMA RequestStores ==
    ASSUME S!Inv, NEW s \in Side, NEW b, NEW p, S!Request(s, b, p)
    PROVE  sb'[s] = b
  <1>1. DOMAIN sb = Side /\ sb' = [sb EXCEPT ![s] = b]
    BY SessionTypes DEF S!Request, S!Update
  <1> QED
    BY <1>1

LEMMA RequestCounts ==
    ASSUME S!Inv, NEW s \in Side
    PROVE  LET A == sb[s].sb_V_A
               M == sb[s].sb_V_M IN
           /\ \/ S!SDataRequest(s) \/ S!SPTokenRequest(s, {"DAT"})
              \/ S!SGControlRequest(s) \/ S!SUReportRequest(s)
              \/ S!SActDiscRequest(s) \/ S!SActIntrRequest(s)
              \/ S!SActDiscResponse(s) \/ S!SActIntrResponse(s)
              \/ S!SRelRequest(s)
              => Counts(s, A, M)
           /\ S!SMajSyncResponseAux(s) => Counts(s, M, M)
           /\ S!SActStartRequest(s) => Counts(s, 1, 1)
           /\ S!SMinSyncRequest(s) => CountsPoint(s)
           /\ S!SActEndRequest(s) => CountsPoint(s)
           /\ \A n \in Nat : S!SMinSyncResponse(s, n) => Counts(s, n + 1, M)
  <1> DEFINE A == sb[s].sb_V_A
             M == sb[s].sb_V_M
  <1>1. sb[s] \in S!ssapblk /\ DOMAIN sb = Side
    BY SessionTypes
  <1>2. S!SDataRequest(s) \/ S!SPTokenRequest(s, {"DAT"}) => Counts(s, A, M)
    BY RequestStores DEF S!SDataRequest, S!SPTokenRequest, Counts
  <1>3. S!SRelRequest(s) => Counts(s, A, M)
    BY <1>1 DEF S!SRelRequest, S!Update, Counts
  <1>4. ASSUME NEW b, b.sb_V_A = A, b.sb_V_M = M, NEW p, S!Request(s, b, p)
        PROVE  Counts(s, A, M)
    BY <1>4, RequestStores DEF Counts
  <1>5. S!SGControlRequest(s) => Counts(s, A, M)
    <2> DEFINE b == [sb[s] EXCEPT !.sb_owned = {}, !.sb_flags = @ \cup {"SB_GTC"}]
    <2>1. b.sb_V_A = A /\ b.sb_V_M = M
      BY <1>1 DEF S!ssapblk
    <2>2. S!SGControlRequest(s) => S!Request(s, b, S!newspkt("GTC"))
      BY DEF S!SGControlRequest
    <2> HIDE DEF b
    <2> QED
      BY <1>4, <2>1, <2>2
  <1>6. S!SUReportRequest(s) => Counts(s, A, M)
    <2> DEFINE b == [sb[s] EXCEPT !.sb_flags = @ \cup {"SB_ED"}]
    <2>1. b.sb_V_A = A /\ b.sb_V_M = M
      BY <1>1 DEF S!ssapblk
    <2>2. S!SUReportRequest(s) => S!Request(s, b, S!newspkt("ED"))
      BY DEF S!SUReportRequest
    <2> HIDE DEF b
    <2> QED
      BY <1>4, <2>1, <2>2
  <1>7. ASSUME NEW code, NEW op, S!SActIntrRequestAux(s, code, op)
        PROVE  Counts(s, A, M)
    <2> DEFINE b == [sb[s] EXCEPT !.sb_rs = op,
                       !.sb_flags = (@ \cup {"SB_AI"}) \ {"SB_EDACK"}]
    <2>1. b.sb_V_A = A /\ b.sb_V_M = M
      BY <1>1 DEF S!ssapblk
    <2>2. S!Request(s, b, S!newspkt(code))
      BY <1>7 DEF S!SActIntrRequestAux
    <2> HIDE DEF b
    <2> QED
      BY <1>4, <2>1, <2>2
  <1>8. ASSUME NEW code, S!SActIntrResponseAux(s, code)
        PROVE  Counts(s, A, M)
    <2> DEFINE b == [sb[s] EXCEPT !.sb_owned = {},
                       !.sb_flags = @ \ {"SB_AIA", "SB_Vact"}]
    <2>1. b.sb_V_A = A /\ b.sb_V_M = M
      BY <1>1 DEF S!ssapblk
    <2>2. S!Request(s, b, S!newspkt(code))
      BY <1>8 DEF S!SActIntrResponseAux
    <2> HIDE DEF b
    <2> QED
      BY <1>4, <2>1, <2>2
  <1>9. S!SMajSyncResponseAux(s) => Counts(s, M, M)
    <2> DEFINE f == S!NextAct(sb[s]) \ {"SB_MAA", "SB_AE"}
               b == [sb[s] EXCEPT !.sb_V_A = M, !.sb_V_R = M, !.sb_flags = f]
               p == [S!newspkt("MAA") EXCEPT !.serial = M - 1]
    <2>1. b.sb_V_A = M /\ b.sb_V_M = M
      BY <1>1 DEF S!ssapblk
    <2>2. S!SMajSyncResponseAux(s) => S!Request(s, b, p)
      BY DEF S!SMajSyncResponseAux
    <2> HIDE DEF b, p
    <2> QED
      BY <2>1, <2>2, RequestStores DEF Counts
  <1>10. S!SActStartRequest(s) => Counts(s, 1, 1)
    <2> DEFINE b == S!Started(sb[s], 1)
    <2>1. b.sb_V_A = 1 /\ b.sb_V_M = 1
      BY <1>1 DEF S!ssapblk, S!Started
    <2>2. S!SActStartRequest(s) => S!Request(s, b, S!newspkt("AS"))
      BY DEF S!SActStartRequest
    <2> HIDE DEF b
    <2> QED
      BY <2>1, <2>2, RequestStores DEF Counts
  <1>11. LET b == S!IssuePoint(sb[s]) IN
         b.sb_V_A \in {A, M} /\ b.sb_V_M = M + 1 /\ DOMAIN b = DOMAIN sb[s]
    BY <1>1 DEF S!ssapblk, S!IssuePoint
  <1>12. S!SMinSyncRequest(s) => CountsPoint(s)
    <2> DEFINE b == S!IssuePoint(sb[s])
               p == [S!newspkt("MIP") EXCEPT !.serial = M]
    <2>1. S!SMinSyncRequest(s) => S!Request(s, b, p)
      BY DEF S!SMinSyncRequest
    <2> HIDE DEF b, p
    <2> QED
      BY <1>11, <2>1, RequestStores DEF CountsPoint, Counts, b
  <1>13. S!SActEndRequest(s) => CountsPoint(s)
    <2> DEFINE f == (((sb[s].sb_flags \cup {"SB_MAP"}) \ {"SB_Vsc"}) \cup {"SB_AE"})
                       \ {"SB_Vnextact"}
               b == [S!IssuePoint(sb[s]) EXCEPT !.sb_flags = f]
               p == [S!newspkt("AE") EXCEPT !.serial = M]
    <2>1. S!SActEndRequest(s) => S!Request(s, b, p)
      BY DEF S!SActEndRequest, S!SMajSyncRequestAux
    <2> HIDE DEF f
    <2>2. b.sb_V_A \in {A, M} /\ b.sb_V_M = M + 1
      BY <1>1 DEF S!ssapblk, S!IssuePoint
    <2> HIDE DEF b, p
    <2> QED
      BY <2>1, <2>2, RequestStores DEF CountsPoint, Counts
  <1>14. ASSUME NEW n \in Nat, S!SMinSyncResponse(s, n)
         PROVE  Counts(s, n + 1, M)
    <2> DEFINE b == [sb[s] EXCEPT !.sb_V_A = n + 1]
    <2>1. b.sb_V_A = n + 1 /\ b.sb_V_M = M
      BY <1>1 DEF S!ssapblk
    <2>2. S!Request(s, b, [S!newspkt("MIA") EXCEPT !.serial = n])
      BY <1>14 DEF S!SMinSyncResponse
    <2> HIDE DEF b
    <2> QED
      BY <2>1, <2>2, RequestStores DEF Counts
  <1> QED
    BY <1>2, <1>3, <1>5, <1>6, <1>7, <1>8, <1>9, <1>10, <1>12, <1>13, <1>14
    DEF S!SActDiscRequest, S!SActIntrRequest, S!SActDiscResponse, S!SActIntrResponse

LEMMA AcceptStores ==
    ASSUME S!Inv, NEW s \in Side, NEW in, NEW b, NEW q, S!Accept(s, in, b, q)
    PROVE  sb'[s] = b
  <1>1. DOMAIN sb = Side /\ sb' = [sb EXCEPT ![s] = b]
    BY SessionTypes DEF S!Accept
  <1> QED
    BY <1>1

LEMMA ReadCounts ==
    ASSUME S!Inv, NEW s \in Side, SideOK(s), QueueOK(net[s])
    PROVE  LET A == sb[s].sb_V_A
               M == sb[s].sb_V_M
               n == Head(net[s]).serial IN
           /\ \/ S!ReadDT(s) \/ S!ReadGTC(s) \/ S!ReadGTA(s) \/ S!ReadAI(s)
              \/ S!ReadAIA(s) \/ S!ReadFN(s) \/ S!ReadED(s)
              => Counts(s, A, M)
           /\ S!ReadMAA(s) => Counts(s, M, M)
           /\ S!ReadAS(s) => Counts(s, 1, 1)
           /\ S!ReadMIP(s) => CountsPoint(s)
           /\ S!ReadAE(s) => CountsPoint(s)
           /\ S!ReadMIA(s) => Counts(s, n, M) /\ ~(n >= M)
  <1> DEFINE A == sb[s].sb_V_A
             M == sb[s].sb_V_M
             n == Head(net[s]).serial
  <1>1. sb[s] \in S!ssapblk
    BY SessionTypes
  <1>2. S!Reads(s) => SB(s, "SB_CONN")
    BY DEF S!Reads, S!Connected, SB
  <1>3. ASSUME S!Reads(s), NEW codes, "TDISC" \notin codes, NEW in \in S!Received(s, codes)
        PROVE  /\ in.b = sb[s] /\ in.p = Head(net[s])
               /\ ~S!Ignored(sb[s], Head(net[s])) /\ Head(net[s]).code \in codes
    BY <1>2, <1>3, ReceivesHead
  <1>4. ASSUME NEW b, b.sb_V_A = A, b.sb_V_M = M, NEW in, NEW q, S!Accept(s, in, b, q)
        PROVE  Counts(s, A, M)
    BY <1>4, AcceptStores DEF Counts
  <1>5. S!ReadDT(s) => Counts(s, A, M)
    BY <1>3, <1>4 DEF S!ReadDT
  <1>6. ASSUME NEW gone, NEW come, S!Reads(s), NEW codes, "TDISC" \notin codes,
               NEW in \in S!Received(s, codes), S!AcceptFlags(s, in, gone, come)
        PROVE  Counts(s, A, M)
    <2> DEFINE b == [sb[s] EXCEPT !.sb_flags = (@ \ gone) \cup come]
    <2>1. b.sb_V_A = A /\ b.sb_V_M = M
      BY <1>1 DEF S!ssapblk
    <2>2. S!Accept(s, in, b, << >>)
      BY <1>3, <1>6 DEF S!AcceptFlags
    <2> HIDE DEF b
    <2> QED
      BY <1>4, <2>1, <2>2
  <1>7. S!ReadGTA(s) \/ S!ReadFN(s) \/ S!ReadED(s) => Counts(s, A, M)
    BY <1>6 DEF S!ReadGTA, S!ReadFN, S!ReadED
  <1>8. ASSUME S!ReadGTC(s) PROVE Counts(s, A, M)
    <2> DEFINE b == [sb[s] EXCEPT !.sb_owned = S!Available(sb[s].sb_requirements)]
    <2>1. PICK in \in S!Received(s, {"GTC"}) : S!Accept(s, in, b, <<S!newspkt("GTA")>>)
      BY <1>3, <1>8 DEF S!ReadGTC
    <2>2. b.sb_V_A = A /\ b.sb_V_M = M
      BY <1>1 DEF S!ssapblk
    <2> HIDE DEF b
    <2> QED
      BY <1>4, <2>1, <2>2
  <1>9. ASSUME S!ReadAI(s) PROVE Counts(s, A, M)
    <2> DEFINE f == (sb[s].sb_flags \ {"SB_RS", "SB_RA"}) \cup {"SB_AIA"}
               b == [sb[s] EXCEPT !.sb_flags = f, !.sb_rs = "INTR"]
    <2>1. PICK in \in S!Received(s, {"AI", "AD"}) : S!Accept(s, in, b, << >>)
      BY <1>3, <1>9 DEF S!ReadAI
    <2> HIDE DEF f
    <2>2. b.sb_V_A = A /\ b.sb_V_M = M
      BY <1>1 DEF S!ssapblk
    <2> HIDE DEF b
    <2> QED
      BY <1>4, <2>1, <2>2
  <1>10. ASSUME S!ReadAIA(s) PROVE Counts(s, A, M)
    <2> DEFINE f == sb[s].sb_flags \ {"SB_AI", "SB_Vact"}
               g == S!Available(sb[s].sb_requirements)
               b == [sb[s] EXCEPT !.sb_flags = f, !.sb_owned = g]
    <2>1. PICK in \in S!Received(s, {"AIA", "ADA"}) : S!Accept(s, in, b, << >>)
      BY <1>3, <1>10 DEF S!ReadAIA
    <2> HIDE DEF f, g
    <2>2. b.sb_V_A = A /\ b.sb_V_M = M
      BY <1>1 DEF S!ssapblk
    <2> HIDE DEF b
    <2> QED
      BY <1>4, <2>1, <2>2
  <1>11. ASSUME S!ReadMAA(s) PROVE Counts(s, M, M)
    <2> DEFINE f == S!NextAct(sb[s]) \ {"SB_MAP", "SB_AE"}
               b == [sb[s] EXCEPT !.sb_V_A = M, !.sb_V_R = M, !.sb_flags = f]
    <2>1. PICK in \in S!Received(s, {"MAA"}) : S!Accept(s, in, b, << >>)
      BY <1>3, <1>11 DEF S!ReadMAA
    <2> HIDE DEF f
    <2>2. b.sb_V_A = M /\ b.sb_V_M = M
      BY <1>1 DEF S!ssapblk
    <2> HIDE DEF b
    <2> QED
      BY <2>1, <2>2, AcceptStores DEF Counts
  <1>12. ASSUME S!ReadAS(s) PROVE Counts(s, 1, 1)
    <2> DEFINE b == S!Started(sb[s], 1)
    <2>1. PICK in \in S!Received(s, {"AS"}) : S!Accept(s, in, b, << >>)
      BY <1>3, <1>12 DEF S!ReadAS
    <2>2. b.sb_V_A = 1 /\ b.sb_V_M = 1
      BY <1>1 DEF S!ssapblk, S!Started
    <2> HIDE DEF b
    <2> QED
      BY <2>1, <2>2, AcceptStores DEF Counts
  <1>13. ASSUME S!ReadMIP(s) PROVE CountsPoint(s)
    <2> DEFINE b == [S!CountPoint(sb[s]) EXCEPT !.sb_flags = @ \cup {"SB_Vsc"}]
    <2>1. PICK in \in S!Received(s, {"MIP"}) : S!Accept(s, in, b, << >>)
      BY <1>3, <1>13 DEF S!ReadMIP
    <2>2. b.sb_V_A \in {A, M} /\ b.sb_V_M = M + 1
      BY <1>1 DEF S!ssapblk, S!CountPoint
    <2> HIDE DEF b
    <2> QED
      BY <2>1, <2>2, AcceptStores DEF CountsPoint, Counts
  <1>14. ASSUME S!ReadAE(s) PROVE CountsPoint(s)
    <2> DEFINE b == [S!CountPoint(sb[s]) EXCEPT
                       !.sb_flags = (@ \ {"SB_Vnextact"}) \cup {"SB_MAA", "SB_AE"}]
    <2>1. PICK in \in S!Received(s, {"AE"}) : S!Accept(s, in, b, << >>)
      BY <1>3, <1>14 DEF S!ReadAE
    <2>2. b.sb_V_A \in {A, M} /\ b.sb_V_M = M + 1
      BY <1>1 DEF S!ssapblk, S!CountPoint
    <2> HIDE DEF b
    <2> QED
      BY <2>1, <2>2, AcceptStores DEF CountsPoint, Counts
  <1>15. ASSUME S!ReadMIA(s) PROVE Counts(s, n, M) /\ ~(n >= M)
    <2> DEFINE b == [sb[s] EXCEPT !.sb_V_A = n]
    <2>1. PICK in \in S!Received(s, {"MIA"}) : S!Accept(s, in, b, << >>)
      BY <1>3, <1>15 DEF S!ReadMIA
    <2>2. Head(net[s]).code = "MIA" /\ ~S!Ignored(sb[s], Head(net[s]))
      BY <1>3, <1>15, <2>1 DEF S!ReadMIA
    <2>3. ~(n >= M)
      BY <2>2 DEF S!Ignored
    <2>4. b.sb_V_A = n /\ b.sb_V_M = M
      BY <1>1 DEF S!ssapblk
    <2> HIDE DEF b
    <2> QED
      BY <2>1, <2>3, <2>4, AcceptStores DEF Counts
  <1> QED
    BY <1>5, <1>7, <1>8, <1>9, <1>10, <1>11, <1>12, <1>13, <1>14, <1>15

\* What SReadRequest drops is no point, and no start of an activity that the
\* end could take.
LEMMA SpinCounts ==
    ASSUME S!Inv, NEW s \in Side, SideOK(s), QueueOK(net[s]), S!ReadSpin(s)
    PROVE  /\ Counts(s, sb[s].sb_V_A, sb[s].sb_V_M)
           /\ Head(net[s]).code # "MIP"
           /\ Head(net[s]).code = "AS" => SB(s, "SB_Vact") \/ SB(s, "SB_ED")
  <1>1. SB(s, "SB_CONN")
    BY DEF S!ReadSpin, S!Reads, S!Connected, SB
  <1>2. PICK in \in S!sb2spkt(s) :
          /\ in.p.code # "TDISC"
          /\ S!Discarded(s, in.b, in.p) \/ S!Ignored(in.b, in.p)
          /\ S!Accept(s, in, S!Prepared(in.b, in.p), << >>)
    BY DEF S!ReadSpin
  <1>3. net[s] # << >> /\ in.p = Head(net[s]) /\ in.b = sb[s]
    <2>1. /\ net[s] # << >>
          /\ in = [p |-> Head(net[s]), b |-> sb[s], q |-> Tail(net[s])]
      BY <1>1, <1>2, ReadsHead
    <2> QED
      BY <2>1
  <1>4. S!Prepared(sb[s], Head(net[s])) = sb[s]
    BY <1>1 DEF S!Prepared, S!Ends, SideOK
  <1>5. Counts(s, sb[s].sb_V_A, sb[s].sb_V_M)
    BY <1>2, <1>3, <1>4, AcceptStores DEF Counts
  <1>6. net[s] \in Seq(S!Spdu)
    BY SessionTypes
  <1>7. Head(net[s]) \in S!Spdu
    BY <1>3, <1>6
  <1>8. Head(net[s]).code \in S!SpduCode /\ sb[s].sb_pr = "PR"
    BY <1>1, <1>7 DEF S!Spdu, SideOK
  <1>9. S!Passes("PR") = S!SpduCode
    BY DEF S!Passes
  <1>10. ASSUME Head(net[s]).code \in {"AS", "MIP"}
         PROVE  Head(net[s]).code = "AS" /\ (SB(s, "SB_Vact") \/ SB(s, "SB_ED"))
    <2>1. S!Ignored(sb[s], Head(net[s])) => Head(net[s]).code = "AS" /\ SB(s, "SB_Vact")
      BY <1>10 DEF S!Ignored, SB
    <2>2. ~S!LosesCollision(s, sb[s], Head(net[s]))
      BY <1>10 DEF S!LosesCollision
    <2>3. S!Discarded(s, sb[s], Head(net[s])) => S!InException(sb[s], Head(net[s]))
      BY <1>8, <1>9, <2>2 DEF S!Discarded
    <2> QED
      BY <1>2, <1>3, <1>10, <2>1, <2>3 DEF S!InException, SB
  <1> QED
    BY <1>5, <1>10

-----------------------------------------------------------------------------
(* Steps that leave the points alone.                                      *)

\* The queue r has no turn and no answer that q has not.
NoWord(q, r) == Turning(r) \/ Replying(r) => Turning(q) \/ Replying(q)

LEMMA WritesPlain ==
    ASSUME S!Inv, NEW s \in Side, NEW code, NEW flags, NEW owned,
           Writes(s, code, flags, owned), code \notin {"AS", "MIP", "MIA"}
    PROVE  /\ SamePoints(net[s], net'[s]) /\ SamePoints(net[Peer(s)], net'[Peer(s)])
           /\ NoWord(net[s], net'[s])
           /\ code \notin {"GTC"} \cup ReplyCode => NoWord(net[Peer(s)], net'[Peer(s)])
  <1> DEFINE o == Peer(s)
  <1>1. net'[s] = net[s] /\ Grows(o, code) /\ o \in Side
    BY Sides DEF Writes
  <1>2. net[o] \in Seq(S!Spdu)
    BY <1>1, SessionTypes
  <1> HIDE DEF o
  <1>3. CASE SB(o, "SB_CONN")
    <2>1. PICK pkt \in S!Spdu : pkt.code = code /\ net'[o] = Append(net[o], pkt)
      BY <1>1, <1>3 DEF Grows
    <2>2. SamePoints(net[o], net'[o])
      BY <1>2, <2>1, AppendPlain
    <2>3. \A codes : Carries(net'[o], codes) <=> Carries(net[o], codes) \/ code \in codes
      BY <1>2, <2>1, AppendCarries
    <2>4. code \notin {"GTC"} \cup ReplyCode => NoWord(net[o], net'[o])
      BY <2>3 DEF NoWord, Turning, Replying, Confirming, Agreeing, ReplyCode
    <2> QED
      BY <1>1, <2>2, <2>4, SameItself DEF NoWord, o
  <1>4. CASE ~SB(o, "SB_CONN")
    BY <1>1, <1>4, SameItself DEF Grows, NoWord, o
  <1> QED
    BY <1>3, <1>4

\* What a read does to the peer's queue, and to the one it reads from.
LEMMA TakesPlain ==
    ASSUME S!Inv, NEW s \in Side, NEW flags, NEW owned, Takes(s, flags, owned)
    PROVE  /\ SamePoints(net[Peer(s)], net'[Peer(s)])
           /\ NoWord(net[s], net'[s]) /\ NoWord(net[Peer(s)], net'[Peer(s)])
           /\ Head(net[s]).code \notin {"AS", "MIP"} => SamePoints(net[s], net'[s])
           /\ net[s] # << >> /\ net'[s] = Tail(net[s]) /\ net[s] \in Seq(S!Spdu)
  <1> DEFINE o == Peer(s)
  <1>1. /\ net[s] # << >> /\ net'[s] = Tail(net[s]) /\ o \in Side
        /\ net'[o] = net[o] \/ Grows(o, "GTA")
    BY Sides DEF Takes
  <1>2. net[s] \in Seq(S!Spdu) /\ net[o] \in Seq(S!Spdu)
    BY <1>1, SessionTypes
  <1>3. Head(net[s]).code \notin {"AS", "MIP"} => SamePoints(net[s], net'[s])
    BY <1>1, <1>2, TailPlain
  <1>4. NoWord(net[s], net'[s])
    <2>1. \A codes : Carries(net'[s], codes) => Carries(net[s], codes)
      BY <1>1, <1>2, TailCarries
    <2> QED
      BY <2>1 DEF NoWord, Turning, Replying, Confirming, Agreeing
  <1> HIDE DEF o
  <1>5. SamePoints(net[o], net'[o]) /\ NoWord(net[o], net'[o])
    <2>1. CASE net'[o] = net[o]
      BY <2>1, SameItself DEF NoWord
    <2>2. ASSUME NEW pkt \in S!Spdu, pkt.code = "GTA", net'[o] = Append(net[o], pkt)
          PROVE  SamePoints(net[o], net'[o]) /\ NoWord(net[o], net'[o])
      <3>1. SamePoints(net[o], net'[o])
        BY <1>2, <2>2, AppendPlain
      <3>2. \A codes : Carries(net'[o], codes) <=> Carries(net[o], codes) \/ "GTA" \in codes
        BY <1>2, <2>2, AppendCarries
      <3> QED
        BY <3>1, <3>2 DEF NoWord, Turning, Replying, Confirming, Agreeing
    <2> QED
      BY <1>1, <2>1, <2>2 DEF Grows
  <1> QED
    BY <1>1, <1>2, <1>3, <1>4, <1>5 DEF o

\* The pace of the thread of s: before it sends there is room in the window.
Paced(s) ==
    /\ mode.ckpoint /\ Sending(s) /\ rts[s].call \in {"first", "next", "bad", "end"} =>
         acb[s].acb_ssn < acb[s].acb_ack + mode.window
    /\ ~mode.ckpoint => /\ rts[s].call \notin {"next", "window"}
                        /\ rts[s].call = "first" => rts[s].left = 1

\* A step of s that is of no matter to the points.
Calm(s) ==
    /\ Frame(s) /\ mode' = mode
    /\ SamePoints(net[s], net'[s]) /\ SamePoints(net[Peer(s)], net'[Peer(s)])
    /\ sb'[s].sb_V_M = sb[s].sb_V_M /\ sb'[s].sb_V_A <= sb[s].sb_V_M
    /\ acb'[s].acb_ssn = acb[s].acb_ssn /\ acb'[s].acb_ack = acb[s].acb_ack
    /\ Has(s, "ACB_CONN")' <=> Has(s, "ACB_CONN")
    /\ Sending(s)' <=> Sending(s)
    /\ Receiving(s)' => Receiving(s)
    /\ SB(s, "SB_Vact")' => SB(s, "SB_Vact")
    /\ Sending(s) /\ SB(s, "SB_MAP") => SB(s, "SB_MAP")'
    /\ ~SB(s, "SB_Vnextact")'
    /\ Starting(net[s]) => ~SB(s, "SB_ED")' /\ rts'[s].do # "report"
    /\ rts'[s].do # "minor"
    /\ Paced(s)'
    /\ Has(s, "ACB_TURN")' => Has(s, "ACB_TURN") \/ ~SB(Peer(s), "SB_Vact")
    /\ NoWord(net[s], net'[s])
    /\ SB(s, "SB_Vact")' => NoWord(net[Peer(s)], net'[Peer(s)])

\* To show of a step of s that the points are kept, in both directions.
LEMMA PointsBothWays ==
    ASSUME NEW s \in Side,
           ReceiverOK(s)', SenderOK(s)', ReceiverOK(Peer(s))', SenderOK(Peer(s))',
           ActivityOK(s, Peer(s))', ActivityOK(Peer(s), s)',
           PointsOK(s, Peer(s))', PointsOK(Peer(s), s)'
    PROVE  PointInv'
  <1>1. ASSUME NEW r \in Side
        PROVE  /\ ReceiverOK(r)' /\ SenderOK(r)'
               /\ ActivityOK(r, Peer(r))' /\ PointsOK(r, Peer(r))'
    <2>1. CASE r = s
      BY <2>1
    <2>2. CASE r = Peer(s)
      BY <2>2, Sides
    <2> QED
      BY <2>1, <2>2, Sides
  <1> QED
    BY <1>1 DEF PointInv

LEMMA PointsKnown ==
    ASSUME PointInv, NEW s \in Side
    PROVE  /\ ReceiverOK(s) /\ SenderOK(s) /\ ReceiverOK(Peer(s)) /\ SenderOK(Peer(s))
           /\ ActivityOK(s, Peer(s)) /\ ActivityOK(Peer(s), s)
           /\ PointsOK(s, Peer(s)) /\ PointsOK(Peer(s), s)
  BY Sides DEF PointInv

\* The peer's own part, if its queue keeps its points.
LEMMA PeerPoints ==
    ASSUME PointInv, NEW s \in Side, Frame(s), mode' = mode,
           SamePoints(net[Peer(s)], net'[Peer(s)])
    PROVE  ReceiverOK(Peer(s))' /\ SenderOK(Peer(s))'
  <1> DEFINE o == Peer(s)
  <1>1. ReceiverOK(o) /\ SenderOK(o)
    BY PointsKnown
  <1>2. /\ acb'[o] = acb[o] /\ rts'[o] = rts[o] /\ sb'[o] = sb[o]
    BY DEF Frame
  <1>3. SamePoints(net[o], net'[o])
    OBVIOUS
  <1> HIDE DEF o
  <1>4. NextPoint(o)' = NextPoint(o) /\ (Starting(net'[o]) <=> Starting(net[o]))
    BY <1>2, <1>3 DEF NextPoint, SamePoints
  <1>5. PICK hi \in Nat : Numbered(net[o], NextPoint(o), hi)
    BY <1>1 DEF ReceiverOK
  <1>6. Numbered(net'[o], NextPoint(o), hi) /\ OrderOK(net'[o])
    BY <1>1, <1>3, <1>5 DEF SamePoints, ReceiverOK
  <1>7. ReceiverOK(o)'
    BY <1>1, <1>2, <1>4, <1>6 DEF ReceiverOK, Receiving, Has, SB, Due
  <1>8. Carries(net'[o], {"MIP", "MIA"}) => Carries(net[o], {"MIP", "MIA"})
    BY <1>3, SameCarries
  <1>9. SenderOK(o)'
    BY <1>1, <1>2, <1>8 DEF SenderOK, Sending, Has, Due
  <1> QED
    BY <1>7, <1>9 DEF o

LEMMA CalmKeeps ==
    ASSUME PointInv, NEW s \in Side, Calm(s)
    PROVE  PointInv'
  <1> DEFINE o == Peer(s)
  <1>1. /\ ReceiverOK(s) /\ SenderOK(s) /\ ActivityOK(s, o) /\ ActivityOK(o, s)
        /\ PointsOK(s, o) /\ PointsOK(o, s)
    BY PointsKnown
  <1>2. ReceiverOK(o)' /\ SenderOK(o)'
    BY PeerPoints DEF Calm
  <1>3. /\ acb'[o] = acb[o] /\ rts'[o] = rts[o] /\ sb'[o] = sb[o] /\ mode' = mode
    BY DEF Calm, Frame
  <1>4. SamePoints(net[s], net'[s]) /\ SamePoints(net[o], net'[o])
    BY DEF Calm
  <1>5. ASSUME NEW codes \in SUBSET {"AS", "MIP", "MIA"}
        PROVE  /\ Carries(net'[s], codes) => Carries(net[s], codes)
               /\ Carries(net'[o], codes) => Carries(net[o], codes)
    BY <1>4, SameCarries
  <1> HIDE DEF o
  <1>6. /\ NextPoint(s)' = NextPoint(s) /\ (Starting(net'[s]) <=> Starting(net[s]))
        /\ NextPoint(o)' = NextPoint(o) /\ (Starting(net'[o]) <=> Starting(net[o]))
    BY <1>3, <1>4 DEF NextPoint, SamePoints, Calm
  <1>7. ReceiverOK(s)'
    <2>1. PICK hi \in Nat : Numbered(net[s], NextPoint(s), hi)
      BY <1>1 DEF ReceiverOK
    <2>2. Numbered(net'[s], NextPoint(s), hi) /\ OrderOK(net'[s])
      BY <1>1, <1>4, <2>1 DEF SamePoints, ReceiverOK
    <2>3. Starting(net[s]) => ~SB(s, "SB_Vact")' /\ ~SB(s, "SB_ED")'
                              /\ rts'[s].do # "report" /\ ~Receiving(s)'
      BY <1>1 DEF ReceiverOK, Calm
    <2>4. /\ sb'[s].sb_V_A <= sb'[s].sb_V_M /\ ~SB(s, "SB_Vnextact")' /\ ~Due(s, "minor")'
      BY DEF Calm, Due
    <2> QED
      BY <1>6, <2>2, <2>3, <2>4 DEF ReceiverOK
  <1>8. SenderOK(s)'
    <2>1. Paced(s)' /\ ~Due(s, "minor")'
      BY DEF Calm, Due
    <2>2. /\ acb'[s].acb_ssn = acb[s].acb_ssn /\ acb'[s].acb_ack = acb[s].acb_ack
          /\ Sending(s)' <=> Sending(s)
          /\ sb'[s].sb_V_M = sb[s].sb_V_M
      BY DEF Calm
    <2> QED
      BY <1>1, <1>3, <1>5, <2>1, <2>2 DEF SenderOK, Paced
  <1>9. ActivityOK(s, o)'
    BY <1>1, <1>3, <1>5
    DEF ActivityOK, Calm, NoWord, Sending, Receiving, Has, SB, o
  <1>10. ActivityOK(o, s)'
    BY <1>1, <1>3, <1>5
    DEF ActivityOK, Calm, NoWord, Sending, Receiving, Has, SB, o
  <1>11. ASSUME NEW i \in DOMAIN net'[s], net'[s][i].code \in {"MIP", "MIA"}
         PROVE  \E j \in DOMAIN net[s] : net[s][j] = net'[s][i]
    BY <1>4, <1>11 DEF SamePoints
  <1>12. ASSUME NEW i \in DOMAIN net'[o], net'[o][i].code \in {"MIP", "MIA"}
         PROVE  \E j \in DOMAIN net[o] : net[o][j] = net'[o][i]
    BY <1>4, <1>12 DEF SamePoints
  <1>13. PointsOK(s, o)'
    <2> SUFFICES ASSUME Sending(s)' PROVE PointsOK(s, o)'
      BY DEF PointsOK
    <2>1. /\ Sending(s) /\ acb'[s].acb_ack = acb[s].acb_ack
          /\ sb'[s].sb_V_M = sb[s].sb_V_M /\ (SB(s, "SB_MAP") => SB(s, "SB_MAP")')
      BY DEF Calm
    <2>2. /\ (Has(o, "ACB_CONN")' <=> Has(o, "ACB_CONN"))
          /\ (Due(o, "minor")' <=> Due(o, "minor"))
      BY <1>3 DEF Has, Due
    <2>3. \A lo, hi : Numbered(net[o], lo, hi) => Numbered(net'[o], lo, hi)
      BY <1>4 DEF SamePoints
    <2> QED
      BY <1>1, <1>3, <1>6, <1>11, <1>12, <2>1, <2>2, <2>3 DEF PointsOK
  <1>14. PointsOK(o, s)'
    <2> SUFFICES ASSUME Sending(o)' PROVE PointsOK(o, s)'
      BY DEF PointsOK
    <2>1. /\ Sending(o) /\ (SB(o, "SB_MAP")' <=> SB(o, "SB_MAP"))
      BY <1>3 DEF Sending, Has, SB
    <2>2. /\ (Has(s, "ACB_CONN")' <=> Has(s, "ACB_CONN")) /\ ~Due(s, "minor")'
      BY DEF Calm, Due
    <2>3. \A lo, hi : Numbered(net[s], lo, hi) => Numbered(net'[s], lo, hi)
      BY <1>4 DEF SamePoints
    <2> QED
      BY <1>1, <1>3, <1>6, <1>11, <1>12, <2>1, <2>2, <2>3 DEF PointsOK
  <1> QED
    BY <1>2, <1>7, <1>8, <1>9, <1>10, <1>13, <1>14, PointsBothWays DEF o

\* The numbers and queues of an end are numbers and queues.
LEMMA NumberTypes ==
    ASSUME RtInv, NEW s \in Side
    PROVE  /\ sb[s].sb_V_A \in Nat /\ sb[s].sb_V_M \in Nat
           /\ acb[s].acb_ssn \in Nat /\ acb[s].acb_ack \in Nat /\ rts[s].ssn \in Nat
           /\ acb[s] \in assocblk /\ rts[s] \in thread /\ mode.window \in Nat \ {0}
           /\ net[s] \in Seq(S!Spdu)
           /\ \A i \in DOMAIN net[s] : net[s][i] \in S!Spdu /\ net[s][i].serial \in Nat
           /\ net[s] # << >> => Head(net[s]) \in S!Spdu /\ Head(net[s]).serial \in Nat
  <1>1. S!Inv /\ RtLocal
    BY DEF RtInv
  <1>2. sb[s] \in S!ssapblk /\ net[s] \in Seq(S!Spdu)
    BY <1>1, SessionTypes
  <1>3. acb[s] \in assocblk /\ rts[s] \in thread /\ mode \in Mode
    BY <1>1 DEF RtLocal, Local
  <1>4. \A i \in DOMAIN net[s] : net[s][i] \in S!Spdu
    BY <1>2
  <1>5. \A p \in S!Spdu : p.serial \in Nat
    BY DEF S!Spdu
  <1>6. net[s] # << >> => Head(net[s]) \in S!Spdu
    BY <1>2
  <1> QED
    BY <1>2, <1>3, <1>4, <1>5, <1>6 DEF S!ssapblk, assocblk, thread, Mode

\* What a calm step does to the session.
CalmSession(s, flags) ==
    /\ \/ \E code \in S!SpduCode \ ({"AS", "MIP", "MIA", "GTC"} \cup ReplyCode) :
            \E owned : Writes(s, code, flags, owned)
       \/ \E owned : Takes(s, flags, owned) /\ Head(net[s]).code \notin {"AS", "MIP"}
       \/ UNCHANGED session /\ flags = sb[s].sb_flags
    /\ "SB_Vact" \in flags => SB(s, "SB_Vact")
    /\ SB(s, "SB_MAP") => "SB_MAP" \in flags
    /\ "SB_Vnextact" \notin flags
    /\ "SB_ED" \in flags => SB(s, "SB_ED") \/ ~Starting(net[s])
    /\ \E a \in {sb[s].sb_V_A, sb[s].sb_V_M} : Counts(s, a, sb[s].sb_V_M)

CalmBlock(s, a) ==
    /\ a.acb_ssn = acb[s].acb_ssn /\ a.acb_ack = acb[s].acb_ack
    /\ \A f \in {"ACB_CONN", "ACB_TURN", "ACB_ACT"} :
         f \in a.acb_flags <=> f \in acb[s].acb_flags

LEMMA CalmStep ==
    ASSUME RtInv, PointInv, NEW s \in Side,
           NEW flags, CalmSession(s, flags), NEW a, CalmBlock(s, a),
           NEW r, Goes(s, a, r), r.do # "minor", r.do = "report" => ~Starting(net[s]),
           Paced(s)'
    PROVE  PointInv'
  <1> DEFINE o == Peer(s)
  <1>1. S!Inv /\ RtLocal /\ o \in Side /\ o # s
    BY Sides DEF RtInv
  <1>2. /\ acb'[s] = a /\ rts'[s] = r /\ acb'[o] = acb[o] /\ rts'[o] = rts[o]
        /\ mode' = mode
    BY <1>1, GoesEffect
  <1> DEFINE still == /\ sb'[s].sb_flags = flags /\ sb'[o] = sb[o]
                      /\ SamePoints(net[s], net'[s]) /\ SamePoints(net[o], net'[o])
                      /\ NoWord(net[s], net'[s]) /\ NoWord(net[o], net'[o])
  <1>3. still
    <2>1. ASSUME NEW code \in S!SpduCode \ ({"AS", "MIP", "MIA", "GTC"} \cup ReplyCode),
                 NEW owned, Writes(s, code, flags, owned)
          PROVE  still
      BY <1>1, <2>1, WritesPlain DEF Writes, Stores
    <2>2. ASSUME NEW owned, Takes(s, flags, owned), Head(net[s]).code \notin {"AS", "MIP"}
          PROVE  still
      BY <1>1, <2>2, TakesPlain DEF Takes, Stores
    <2>3. CASE UNCHANGED session /\ flags = sb[s].sb_flags
      BY <1>1, <2>3, SameItself DEF session, NoWord
    <2> HIDE DEF still
    <2> QED
      BY <2>1, <2>2, <2>3 DEF CalmSession
  <1>4. ReceiverOK(s)
    BY PointsKnown
  <1>5. /\ sb[s].sb_V_A \in Nat /\ sb[s].sb_V_M \in Nat
    BY NumberTypes
  <1>6. sb'[s].sb_V_M = sb[s].sb_V_M /\ sb'[s].sb_V_A <= sb[s].sb_V_M
    BY <1>4, <1>5 DEF CalmSession, Counts, ReceiverOK
  <1>7. /\ Has(s, "ACB_CONN")' <=> Has(s, "ACB_CONN")
        /\ Has(s, "ACB_TURN")' <=> Has(s, "ACB_TURN")
        /\ Sending(s)' <=> Sending(s)
        /\ Receiving(s)' <=> Receiving(s)
    BY <1>2 DEF CalmBlock, Has, Sending, Receiving
  <1>8. /\ SB(s, "SB_Vact")' => SB(s, "SB_Vact")
        /\ SB(s, "SB_MAP") => SB(s, "SB_MAP")'
        /\ ~SB(s, "SB_Vnextact")'
        /\ Starting(net[s]) => ~SB(s, "SB_ED")'
    BY <1>3, <1>4 DEF CalmSession, SB, ReceiverOK
  <1>9. Calm(s)
    BY <1>2, <1>3, <1>6, <1>7, <1>8 DEF Calm, CalmBlock, Frame
  <1> QED
    BY <1>9, CalmKeeps

\* The thread stays where it is.
LEMMA PaceStays ==
    ASSUME PointInv, NEW s \in Side, NEW a, CalmBlock(s, a), NEW r, RtLocal, Goes(s, a, r),
           r.call = rts[s].call, r.left = rts[s].left
    PROVE  Paced(s)'
  <1>1. SenderOK(s)
    BY PointsKnown
  <1>2. acb'[s] = a /\ rts'[s] = r /\ mode' = mode
    BY GoesEffect
  <1> QED
    BY <1>1, <1>2 DEF SenderOK, Paced, CalmBlock, Sending, Has

-----------------------------------------------------------------------------
(* Which steps are calm.                                                   *)

LEMMA CalmSteps ==
    ASSUME RtInv, TransferInv, PointInv, NEW s \in Side,
           \/ rt2sspturn(s) \/ RtEndRequest(s) \/ ReadOnly(s) \/ doSSdata(s)
           \/ doSSplease(s) \/ RtWaitPlease(s) \/ doSSdiscind(s) \/ doSSreport(s)
           \/ doSSfinish(s) \/ ReportSent(s) \/ Discarding(s) \/ Interrupting(s)
    PROVE  PointInv'
  <1> DEFINE F == sb[s].sb_flags
             O == sb[s].sb_owned
             A == sb[s].sb_V_A
             M == sb[s].sb_V_M
             PlainCode == S!SpduCode \ ({"AS", "MIP", "MIA", "GTC"} \cup ReplyCode)
  <1>1. /\ S!Inv /\ RtLocal /\ SideOK(s) /\ ThreadOK(s) /\ QueueOK(net[s])
        /\ ReceiverOK(s) /\ SenderOK(s)
    BY Known, PointsKnown DEF RtInv
  <1>2. acb[s] \in assocblk /\ rts[s] \in thread
    BY NumberTypes
  <1>3. {"PT", "FN", "DT", "ED", "AI", "AD"} \subseteq PlainCode
    BY DEF S!SpduCode, ReplyCode
  <1> HIDE DEF PlainCode
  <1>4. CalmBlock(s, acb[s])
    BY DEF CalmBlock
  <1>5. ASSUME NEW code \in PlainCode, NEW flags, NEW owned, Writes(s, code, flags, owned),
               Counts(s, A, M), "SB_Vact" \in flags => SB(s, "SB_Vact"),
               SB(s, "SB_MAP") => "SB_MAP" \in flags, "SB_Vnextact" \notin flags,
               "SB_ED" \in flags => SB(s, "SB_ED") \/ ~Starting(net[s])
        PROVE  CalmSession(s, flags)
    BY <1>5 DEF CalmSession, PlainCode
  <1>6. ASSUME NEW flags, NEW owned, Takes(s, flags, owned),
               Head(net[s]).code \notin {"AS", "MIP"},
               Counts(s, A, M), "SB_Vact" \in flags => SB(s, "SB_Vact"),
               SB(s, "SB_MAP") => "SB_MAP" \in flags, "SB_Vnextact" \notin flags,
               "SB_ED" \in flags => SB(s, "SB_ED")
        PROVE  CalmSession(s, flags)
    BY <1>6 DEF CalmSession
  <1>7. ~SB(s, "SB_Vnextact")
    BY <1>1 DEF ReceiverOK
  <1>8. \A do : LET r == [rts[s] EXCEPT !.do = do] IN
          r.do = do /\ r.call = rts[s].call /\ r.left = rts[s].left
    BY <1>2 DEF thread
  <1>9. Waits(s) => rts[s].do = "none"
    BY DEF Waits, At
  <1>10. ASSUME NEW flags, CalmSession(s, flags), NEW a, CalmBlock(s, a),
                NEW do, do # "minor", do = "report" => ~Starting(net[s]),
                Goes(s, a, [rts[s] EXCEPT !.do = do])
         PROVE  PointInv'
    <2> DEFINE r == [rts[s] EXCEPT !.do = do]
    <2>1. r.do = do /\ r.call = rts[s].call /\ r.left = rts[s].left
      BY <1>8
    <2>2. Goes(s, a, r)
      BY <1>10
    <2> HIDE DEF r
    <2>3. Paced(s)'
      BY <1>1, <1>10, <2>1, <2>2, PaceStays
    <2> QED
      BY <1>10, <2>1, <2>2, <2>3, CalmStep
  <1>11. ASSUME NEW flags, CalmSession(s, flags), NEW a, CalmBlock(s, a),
                rts[s].do = "none", Goes(s, a, rts[s])
         PROVE  PointInv'
    <2>1. Paced(s)'
      BY <1>1, <1>11, PaceStays
    <2> QED
      BY <1>11, <2>1, CalmStep
  <1>12. CASE rt2sspturn(s)
    <2>1. Writes(s, "PT", F, O) /\ rts[s].do = "none" /\ Counts(s, A, M)
      BY <1>1, <1>12, PleaseWrites, RequestCounts DEF rt2sspturn, MayPlease, rtsapPsig, At
    <2>2. CalmSession(s, F)
      BY <1>3, <1>5, <1>7, <2>1 DEF SB
    <2>3. Goes(s, acb[s], rts[s])
      BY <1>1, <1>12, StillGoes DEF rt2sspturn
    <2> QED
      BY <1>4, <1>11, <2>1, <2>2, <2>3
  <1>13. CASE RtEndRequest(s)
    <2> DEFINE r == [rts[s] EXCEPT !.call = "release"]
    <2>1. /\ Writes(s, "FN", F, O) /\ rts[s].do = "none" /\ Counts(s, A, M)
          /\ Goes(s, acb[s], r)
      BY <1>1, <1>13, FinishWrites, RequestCounts DEF RtEndRequest, MayEnd, rtsapPsig, At
    <2>2. CalmSession(s, F)
      BY <1>3, <1>5, <1>7, <2>1 DEF SB
    <2>3. r.do = "none" /\ r.call = "release"
      BY <1>2, <2>1 DEF thread
    <2> HIDE DEF r
    <2>4. rts'[s] = r
      BY <1>1, <2>1, GoesEffect
    <2>5. Paced(s)'
      BY <2>3, <2>4 DEF Paced
    <2> QED
      BY <1>4, <2>1, <2>2, <2>3, <2>5, CalmStep
  <1>14. CASE ReadOnly(s)
    <2> DEFINE f == F \ {"SB_GTC"}
    <2>1. Goes(s, acb[s], rts[s]) /\ rts[s].do = "none"
      BY <1>1, <1>9, <1>14, StillGoes DEF ReadOnly
    <2>2. ASSUME S!ReadSpin(s) PROVE CalmSession(s, F)
      <3>1. /\ Takes(s, F, O) /\ Counts(s, A, M) /\ Head(net[s]).code # "MIP"
            /\ Head(net[s]).code = "AS" => SB(s, "SB_Vact") \/ SB(s, "SB_ED")
        BY <1>1, <2>2, SpinTakes, SpinCounts
      <3>2. Head(net[s]).code = "AS" => Starting(net[s])
        <4>1. net[s] # << >> /\ net[s] \in Seq(S!Spdu)
          BY <1>1, <3>1, TakesPlain
        <4> QED
          BY <4>1, TailCarries DEF Starting
      <3>3. Head(net[s]).code # "AS"
        BY <1>1, <3>1, <3>2 DEF ReceiverOK
      <3> QED
        BY <1>6, <1>7, <3>1, <3>3 DEF SB
    <2>3. ASSUME S!ReadGTA(s) PROVE CalmSession(s, f)
      <3>1. Takes(s, f, O) /\ Counts(s, A, M) /\ Head(net[s]).code = "GTA"
        BY <1>1, <2>3, ReadTakes, ReadCounts
      <3> QED
        BY <1>6, <1>7, <3>1 DEF SB
    <2> HIDE DEF f
    <2> QED
      BY <1>4, <1>11, <1>14, <2>1, <2>2, <2>3 DEF ReadOnly
  <1>15. CASE doSSdata(s)
    <2> DEFINE a == [acb[s] EXCEPT !.acb_len = @ + 1]
    <2>1. /\ Takes(s, F, O) /\ Counts(s, A, M) /\ Head(net[s]).code = "DT"
          /\ rts[s].do = "none"
      BY <1>1, <1>9, <1>15, ReadTakes, ReadCounts DEF doSSdata, Reads
    <2>2. CalmSession(s, F)
      BY <1>6, <1>7, <2>1 DEF SB
    <2>3. CalmBlock(s, a)
      BY <1>2 DEF CalmBlock, assocblk
    <2>4. \/ Goes(s, a, rts[s])
          \/ Receiving(s) /\ Goes(s, acb[s], [rts[s] EXCEPT !.do = "report"])
          \/ Goes(s, acb[s], [rts[s] EXCEPT !.do = "lose"])
      BY <1>15 DEF doSSdata, Owes
    <2>5. Receiving(s) => ~Starting(net[s])
      BY <1>1 DEF ReceiverOK
    <2> HIDE DEF a
    <2> QED
      BY <1>4, <1>10, <1>11, <2>1, <2>2, <2>3, <2>4, <2>5
  <1>16. CASE doSSplease(s)
    <2> DEFINE a == With(acb[s], {"ACB_PLEASE"})
    <2>1. /\ Takes(s, F, O) /\ Counts(s, A, M) /\ Head(net[s]).code = "PT"
          /\ rts[s].do = "none"
      BY <1>1, <1>9, <1>16, ReadTakes, ReadCounts DEF doSSplease, Reads
    <2>2. CalmSession(s, F)
      BY <1>6, <1>7, <2>1 DEF SB
    <2>3. CalmBlock(s, a)
      BY <1>2 DEF CalmBlock, assocblk, With
    <2>4. \/ UNCHANGED rtsvars
          \/ Goes(s, a, rts[s])
          \/ \E do \in {"lose", "interrupt"} :
               Goes(s, acb[s], [rts[s] EXCEPT !.do = do])
      BY <1>16 DEF doSSplease, Owes
    <2>5. UNCHANGED rtsvars => Goes(s, acb[s], rts[s])
      BY <1>1, StillGoes
    <2> HIDE DEF a
    <2> QED
      BY <1>4, <1>10, <1>11, <2>1, <2>2, <2>3, <2>4, <2>5
  <1>17. CASE RtWaitPlease(s)
    <2> DEFINE a == Without(acb[s], {"ACB_PLEASE"})
    <2>1. Goes(s, a, rts[s]) /\ UNCHANGED session /\ rts[s].do = "none"
      BY <1>17 DEF RtWaitPlease, rtsapPsig, At
    <2>2. CalmBlock(s, a)
      BY <1>2 DEF CalmBlock, assocblk, Without
    <2>3. CalmSession(s, F)
      BY <1>7, <2>1 DEF CalmSession, session, Counts, SB
    <2> HIDE DEF a
    <2> QED
      BY <1>11, <2>1, <2>2, <2>3
  <1>18. CASE doSSdiscind(s)
    <2> DEFINE f == (F \ {"SB_RS", "SB_RA"}) \cup {"SB_AIA"}
    <2>1. /\ Takes(s, f, O) /\ Counts(s, A, M) /\ Head(net[s]).code \in {"AI", "AD"}
      BY <1>1, <1>18, ReadTakes, ReadCounts DEF doSSdiscind, Reads
    <2>2. CalmSession(s, f)
      BY <1>6, <1>7, <2>1 DEF SB
    <2>3. \E do \in {"lose", "intr_resp", "disc_resp"} :
            Goes(s, acb[s], [rts[s] EXCEPT !.do = do])
      BY <1>18 DEF doSSdiscind, Owes
    <2> HIDE DEF f
    <2> QED
      BY <1>4, <1>10, <2>2, <2>3
  <1>19. CASE doSSreport(s)
    <2> DEFINE f == F \cup {"SB_EDACK"}
    <2>1. /\ Takes(s, F, O) \/ Takes(s, f, O)
          /\ Counts(s, A, M) /\ Head(net[s]).code = "ED"
      BY <1>1, <1>19, ReadTakes, ReadCounts DEF doSSreport, Reads
    <2>2. CalmSession(s, F) \/ CalmSession(s, f)
      BY <1>6, <1>7, <2>1 DEF SB
    <2>3. \E do \in {"lose", "discard"} :
            Goes(s, acb[s], [rts[s] EXCEPT !.do = do])
      BY <1>19 DEF doSSreport, Owes
    <2> HIDE DEF f
    <2> QED
      BY <1>4, <1>10, <2>2, <2>3
  <1>20. CASE doSSfinish(s)
    <2> DEFINE a == With(acb[s], {"ACB_FINN"})
               f == F \cup {"SB_FINN"}
    <2>1. /\ Takes(s, f, O) /\ Counts(s, A, M) /\ Head(net[s]).code = "FN"
          /\ rts[s].do = "none"
      BY <1>1, <1>9, <1>20, ReadTakes, ReadCounts DEF doSSfinish, Reads
    <2>2. CalmSession(s, f)
      BY <1>6, <1>7, <2>1 DEF SB
    <2>3. CalmBlock(s, a)
      BY <1>2 DEF CalmBlock, assocblk, With
    <2>4. Goes(s, a, rts[s]) \/ Goes(s, acb[s], [rts[s] EXCEPT !.do = "lose"])
      BY <1>20 DEF doSSfinish, Owes
    <2> HIDE DEF a, f
    <2> QED
      BY <1>4, <1>10, <1>11, <2>1, <2>2, <2>3, <2>4
  <1>21. CASE ReportSent(s)
    <2> DEFINE a == [acb[s] EXCEPT !.acb_len = 0]
               f == F \cup {"SB_ED"}
    <2>1. Writes(s, "ED", f, O) /\ Counts(s, A, M) /\ S!InActivity(sb[s])
      BY <1>1, <1>21, ReportWrites, RequestCounts DEF ReportSent, S!SUReportRequest
    <2>2. SB(s, "SB_Vact")
      BY <1>1, <2>1, Active DEF Writes
    <2>3. ~Starting(net[s])
      BY <1>1, <2>2 DEF ReceiverOK
    <2>4. CalmSession(s, f)
      BY <1>3, <1>5, <1>7, <2>1, <2>3 DEF SB
    <2>5. CalmBlock(s, a)
      BY <1>2 DEF CalmBlock, assocblk
    <2>6. Goes(s, a, [rts[s] EXCEPT !.do = "none"])
      BY <1>21 DEF ReportSent, Done
    <2> HIDE DEF a, f
    <2> QED
      BY <1>10, <2>4, <2>5, <2>6
  <1>22. CASE Discarding(s) \/ Interrupting(s)
    <2> DEFINE f == (F \cup {"SB_AI"}) \ {"SB_EDACK"}
    <2>1. /\ S!SActDiscRequest(s) \/ S!SActIntrRequest(s)
          /\ Goes(s, acb[s], [rts[s] EXCEPT !.do = "none"])
      BY <1>22 DEF Discarding, Interrupting, Done
    <2>2. PICK code \in {"AI", "AD"} : Writes(s, code, f, O)
      BY <1>1, <2>1, DropWrites
    <2>3. Counts(s, A, M)
      BY <1>1, <2>1, RequestCounts
    <2>4. CalmSession(s, f)
      BY <1>3, <1>5, <1>7, <2>2, <2>3 DEF SB
    <2> HIDE DEF f
    <2> QED
      BY <1>4, <1>10, <2>1, <2>4
  <1> QED
    BY <1>12, <1>13, <1>14, <1>15, <1>16, <1>17, <1>18, <1>19, <1>20, <1>21, <1>22

\* The steps of rt2sstrans that send neither a point nor the end: what is
\* left of the window is left to the next chunk.
LEMMA CalmSends ==
    ASSUME RtInv, TransferInv, PointInv, NEW s \in Side,
           TransFirst(s) \/ TransNext(s) \/ TransTimer(s) \/ TransBad(s)
    PROVE  PointInv'
  <1> DEFINE F == sb[s].sb_flags
             O == sb[s].sb_owned
             A == sb[s].sb_V_A
             M == sb[s].sb_V_M
  <1>1. rts[s].call \in InTransferCall /\ rts[s].do = "none"
    BY DEF TransFirst, TransNext, TransTimer, TransBad, At, InTransferCall
  <1>2. /\ rts[s] \in thread /\ acb[s] \in assocblk /\ rts[s].left \in Nat
        /\ S!Inv /\ RtLocal /\ SideOK(s) /\ ThreadOK(s)
    BY <1>1, TransFacts
  <1>3. ReceiverOK(s) /\ SenderOK(s)
    BY PointsKnown
  <1>4. {"DT", "AI", "AD"} \subseteq
          S!SpduCode \ ({"AS", "MIP", "MIA", "GTC"} \cup ReplyCode)
    BY DEF S!SpduCode, ReplyCode
  <1>5. ~SB(s, "SB_Vnextact")
    BY <1>3 DEF ReceiverOK
  <1>6. CASE TransFirst(s) \/ TransNext(s)
    <2> DEFINE n == rts[s].left - 1
    <2>1. SendChunk(s)
      BY <1>6 DEF TransFirst, TransNext
    <2>12. S!SDataRequest(s)
      BY <2>1 DEF SendChunk
    <2>2. Writes(s, "DT", F, O) /\ Counts(s, A, M)
      BY <1>2, <2>12, DataWrites, RequestCounts
    <2>3. CalmSession(s, F)
      BY <1>4, <1>5, <2>2 DEF CalmSession, SB
    <2>4. PICK call \in AfterData(n) :
            Goes(s, acb[s], [rts[s] EXCEPT !.call = call, !.left = n])
      BY <2>1 DEF SendChunk
    <2> DEFINE r == [rts[s] EXCEPT !.call = call, !.left = n]
    <2>5. r.do = "none" /\ r.call = call
      BY <1>1, <1>2 DEF thread
    <2>6. Goes(s, acb[s], r)
      BY <2>4
    <2>7. acb'[s] = acb[s] /\ rts'[s] = r /\ mode' = mode
      BY <1>2, <2>6, GoesEffect
    <2> HIDE DEF r
    <2>8. mode.ckpoint /\ Sending(s) => acb[s].acb_ssn < acb[s].acb_ack + mode.window
      <3>1. CASE TransFirst(s)
        BY <1>3, <3>1 DEF SenderOK, TransFirst, At
      <3>2. CASE TransNext(s)
        <4>1. /\ acb[s].acb_ssn \in Nat /\ acb[s].acb_ack \in Nat
              /\ mode.window \in Nat
          BY NumberTypes
        <4> QED
          BY <3>2, <4>1 DEF TransNext, WindowFull
      <3> QED
        BY <1>6, <3>1, <3>2
    <2>9. ~mode.ckpoint => call = "end"
      <3>1. ~mode.ckpoint => rts[s].call = "first" /\ rts[s].left = 1
        BY <1>3, <1>6 DEF SenderOK, TransFirst, TransNext, At
      <3>2. ~mode.ckpoint => n = 0
        BY <3>1
      <3> QED
        BY <3>2 DEF AfterData
    <2>10. Paced(s)'
      BY <2>5, <2>7, <2>8, <2>9 DEF Paced, Sending, Has
    <2>11. CalmBlock(s, acb[s])
      BY DEF CalmBlock
    <2> QED
      BY <2>3, <2>5, <2>6, <2>10, <2>11, CalmStep
  <1>7. CASE TransTimer(s) \/ TransBad(s)
    <2> DEFINE f == (F \cup {"SB_AI"}) \ {"SB_EDACK"}
    <2>1. S!SActDiscRequest(s)
      BY <1>7 DEF TransTimer, TransBad
    <2>2. PICK code \in {"AI", "AD"} : Writes(s, code, f, O)
      BY <1>2, <2>1, DropWrites
    <2>3. Counts(s, A, M)
      BY <1>2, <2>1, RequestCounts
    <2>4. CalmSession(s, f)
      BY <1>4, <1>5, <2>2, <2>3 DEF CalmSession, SB
    <2> HIDE DEF f
    <2>5. CASE TransTimer(s)
      <3> DEFINE a == With(acb[s], {"ACB_TIMER"})
                 r == [rts[s] EXCEPT !.call = "ack"]
      <3>1. r.do = "none" /\ r.call = "ack"
        BY <1>1, <1>2 DEF thread
      <3>2. Goes(s, a, r)
        BY <2>5 DEF TransTimer
      <3>3. CalmBlock(s, a)
        BY <1>2 DEF CalmBlock, assocblk, With
      <3> HIDE DEF a, r
      <3>4. rts'[s] = r
        BY <1>2, <3>2, GoesEffect
      <3>5. Paced(s)'
        BY <3>1, <3>4 DEF Paced
      <3> QED
        BY <2>4, <3>1, <3>2, <3>3, <3>5, CalmStep
    <2>6. CASE TransBad(s)
      <3> DEFINE r == [rts[s] EXCEPT !.call = "end"]
      <3>1. r.do = "none" /\ r.call = "end"
        BY <1>1, <1>2 DEF thread
      <3>2. Goes(s, acb[s], r) /\ rts[s].call = "bad"
        BY <2>6 DEF TransBad, At
      <3>3. CalmBlock(s, acb[s])
        BY DEF CalmBlock
      <3> HIDE DEF r
      <3>4. acb'[s] = acb[s] /\ rts'[s] = r /\ mode' = mode
        BY <1>2, <3>2, GoesEffect
      <3>5. Paced(s)'
        BY <1>3, <3>1, <3>2, <3>4 DEF Paced, SenderOK, Sending, Has
      <3> QED
        BY <2>4, <3>1, <3>2, <3>3, <3>5, CalmStep
    <2> QED
      BY <1>7, <2>5, <2>6
  <1> QED
    BY <1>6, <1>7

\* The turn is given away, between transfers: no activity is open.
LEMMA CalmGive ==
    ASSUME RtInv, TransferInv, PointInv, NEW s \in Side, rt2ssgturn(s)
    PROVE  PointInv'
  <1> DEFINE o == Peer(s)
             a == Without(acb[s], {"ACB_TURN", "ACB_PLEASE"})
             f == sb[s].sb_flags \cup {"SB_GTC"}
  <1>1. /\ S!Inv /\ RtLocal /\ ReceiverOK(s) /\ SenderOK(s)
        /\ acb[s] \in assocblk /\ rts[s] \in thread
    BY PointsKnown, NumberTypes DEF RtInv
  <1>2. /\ rts[s].call = "idle" /\ rts[s].do = "none" /\ ~Has(s, "ACB_ACT")
        /\ S!SGControlRequest(s) /\ Goes(s, a, rts[s])
    BY DEF rt2ssgturn, MayGive, rtsapPsig, At
  <1>3. Writes(s, "GTC", f, {}) /\ Counts(s, sb[s].sb_V_A, sb[s].sb_V_M)
    BY <1>1, <1>2, ControlWrites, RequestCounts
  <1>4. ~SB(s, "SB_Vact")
    BY <1>2 DEF S!SGControlRequest, S!SDoActivityAux, SB
  <1>5. /\ a.acb_flags = acb[s].acb_flags \ {"ACB_TURN", "ACB_PLEASE"}
        /\ a.acb_ssn = acb[s].acb_ssn /\ a.acb_ack = acb[s].acb_ack
    BY <1>1 DEF Without, assocblk
  <1>6. /\ acb'[s] = a /\ rts'[s] = rts[s] /\ acb'[o] = acb[o] /\ rts'[o] = rts[o]
        /\ mode' = mode
    BY <1>1, <1>2, GoesEffect
  <1> HIDE DEF a, f
  <1>7. /\ sb'[s].sb_flags = f /\ sb'[o] = sb[o]
        /\ SamePoints(net[s], net'[s]) /\ SamePoints(net[o], net'[o])
        /\ NoWord(net[s], net'[s])
    BY <1>1, <1>3, WritesPlain DEF Writes, Stores
  <1>8. \A g : g # "SB_GTC" => (SB(s, g)' <=> SB(s, g))
    BY <1>7 DEF SB, f
  <1>9. /\ Has(s, "ACB_CONN")' <=> Has(s, "ACB_CONN")
        /\ ~Has(s, "ACB_TURN")' /\ ~Sending(s)' /\ ~Sending(s) /\ ~Receiving(s)'
    BY <1>2, <1>5, <1>6 DEF Has, Sending, Receiving
  <1>10. Paced(s)'
    BY <1>2, <1>6 DEF Paced
  <1>11. Calm(s)
    BY <1>1, <1>2, <1>3, <1>4, <1>5, <1>6, <1>7, <1>8, <1>9, <1>10
    DEF Calm, Frame, Counts, ReceiverOK
  <1> QED
    BY <1>11, CalmKeeps

\* The turn is taken: the end that gave it had no activity open either.
LEMMA CalmControl ==
    ASSUME RtInv, TransferInv, PointInv, NEW s \in Side, doSScontrol(s)
    PROVE  PointInv'
  <1> DEFINE o == Peer(s)
             a == With(acb[s], {"ACB_TURN"})
  <1>1. /\ S!Inv /\ RtLocal /\ SideOK(s) /\ QueueOK(net[s]) /\ QueueOK(net[o])
        /\ ReceiverOK(s) /\ SenderOK(s) /\ ActivityOK(s, o) /\ PairOK(o, s)
        /\ acb[s] \in assocblk /\ rts[s] \in thread
    BY Known, PointsKnown, NumberTypes DEF RtInv
  <1>2. /\ Takes(s, sb[s].sb_flags, Tokens) /\ Head(net[s]).code = "GTC" /\ Waits(s)
        /\ Counts(s, sb[s].sb_V_A, sb[s].sb_V_M)
    BY <1>1, ReadTakes, ReadCounts DEF doSScontrol, Reads
  <1>3. Turning(net[s])
    BY <1>1, <1>2, TakesKeeps
  <1>4. mode.twa /\ ~Has(s, "ACB_ACT")
    <2>1. ~Has(s, "ACB_TURN") /\ mode.twa /\ ~Receiving(s)
      BY <1>1, <1>3, Sides DEF PairOK, TurnOK, Held
    <2> QED
      BY <2>1 DEF Receiving
  <1>5. ~SB(o, "SB_Vact")
    BY <1>1, <1>3 DEF ActivityOK
  <1>6. Goes(s, a, rts[s]) /\ rts[s].do = "none"
    BY <1>2, <1>4 DEF doSScontrol, Waits, At
  <1>7. /\ a.acb_flags = acb[s].acb_flags \cup {"ACB_TURN"}
        /\ a.acb_ssn = acb[s].acb_ssn /\ a.acb_ack = acb[s].acb_ack
    BY <1>1 DEF With, assocblk
  <1>8. /\ acb'[s] = a /\ rts'[s] = rts[s] /\ acb'[o] = acb[o] /\ rts'[o] = rts[o]
        /\ mode' = mode
    BY <1>1, <1>6, GoesEffect
  <1> HIDE DEF a
  <1>9. /\ sb'[s].sb_flags = sb[s].sb_flags /\ sb'[o] = sb[o]
        /\ SamePoints(net[s], net'[s]) /\ SamePoints(net[o], net'[o])
        /\ NoWord(net[s], net'[s]) /\ NoWord(net[o], net'[o])
    BY <1>1, <1>2, TakesPlain DEF Takes, Stores
  <1>10. \A g : SB(s, g)' <=> SB(s, g)
    BY <1>9 DEF SB
  <1>11. /\ Has(s, "ACB_CONN")' <=> Has(s, "ACB_CONN")
         /\ ~Sending(s)' /\ ~Sending(s) /\ ~Receiving(s)'
    BY <1>4, <1>7, <1>8 DEF Has, Sending, Receiving
  <1>12. Paced(s)'
    BY <1>1, <1>8, <1>11 DEF Paced, SenderOK
  <1>13. Calm(s)
    BY <1>1, <1>2, <1>5, <1>6, <1>7, <1>8, <1>9, <1>10, <1>11, <1>12
    DEF Calm, Frame, Counts, ReceiverOK
  <1> QED
    BY <1>13, CalmKeeps

\* The receiver answers, and its activity is over.
LEMMA CalmAnswers ==
    ASSUME RtInv, TransferInv, PointInv, NEW s \in Side,
           ActivityDropped(s) \/ Delivered(s)
    PROVE  PointInv'
  <1> DEFINE o == Peer(s)
             F == sb[s].sb_flags
             A == sb[s].sb_V_A
             M == sb[s].sb_V_M
             a == [Without(acb[s], {"ACB_ACT"}) EXCEPT !.acb_len = 0]
             r == [rts[s] EXCEPT !.do = "none"]
  <1>1. /\ S!Inv /\ RtLocal /\ SideOK(s) /\ ThreadOK(s) /\ ReceiverOK(s) /\ SenderOK(s)
        /\ acb[s] \in assocblk /\ rts[s] \in thread /\ o \in Side /\ o # s
        /\ A \in Nat /\ M \in Nat
    BY Known, PointsKnown, NumberTypes, Sides DEF RtInv
  <1>2. /\ acb'[s] = a /\ rts'[s] = r /\ acb'[o] = acb[o] /\ rts'[o] = rts[o]
        /\ mode' = mode
    <2>1. CASE ActivityDropped(s)
      BY <1>1, <2>1, GoesEffect DEF ActivityDropped, Done
    <2>2. CASE Delivered(s)
      <3>1. DOMAIN acb = Side /\ DOMAIN rts = Side
        BY <1>1 DEF RtLocal
      <3> QED
        BY <1>1, <2>2, <3>1 DEF Delivered
    <2> QED
      BY <2>1, <2>2
  <1>3. ~Has(s, "ACB_TURN")
    BY <1>1 DEF ActivityDropped, Delivered, Due, ThreadOK, Answer
  <1>4. /\ a.acb_flags = acb[s].acb_flags \ {"ACB_ACT"}
        /\ a.acb_ssn = acb[s].acb_ssn /\ a.acb_ack = acb[s].acb_ack
    BY <1>1 DEF Without, assocblk
  <1>5. r.do = "none" /\ r.call = rts[s].call /\ r.left = rts[s].left
    BY <1>1 DEF thread
  <1> HIDE DEF a, r
  <1>6. \E flags, owned, code :
          /\ Writes(s, code, flags, owned) /\ code \in ReplyCode
          /\ flags \subseteq F /\ "SB_Vact" \notin flags
          /\ sb'[s].sb_V_M = M /\ sb'[s].sb_V_A <= M
    <2>1. CASE ActivityDropped(s)
      <3>1. S!SActDiscResponse(s) \/ S!SActIntrResponse(s)
        BY <2>1 DEF ActivityDropped
      <3>2. PICK code \in {"AIA", "ADA"} : Writes(s, code, F \ {"SB_AIA", "SB_Vact"}, {})
        BY <1>1, <3>1, AgreeWrites
      <3>3. sb'[s].sb_V_M = M /\ sb'[s].sb_V_A <= M
        BY <1>1, <3>1, RequestCounts DEF Counts, ReceiverOK
      <3> QED
        BY <3>2, <3>3 DEF ReplyCode
    <2>2. CASE Delivered(s)
      <3> DEFINE f == S!NextAct(sb[s]) \ {"SB_MAA", "SB_AE"}
      <3>1. Writes(s, "MAA", f, sb[s].sb_owned) /\ Counts(s, M, M)
        BY <1>1, <2>2, ConfirmWrites, RequestCounts DEF Delivered
      <3>2. sb[s].sb_requirements = RTS_MYREQUIRE
        BY <1>1, <3>1 DEF Writes, SideOK
      <3>3. f \subseteq F /\ "SB_Vact" \notin f
        BY <1>1, <3>2 DEF S!NextAct, RTS_MYREQUIRE, ReceiverOK, SB
      <3> HIDE DEF f
      <3> QED
        BY <1>1, <3>1, <3>3 DEF Counts, ReplyCode
    <2> QED
      BY <2>1, <2>2
  <1>7. PICK flags, owned, code :
          /\ Writes(s, code, flags, owned) /\ code \in ReplyCode
          /\ flags \subseteq F /\ "SB_Vact" \notin flags
          /\ sb'[s].sb_V_M = M /\ sb'[s].sb_V_A <= M
    BY <1>6
  <1>8. /\ sb'[s].sb_flags = flags /\ sb'[o] = sb[o]
        /\ SamePoints(net[s], net'[s]) /\ SamePoints(net[o], net'[o])
        /\ NoWord(net[s], net'[s])
    BY <1>1, <1>7, WritesPlain DEF Writes, Stores, ReplyCode
  <1>9. (\A g : SB(s, g)' => SB(s, g)) /\ ~SB(s, "SB_Vact")'
    BY <1>7, <1>8 DEF SB
  <1>10. /\ Has(s, "ACB_CONN")' <=> Has(s, "ACB_CONN")
         /\ ~Has(s, "ACB_TURN")' /\ ~Sending(s)' /\ ~Sending(s) /\ ~Receiving(s)'
    BY <1>2, <1>3, <1>4 DEF Has, Sending, Receiving
  <1>11. Paced(s)'
    BY <1>1, <1>2, <1>5, <1>10 DEF Paced, SenderOK
  <1>12. Calm(s)
    BY <1>1, <1>2, <1>4, <1>5, <1>7, <1>8, <1>9, <1>10, <1>11 DEF Calm, Frame, ReceiverOK
  <1> QED
    BY <1>12, CalmKeeps

-----------------------------------------------------------------------------
(* The steps that start, number, read and confirm points.                  *)

\* An end without the turn awaits no answer and has none under way to it.
LEMMA NoAnswerDue ==
    ASSUME RtInv, TransferInv, NEW s \in Side, ~Has(s, "ACB_TURN")
    PROVE  /\ ~SB(s, "SB_MAP") /\ ~SB(s, "SB_AI") /\ ~Replying(net[s])
           /\ rts[s].call \notin InTransferCall
  <1>1. /\ S!Inv /\ RtLocal /\ SideOK(s) /\ ThreadOK(s) /\ PairOK(s, Peer(s))
    BY Known DEF RtInv
  <1>2. rts[s].call \notin InTransferCall
    BY <1>1 DEF RtLocal, Local, Has
  <1>3. ~SB(s, "SB_MAP") /\ ~SB(s, "SB_AI")
    BY <1>1, <1>2 DEF ThreadOK, InTransferCall
  <1>4. CASE Has(s, "ACB_CONN")
    BY <1>1, <1>2, <1>3, <1>4 DEF PairOK, PhaseOK, Replying
  <1>5. CASE ~Has(s, "ACB_CONN")
    <2>1. net[s] = << >>
      BY <1>1, <1>5, SessionTypes DEF SideOK
    <2> QED
      BY <1>2, <1>3, <2>1, EmptyQueue DEF Replying, Confirming, Agreeing
  <1> QED
    BY <1>4, <1>5

\* Nothing is under way to an end that is gone.
LEMMA GoneQueue ==
    ASSUME RtInv, TransferInv, NEW s \in Side, ~Has(s, "ACB_CONN")
    PROVE  net[s] = << >> /\ \A codes : ~Carries(net[s], codes)
  <1>1. S!Inv /\ SideOK(s)
    BY Known DEF RtInv
  <1>2. net[s] = << >>
    BY <1>1, SessionTypes DEF SideOK
  <1> QED
    BY <1>2, EmptyQueue

\* A transfer begins: its points are numbered from 1.
LEMMA StartPoints ==
    ASSUME RtInv, TransferInv, PointInv, NEW s \in Side, TransStart(s)
    PROVE  PointInv'
  <1> DEFINE o == Peer(s)
             c == IF mode.ckpoint
                  THEN [acb[s] EXCEPT !.acb_ssn = 0, !.acb_ack = 0] ELSE acb[s]
             a == With(c, {"ACB_ACT"})
             F == sb[s].sb_flags
  <1>1. /\ S!Inv /\ RtLocal /\ SideOK(s) /\ SideOK(o) /\ PairOK(s, o) /\ o \in Side /\ o # s
        /\ ReceiverOK(s) /\ SenderOK(s) /\ ReceiverOK(o) /\ SenderOK(o)
        /\ ActivityOK(s, o) /\ ActivityOK(o, s) /\ Peer(o) = s
        /\ acb[s] \in assocblk /\ rts[s] \in thread /\ mode.window \in Nat \ {0}
        /\ acb[s].acb_ssn \in Nat /\ acb[s].acb_ack \in Nat
        /\ net[s] \in Seq(S!Spdu) /\ net[o] \in Seq(S!Spdu)
    BY Known, PointsKnown, NumberTypes, Sides DEF RtInv
  <1>2. /\ rts[s].call = "idle" /\ rts[s].do = "none" /\ Has(s, "ACB_CONN")
        /\ Has(s, "ACB_TURN") /\ ~Has(s, "ACB_ACT")
    BY DEF TransStart, MayTransfer, rtsapPsig, At
  <1>3. /\ Open(s) /\ Writes(s, "AS", F \cup {"SB_Vact"}, sb[s].sb_owned)
        /\ Counts(s, 1, 1)
    BY <1>1, StartWrites, RequestCounts DEF TransStart
  <1>4. PICK n \in Sizes, secs \in TimeLimits :
          \E call \in AfterStart(n) :
            Goes(s, a, [rts[s] EXCEPT !.call = call, !.left = n, !.whole = <<n>>,
                                      !.secs = secs])
    BY DEF TransStart
  <1>5. PICK call \in AfterStart(n) :
          Goes(s, a, [rts[s] EXCEPT !.call = call, !.left = n, !.whole = <<n>>,
                                    !.secs = secs])
    BY <1>4
  <1>6. n \in Nat /\ (~mode.ckpoint => n <= 1)
    BY SizesType DEF Sizes
  <1>7. call \in {"end", "first", "bad"} /\ (call = "first" => n # 0)
    BY <1>6 DEF AfterStart, Fails
  <1>8. /\ a.acb_flags = acb[s].acb_flags \cup {"ACB_ACT"}
        /\ mode.ckpoint => a.acb_ssn = 0 /\ a.acb_ack = 0
        /\ ~mode.ckpoint => a.acb_ssn = acb[s].acb_ssn /\ a.acb_ack = acb[s].acb_ack
    BY <1>1 DEF With, assocblk
  <1>9. /\ acb'[s] = a /\ acb'[o] = acb[o] /\ rts'[o] = rts[o] /\ mode' = mode
        /\ rts'[s] = [rts[s] EXCEPT !.call = call, !.left = n, !.whole = <<n>>,
                                    !.secs = secs]
    BY <1>1, <1>5, GoesEffect
  <1>10. rts'[s].call = call /\ rts'[s].left = n /\ rts'[s].do = "none"
    BY <1>1, <1>2, <1>9 DEF thread
  <1> HIDE DEF a
  <1>11. /\ ~Ending(net[o]) /\ ~Turning(net[o]) /\ ~Speaking(net[s]) /\ ~Body(net[o])
         /\ ~Has(o, "ACB_TURN") /\ Held(o)
    BY <1>2, <1>3, MaySpeak DEF InTransferCall
  <1>12. /\ net'[s] = net[s] /\ Grows(o, "AS")
         /\ sb'[s].sb_flags = F \cup {"SB_Vact"} /\ sb'[o] = sb[o]
    BY <1>3 DEF Writes, Stores
  <1>13. ~Replying(net[o])
    BY <1>1, <1>11, NoAnswerDue
  <1> HIDE DEF o
  <1>14. /\ Has(s, "ACB_CONN")' /\ Sending(s)' /\ ~Receiving(s)' /\ ~Sending(s)
         /\ ~Sending(o)' /\ ~Has(o, "ACB_TURN")'
         /\ (Has(o, "ACB_CONN")' <=> Has(o, "ACB_CONN")) /\ ~Receiving(o)' /\ ~Receiving(o)
         /\ ~Due(s, "minor")' /\ (Due(o, "minor")' <=> Due(o, "minor"))
    BY <1>2, <1>8, <1>9, <1>10, <1>11 DEF Has, Sending, Receiving, Held, Due
  <1>15. /\ ~Due(o, "minor") /\ ~SB(o, "SB_Vact") /\ ~SB(o, "SB_ED")
         /\ rts[o].do # "report"
    <2>1. rts[s].call \notin InTransferCall
      BY <1>2 DEF InTransferCall
    <2> QED
      BY <1>1, <1>2, <1>14, <2>1 DEF ReceiverOK, ActivityOK, PairOK, PhaseOK
  <1>16. /\ ~Carries(net[s], {"AS", "MIP"}) /\ ~Starting(net[s]) /\ ~Carries(net[s], {"MIP"})
    BY <1>11 DEF Speaking, Body, Carries, Starting
  \* the queue of the peer, which has the start or nothing
  <1>17. /\ OrderOK(net'[o]) /\ ~Carries(net'[o], {"MIP"})
         /\ Carries(net'[o], {"MIA"}) => Carries(net[o], {"MIA"})
         /\ ~Turning(net'[o]) /\ ~Replying(net'[o])
         /\ Has(o, "ACB_CONN") => Starting(net'[o])
    <2>1. CASE Has(o, "ACB_CONN")
      <3>1. PICK p \in S!Spdu : p.code = "AS" /\ net'[o] = Append(net[o], p)
        BY <1>1, <1>12, <2>1 DEF Grows, SideOK
      <3>2. ~Carries(net[o], {"AS", "DT", "MIP", "AE"}) /\ OrderOK(net[o])
        BY <1>1, <1>11 DEF Body, Ending, Carries, ReceiverOK
      <3>3. OrderOK(net'[o]) /\ Starting(net'[o]) /\ ~Carries(net'[o], {"MIP"})
        BY <1>1, <3>1, <3>2, AppendStart
      <3>4. \A codes : Carries(net'[o], codes) <=> Carries(net[o], codes) \/ "AS" \in codes
        BY <1>1, <3>1, AppendCarries
      <3> QED
        BY <1>11, <1>13, <3>3, <3>4 DEF Turning, Replying, Confirming, Agreeing
    <2>2. CASE ~Has(o, "ACB_CONN")
      <3>1. net'[o] = net[o]
        BY <1>1, <1>12, <2>2 DEF Grows, SideOK
      <3>2. ~Carries(net[o], {"MIP"})
        BY <1>11 DEF Body, Carries
      <3> QED
        BY <1>1, <1>11, <1>13, <2>2, <3>1, <3>2 DEF ReceiverOK
    <2> QED
      BY <2>1, <2>2
  <1>18. ReceiverOK(s)'
    <2>1. sb'[s].sb_V_A = 1 /\ sb'[s].sb_V_M = 1 /\ ~SB(s, "SB_Vnextact")'
      BY <1>1, <1>3, <1>12 DEF Counts, ReceiverOK, SB
    <2>2. NextPoint(s)' = 1 /\ ~Starting(net'[s])
      BY <1>12, <1>16, <2>1 DEF NextPoint
    <2>3. Numbered(net'[s], 1, 1)
      BY <1>12, <1>16, NoPoints
    <2> QED
      BY <1>1, <1>12, <1>14, <2>1, <2>2, <2>3 DEF ReceiverOK
  <1>19. SenderOK(s)'
    <2>1. acb'[s].acb_ack <= acb'[s].acb_ssn
      BY <1>1, <1>8, <1>9 DEF SenderOK
    <2>2. mode.ckpoint => /\ acb'[s].acb_ssn + 1 = sb'[s].sb_V_M
                          /\ acb'[s].acb_ssn < acb'[s].acb_ack + mode.window
      BY <1>1, <1>3, <1>8, <1>9 DEF Counts
    <2>3. ~mode.ckpoint =>
            /\ acb'[s].acb_ack = 0 /\ ~Carries(net'[s], {"MIP", "MIA"})
            /\ rts'[s].call \notin {"next", "window"}
            /\ rts'[s].call = "first" => rts'[s].left = 1
      BY <1>1, <1>6, <1>7, <1>8, <1>9, <1>10, <1>12 DEF SenderOK
    <2>4. mode.ckpoint => acb'[s].acb_ssn <= acb'[s].acb_ack + mode.window
      BY <1>1, <1>8, <1>9
    <2> QED
      BY <1>9, <1>14, <2>1, <2>2, <2>3, <2>4 DEF SenderOK
  <1>20. NextPoint(o)' = (IF Starting(net'[o]) THEN 1 ELSE sb[o].sb_V_M)
    BY <1>12 DEF NextPoint
  <1>21. sb[o].sb_V_M \in Nat /\ NextPoint(o)' \in Nat
    BY <1>1, <1>20, NumberTypes
  <1>22. Numbered(net'[o], NextPoint(o)', NextPoint(o)')
    BY <1>17, <1>21, NoPoints
  <1>23. ReceiverOK(o)'
    BY <1>1, <1>9, <1>12, <1>14, <1>15, <1>17, <1>21, <1>22 DEF ReceiverOK, SB
  <1>24. SenderOK(o)'
    <2>1. Carries(net'[o], {"MIP", "MIA"}) => Carries(net[o], {"MIP", "MIA"})
      BY <1>17 DEF Carries
    <2> QED
      BY <1>1, <1>9, <1>14, <2>1 DEF SenderOK
  <1>25. ActivityOK(s, o)'
    BY <1>1, <1>12, <1>14 DEF ActivityOK, SB
  <1>26. ActivityOK(o, s)'
    <2>1. Has(o, "ACB_CONN") => ~Carries(net[o], {"MIA"})
      BY <1>1, <1>11 DEF ActivityOK, Sending
    <2> QED
      BY <1>12, <1>14, <1>16, <1>17, <2>1 DEF ActivityOK
  <1>27. PointsOK(s, o)'
    <2>1. acb'[s].acb_ack = 0 /\ sb'[s].sb_V_M = 1
      BY <1>1, <1>3, <1>8, <1>9 DEF SenderOK, Counts
    <2>2. Has(o, "ACB_CONN") => NextPoint(o)' = 1
      BY <1>17, <1>20
    <2>3. \A i \in DOMAIN net'[o] : net'[o][i].code # "MIP"
      BY <1>17 DEF Carries
    <2>4. \A i \in DOMAIN net'[s] : net'[s][i].code # "MIA"
      BY <1>1, <1>2, <1>12, <1>14 DEF ActivityOK, Carries
    <2> QED
      BY <1>14, <1>15, <1>22, <2>1, <2>2, <2>3, <2>4 DEF PointsOK
  <1>28. PointsOK(o, s)'
    BY <1>14 DEF PointsOK
  <1> QED
    BY <1>1, <1>18, <1>19, <1>23, <1>24, <1>25, <1>26, <1>27, <1>28, PointsBothWays DEF o

\* The SPDU that a request writes.
LEMMA RequestSends ==
    ASSUME S!Inv, NEW s \in Side, SB(Peer(s), "SB_CONN"), NEW b,
           NEW p \in S!Spdu, S!Request(s, b, p)
    PROVE  net'[Peer(s)] = Append(net[Peer(s)], p)
  <1> DEFINE o == Peer(s)
  <1>1. o \in Side /\ S!Peer(s) = o
    BY Sides
  <1>2. DOMAIN net = Side /\ net[o] \in Seq(S!Spdu)
    BY <1>1, SessionTypes
  <1>3. net' = [net EXCEPT ![o] = S!Deliver(o, <<p>>)]
    BY <1>1 DEF S!Request, S!Update, S!SWriteRequestAux
  <1> HIDE DEF o
  <1>4. net'[o] = S!Deliver(o, <<p>>) /\ net[o] \o <<p>> = Append(net[o], p)
    BY <1>1, <1>2, <1>3
  <1> QED
    BY <1>4 DEF S!Deliver, S!Connected, SB, o

\* A point has the number V_M; a confirmation the one the RTPM names.
LEMMA PointSent ==
    ASSUME S!Inv, NEW s \in Side, SB(Peer(s), "SB_CONN")
    PROVE  /\ S!SMinSyncRequest(s) =>
                \E p \in S!Spdu : /\ p.code = "MIP" /\ p.serial = sb[s].sb_V_M
                                  /\ net'[Peer(s)] = Append(net[Peer(s)], p)
           /\ \A n \in Nat : S!SMinSyncResponse(s, n) =>
                \E p \in S!Spdu : /\ p.code = "MIA" /\ p.serial = n
                                  /\ net'[Peer(s)] = Append(net[Peer(s)], p)
  <1>1. ASSUME NEW code \in {"MIP", "MIA"}, NEW n \in Nat
        PROVE  LET p == [S!newspkt(code) EXCEPT !.serial = n] IN
               p \in S!Spdu /\ p.code = code /\ p.serial = n
    <2>1. code \in S!SpduCode \ {"PR"}
      BY DEF S!SpduCode
    <2> QED
      BY <2>1, SpdusWritten DEF S!newspkt
  <1>2. sb[s].sb_V_M \in Nat
    BY SessionTypes DEF S!ssapblk
  <1>3. ASSUME S!SMinSyncRequest(s)
        PROVE  \E p \in S!Spdu : /\ p.code = "MIP" /\ p.serial = sb[s].sb_V_M
                                 /\ net'[Peer(s)] = Append(net[Peer(s)], p)
    <2> DEFINE p == [S!newspkt("MIP") EXCEPT !.serial = sb[s].sb_V_M]
    <2>1. S!Request(s, S!IssuePoint(sb[s]), p)
      BY <1>3 DEF S!SMinSyncRequest
    <2>2. p \in S!Spdu /\ p.code = "MIP" /\ p.serial = sb[s].sb_V_M
      BY <1>1, <1>2
    <2> HIDE DEF p
    <2> QED
      BY <2>1, <2>2, RequestSends
  <1>4. ASSUME NEW n \in Nat, S!SMinSyncResponse(s, n)
        PROVE  \E p \in S!Spdu : /\ p.code = "MIA" /\ p.serial = n
                                 /\ net'[Peer(s)] = Append(net[Peer(s)], p)
    <2> DEFINE p == [S!newspkt("MIA") EXCEPT !.serial = n]
               b == [sb[s] EXCEPT !.sb_V_A = n + 1]
    <2>1. S!Request(s, b, p)
      BY <1>4 DEF S!SMinSyncResponse
    <2>2. p \in S!Spdu /\ p.code = "MIA" /\ p.serial = n
      BY <1>1
    <2> HIDE DEF p, b
    <2> QED
      BY <2>1, <2>2, RequestSends
  <1> QED
    BY <1>3, <1>4

LEMMA AppendOrder ==
    ASSUME NEW T, NEW q \in Seq(T), NEW p \in T, p.code = "MIP", OrderOK(q)
    PROVE  OrderOK(Append(q, p))
  <1> DEFINE r == Append(q, p)
             k == Len(q) + 1
  <1>1. /\ DOMAIN r = DOMAIN q \cup {k} /\ k \notin DOMAIN q /\ r[k] = p
        /\ \A i \in DOMAIN q : r[i] = q[i] /\ i < k /\ i \in Nat
        /\ k \in Nat
    BY AppendShape
  <1> HIDE DEF r, k
  <1>2. SUFFICES ASSUME NEW i \in DOMAIN r, NEW j \in DOMAIN r, i < j
                 PROVE  /\ r[j].code = "AS" => r[i].code \notin {"AS", "DT", "MIP", "AE"}
                        /\ r[i].code \in ReplyCode => r[j].code # "MIA"
                        /\ r[i].code = "MIA" /\ r[j].code = "MIA"
                             => r[i].serial < r[j].serial
    BY DEF OrderOK, r
  <1>3. i \in DOMAIN q
    BY <1>1, <1>2
  <1>4. CASE j = k
    BY <1>1, <1>3, <1>4
  <1>5. CASE j \in DOMAIN q
    BY <1>1, <1>2, <1>3, <1>5 DEF OrderOK
  <1> QED
    BY <1>1, <1>4, <1>5

\* The end with the turn sends a word of its transfer: what is known of it.
LEMMA SenderFacts ==
    ASSUME RtInv, TransferInv, PointInv, NEW s \in Side,
           rts[s].call \in InTransferCall, Open(s), SB(s, "SB_Vact")
    PROVE  /\ Sending(s) /\ Has(s, "ACB_CONN") /\ ~Has(Peer(s), "ACB_TURN")
           /\ ~Sending(Peer(s)) /\ ~SB(s, "SB_MAP")
           /\ ~Carries(net[s], {"AS", "MIP"}) /\ ~Starting(net[s])
           /\ ~Carries(net[s], {"MIP"})
  <1>1. Has(s, "ACB_CONN") /\ Has(s, "ACB_TURN") /\ ThreadOK(s)
    BY TransFacts
  <1>2. Sending(s)
    BY <1>1 DEF ThreadOK, Sending
  <1>3. ~Has(Peer(s), "ACB_TURN") /\ ~Speaking(net[s])
    BY <1>1, MaySpeak
  <1> QED
    BY <1>1, <1>2, <1>3 DEF Open, Sending, Speaking, Body, Carries, Starting

\* The next point is sent, with room in the window.
LEMMA SyncPoints ==
    ASSUME RtInv, TransferInv, PointInv, NEW s \in Side, TransSync(s)
    PROVE  PointInv'
  <1> DEFINE o == Peer(s)
             F == sb[s].sb_flags
             M == sb[s].sb_V_M
             a == [acb[s] EXCEPT !.acb_ssn = M]
             r == [rts[s] EXCEPT !.call = "window"]
  <1>1. /\ S!Inv /\ RtLocal /\ SideOK(s) /\ SideOK(o) /\ o \in Side /\ o # s
        /\ ReceiverOK(s) /\ SenderOK(s) /\ ReceiverOK(o) /\ SenderOK(o)
        /\ ActivityOK(s, o) /\ ActivityOK(o, s) /\ PointsOK(s, o)
        /\ acb[s] \in assocblk /\ rts[s] \in thread /\ mode.window \in Nat \ {0}
        /\ acb[s].acb_ssn \in Nat /\ acb[s].acb_ack \in Nat
        /\ M \in Nat /\ sb[s].sb_V_A \in Nat /\ sb[o].sb_V_M \in Nat
        /\ net[s] \in Seq(S!Spdu) /\ net[o] \in Seq(S!Spdu)
        /\ \A i \in DOMAIN net[o] : net[o][i].serial \in Nat
        /\ \A i \in DOMAIN net[s] : net[s][i].serial \in Nat
        /\ rts[o].ssn \in Nat
    BY Known, PointsKnown, NumberTypes, Sides DEF RtInv
  <1>2. rts[s].call = "next" /\ rts[s].do = "none" /\ rts[s].call \in InTransferCall
    BY DEF TransSync, At, InTransferCall
  <1>3. /\ Open(s) /\ SB(s, "SB_Vact") /\ Writes(s, "MIP", F \ {"SB_Vsc"}, sb[s].sb_owned)
        /\ CountsPoint(s)
    BY <1>1, MinorWrites, RequestCounts DEF TransSync
  <1>4. /\ Sending(s) /\ Has(s, "ACB_CONN") /\ ~Has(o, "ACB_TURN") /\ ~Sending(o)
        /\ ~SB(s, "SB_MAP") /\ ~Carries(net[s], {"AS", "MIP"}) /\ ~Starting(net[s])
        /\ ~Carries(net[s], {"MIP"})
    BY <1>2, <1>3, SenderFacts
  <1>5. Goes(s, a, r)
    BY DEF TransSync
  <1>6. /\ a.acb_flags = acb[s].acb_flags /\ a.acb_ssn = M /\ a.acb_ack = acb[s].acb_ack
        /\ r.call = "window" /\ r.do = "none"
    BY <1>1, <1>2 DEF assocblk, thread
  <1> HIDE DEF a, r
  <1>7. /\ acb'[s] = a /\ rts'[s] = r /\ acb'[o] = acb[o] /\ rts'[o] = rts[o]
        /\ mode' = mode
    BY <1>1, <1>5, GoesEffect
  <1>8. /\ net'[s] = net[s] /\ Grows(o, "MIP")
        /\ sb'[s].sb_flags = F \ {"SB_Vsc"} /\ sb'[o] = sb[o]
    BY <1>3 DEF Writes, Stores
  <1>9. /\ mode.ckpoint /\ acb[s].acb_ssn + 1 = M
        /\ acb[s].acb_ssn < acb[s].acb_ack + mode.window
    BY <1>1, <1>2, <1>4 DEF SenderOK
  <1>10. sb'[s].sb_V_M = M + 1 /\ sb'[s].sb_V_A \in Nat /\ sb'[s].sb_V_A <= M
    BY <1>1, <1>3 DEF CountsPoint, Counts, ReceiverOK
  <1>11. Has(o, "ACB_CONN") =>
           \E p \in S!Spdu : /\ p.code = "MIP" /\ p.serial = M
                             /\ net'[o] = Append(net[o], p)
    BY <1>1, PointSent DEF TransSync, SideOK
  <1> HIDE DEF o, F
  <1>12. /\ (Sending(s)' <=> Sending(s)) /\ ~Receiving(s)' /\ ~Sending(o)'
         /\ ~Has(o, "ACB_TURN")' /\ (Has(o, "ACB_CONN")' <=> Has(o, "ACB_CONN"))
         /\ (Receiving(o)' <=> Receiving(o)) /\ ~Due(s, "minor")'
         /\ (Due(o, "minor")' <=> Due(o, "minor"))
    BY <1>4, <1>6, <1>7 DEF Has, Sending, Receiving, Due
  <1>13. \A f : SB(s, f)' => SB(s, f)
    BY <1>8 DEF SB, F
  <1>14. ~Has(o, "ACB_CONN") => net'[o] = net[o]
    BY <1>1, <1>8 DEF Grows, SideOK
  <1>15. ReceiverOK(s)'
    <2>1. NextPoint(s)' = M + 1 /\ ~Starting(net'[s])
      BY <1>4, <1>8, <1>10 DEF NextPoint
    <2>2. Numbered(net'[s], M + 1, M + 1)
      BY <1>1, <1>4, <1>8, NoPoints
    <2> QED
      BY <1>1, <1>8, <1>10, <1>12, <1>13, <2>1, <2>2 DEF ReceiverOK
  <1>16. SenderOK(s)'
    <2>1. /\ acb'[s].acb_ssn = M /\ acb'[s].acb_ack = acb[s].acb_ack
          /\ rts'[s].call = "window" /\ mode' = mode
      BY <1>6, <1>7
    <2>2. acb[s].acb_ack <= M /\ M <= acb[s].acb_ack + mode.window
      BY <1>1, <1>4, <1>9 DEF SenderOK
    <2> QED
      BY <1>9, <1>10, <1>12, <2>1, <2>2 DEF SenderOK
  \* the queue of the peer: the point has come to it, if it is there
  <1>17. /\ OrderOK(net'[o]) /\ (Starting(net'[o]) <=> Starting(net[o]))
         /\ \A codes : "MIP" \notin codes => (Carries(net'[o], codes) <=> Carries(net[o], codes))
         /\ \A i \in DOMAIN net'[o] : net'[o][i].code = "MIP" => net'[o][i].serial < M + 1
         /\ \E hi \in Nat : Numbered(net'[o], NextPoint(o), hi)
         /\ Has(o, "ACB_CONN") => NextPoint(o) <= M /\ Numbered(net'[o], NextPoint(o), M + 1)
    <2>1. CASE Has(o, "ACB_CONN")
      <3>1. PICK p \in S!Spdu : p.code = "MIP" /\ p.serial = M /\ net'[o] = Append(net[o], p)
        BY <1>11, <2>1
      <3>2. NextPoint(o) <= M /\ Numbered(net[o], NextPoint(o), M) /\ NextPoint(o) \in Nat
        BY <1>1, <1>4, <2>1 DEF PointsOK, NextPoint
      <3>3. Numbered(net'[o], NextPoint(o), M + 1)
        BY <1>1, <3>1, <3>2, AppendPoint
      <3>4. OrderOK(net'[o])
        BY <1>1, <3>1, AppendOrder DEF ReceiverOK
      <3>5. \A codes : Carries(net'[o], codes) <=> Carries(net[o], codes) \/ "MIP" \in codes
        BY <1>1, <3>1, AppendCarries
      <3>6. Starting(net'[o]) <=> Starting(net[o])
        BY <3>5 DEF Starting
      <3>7. \A i \in DOMAIN net'[o] : net'[o][i].code = "MIP" => net'[o][i].serial < M + 1
        BY <3>3 DEF Numbered
      <3>8. M + 1 \in Nat
        BY <1>1
      <3> QED
        BY <3>2, <3>3, <3>4, <3>5, <3>6, <3>7, <3>8
    <2>2. CASE ~Has(o, "ACB_CONN")
      <3>1. ~Carries(net[o], {"MIP"})
        BY <1>1, <2>2, GoneQueue
      <3>2. \A i \in DOMAIN net[o] : net[o][i].code # "MIP"
        BY <3>1 DEF Carries
      <3> QED
        BY <1>1, <1>14, <2>2, <3>2 DEF ReceiverOK
    <2> QED
      BY <2>1, <2>2
  <1>18. NextPoint(o)' = NextPoint(o) /\ NextPoint(o) \in Nat
    BY <1>1, <1>8, <1>17 DEF NextPoint
  <1>19. ReceiverOK(o)'
    BY <1>1, <1>7, <1>8, <1>12, <1>17, <1>18 DEF ReceiverOK, SB
  <1>20. SenderOK(o)'
    BY <1>1, <1>7, <1>9, <1>12 DEF SenderOK
  <1>21. ActivityOK(s, o)'
    BY <1>1, <1>4, <1>8, <1>12 DEF ActivityOK, SB
  <1>22. ActivityOK(o, s)'
    <2>1. /\ Carries(net'[o], {"MIA"}) <=> Carries(net[o], {"MIA"})
          /\ (Turning(net'[o]) \/ Replying(net'[o])) <=> (Turning(net[o]) \/ Replying(net[o]))
      BY <1>17 DEF Turning, Replying, Confirming, Agreeing
    <2> QED
      BY <1>1, <1>4, <1>8, <1>12, <1>13, <2>1 DEF ActivityOK
  <1>23. PointsOK(s, o)'
    <2> SUFFICES ASSUME Sending(s) PROVE PointsOK(s, o)'
      BY <1>4
    <2>1. acb'[s].acb_ack = acb[s].acb_ack
      BY <1>6, <1>7
    <2>2. ASSUME NEW i \in DOMAIN net'[s], net'[s][i].code = "MIA"
          PROVE  /\ acb[s].acb_ack < net'[s][i].serial /\ net'[s][i].serial < M + 1
                 /\ Has(o, "ACB_CONN") => net'[s][i].serial < NextPoint(o)
                 /\ Due(o, "minor") => net'[s][i].serial < rts[o].ssn
      BY <1>1, <1>8, <2>2 DEF PointsOK
    <2>3. Due(o, "minor") => acb[s].acb_ack < rts[o].ssn /\ rts[o].ssn < M + 1
      BY <1>1 DEF PointsOK
    <2>4. Has(o, "ACB_CONN") => acb[s].acb_ack < NextPoint(o) /\ NextPoint(o) <= M + 1
      BY <1>1, <1>17, <1>18 DEF PointsOK
    <2> QED
      BY <1>7, <1>10, <1>12, <1>17, <1>18, <2>1, <2>2, <2>3, <2>4 DEF PointsOK
  <1>24. PointsOK(o, s)'
    BY <1>12 DEF PointsOK
  <1> QED
    BY <1>15, <1>16, <1>19, <1>20, <1>21, <1>22, <1>23, <1>24, PointsBothWays DEF o

\* The end of a transfer counts as a point, for which there is room too.
LEMMA EndPoints ==
    ASSUME RtInv, TransferInv, PointInv, NEW s \in Side, TransEnd(s)
    PROVE  PointInv'
  <1> DEFINE o == Peer(s)
             F == sb[s].sb_flags
             f == (((F \cup {"SB_MAP"}) \ {"SB_Vsc"}) \cup {"SB_AE"}) \ {"SB_Vnextact"}
             M == sb[s].sb_V_M
             a == [acb[s] EXCEPT !.acb_ssn = M]
             r == [rts[s] EXCEPT !.call = "ack"]
  <1>1. /\ S!Inv /\ RtLocal /\ SideOK(s) /\ SideOK(o) /\ o \in Side /\ o # s
        /\ ReceiverOK(s) /\ SenderOK(s) /\ ReceiverOK(o) /\ SenderOK(o)
        /\ ActivityOK(s, o) /\ ActivityOK(o, s) /\ PointsOK(s, o)
        /\ acb[s] \in assocblk /\ rts[s] \in thread /\ mode.window \in Nat \ {0}
        /\ acb[s].acb_ssn \in Nat /\ acb[s].acb_ack \in Nat
        /\ M \in Nat /\ sb[s].sb_V_A \in Nat /\ sb[o].sb_V_M \in Nat
        /\ \A i \in DOMAIN net[o] : net[o][i].serial \in Nat
        /\ \A i \in DOMAIN net[s] : net[s][i].serial \in Nat
        /\ rts[o].ssn \in Nat
    BY Known, PointsKnown, NumberTypes, Sides DEF RtInv
  <1>2. rts[s].call = "end" /\ rts[s].do = "none" /\ rts[s].call \in InTransferCall
    BY DEF TransEnd, At, InTransferCall
  <1>3. /\ Open(s) /\ SB(s, "SB_Vact") /\ Writes(s, "AE", f, sb[s].sb_owned)
        /\ CountsPoint(s)
    BY <1>1, EndWrites, RequestCounts DEF TransEnd
  <1>4. /\ Sending(s) /\ Has(s, "ACB_CONN") /\ ~Has(o, "ACB_TURN") /\ ~Sending(o)
        /\ ~Starting(net[s]) /\ ~Carries(net[s], {"MIP"}) /\ ~Carries(net[s], {"AS", "MIP"})
    BY <1>2, <1>3, SenderFacts
  <1>5. Goes(s, a, r)
    BY DEF TransEnd
  <1>6. /\ a.acb_flags = acb[s].acb_flags /\ a.acb_ssn = M /\ a.acb_ack = acb[s].acb_ack
        /\ r.call = "ack" /\ r.do = "none"
    BY <1>1, <1>2 DEF assocblk, thread
  <1> HIDE DEF a, r, f
  <1>7. /\ acb'[s] = a /\ rts'[s] = r /\ acb'[o] = acb[o] /\ rts'[o] = rts[o]
        /\ mode' = mode
    BY <1>1, <1>5, GoesEffect
  <1>8. /\ net'[s] = net[s] /\ sb'[s].sb_flags = f /\ sb'[o] = sb[o]
        /\ SamePoints(net[o], net'[o]) /\ NoWord(net[o], net'[o])
    BY <1>1, <1>3, WritesPlain DEF Writes, Stores, ReplyCode
  <1>9. Frame(s)
    BY <1>7, <1>8 DEF Frame
  <1>10. sb'[s].sb_V_M = M + 1 /\ sb'[s].sb_V_A \in Nat /\ sb'[s].sb_V_A <= M
    BY <1>1, <1>3 DEF CountsPoint, Counts, ReceiverOK
  <1>11. ReceiverOK(o)' /\ SenderOK(o)'
    BY <1>7, <1>8, <1>9, PeerPoints
  <1>12. /\ (SB(s, "SB_Vact")' => SB(s, "SB_Vact")) /\ SB(s, "SB_MAP")'
         /\ ~SB(s, "SB_Vnextact")'
    BY <1>8 DEF SB, f
  <1> HIDE DEF o
  <1>13. /\ Sending(s)' /\ ~Receiving(s)' /\ ~Sending(o)'
         /\ ~Has(o, "ACB_TURN")' /\ (Has(o, "ACB_CONN")' <=> Has(o, "ACB_CONN"))
         /\ (Receiving(o)' <=> Receiving(o)) /\ ~Due(s, "minor")'
         /\ (Due(o, "minor")' <=> Due(o, "minor"))
    BY <1>4, <1>6, <1>7 DEF Has, Sending, Receiving, Due
  <1>14. ReceiverOK(s)'
    <2>1. NextPoint(s)' = M + 1 /\ ~Starting(net'[s])
      BY <1>4, <1>8, <1>10 DEF NextPoint
    <2>2. Numbered(net'[s], M + 1, M + 1)
      BY <1>1, <1>4, <1>8, NoPoints
    <2> QED
      BY <1>1, <1>8, <1>10, <1>12, <1>13, <2>1, <2>2 DEF ReceiverOK
  <1>15. SenderOK(s)'
    BY <1>1, <1>2, <1>4, <1>6, <1>7, <1>8, <1>10, <1>13 DEF SenderOK
  <1>16. ActivityOK(s, o)'
    BY <1>1, <1>8, <1>13 DEF ActivityOK, SB
  <1>17. ActivityOK(o, s)'
    <2>1. Carries(net'[o], {"MIA"}) => Carries(net[o], {"MIA"})
      BY <1>8, SameCarries
    <2> QED
      BY <1>1, <1>4, <1>8, <1>12, <1>13, <2>1 DEF ActivityOK, NoWord
  <1>18. PointsOK(s, o)'
    <2>1. acb'[s].acb_ack = acb[s].acb_ack /\ NextPoint(o)' = NextPoint(o)
      BY <1>6, <1>7, <1>8 DEF NextPoint, SamePoints
    <2>2. ASSUME NEW i \in DOMAIN net'[s], net'[s][i].code = "MIA"
          PROVE  /\ acb[s].acb_ack < net'[s][i].serial /\ net'[s][i].serial < M + 1
                 /\ Has(o, "ACB_CONN") => net'[s][i].serial < NextPoint(o)
                 /\ Due(o, "minor") => net'[s][i].serial < rts[o].ssn
      BY <1>1, <1>4, <1>8, <2>2 DEF PointsOK
    <2>3. Due(o, "minor") => acb[s].acb_ack < rts[o].ssn /\ rts[o].ssn < M + 1
      BY <1>1, <1>4 DEF PointsOK
    <2>4. Has(o, "ACB_CONN") => acb[s].acb_ack < NextPoint(o)
      BY <1>1, <1>4 DEF PointsOK
    <2>5. ASSUME NEW i \in DOMAIN net'[o], net'[o][i].code = "MIP"
          PROVE  net'[o][i].serial < M + 1
      <3>1. PICK j \in DOMAIN net[o] : net[o][j] = net'[o][i]
        BY <1>8, <2>5 DEF SamePoints
      <3> QED
        BY <1>1, <1>4, <2>5, <3>1 DEF PointsOK
    <2> QED
      BY <1>7, <1>10, <1>12, <1>13, <2>1, <2>2, <2>3, <2>4, <2>5 DEF PointsOK
  <1>19. PointsOK(o, s)'
    BY <1>13 DEF PointsOK
  <1> QED
    BY <1>11, <1>14, <1>15, <1>16, <1>17, <1>18, <1>19, PointsBothWays DEF o

LEMMA TailOrder ==
    ASSUME NEW T, NEW q \in Seq(T), q # << >>, OrderOK(q)
    PROVE  /\ OrderOK(Tail(q))
           /\ Head(q).code \in {"AS", "DT", "MIP", "AE"} => ~Starting(Tail(q))
           /\ Head(q).code \in ReplyCode => ~Carries(Tail(q), {"MIA"})
           /\ Head(q).code = "MIA" => \A i \in DOMAIN Tail(q) :
                Tail(q)[i].code = "MIA" => Head(q).serial < Tail(q)[i].serial
           /\ \A i \in DOMAIN Tail(q) : \E j \in DOMAIN q : q[j] = Tail(q)[i]
           /\ \A codes : Carries(Tail(q), codes) => Carries(q, codes)
  <1> DEFINE r == Tail(q)
  <1>1. /\ \A i \in DOMAIN r : i + 1 \in DOMAIN q /\ r[i] = q[i + 1] /\ i \in Nat /\ 1 < i + 1
        /\ 1 \in DOMAIN q /\ q[1] = Head(q)
        /\ \A i, j \in DOMAIN r : i < j => i + 1 < j + 1
    BY TailShape
  <1> HIDE DEF r
  <1>2. OrderOK(r)
    BY <1>1 DEF OrderOK
  <1>3. ASSUME NEW i \in DOMAIN r
        PROVE  /\ r[i].code = "AS" => Head(q).code \notin {"AS", "DT", "MIP", "AE"}
               /\ Head(q).code \in ReplyCode => r[i].code # "MIA"
               /\ Head(q).code = "MIA" /\ r[i].code = "MIA"
                    => Head(q).serial < r[i].serial
    BY <1>1 DEF OrderOK
  <1>4. \A i \in DOMAIN r : \E j \in DOMAIN q : q[j] = r[i]
    BY <1>1
  <1>5. \A codes : Carries(r, codes) => Carries(q, codes)
    BY <1>4 DEF Carries
  <1> QED
    BY <1>2, <1>3, <1>4, <1>5 DEF r, Starting, Carries

\* The next point is read: it is the one its reader counts next.
LEMMA MinorIndPoints ==
    ASSUME RtInv, TransferInv, PointInv, NEW s \in Side, doSSminorind(s)
    PROVE  PointInv'
  <1> DEFINE o == Peer(s)
             F == sb[s].sb_flags
             M == sb[s].sb_V_M
             n == Head(net[s]).serial
  <1>1. /\ S!Inv /\ RtLocal /\ SideOK(s) /\ QueueOK(net[s]) /\ QueueOK(net[o])
        /\ PairOK(o, s) /\ o \in Side /\ o # s
        /\ ReceiverOK(s) /\ SenderOK(s) /\ ReceiverOK(o) /\ SenderOK(o)
        /\ ActivityOK(s, o) /\ ActivityOK(o, s) /\ PointsOK(o, s)
        /\ acb[s] \in assocblk /\ rts[s] \in thread
        /\ M \in Nat /\ sb[s].sb_V_A \in Nat /\ sb[o].sb_V_M \in Nat
        /\ acb[o].acb_ack \in Nat
        /\ net[s] \in Seq(S!Spdu)
        /\ \A i \in DOMAIN net[o] : net[o][i].serial \in Nat
        /\ \A i \in DOMAIN net[s] : net[s][i].serial \in Nat
    BY Known, PointsKnown, NumberTypes, Sides DEF RtInv
  <1>2. /\ Takes(s, F \cup {"SB_Vsc"}, sb[s].sb_owned) /\ CountsPoint(s)
        /\ Waits(s) /\ net[s] # << >> /\ Head(net[s]).code = "MIP"
    BY <1>1, ReadTakes, ReadCounts DEF doSSminorind, Reads
  <1>3. SB(s, "SB_CONN") /\ Has(s, "ACB_CONN") /\ ~Has(s, "ACB_TURN")
    <2>1. SB(s, "SB_CONN") /\ Body(net[s])
      BY <1>1, <1>2, TakesKeeps DEF Takes
    <2> QED
      BY <1>1, <2>1, Sides DEF SideOK, PairOK, TurnOK, Speaking
  <1>4. acb'[s] = acb[s] /\ acb'[o] = acb[o] /\ rts'[o] = rts[o] /\ mode' = mode
    <2>1. \E r : Goes(s, acb[s], r)
      BY <1>1, StillGoes DEF doSSminorind, Owes
    <2> QED
      BY <1>1, <2>1, GoesEffect
  <1>5. rts'[s].do = "minor" => Receiving(s) /\ rts'[s].ssn = n
    <2> DEFINE r == [rts[s] EXCEPT !.do = "minor", !.ssn = n]
    <2>1. r.do = "minor" /\ r.ssn = n
      BY <1>1 DEF thread
    <2>2. \A do : [rts[s] EXCEPT !.do = do].do = do
      BY <1>1 DEF thread
    <2>3. rts[s].do = "none"
      BY <1>2 DEF Waits, At
    <2>4. \/ Goes(s, acb[s], rts[s])
          \/ Receiving(s) /\ Goes(s, acb[s], r)
          \/ \E do \in {"report", "lose"} : Goes(s, acb[s], [rts[s] EXCEPT !.do = do])
      BY <1>1, StillGoes DEF doSSminorind, Owes
    <2> HIDE DEF r, n
    <2>5. \/ rts'[s] = rts[s] \/ (Receiving(s) /\ rts'[s] = r)
          \/ \E do \in {"report", "lose"} : rts'[s] = [rts[s] EXCEPT !.do = do]
      BY <1>1, <2>4, GoesEffect
    <2> QED
      BY <2>1, <2>2, <2>3, <2>5
  <1>6. /\ net'[s] = Tail(net[s]) /\ sb'[s].sb_flags = F \cup {"SB_Vsc"} /\ sb'[o] = sb[o]
        /\ SamePoints(net[o], net'[o]) /\ NoWord(net[o], net'[o]) /\ NoWord(net[s], net'[s])
    BY <1>1, <1>2, TakesPlain DEF Takes, Stores
  <1>7. Frame(s)
    BY <1>4, <1>6 DEF Frame
  <1>8. ReceiverOK(o)' /\ SenderOK(o)'
    BY <1>4, <1>6, <1>7, PeerPoints
  <1>9. /\ OrderOK(net'[s]) /\ ~Starting(net'[s])
        /\ \A i \in DOMAIN net'[s] : \E j \in DOMAIN net[s] : net[s][j] = net'[s][i]
        /\ \A codes : Carries(net'[s], codes) => Carries(net[s], codes)
    BY <1>1, <1>2, <1>6, TailOrder DEF ReceiverOK
  <1>10. ~Starting(net[s]) /\ Carries(net[s], {"MIP"})
    BY <1>1, <1>2, <1>6, <1>9, TailCarries DEF Starting
  <1>11. mode.ckpoint /\ NextPoint(s) = M
    <2>1. Carries(net[s], {"MIP", "MIA"})
      BY <1>10 DEF Carries
    <2> QED
      BY <1>1, <1>10, <2>1 DEF SenderOK, NextPoint
  <1>12. ASSUME NEW hi \in Nat, Numbered(net[s], M, hi)
         PROVE  n = M /\ M < hi /\ Numbered(net'[s], M + 1, hi)
    BY <1>1, <1>2, <1>6, <1>12, TailPoint
  <1>13. PICK hi \in Nat : n = M /\ M < hi /\ Numbered(net'[s], M + 1, hi)
    BY <1>1, <1>11, <1>12 DEF ReceiverOK
  <1> HIDE DEF o, F, n
  <1>14. sb'[s].sb_V_M = M + 1 /\ sb'[s].sb_V_A \in Nat /\ sb'[s].sb_V_A <= M
    BY <1>1, <1>2 DEF CountsPoint, Counts, ReceiverOK
  <1>15. \A f : f # "SB_Vsc" => (SB(s, f)' <=> SB(s, f))
    BY <1>6 DEF SB, F
  <1>16. /\ \A f : Has(s, f)' <=> Has(s, f)
         /\ \A f : Has(o, f)' <=> Has(o, f)
         /\ ~Sending(s)' /\ (Receiving(s)' <=> Receiving(s))
         /\ (Sending(o)' <=> Sending(o)) /\ (Receiving(o)' <=> Receiving(o))
    BY <1>3, <1>4 DEF Has, Sending, Receiving
  <1>17. NextPoint(s)' = M + 1
    BY <1>9, <1>14 DEF NextPoint
  <1>18. ReceiverOK(s)'
    BY <1>1, <1>5, <1>9, <1>13, <1>14, <1>15, <1>16, <1>17 DEF ReceiverOK, Due
  <1>19. SenderOK(s)'
    BY <1>1, <1>4, <1>11, <1>16 DEF SenderOK
  <1>20. ActivityOK(s, o)'
    <2>1. /\ Carries(net'[o], {"AS", "MIP"}) => Carries(net[o], {"AS", "MIP"})
          /\ Carries(net'[s], {"MIA"}) => Carries(net[s], {"MIA"})
      BY <1>6, <1>9, SameCarries
    <2> QED
      BY <1>1, <1>3, <1>6, <1>16, <2>1 DEF ActivityOK, NoWord, Sending, SB
  <1>21. ActivityOK(o, s)'
    <2>1. ~(Has(o, "ACB_CONN") /\ ~Sending(o))
      BY <1>1, <1>10 DEF ActivityOK, Carries
    <2> QED
      BY <1>1, <1>6, <1>15, <1>16, <2>1 DEF ActivityOK, NoWord
  <1>22. PointsOK(s, o)'
    BY <1>16 DEF PointsOK
  <1>23. PointsOK(o, s)'
    <2> SUFFICES ASSUME Sending(o) PROVE PointsOK(o, s)'
      BY <1>16 DEF PointsOK
    <2>1. acb[o].acb_ack < M
      BY <1>1, <1>3, <1>11 DEF PointsOK
    <2>2. ~SB(o, "SB_MAP") => M + 1 <= sb[o].sb_V_M /\ Numbered(net'[s], M + 1, sb[o].sb_V_M)
      BY <1>1, <1>3, <1>11, <1>12 DEF PointsOK
    <2>3. \A i \in DOMAIN net'[s] : net'[s][i].code = "MIP" =>
            net'[s][i].serial < sb[o].sb_V_M
      BY <1>1, <1>9 DEF PointsOK
    <2>4. M < sb[o].sb_V_M
      <3>1. 1 \in DOMAIN net[s] /\ net[s][1] = Head(net[s])
        BY <1>1, <1>2
      <3> QED
        BY <1>1, <1>2, <1>13, <3>1 DEF PointsOK, n
    <2>5. ASSUME NEW i \in DOMAIN net'[o], net'[o][i].code = "MIA"
          PROVE  /\ acb[o].acb_ack < net'[o][i].serial
                 /\ net'[o][i].serial < sb[o].sb_V_M /\ net'[o][i].serial < M
                 /\ net'[o][i].serial < M + 1
      <3>1. PICK j \in DOMAIN net[o] : net[o][j] = net'[o][i]
        BY <1>6, <2>5 DEF SamePoints
      <3>2. /\ acb[o].acb_ack < net[o][j].serial /\ net[o][j].serial < sb[o].sb_V_M
            /\ net[o][j].serial < M /\ net[o][j].serial \in Nat
        BY <1>1, <1>3, <1>11, <2>5, <3>1 DEF PointsOK
      <3> QED
        BY <1>1, <3>1, <3>2
    <2>6. acb'[o] = acb[o] /\ sb'[o] = sb[o] /\ (SB(o, "SB_MAP")' <=> SB(o, "SB_MAP"))
      BY <1>4, <1>6 DEF SB
    <2>7. acb[o].acb_ack < M + 1
      BY <1>1, <2>1
    <2> QED
      BY <1>5, <1>13, <1>17, <2>1, <2>2, <2>3, <2>4, <2>5, <2>6, <2>7 DEF PointsOK, Due
  <1> QED
    BY <1>8, <1>18, <1>19, <1>20, <1>21, <1>22, <1>23, PointsBothWays DEF o

\* A point is confirmed: the confirmations behind it are of later points.
LEMMA MinorCnfPoints ==
    ASSUME RtInv, TransferInv, PointInv, NEW s \in Side, doSSminorcnf(s)
    PROVE  PointInv'
  <1> DEFINE o == Peer(s)
             F == sb[s].sb_flags
             M == sb[s].sb_V_M
             n == Head(net[s]).serial
             a == [acb[s] EXCEPT !.acb_ack = n]
  <1>1. /\ S!Inv /\ RtLocal /\ SideOK(s) /\ QueueOK(net[s]) /\ o \in Side /\ o # s
        /\ ReceiverOK(s) /\ SenderOK(s) /\ PairOK(s, o)
        /\ ActivityOK(s, o) /\ ActivityOK(o, s) /\ PointsOK(s, o)
        /\ acb[s] \in assocblk /\ M \in Nat /\ mode.window \in Nat \ {0}
        /\ acb[s].acb_ssn \in Nat /\ acb[s].acb_ack \in Nat
        /\ net[s] \in Seq(S!Spdu)
    BY Known, PointsKnown, NumberTypes, Sides DEF RtInv
  <1>2. /\ Takes(s, F, sb[s].sb_owned) /\ Counts(s, n, M) /\ Waits(s)
        /\ net[s] # << >> /\ Head(net[s]).code = "MIA" /\ n \in Nat
    BY <1>1, ReadTakes, ReadCounts, NumberTypes DEF doSSminorcnf, Reads
  <1>3. 1 \in DOMAIN net[s] /\ net[s][1] = Head(net[s])
    BY <1>1, <1>2
  <1>4. Has(s, "ACB_CONN") /\ Sending(s) /\ mode.ckpoint
    <2>1. Carries(net[s], {"MIA"}) /\ Carries(net[s], {"MIP", "MIA"}) /\ SB(s, "SB_CONN")
      BY <1>2, <1>3 DEF Carries, Takes
    <2> QED
      BY <1>1, <2>1 DEF SideOK, ActivityOK, SenderOK
  <1>5. ~Has(o, "ACB_TURN") /\ ~Sending(o)
    BY <1>1, <1>4 DEF PairOK, TurnOK, Sending
  <1>6. /\ acb[s].acb_ack < n /\ n < M /\ M = acb[s].acb_ssn + 1
        /\ Has(o, "ACB_CONN") => n < NextPoint(o)
        /\ Due(o, "minor") => n < rts[o].ssn
    BY <1>1, <1>2, <1>3, <1>4 DEF PointsOK, SenderOK
  <1>7. Goes(s, a, rts[s])
    BY <1>4 DEF doSSminorcnf
  <1>8. /\ a.acb_flags = acb[s].acb_flags /\ a.acb_ssn = acb[s].acb_ssn /\ a.acb_ack = n
    BY <1>1 DEF assocblk
  <1> HIDE DEF a, n
  <1>9. /\ acb'[s] = a /\ rts'[s] = rts[s] /\ acb'[o] = acb[o] /\ rts'[o] = rts[o]
        /\ mode' = mode
    BY <1>1, <1>7, GoesEffect
  <1>10. /\ net'[s] = Tail(net[s]) /\ sb'[s].sb_flags = F /\ sb'[o] = sb[o]
         /\ SamePoints(net[o], net'[o]) /\ NoWord(net[o], net'[o]) /\ NoWord(net[s], net'[s])
         /\ SamePoints(net[s], net'[s])
    BY <1>1, <1>2, TakesPlain DEF Takes, Stores
  <1>11. Frame(s)
    BY <1>9, <1>10 DEF Frame
  <1>12. ReceiverOK(o)' /\ SenderOK(o)'
    BY <1>9, <1>10, <1>11, PeerPoints
  <1>13. \A i \in DOMAIN net'[s] :
           /\ \E j \in DOMAIN net[s] : net[s][j] = net'[s][i]
           /\ net'[s][i].code = "MIA" => n < net'[s][i].serial
    <2>1. OrderOK(net[s])
      BY <1>1 DEF ReceiverOK
    <2>2. /\ \A i \in DOMAIN Tail(net[s]) :
               Tail(net[s])[i].code = "MIA" => Head(net[s]).serial < Tail(net[s])[i].serial
          /\ \A i \in DOMAIN Tail(net[s]) : \E j \in DOMAIN net[s] : net[s][j] = Tail(net[s])[i]
      BY <1>1, <1>2, <2>1, TailOrder
    <2> QED
      BY <1>10, <2>2 DEF n
  <1> HIDE DEF o, F
  <1>14. sb'[s].sb_V_M = M /\ sb'[s].sb_V_A = n
    BY <1>2 DEF Counts
  <1>15. /\ \A f : SB(s, f)' <=> SB(s, f)
         /\ \A f : SB(o, f)' <=> SB(o, f)
         /\ \A f : Has(s, f)' <=> Has(s, f)
         /\ \A f : Has(o, f)' <=> Has(o, f)
         /\ (Due(s, "minor")' <=> Due(s, "minor")) /\ (Due(o, "minor")' <=> Due(o, "minor"))
    BY <1>8, <1>9, <1>10 DEF SB, Has, Due, F
  <1>16. /\ Sending(s)' /\ ~Receiving(s)' /\ ~Receiving(s)
         /\ ~Sending(o)' /\ (Receiving(o)' <=> Receiving(o))
    BY <1>4, <1>5, <1>15 DEF Sending, Receiving
  <1>17. /\ NextPoint(s)' = NextPoint(s) /\ (Starting(net'[s]) <=> Starting(net[s]))
         /\ NextPoint(o)' = NextPoint(o)
    BY <1>10, <1>14 DEF NextPoint, SamePoints
  <1>18. ReceiverOK(s)'
    <2>1. PICK hi \in Nat : Numbered(net[s], NextPoint(s), hi)
      BY <1>1 DEF ReceiverOK
    <2>2. Numbered(net'[s], NextPoint(s), hi) /\ OrderOK(net'[s])
      BY <1>1, <1>10, <2>1 DEF SamePoints, ReceiverOK
    <2>3. n <= M
      BY <1>1, <1>2, <1>6
    <2>4. ~Due(s, "minor")'
      BY <1>1, <1>15, <1>16 DEF ReceiverOK
    <2> QED
      BY <1>1, <1>9, <1>14, <1>15, <1>16, <1>17, <2>2, <2>3, <2>4 DEF ReceiverOK
  <1>19. SenderOK(s)'
    <2>1. /\ n <= acb[s].acb_ssn /\ acb[s].acb_ssn <= n + mode.window
          /\ acb[s].acb_ssn < acb[s].acb_ack + mode.window => acb[s].acb_ssn < n + mode.window
      BY <1>1, <1>2, <1>4, <1>6 DEF SenderOK
    <2> QED
      BY <1>1, <1>4, <1>8, <1>9, <1>14, <2>1 DEF SenderOK
  <1>20. ActivityOK(s, o)'
    BY <1>1, <1>10, <1>15, <1>16 DEF ActivityOK, NoWord
  <1>21. ActivityOK(o, s)'
    <2>1. /\ Carries(net'[s], {"AS", "MIP"}) => Carries(net[s], {"AS", "MIP"})
          /\ Carries(net'[o], {"MIA"}) => Carries(net[o], {"MIA"})
      BY <1>10, SameCarries
    <2> QED
      BY <1>1, <1>5, <1>10, <1>15, <1>16, <2>1 DEF ActivityOK, NoWord
  <1>22. PointsOK(s, o)'
    <2>1. /\ acb'[s].acb_ack = n /\ sb'[s].sb_V_M = M /\ rts'[o] = rts[o]
      BY <1>8, <1>9, <1>14
    <2>2. \A lo, hi : Numbered(net[o], lo, hi) => Numbered(net'[o], lo, hi)
      BY <1>10 DEF SamePoints
    <2>3. ASSUME NEW i \in DOMAIN net'[o], net'[o][i].code = "MIP"
          PROVE  net'[o][i].serial < M
      <3>1. PICK j \in DOMAIN net[o] : net[o][j] = net'[o][i]
        BY <1>10, <2>3 DEF SamePoints
      <3> QED
        BY <1>1, <1>4, <2>3, <3>1 DEF PointsOK
    <2>4. ASSUME NEW i \in DOMAIN net'[s], net'[s][i].code = "MIA"
          PROVE  /\ n < net'[s][i].serial /\ net'[s][i].serial < M
                 /\ Has(o, "ACB_CONN") => net'[s][i].serial < NextPoint(o)
                 /\ Due(o, "minor") => net'[s][i].serial < rts[o].ssn
      BY <1>1, <1>4, <1>13, <2>4 DEF PointsOK
    <2>5. /\ Has(o, "ACB_CONN") /\ ~SB(s, "SB_MAP") =>
               NextPoint(o) <= M /\ Numbered(net[o], NextPoint(o), M)
          /\ Due(o, "minor") => rts[o].ssn < M
      BY <1>1, <1>4 DEF PointsOK
    <2> QED
      BY <1>6, <1>15, <1>17, <2>1, <2>2, <2>3, <2>4, <2>5 DEF PointsOK
  <1>23. PointsOK(o, s)'
    BY <1>16 DEF PointsOK
  <1> QED
    BY <1>12, <1>18, <1>19, <1>20, <1>21, <1>22, <1>23, PointsBothWays DEF o

\* An activity starts at its reader: both count from 1 on.
LEMMA StartIndPoints ==
    ASSUME RtInv, TransferInv, PointInv, NEW s \in Side, doSSstart(s)
    PROVE  PointInv'
  <1> DEFINE o == Peer(s)
             F == sb[s].sb_flags
             a == With(acb[s], {"ACB_ACT"})
             r == [rts[s] EXCEPT !.do = "report"]
  <1>1. /\ S!Inv /\ RtLocal /\ SideOK(s) /\ SideOK(o) /\ QueueOK(net[s]) /\ QueueOK(net[o])
        /\ PairOK(o, s) /\ PairOK(s, o) /\ o \in Side /\ o # s
        /\ ReceiverOK(s) /\ SenderOK(s)
        /\ ActivityOK(s, o) /\ ActivityOK(o, s) /\ PointsOK(o, s)
        /\ acb[s] \in assocblk /\ rts[s] \in thread
        /\ net[s] \in Seq(S!Spdu)
    BY Known, PointsKnown, NumberTypes, Sides DEF RtInv
  <1>2. /\ Takes(s, F \cup {"SB_Vact"}, sb[s].sb_owned) /\ Counts(s, 1, 1)
        /\ Waits(s) /\ net[s] # << >> /\ Head(net[s]).code = "AS"
    BY <1>1, ReadTakes, ReadCounts DEF doSSstart, Reads
  <1>3. /\ Has(s, "ACB_CONN") /\ ~Has(s, "ACB_TURN") /\ Speaking(net[s])
    <2>1. SB(s, "SB_CONN") /\ Body(net[s])
      BY <1>1, <1>2, TakesKeeps DEF Takes
    <2> QED
      BY <1>1, <2>1 DEF SideOK, PairOK, TurnOK, Speaking
  <1>4. Starting(net[s]) /\ Carries(net[s], {"AS", "MIP"})
    BY <1>1, <1>2, TailCarries DEF Starting
  <1>5. ~Has(s, "ACB_ACT") /\ ~SB(s, "SB_ED") /\ NextPoint(s) = 1
    BY <1>1, <1>3, <1>4 DEF ReceiverOK, Receiving, NextPoint
  <1>6. Goes(s, a, rts[s]) \/ Goes(s, acb[s], r)
    BY <1>3, <1>5 DEF doSSstart, Owes, Has
  <1>7. /\ a.acb_flags = acb[s].acb_flags \cup {"ACB_ACT"} /\ a.acb_ssn = acb[s].acb_ssn
        /\ a.acb_ack = acb[s].acb_ack
        /\ r.do = "report" /\ r.call = rts[s].call /\ r.left = rts[s].left
        /\ rts[s].do = "none"
    BY <1>1, <1>2 DEF assocblk, thread, With, Waits, At
  <1> HIDE DEF a, r
  <1>8. /\ \/ acb'[s] = a /\ rts'[s] = rts[s]
           \/ acb'[s] = acb[s] /\ rts'[s] = r
        /\ acb'[o] = acb[o] /\ rts'[o] = rts[o] /\ mode' = mode
    BY <1>1, <1>6, GoesEffect
  <1>9. /\ net'[s] = Tail(net[s]) /\ sb'[s].sb_flags = F \cup {"SB_Vact"} /\ sb'[o] = sb[o]
        /\ SamePoints(net[o], net'[o]) /\ NoWord(net[o], net'[o]) /\ NoWord(net[s], net'[s])
    BY <1>1, <1>2, TakesPlain DEF Takes, Stores
  <1>10. Frame(s)
    BY <1>8, <1>9 DEF Frame
  <1>11. ReceiverOK(o)' /\ SenderOK(o)'
    BY <1>8, <1>9, <1>10, PeerPoints
  <1>12. OrderOK(net[s])
    BY <1>1 DEF ReceiverOK
  <1>13. /\ OrderOK(net'[s]) /\ ~Starting(net'[s])
         /\ \A i \in DOMAIN net'[s] : \E j \in DOMAIN net[s] : net[s][j] = net'[s][i]
         /\ \A codes : Carries(net'[s], codes) => Carries(net[s], codes)
    BY <1>1, <1>2, <1>9, <1>12, TailOrder
  <1>14. ASSUME NEW hi, Numbered(net[s], 1, hi) PROVE Numbered(net'[s], 1, hi)
    BY <1>1, <1>2, <1>9, <1>14, TailNumbered
  <1>15. ~Turning(net[o]) /\ ~Replying(net[o]) /\ ~(Has(o, "ACB_CONN") /\ ~Sending(o))
    BY <1>1, <1>3, <1>4 DEF PairOK, PhaseOK, TurnOK, ActivityOK
  <1>16. ~Turning(net'[o]) /\ ~Replying(net'[o]) /\ ~(Has(o, "ACB_TURN") /\ ~Sending(o))
    BY <1>1, <1>9, <1>15 DEF NoWord, SideOK, Has
  <1> HIDE DEF o, F
  <1>17. sb'[s].sb_V_M = 1 /\ sb'[s].sb_V_A = 1 /\ NextPoint(s)' = 1
    BY <1>2, <1>13 DEF Counts, NextPoint
  <1>18. /\ \A f : f # "SB_Vact" => (SB(s, f)' <=> SB(s, f))
         /\ \A f : SB(o, f)' <=> SB(o, f)
         /\ \A f : Has(o, f)' <=> Has(o, f)
         /\ Has(s, "ACB_CONN")' /\ ~Has(s, "ACB_TURN")'
         /\ ~Due(s, "minor")' /\ rts'[s].call = rts[s].call /\ rts'[s].left = rts[s].left
         /\ acb'[s].acb_ssn = acb[s].acb_ssn /\ acb'[s].acb_ack = acb[s].acb_ack
    BY <1>3, <1>7, <1>8, <1>9 DEF SB, Has, Due, F
  <1>19. ~Sending(s) /\ ~Sending(s)' /\ (Sending(o)' <=> Sending(o))
         /\ (Receiving(o)' <=> Receiving(o))
    BY <1>3, <1>18 DEF Sending, Receiving
  <1>20. ReceiverOK(s)'
    <2>1. \E hi \in Nat : Numbered(net'[s], 1, hi)
      BY <1>1, <1>5, <1>14 DEF ReceiverOK
    <2>2. 1 <= 1
      OBVIOUS
    <2> QED
      BY <1>1, <1>13, <1>17, <1>18, <2>1, <2>2 DEF ReceiverOK
  <1>21. SenderOK(s)'
    BY <1>1, <1>8, <1>13, <1>18, <1>19 DEF SenderOK
  <1>22. ActivityOK(s, o)'
    <2>1. Carries(net'[o], {"AS", "MIP"}) => Carries(net[o], {"AS", "MIP"})
      BY <1>9, SameCarries
    <2> QED
      BY <1>1, <1>3, <1>9, <1>13, <1>18, <1>19, <2>1 DEF ActivityOK, NoWord
  <1>23. ActivityOK(o, s)'
    BY <1>15, <1>16, <1>18, <1>19 DEF ActivityOK
  <1>24. PointsOK(s, o)'
    BY <1>19 DEF PointsOK
  <1>25. PointsOK(o, s)'
    <2> SUFFICES ASSUME Sending(o) PROVE PointsOK(o, s)'
      BY <1>19 DEF PointsOK
    <2>1. /\ acb[o].acb_ack < 1
          /\ ~SB(o, "SB_MAP") => 1 <= sb[o].sb_V_M /\ Numbered(net'[s], 1, sb[o].sb_V_M)
      BY <1>1, <1>3, <1>5, <1>14 DEF PointsOK
    <2>2. \A i \in DOMAIN net'[s] : net'[s][i].code = "MIP" =>
            net'[s][i].serial < sb[o].sb_V_M
      BY <1>1, <1>13 DEF PointsOK
    <2>3. ASSUME NEW i \in DOMAIN net'[o], net'[o][i].code = "MIA"
          PROVE  /\ acb[o].acb_ack < net'[o][i].serial
                 /\ net'[o][i].serial < sb[o].sb_V_M /\ net'[o][i].serial < 1
      <3>1. PICK j \in DOMAIN net[o] : net[o][j] = net'[o][i]
        BY <1>9, <2>3 DEF SamePoints
      <3> QED
        BY <1>1, <1>3, <1>5, <2>3, <3>1 DEF PointsOK
    <2>4. acb'[o] = acb[o] /\ sb'[o] = sb[o]
      BY <1>8, <1>9
    <2> QED
      BY <1>17, <1>18, <2>1, <2>2, <2>3, <2>4 DEF PointsOK
  <1> QED
    BY <1>11, <1>20, <1>21, <1>22, <1>23, <1>24, <1>25, PointsBothWays DEF o

\* The end of a transfer is read: it counts as a point, and is the last.
LEMMA EndIndPoints ==
    ASSUME RtInv, TransferInv, PointInv, NEW s \in Side, doSSendind(s)
    PROVE  PointInv'
  <1> DEFINE o == Peer(s)
             F == sb[s].sb_flags
             f == (F \ {"SB_Vnextact"}) \cup {"SB_MAA", "SB_AE"}
             M == sb[s].sb_V_M
  <1>1. /\ S!Inv /\ RtLocal /\ SideOK(s) /\ SideOK(o) /\ QueueOK(net[s]) /\ QueueOK(net[o])
        /\ PairOK(o, s) /\ PairOK(s, o) /\ o \in Side /\ o # s
        /\ ReceiverOK(s) /\ SenderOK(s)
        /\ ActivityOK(s, o) /\ ActivityOK(o, s) /\ PointsOK(o, s)
        /\ acb[s] \in assocblk /\ rts[s] \in thread
        /\ M \in Nat /\ sb[s].sb_V_A \in Nat /\ acb[o].acb_ack \in Nat
        /\ net[s] \in Seq(S!Spdu)
        /\ \A i \in DOMAIN net[o] : net[o][i].serial \in Nat
    BY Known, PointsKnown, NumberTypes, Sides DEF RtInv
  <1>2. /\ Takes(s, f, sb[s].sb_owned) /\ CountsPoint(s)
        /\ Waits(s) /\ net[s] # << >> /\ Head(net[s]).code = "AE"
    BY <1>1, ReadTakes, ReadCounts DEF doSSendind, Reads
  <1>3. /\ Has(s, "ACB_CONN") /\ ~Has(s, "ACB_TURN") /\ Ending(net[s]) /\ ~Speaking(net'[s])
    <2>1. SB(s, "SB_CONN") /\ Ending(net[s]) /\ ~Speaking(net'[s])
      BY <1>1, <1>2, TakesKeeps DEF Takes, ClosingCode
    <2> QED
      BY <1>1, <2>1 DEF SideOK, PairOK, TurnOK, Speaking
  <1>4. PICK do \in {"end_resp", "report", "lose"} :
          Goes(s, acb[s], [rts[s] EXCEPT !.do = do])
    BY DEF doSSendind, Owes
  <1> DEFINE r == [rts[s] EXCEPT !.do = do]
  <1>5. r.do = do /\ r.call = rts[s].call /\ r.left = rts[s].left
    BY <1>1 DEF thread
  <1> HIDE DEF r
  <1>6. /\ acb'[s] = acb[s] /\ rts'[s] = r /\ acb'[o] = acb[o] /\ rts'[o] = rts[o]
        /\ mode' = mode
    BY <1>1, <1>4, GoesEffect DEF r
  <1>7. /\ net'[s] = Tail(net[s]) /\ sb'[s].sb_flags = f /\ sb'[o] = sb[o]
        /\ SamePoints(net[o], net'[o]) /\ NoWord(net[o], net'[o]) /\ NoWord(net[s], net'[s])
        /\ SamePoints(net[s], net'[s])
    BY <1>1, <1>2, TakesPlain DEF Takes, Stores
  <1>8. Frame(s)
    BY <1>6, <1>7 DEF Frame
  <1>9. ReceiverOK(o)' /\ SenderOK(o)'
    BY <1>6, <1>7, <1>8, PeerPoints
  <1>10. ~Starting(net'[s]) /\ ~Starting(net[s]) /\ ~Carries(net'[s], {"MIP"})
    BY <1>3, <1>7 DEF Speaking, Body, Carries, Starting, SamePoints
  <1>11. NextPoint(s) = M
    BY <1>10 DEF NextPoint
  <1> HIDE DEF o, f
  <1>12. /\ sb'[s].sb_V_M = M + 1 /\ sb'[s].sb_V_A \in Nat /\ sb'[s].sb_V_A <= M
         /\ NextPoint(s)' = M + 1
    BY <1>1, <1>2, <1>10 DEF CountsPoint, Counts, ReceiverOK, NextPoint
  <1>13. /\ ~SB(s, "SB_Vnextact")' /\ (SB(s, "SB_Vact")' <=> SB(s, "SB_Vact"))
         /\ \A g : SB(o, g)' <=> SB(o, g)
         /\ \A g : Has(o, g)' <=> Has(o, g)
         /\ \A g : Has(s, g)' <=> Has(s, g)
         /\ ~Due(s, "minor")'
    BY <1>5, <1>6, <1>7 DEF SB, Has, Due, f
  <1>14. /\ ~Sending(s)' /\ ~Sending(s) /\ (Sending(o)' <=> Sending(o))
         /\ (Receiving(o)' <=> Receiving(o)) /\ (Receiving(s)' <=> Receiving(s))
    BY <1>3, <1>13 DEF Sending, Receiving
  <1>15. ASSUME NEW codes \in SUBSET {"AS", "MIP", "MIA"}
         PROVE  /\ Carries(net'[s], codes) => Carries(net[s], codes)
                /\ Carries(net'[o], codes) => Carries(net[o], codes)
    BY <1>7, SameCarries
  <1>16. ReceiverOK(s)'
    <2>1. Numbered(net'[s], M + 1, M + 1) /\ M + 1 \in Nat
      BY <1>1, <1>10, NoPoints
    <2>2. OrderOK(net'[s])
      BY <1>1, <1>7 DEF SamePoints, ReceiverOK
    <2>3. sb'[s].sb_V_A <= M + 1
      BY <1>1, <1>12
    <2> QED
      BY <1>10, <1>12, <1>13, <2>1, <2>2, <2>3 DEF ReceiverOK
  <1>17. SenderOK(s)'
    BY <1>1, <1>5, <1>6, <1>13, <1>14, <1>15 DEF SenderOK
  <1>18. ActivityOK(s, o)'
    BY <1>1, <1>3, <1>7, <1>13, <1>14, <1>15 DEF ActivityOK, NoWord
  <1>19. ActivityOK(o, s)'
    BY <1>1, <1>3, <1>7, <1>13, <1>14, <1>15 DEF ActivityOK, NoWord
  <1>20. PointsOK(s, o)'
    BY <1>14 DEF PointsOK
  <1>21. PointsOK(o, s)'
    <2> SUFFICES ASSUME Sending(o) PROVE PointsOK(o, s)'
      BY <1>14 DEF PointsOK
    <2>1. Has(o, "ACB_CONN")
      BY <1>1 DEF SideOK, Sending, Has
    <2>2. SB(o, "SB_MAP") /\ acb[o].acb_ack < M
      BY <1>1, <1>3, <1>11, <2>1 DEF PairOK, PhaseOK, PointsOK
    <2>3. \A i \in DOMAIN net'[s] : net'[s][i].code # "MIP"
      BY <1>10 DEF Carries
    <2>4. ASSUME NEW i \in DOMAIN net'[o], net'[o][i].code = "MIA"
          PROVE  /\ acb[o].acb_ack < net'[o][i].serial
                 /\ net'[o][i].serial < sb[o].sb_V_M /\ net'[o][i].serial < M + 1
      <3>1. PICK j \in DOMAIN net[o] : net[o][j] = net'[o][i]
        BY <1>7, <2>4 DEF SamePoints
      <3>2. net[o][j].serial < M /\ net[o][j].serial \in Nat
        BY <1>1, <1>3, <1>11, <2>4, <3>1 DEF PointsOK
      <3> QED
        BY <1>1, <2>4, <3>1, <3>2 DEF PointsOK
    <2>5. acb'[o] = acb[o] /\ sb'[o] = sb[o] /\ acb[o].acb_ack < M + 1
      BY <1>1, <1>6, <1>7, <2>2
    <2> QED
      BY <1>12, <1>13, <2>2, <2>3, <2>4, <2>5 DEF PointsOK
  <1> QED
    BY <1>9, <1>16, <1>17, <1>18, <1>19, <1>20, <1>21, PointsBothWays DEF o

\* A point is confirmed: it is later than those whose confirmation is under
\* way, and none the reader was not shown.
LEMMA ConfirmPoints ==
    ASSUME RtInv, TransferInv, PointInv, NEW s \in Side, MinorConfirmed(s)
    PROVE  PointInv'
  <1> DEFINE o == Peer(s)
             F == sb[s].sb_flags
             M == sb[s].sb_V_M
             k == rts[s].ssn
             r == [rts[s] EXCEPT !.do = "none"]
  <1>1. /\ S!Inv /\ RtLocal /\ SideOK(s) /\ SideOK(o) /\ o \in Side /\ o # s
        /\ PairOK(o, s)
        /\ ReceiverOK(s) /\ SenderOK(s) /\ ReceiverOK(o) /\ SenderOK(o)
        /\ ActivityOK(s, o) /\ ActivityOK(o, s) /\ PointsOK(o, s)
        /\ acb[s] \in assocblk /\ rts[s] \in thread
        /\ M \in Nat /\ k \in Nat /\ net[o] \in Seq(S!Spdu)
    BY Known, PointsKnown, NumberTypes, Sides DEF RtInv
  <1>2. /\ Due(s, "minor") /\ Writes(s, "MIA", F, sb[s].sb_owned) /\ Counts(s, k + 1, M)
    BY <1>1, PointWrites, RequestCounts DEF MinorConfirmed
  <1>3. /\ Receiving(s) /\ k < M /\ Has(s, "ACB_CONN") /\ ~Starting(net[s])
        /\ mode.ckpoint /\ ~Has(s, "ACB_TURN")
    <2>1. SB(s, "SB_CONN")
      BY <1>2 DEF Writes
    <2> QED
      BY <1>1, <1>2, <2>1 DEF ReceiverOK, SenderOK, SideOK, Receiving
  <1>4. ~Replying(net[o]) /\ (Has(o, "ACB_CONN") => Sending(o)) /\ NextPoint(s) = M
        /\ (Has(o, "ACB_TURN") => Sending(o))
    BY <1>1, <1>3 DEF PairOK, PhaseOK, Held, ActivityOK, NextPoint, SideOK, Has
  <1>5. Goes(s, acb[s], r)
    BY DEF MinorConfirmed, Done
  <1>6. r.do = "none" /\ r.call = rts[s].call /\ r.left = rts[s].left
    BY <1>1 DEF thread
  <1> HIDE DEF r
  <1>7. /\ acb'[s] = acb[s] /\ rts'[s] = r /\ acb'[o] = acb[o] /\ rts'[o] = rts[o]
        /\ mode' = mode
    BY <1>1, <1>5, GoesEffect
  <1>8. /\ net'[s] = net[s] /\ Grows(o, "MIA") /\ sb'[s].sb_flags = F /\ sb'[o] = sb[o]
    BY <1>2 DEF Writes, Stores
  <1>9. sb'[s].sb_V_M = M /\ sb'[s].sb_V_A <= M
    BY <1>1, <1>2, <1>3 DEF Counts
  <1>10. Has(o, "ACB_CONN") =>
           \E p \in S!Spdu : /\ p.code = "MIA" /\ p.serial = k
                             /\ net'[o] = Append(net[o], p)
    BY <1>1, PointSent DEF MinorConfirmed, SideOK
  <1> HIDE DEF o, F
  <1>11. ~Has(o, "ACB_CONN") => net'[o] = net[o] /\ net[o] = << >>
    BY <1>1, <1>8, GoneQueue DEF Grows, SideOK
  <1>12. /\ \A f : SB(s, f)' <=> SB(s, f)
         /\ \A f : SB(o, f)' <=> SB(o, f)
         /\ \A f : Has(o, f)' <=> Has(o, f)
         /\ \A f : Has(s, f)' <=> Has(s, f)
         /\ ~Due(s, "minor")' /\ (Due(o, "minor")' <=> Due(o, "minor"))
    BY <1>6, <1>7, <1>8 DEF SB, Has, Due, F
  <1>13. /\ ~Sending(s)' /\ ~Sending(s) /\ (Sending(o)' <=> Sending(o))
         /\ (Receiving(o)' <=> Receiving(o))
    BY <1>3, <1>12 DEF Sending, Receiving
  \* the queue of the peer: the confirmation has come to it, if it is there
  <1>14. /\ OrderOK(net'[o]) /\ (Starting(net'[o]) <=> Starting(net[o]))
         /\ \A lo, hi : Numbered(net[o], lo, hi) => Numbered(net'[o], lo, hi)
         /\ \A i \in DOMAIN net'[o] : \/ i \in DOMAIN net[o] /\ net'[o][i] = net[o][i]
                                      \/ net'[o][i].code = "MIA" /\ net'[o][i].serial = k
         /\ \A codes : "MIA" \notin codes => (Carries(net'[o], codes) <=> Carries(net[o], codes))
    <2>1. CASE Has(o, "ACB_CONN")
      <3>1. PICK p \in S!Spdu : p.code = "MIA" /\ p.serial = k /\ net'[o] = Append(net[o], p)
        BY <1>10, <2>1
      <3>2. \A i \in DOMAIN net[o] : net[o][i].code = "MIA" => net[o][i].serial < p.serial
        BY <1>1, <1>2, <1>4, <2>1, <3>1 DEF PointsOK
      <3>3. OrderOK(net[o])
        BY <1>1 DEF ReceiverOK
      <3>4. \A codes : Carries(net'[o], codes) <=> Carries(net[o], codes) \/ "MIA" \in codes
        BY <1>1, <3>1, AppendCarries
      <3>5. /\ OrderOK(net'[o]) /\ (Starting(net'[o]) <=> Starting(net[o]))
            /\ \A lo, hi : Numbered(net[o], lo, hi) => Numbered(net'[o], lo, hi)
            /\ \A i \in DOMAIN net'[o] : \/ i \in DOMAIN net[o] /\ net'[o][i] = net[o][i]
                                         \/ net'[o][i] = p
        BY <1>1, <1>4, <3>1, <3>2, <3>3, AppendConfirm
      <3> QED
        BY <3>1, <3>4, <3>5
    <2>2. CASE ~Has(o, "ACB_CONN")
      BY <1>1, <1>11, <2>2 DEF ReceiverOK
    <2> QED
      BY <2>1, <2>2
  <1>15. NextPoint(o)' = NextPoint(o) /\ NextPoint(s)' = M
    BY <1>3, <1>8, <1>9, <1>14 DEF NextPoint
  <1>16. ReceiverOK(s)'
    BY <1>1, <1>3, <1>4, <1>8, <1>9, <1>12, <1>15 DEF ReceiverOK
  <1>17. SenderOK(s)'
    BY <1>1, <1>3, <1>7, <1>13 DEF SenderOK
  <1>18. ReceiverOK(o)'
    <2>1. \E hi \in Nat : Numbered(net'[o], NextPoint(o), hi)
      BY <1>1, <1>14 DEF ReceiverOK
    <2> QED
      BY <1>1, <1>7, <1>8, <1>12, <1>13, <1>14, <1>15, <2>1 DEF ReceiverOK
  <1>19. SenderOK(o)'
    BY <1>1, <1>3, <1>7, <1>8, <1>13 DEF SenderOK
  <1>20. ActivityOK(s, o)'
    <2>1. Carries(net'[o], {"AS", "MIP"}) <=> Carries(net[o], {"AS", "MIP"})
      BY <1>14
    <2> QED
      BY <1>1, <1>8, <1>12, <1>13, <2>1 DEF ActivityOK
  <1>21. ActivityOK(o, s)'
    <2>1. (Turning(net'[o]) \/ Replying(net'[o])) <=> (Turning(net[o]) \/ Replying(net[o]))
      BY <1>14 DEF Turning, Replying, Confirming, Agreeing
    <2> QED
      BY <1>1, <1>4, <1>12, <1>13, <2>1 DEF ActivityOK
  <1>22. PointsOK(s, o)'
    BY <1>13 DEF PointsOK
  <1>23. PointsOK(o, s)'
    <2> SUFFICES ASSUME Sending(o) PROVE PointsOK(o, s)'
      BY <1>13 DEF PointsOK
    <2>1. acb'[o] = acb[o] /\ sb'[o] = sb[o]
      BY <1>7, <1>8
    <2>2. ASSUME NEW i \in DOMAIN net'[o], net'[o][i].code = "MIA"
          PROVE  /\ acb[o].acb_ack < net'[o][i].serial
                 /\ net'[o][i].serial < sb[o].sb_V_M /\ net'[o][i].serial < M
      <3>1. CASE i \in DOMAIN net[o] /\ net'[o][i] = net[o][i]
        BY <1>1, <1>3, <1>4, <2>2, <3>1 DEF PointsOK
      <3>2. CASE net'[o][i].serial = k
        BY <1>1, <1>2, <1>3, <3>2 DEF PointsOK
      <3> QED
        BY <1>14, <3>1, <3>2
    <2> QED
      BY <1>1, <1>4, <1>8, <1>12, <1>15, <2>1, <2>2 DEF PointsOK
  <1> QED
    BY <1>16, <1>17, <1>18, <1>19, <1>20, <1>21, <1>22, <1>23, PointsBothWays DEF o

\* The answer that ends a transfer is read: nothing of its points is left.
LEMMA EndedPoints ==
    ASSUME RtInv, TransferInv, PointInv, NEW s \in Side,
           NEW flags, NEW owned, Takes(s, flags, owned), Head(net[s]).code \in ReplyCode,
           "SB_Vnextact" \notin flags,
           \E n \in {sb[s].sb_V_A, sb[s].sb_V_M} : Counts(s, n, sb[s].sb_V_M),
           Waits(s), Sending(s), Ended(s, acb[s])
    PROVE  PointInv'
  <1> DEFINE o == Peer(s)
             M == sb[s].sb_V_M
  <1>1. /\ S!Inv /\ RtLocal /\ SideOK(s) /\ QueueOK(net[s]) /\ QueueOK(net[o])
        /\ PairOK(s, o) /\ PairOK(o, s) /\ o \in Side /\ o # s
        /\ ReceiverOK(s) /\ SenderOK(s) /\ ActivityOK(s, o) /\ ActivityOK(o, s)
        /\ acb[s] \in assocblk /\ rts[s] \in thread
        /\ M \in Nat /\ sb[s].sb_V_A \in Nat /\ net[s] \in Seq(S!Spdu)
    BY Known, PointsKnown, NumberTypes, Sides DEF RtInv
  <1>2. /\ Replying(net[s]) /\ Has(s, "ACB_TURN") /\ Has(s, "ACB_CONN")
    <2>1. Replying(net[s]) /\ SB(s, "SB_CONN")
      BY <1>1, TakesKeeps DEF Takes, Replying, ReplyCode
    <2> QED
      BY <1>1, <2>1 DEF SideOK, Sending
  <1>3. /\ ~Speaking(net[o]) /\ ~Receiving(o) /\ ~SB(o, "SB_Vact") /\ ~Speaking(net[s])
        /\ ~Has(o, "ACB_TURN")
    BY <1>1, <1>2 DEF PairOK, PhaseOK, TurnOK, Held, ActivityOK
  <1>4. ~Replying(net[o]) /\ ~Turning(net[o])
    BY <1>1, <1>3, NoAnswerDue DEF Speaking
  <1>5. /\ acb'[o] = acb[o] /\ rts'[o] = rts[o] /\ mode' = mode
        /\ Has(s, "ACB_CONN")' /\ Has(s, "ACB_TURN")' /\ ~Has(s, "ACB_ACT")'
        /\ acb'[s].acb_ssn = acb[s].acb_ssn /\ acb'[s].acb_ack = acb[s].acb_ack
        /\ rts'[s].do = "none"
        /\ rts'[s].call = "idle" \/ rts'[s] = rts[s]
    <2>1. rts[s].do = "none"
      BY DEF Waits, At
    <2>2. CASE rts[s].call # "ack"
      <3> DEFINE a == Without(acb[s], {"ACB_ACT"})
      <3>1. Goes(s, a, rts[s])
        BY <2>2 DEF Ended
      <3>2. /\ a.acb_flags = acb[s].acb_flags \ {"ACB_ACT"}
            /\ a.acb_ssn = acb[s].acb_ssn /\ a.acb_ack = acb[s].acb_ack
        BY <1>1 DEF Without, assocblk
      <3> HIDE DEF a
      <3>3. /\ acb'[s] = a /\ rts'[s] = rts[s]
            /\ acb'[o] = acb[o] /\ rts'[o] = rts[o] /\ mode' = mode
        BY <1>1, <3>1, GoesEffect
      <3> QED
        BY <1>2, <2>1, <3>2, <3>3 DEF Has
    <2>3. CASE rts[s].call = "ack"
      <3> DEFINE a == [Without(acb[s], {"ACB_ACT", "ACB_TIMER"}) EXCEPT
                         !.acb_actno = @ + 1]
      <3>1. /\ acb' = [acb EXCEPT ![s] = a] /\ rts' = [rts EXCEPT ![s] = Idle]
            /\ mode' = mode
        BY <2>3 DEF Ended
      <3>2. /\ a.acb_flags = acb[s].acb_flags \ {"ACB_ACT", "ACB_TIMER"}
            /\ a.acb_ssn = acb[s].acb_ssn /\ a.acb_ack = acb[s].acb_ack
        BY <1>1 DEF Without, assocblk
      <3> HIDE DEF a
      <3>3. /\ acb'[s] = a /\ rts'[s] = Idle /\ acb'[o] = acb[o] /\ rts'[o] = rts[o]
        BY <1>1, <3>1 DEF RtLocal
      <3> QED
        BY <1>2, <3>1, <3>2, <3>3 DEF Has, Idle
    <2> QED
      BY <2>2, <2>3
  <1>6. /\ net'[s] = Tail(net[s]) /\ sb'[s].sb_flags = flags /\ sb'[o] = sb[o]
        /\ SamePoints(net[o], net'[o]) /\ NoWord(net[o], net'[o])
        /\ SamePoints(net[s], net'[s])
    BY <1>1, TakesPlain DEF Takes, Stores, ReplyCode
  <1>7. Frame(s)
    BY <1>5, <1>6 DEF Frame
  <1>8. ReceiverOK(o)' /\ SenderOK(o)'
    BY <1>5, <1>6, <1>7, PeerPoints
  <1>9. ~Carries(net'[s], {"MIA"})
    <2>1. OrderOK(net[s]) /\ net[s] # << >>
      BY <1>1 DEF ReceiverOK, Takes
    <2>2. ~Carries(Tail(net[s]), {"MIA"})
      BY <1>1, <2>1, TailOrder
    <2> QED
      BY <1>6, <2>2
  <1> HIDE DEF o
  <1>10. ASSUME NEW codes \in SUBSET {"AS", "MIP", "MIA"}
         PROVE  /\ Carries(net'[s], codes) => Carries(net[s], codes)
                /\ Carries(net'[o], codes) => Carries(net[o], codes)
    BY <1>6, SameCarries
  <1>11. ~Starting(net[s]) /\ ~Carries(net[o], {"AS", "MIP"})
    BY <1>3 DEF Speaking, Body, Starting, Carries
  <1>12. /\ sb'[s].sb_V_M = M /\ sb'[s].sb_V_A <= M
         /\ NextPoint(s)' = NextPoint(s) /\ ~Starting(net'[s])
    BY <1>1, <1>6, <1>11 DEF Counts, ReceiverOK, NextPoint, SamePoints
  <1>13. /\ ~SB(s, "SB_Vnextact")' /\ (SB(o, "SB_Vact")' <=> SB(o, "SB_Vact"))
         /\ \A f : Has(o, f)' <=> Has(o, f)
         /\ ~Due(s, "minor")'
         /\ ~Sending(s)' /\ ~Receiving(s)' /\ ~Receiving(o)' /\ ~Sending(o)'
    BY <1>3, <1>5, <1>6 DEF SB, Has, Due, Sending, Receiving
  <1>14. ReceiverOK(s)'
    <2>1. PICK hi \in Nat : Numbered(net[s], NextPoint(s), hi)
      BY <1>1 DEF ReceiverOK
    <2>2. Numbered(net'[s], NextPoint(s), hi) /\ OrderOK(net'[s])
      BY <1>1, <1>6, <2>1 DEF SamePoints, ReceiverOK
    <2> QED
      BY <1>12, <1>13, <2>2 DEF ReceiverOK
  <1>15. SenderOK(s)'
    BY <1>1, <1>5, <1>10, <1>13 DEF SenderOK
  <1>16. ActivityOK(s, o)'
    BY <1>3, <1>9, <1>10, <1>11, <1>13 DEF ActivityOK
  <1>17. ActivityOK(o, s)'
    BY <1>1, <1>3, <1>4, <1>6, <1>10, <1>13 DEF ActivityOK, NoWord, Sending
  <1>18. PointsOK(s, o)' /\ PointsOK(o, s)'
    BY <1>13 DEF PointsOK
  <1> QED
    BY <1>8, <1>14, <1>15, <1>16, <1>17, <1>18, PointsBothWays DEF o

\* The confirmation of a discard, of an interrupt or of a transfer.
LEMMA AnswerPoints ==
    ASSUME RtInv, TransferInv, PointInv, NEW s \in Side, doSSdisccnf(s) \/ doSSendcnf(s)
    PROVE  PointInv'
  <1> DEFINE F == sb[s].sb_flags
             A == sb[s].sb_V_A
             M == sb[s].sb_V_M
  <1>1. /\ S!Inv /\ RtLocal /\ SideOK(s) /\ QueueOK(net[s]) /\ ReceiverOK(s)
        /\ rts[s] \in thread
    BY Known, PointsKnown, NumberTypes DEF RtInv
  <1>2. "SB_Vnextact" \notin F
    BY <1>1 DEF ReceiverOK, SB
  <1>3. CASE doSSendcnf(s)
    <2> DEFINE f == S!NextAct(sb[s]) \ {"SB_MAP", "SB_AE"}
    <2>1. /\ Takes(s, f, sb[s].sb_owned) /\ Counts(s, M, M) /\ Waits(s)
          /\ Head(net[s]).code = "MAA"
      BY <1>1, <1>3, ReadTakes, ReadCounts DEF doSSendcnf, Reads
    <2>2. Sending(s) /\ Ended(s, acb[s])
      BY <1>3, ConfirmedInv DEF doSSendcnf
    <2>3. "SB_Vnextact" \notin f
      BY <1>2 DEF S!NextAct
    <2> HIDE DEF f
    <2> QED
      BY <2>1, <2>2, <2>3, EndedPoints DEF ReplyCode
  <1>4. ASSUME NEW code \in {"AIA", "ADA"}, Reads(s, code), S!ReadAIA(s),
               IF Sending(s) THEN Ended(s, acb[s]) ELSE Owes(s, "lose")
        PROVE  PointInv'
    <2> DEFINE f == F \ {"SB_AI", "SB_Vact"}
    <2>1. /\ Takes(s, f, Tokens) /\ Counts(s, A, M) /\ Waits(s)
          /\ Head(net[s]).code = code
      BY <1>1, <1>4, ReadTakes, ReadCounts DEF Reads
    <2>2. /\ "SB_Vnextact" \notin f /\ "SB_Vact" \notin f
          /\ SB(s, "SB_MAP") => "SB_MAP" \in f
          /\ "SB_ED" \in f => SB(s, "SB_ED")
      BY <1>2 DEF SB
    <2> HIDE DEF f
    <2>3. CASE Sending(s)
      BY <1>4, <2>1, <2>2, <2>3, EndedPoints DEF ReplyCode
    <2>4. CASE ~Sending(s)
      <3> DEFINE r == [rts[s] EXCEPT !.do = "lose"]
      <3>1. r.do = "lose" /\ r.call = rts[s].call /\ r.left = rts[s].left
        BY <1>1 DEF thread
      <3>2. Goes(s, acb[s], r) /\ CalmBlock(s, acb[s])
        BY <1>4, <2>4 DEF Owes, CalmBlock
      <3> HIDE DEF r
      <3>3. Paced(s)'
        BY <1>1, <3>1, <3>2, PaceStays
      <3>4. CalmSession(s, f)
        BY <2>1, <2>2 DEF CalmSession
      <3> QED
        BY <3>1, <3>2, <3>3, <3>4, CalmStep
    <2> QED
      BY <2>3, <2>4
  <1> QED
    BY <1>3, <1>4 DEF doSSdisccnf

-----------------------------------------------------------------------------
(* The association goes, or nothing but the transport does anything.       *)

\* The way in which a block goes sends no point.
LEMMA FreesPoints ==
    ASSUME S!Inv, NEW s \in Side,
           NEW why, NEW q \in {<< >>, <<S!AB>>, <<S!newspkt("DN")>>},
           S!freesblk(s, why, q)
    PROVE  SamePoints(net[Peer(s)], net'[Peer(s)])
  <1> DEFINE o == Peer(s)
             n == net[o]
  <1>1. o \in Side /\ o # s /\ S!Peer(s) = o /\ DOMAIN net = Side
    BY Sides, SessionTypes
  <1>2. net' = [net EXCEPT ![s] = << >>, ![o] = S!Deliver(o, Append(q, S!TDISC))]
    BY <1>1 DEF S!freesblk
  <1> HIDE DEF o
  <1>3. net'[o] = S!Deliver(o, Append(q, S!TDISC))
    BY <1>1, <1>2
  <1>4. n \in Seq(S!Spdu) /\ (~SB(o, "SB_CONN") => n = << >>)
    BY <1>1, SessionTypes DEF o
  <1>5. ASSUME NEW m \in Seq(S!Spdu), NEW p \in {S!TDISC, S!AB, S!newspkt("DN")}
        PROVE  SamePoints(m, Append(m, p)) /\ Append(m, p) \in Seq(S!Spdu)
    <2>1. p \in S!Spdu /\ p.code \notin {"AS", "MIP", "MIA"}
      BY <1>5, DisconnectSpdus
    <2> QED
      BY <1>5, <2>1, AppendPlain
  <1> HIDE DEF n
  <1>6. ASSUME NEW p \in {S!AB, S!newspkt("DN")}
        PROVE  SamePoints(n, Append(Append(n, p), S!TDISC))
    <2> DEFINE m == Append(n, p)
    <2>1. SamePoints(n, m) /\ m \in Seq(S!Spdu)
      BY <1>4, <1>5
    <2> HIDE DEF m
    <2>2. SamePoints(m, Append(m, S!TDISC))
      BY <1>5, <2>1
    <2>3. SamePoints(n, Append(m, S!TDISC))
      BY <2>1, <2>2, SameTwice
    <2> QED
      BY <2>3 DEF m
  <1>7. n \o Append(<< >>, S!TDISC) = Append(n, S!TDISC)
    BY <1>4, DisconnectSpdus
  <1>8. ASSUME NEW p \in {S!AB, S!newspkt("DN")}
        PROVE  n \o Append(<<p>>, S!TDISC) = Append(Append(n, p), S!TDISC)
    <2>1. p \in S!Spdu /\ S!TDISC \in S!Spdu
      BY DisconnectSpdus
    <2> QED
      BY <1>4, <2>1
  <1>9. SamePoints(n, Append(n, S!TDISC))
    BY <1>4, <1>5
  <1>10. SB(o, "SB_CONN") => SamePoints(n, n \o Append(q, S!TDISC))
    BY <1>6, <1>7, <1>8, <1>9
  <1> QED
    BY <1>3, <1>4, <1>10, SameItself DEF S!Deliver, S!Connected, SB, n, o

\* Whoever loses the association, the other may still hold points of it.
LEMMA FreedPoints ==
    ASSUME RtInv, TransferInv, PointInv, NEW s \in Side, freeacblk(s),
           NEW why, NEW q \in {<< >>, <<S!AB>>, <<S!newspkt("DN")>>},
           S!freesblk(s, why, q)
    PROVE  PointInv'
  <1> DEFINE o == Peer(s)
  <1>1. /\ S!Inv /\ RtLocal /\ QueueOK(net[o]) /\ o \in Side /\ o # s
        /\ ActivityOK(o, s) /\ PointsOK(o, s)
    BY Known, PointsKnown, Sides DEF RtInv
  <1>2. Frees(s) /\ SamePoints(net[o], net'[o])
    BY <1>1, FreesBlock, FreesPoints
  <1>3. /\ acb'[s] = newacblk /\ rts'[s] = [Idle EXCEPT !.whole = rts[s].whole]
        /\ acb'[o] = acb[o] /\ rts'[o] = rts[o] /\ mode' = mode
    BY <1>1, GoesEffect DEF freeacblk
  <1>4. /\ rts'[s].call = "idle" /\ rts'[s].do = "none" /\ acb'[s].acb_flags = {}
        /\ acb'[s].acb_ssn = 0 /\ acb'[s].acb_ack = 0
    BY <1>3 DEF Idle, newacblk
  <1>5. /\ sb'[s].sb_flags = {} /\ sb'[s].sb_V_A = sb'[s].sb_V_M /\ sb'[s].sb_V_M \in Nat
        /\ sb'[o] = sb[o] /\ net'[s] = << >>
        /\ NoWord(net[o], net'[o])
    BY <1>2 DEF Frees, S!newsblk, Adds, NoWord, Replying
  <1>6. /\ \A codes : ~Carries(net'[s], codes)
        /\ DOMAIN net'[s] = {}
    BY <1>5, EmptyQueue
  <1>7. Frame(s)
    BY <1>3, <1>5 DEF Frame
  <1>8. ReceiverOK(o)' /\ SenderOK(o)'
    BY <1>2, <1>3, <1>7, PeerPoints
  <1> HIDE DEF o
  <1>9. /\ \A f : ~SB(s, f)' /\ ~Has(s, f)'
        /\ \A f : Has(o, f)' <=> Has(o, f)
        /\ ~Sending(s)' /\ ~Receiving(s)' /\ (Sending(o)' <=> Sending(o))
        /\ ~Due(s, "minor")' /\ ~Starting(net'[s])
    BY <1>3, <1>4, <1>5, <1>6 DEF SB, Has, Sending, Receiving, Due, Starting
  <1>10. ReceiverOK(s)'
    <2>1. NextPoint(s)' = sb'[s].sb_V_M
      BY <1>9 DEF NextPoint
    <2>2. Numbered(net'[s], sb'[s].sb_V_M, sb'[s].sb_V_M)
      BY <1>5, <1>6, NoPoints
    <2>3. OrderOK(net'[s]) /\ sb'[s].sb_V_A <= sb'[s].sb_V_M
      BY <1>5, <1>6 DEF OrderOK
    <2> QED
      BY <1>5, <1>9, <2>1, <2>2, <2>3 DEF ReceiverOK
  <1>11. SenderOK(s)'
    BY <1>4, <1>6, <1>9 DEF SenderOK
  <1>12. ActivityOK(s, o)'
    BY <1>6, <1>9 DEF ActivityOK, Turning, Replying, Confirming, Agreeing
  <1>13. ActivityOK(o, s)'
    <2>1. Carries(net'[o], {"MIA"}) => Carries(net[o], {"MIA"})
      BY <1>2, SameCarries
    <2> QED
      BY <1>1, <1>6, <1>9, <2>1 DEF ActivityOK
  <1>14. PointsOK(s, o)'
    BY <1>9 DEF PointsOK
  <1>15. PointsOK(o, s)'
    <2>1. ASSUME Sending(o), NEW i \in DOMAIN net'[o], net'[o][i].code = "MIA"
          PROVE  /\ acb[o].acb_ack < net'[o][i].serial
                 /\ net'[o][i].serial < sb[o].sb_V_M
      <3>1. PICK j \in DOMAIN net[o] : net[o][j] = net'[o][i]
        BY <1>2, <2>1 DEF SamePoints
      <3> QED
        BY <1>1, <2>1, <3>1 DEF PointsOK
    <2> QED
      BY <1>3, <1>5, <1>6, <1>9, <2>1 DEF PointsOK
  <1> QED
    BY <1>8, <1>10, <1>11, <1>12, <1>13, <1>14, <1>15, PointsBothWays DEF o

LEMMA GonePoints ==
    ASSUME RtInv, TransferInv, PointInv, NEW s \in Side, Losing(s)
    PROVE  PointInv'
  <1>1. /\ freeacblk(s)
        /\ \/ S!SUAbortRequest(s) \/ S!ReadAB(s) \/ S!TDiscRead(s) \/ S!RelDN(s)
           \/ S!RelAB(s) \/ S!RelMangled(s) \/ S!SRelAccept(s) \/ S!SRelResponseFails(s)
    BY DEF Losing, Refused, doSSabort, Lose, RtEndReturns, RtEndResponse
  <1>2. \/ S!freesblk(s, "uabort", <<S!AB>>) \/ S!freesblk(s, "abort", << >>)
        \/ S!freesblk(s, "disc", << >>) \/ S!freesblk(s, "released", << >>)
        \/ S!freesblk(s, "protocol", <<S!AB>>)
        \/ S!freesblk(s, "released", <<S!newspkt("DN")>>)
    BY <1>1 DEF S!SUAbortRequest, S!ReadAB, S!TDiscRead, S!RelDN, S!RelAB, S!RelMangled,
                S!SRelAccept, S!SRelResponseFails
  <1>3. ASSUME NEW why, NEW q \in {<< >>, <<S!AB>>, <<S!newspkt("DN")>>},
               S!freesblk(s, why, q)
        PROVE  PointInv'
    BY <1>1, <1>3, FreedPoints
  <1> QED
    BY <1>2, <1>3

\* Nothing but what is under way changes, and no point of it.
LEMMA StillPoints ==
    ASSUME PointInv, UNCHANGED rtsvars, sb' = sb,
           \A s \in Side : SamePoints(net[s], net'[s]) /\ NoWord(net[s], net'[s])
    PROVE  PointInv'
  <1>1. mode' = mode /\ acb' = acb /\ rts' = rts
    BY DEF rtsvars
  <1>2. ASSUME NEW s \in Side
        PROVE  ReceiverOK(s)' /\ SenderOK(s)' /\ NextPoint(s)' = NextPoint(s)
    <2>1. Frame(Peer(s)) /\ Peer(s) \in Side /\ Peer(Peer(s)) = s
      BY <1>1, Sides DEF Frame
    <2>2. SamePoints(net[s], net'[s])
      OBVIOUS
    <2>3. ReceiverOK(s)' /\ SenderOK(s)'
      BY <1>1, <2>1, <2>2, PeerPoints
    <2> QED
      BY <2>2, <2>3 DEF NextPoint, SamePoints
  <1>3. ASSUME NEW m \in Side, NEW p \in Side, ActivityOK(m, p), PointsOK(m, p)
        PROVE  ActivityOK(m, p)' /\ PointsOK(m, p)'
    <2>1. /\ SamePoints(net[m], net'[m]) /\ SamePoints(net[p], net'[p])
          /\ NoWord(net[m], net'[m]) /\ NextPoint(p)' = NextPoint(p)
      BY <1>2
    <2>2. /\ Carries(net'[m], {"MIA"}) => Carries(net[m], {"MIA"})
          /\ Carries(net'[p], {"AS", "MIP"}) => Carries(net[p], {"AS", "MIP"})
      BY <2>1, SameCarries
    <2>3. ActivityOK(m, p)'
      BY <1>1, <1>3, <2>1, <2>2 DEF ActivityOK, NoWord, Has, Sending, Receiving, SB
    <2>4. /\ \A i \in DOMAIN net'[m] : net'[m][i].code \in {"MIP", "MIA"} =>
               \E j \in DOMAIN net[m] : net[m][j] = net'[m][i]
          /\ \A i \in DOMAIN net'[p] : net'[p][i].code \in {"MIP", "MIA"} =>
               \E j \in DOMAIN net[p] : net[p][j] = net'[p][i]
          /\ \A lo, hi : Numbered(net[p], lo, hi) => Numbered(net'[p], lo, hi)
      BY <2>1 DEF SamePoints
    <2>5. PointsOK(m, p)'
      BY <1>1, <1>3, <2>1, <2>4 DEF PointsOK, Has, Sending, Due, SB
    <2> QED
      BY <2>3, <2>5
  <1>4. ASSUME NEW s \in Side
        PROVE  ActivityOK(s, Peer(s))' /\ PointsOK(s, Peer(s))'
    BY <1>3, Sides DEF PointInv
  <1> QED
    BY <1>2, <1>4 DEF PointInv

LEMMA FailsPoints ==
    ASSUME RtInv, PointInv, TransportFails
    PROVE  PointInv'
  <1>1. ASSUME NEW s \in Side
        PROVE  SamePoints(net[s], net'[s]) /\ NoWord(net[s], net'[s])
    <2>1. net'[s] = Append(net[s], S!TDISC)
      BY SameSide DEF TransportFails, S!TransportFails
    <2>2. net[s] \in Seq(S!Spdu) /\ S!TDISC \in S!Spdu /\ S!TDISC.code = "TDISC"
      BY SessionTypes, DisconnectSpdus DEF RtInv
    <2>3. SamePoints(net[s], net'[s])
      BY <2>1, <2>2, AppendPlain
    <2>4. \A codes : Carries(net'[s], codes) <=> Carries(net[s], codes) \/ "TDISC" \in codes
      BY <2>1, <2>2, AppendCarries
    <2> QED
      BY <2>3, <2>4 DEF NoWord, Turning, Replying, Confirming, Agreeing
  <1>2. UNCHANGED rtsvars /\ sb' = sb
    BY DEF TransportFails, S!TransportFails
  <1> QED
    BY <1>1, <1>2, StillPoints

LEMMA StutterPoints ==
    ASSUME PointInv, UNCHANGED vars
    PROVE  PointInv'
  <1>1. UNCHANGED rtsvars /\ sb' = sb /\ net' = net
    BY DEF vars, rtsvars, session
  <1>2. ASSUME NEW s \in Side
        PROVE  SamePoints(net[s], net'[s]) /\ NoWord(net[s], net'[s])
    BY <1>1, SameItself DEF NoWord
  <1> QED
    BY <1>1, <1>2, StillPoints

-----------------------------------------------------------------------------
(* The invariant, and what follows from it.                                *)

LEMMA InitPoints == Init => PointInv
  <1> SUFFICES ASSUME Init PROVE PointInv
    OBVIOUS
  <1>1. S!Side = Side
    BY SameSide
  <1>2. PICK mine \in SUBSET S!Available(RTS_MYREQUIRE) :
          sb = [s \in Side |->
                  S!ConnectedBlock(RTS_MYREQUIRE,
                                   IF s = "init" THEN mine
                                   ELSE S!Available(RTS_MYREQUIRE) \ mine, 0)]
    BY <1>1 DEF Init, S!Init
  <1>3. ASSUME NEW s \in Side
        PROVE  /\ sb[s].sb_flags = {"SB_CONN"} /\ sb[s].sb_V_A = 0 /\ sb[s].sb_V_M = 0
               /\ net[s] = << >> /\ acb[s].acb_ssn = 0 /\ acb[s].acb_ack = 0
               /\ "ACB_ACT" \notin acb[s].acb_flags
               /\ rts[s].call = "idle" /\ rts[s].do = "none"
    <2>1. sb[s].sb_flags = {"SB_CONN"} /\ sb[s].sb_V_A = 0 /\ sb[s].sb_V_M = 0
      BY <1>2 DEF S!ConnectedBlock, S!newsblk
    <2>2. net[s] = << >>
      BY <1>1 DEF Init, S!Init
    <2>3. /\ acb[s] = [newacblk EXCEPT !.acb_flags =
                         {"ACB_CONN"} \cup
                         (IF sb[s].sb_owned = {} THEN {} ELSE {"ACB_TURN"})]
          /\ rts[s] = Idle
      BY DEF Init
    <2> QED
      BY <2>1, <2>2, <2>3 DEF newacblk, Idle
  <1>4. ASSUME NEW s \in Side
        PROVE  /\ \A codes : ~Carries(net[s], codes)
               /\ ~Starting(net[s]) /\ ~Turning(net[s]) /\ ~Replying(net[s])
               /\ ~Receiving(s) /\ ~Sending(s) /\ ~Due(s, "minor")
               /\ ~SB(s, "SB_Vact") /\ ~SB(s, "SB_Vnextact")
               /\ NextPoint(s) = 0 /\ Numbered(net[s], 0, 0) /\ OrderOK(net[s])
    <2>1. DOMAIN net[s] = {} /\ \A codes : ~Carries(net[s], codes)
      BY <1>3, EmptyQueue
    <2>2. ~Starting(net[s]) /\ ~Turning(net[s]) /\ ~Replying(net[s])
      BY <2>1 DEF Starting, Turning, Replying, Confirming, Agreeing
    <2>3. Numbered(net[s], 0, 0)
      BY <2>1, NoPoints
    <2> QED
      BY <1>3, <2>1, <2>2, <2>3
      DEF Receiving, Sending, Has, Due, SB, NextPoint, OrderOK
  <1>5. ASSUME NEW s \in Side PROVE ReceiverOK(s) /\ SenderOK(s)
    BY <1>3, <1>4 DEF ReceiverOK, SenderOK
  <1>6. ASSUME NEW s \in Side PROVE ActivityOK(s, Peer(s)) /\ PointsOK(s, Peer(s))
    BY <1>4, Sides DEF ActivityOK, PointsOK
  <1> QED
    BY <1>5, <1>6 DEF PointInv

\* The invariant is inductive, given those of RtsapProofs and RtsapRefinement.
LEMMA NextPoints == RtInv /\ TransferInv /\ PointInv /\ [Next]_vars => PointInv'
  <1> SUFFICES ASSUME RtInv, TransferInv, PointInv, [Next]_vars PROVE PointInv'
    OBVIOUS
  <1>1. ASSUME NEW s \in Side, Requesting(s) PROVE PointInv'
    BY <1>1, CalmSteps, CalmGive, StartPoints, GonePoints DEF Requesting, Losing
  <1>2. ASSUME NEW s \in Side, Sends(s) PROVE PointInv'
    BY <1>2, CalmSends, SyncPoints, EndPoints DEF Sends
  <1>3. ASSUME NEW s \in Side, Indicated(s) PROVE PointInv'
    BY <1>3, CalmSteps, CalmControl, MinorIndPoints, MinorCnfPoints, StartIndPoints,
       EndIndPoints, AnswerPoints, GonePoints DEF Indicated, Losing
  <1>4. ASSUME NEW s \in Side, Calling(s) PROVE PointInv'
    BY <1>4, CalmSteps, CalmAnswers, ConfirmPoints, GonePoints DEF Calling, Losing
  <1> QED
    BY <1>1, <1>2, <1>3, <1>4, FailsPoints, StutterPoints
    DEF Next, Working, Sends, Indicated, Calling

\* A point is confirmed only by an end that has counted it, for every window
\* and number of chunks: V_A never passes V_M, and the acb_ack that a
\* confirmation sets never passes acb_ssn, so that rt2sstrans never computes
\* with a negative number of points outstanding.
THEOREM PointsInOrder == Spec => []PointsOrdered
  <1>1. PointInv => PointsOrdered
    BY DEF PointInv, ReceiverOK, SenderOK, PointsOrdered
  <1> QED
    BY <1>1, InitRt, NextRt, InitTransfer, NextTransfer, InitPoints, NextPoints, PTL DEF Spec

\* The places of the SPDUs of one code in a queue, and their numbers.
Places(q, code) == {i \in DOMAIN q : q[i].code = code}
Numbers(q, code) == {q[i].serial : i \in Places(q, code)}

\* The SPDUs of one code with numbers that grow are as many as their numbers.
LEMMA NumbersCount ==
    ASSUME NEW T, NEW q \in Seq(T), NEW code,
           \A i \in DOMAIN q : q[i].serial \in Nat,
           \A i \in DOMAIN q, j \in DOMAIN q :
             i < j /\ q[i].code = code /\ q[j].code = code => q[i].serial < q[j].serial
    PROVE  /\ IsFiniteSet(Numbers(q, code))
           /\ Cardinality(Numbers(q, code)) = Cardinality(Places(q, code))
  <1> DEFINE I == {i \in DOMAIN q : q[i].code = code}
             N == {q[i].serial : i \in I}
             f == [i \in I |-> q[i].serial]
  <1>1. DOMAIN q = 1 .. Len(q) /\ Len(q) \in Nat
    OBVIOUS
  <1>2. IsFiniteSet(I)
    <2>1. IsFiniteSet(1 .. Len(q)) /\ I \subseteq 1 .. Len(q)
      BY <1>1, FS_Interval
    <2> HIDE DEF I
    <2> QED
      BY <2>1, FS_Subset
  <1>3. f \in [I -> N] /\ \A i \in I : f[i] = q[i].serial
    OBVIOUS
  <1>4. ASSUME NEW i \in I, NEW j \in I, f[i] = f[j] PROVE i = j
    <2>1. i \in Nat /\ j \in Nat /\ f[i] \in Nat
      BY <1>1, <1>3
    <2>2. /\ i < j => f[i] < f[j]
          /\ j < i => f[j] < f[i]
      BY <1>3
    <2> HIDE DEF f
    <2> QED
      BY <1>4, <2>1, <2>2
  <1>5. \A n \in N : \E i \in I : f[i] = n
    BY <1>3
  <1> HIDE DEF f, I, N
  <1>6. f \in Bijection(I, N)
    BY <1>3, <1>4, <1>5 DEF Bijection, Injection, Surjection, IsInjective
  <1>7. IsFiniteSet(N) /\ Cardinality(N) = Cardinality(I)
    BY <1>2, <1>6, FS_Bijection DEF ExistsBijection
  <1>8. Places(q, code) = I
    BY DEF Places, I
  <1>9. Numbers(q, code) = N
    BY <1>8 DEF Numbers, N
  <1> QED
    BY <1>7, <1>8, <1>9

LEMMA DisjointUnion ==
    ASSUME NEW X, NEW Y, IsFiniteSet(X), IsFiniteSet(Y), X \cap Y = {}
    PROVE  /\ IsFiniteSet(X \cup Y)
           /\ Cardinality(X \cup Y) = Cardinality(X) + Cardinality(Y)
  <1>1. Cardinality(X \cap Y) = 0
    BY FS_EmptySet
  <1>2. /\ IsFiniteSet(X \cup Y)
        /\ Cardinality(X \cup Y) = Cardinality(X) + Cardinality(Y) - Cardinality(X \cap Y)
    BY FS_Union
  <1>3. Cardinality(X) \in Nat /\ Cardinality(Y) \in Nat
    BY FS_CardinalityType
  <1> QED
    BY <1>1, <1>2, <1>3

\* Disjoint sets of numbers in an interval.
LEMMA IntervalHolds ==
    ASSUME NEW a \in Nat, NEW b \in Nat, a <= b, NEW P, NEW A, NEW D,
           IsFiniteSet(P), IsFiniteSet(A), IsFiniteSet(D),
           P \cap A = {}, P \cap D = {}, A \cap D = {},
           P \cup A \cup D \subseteq a + 1 .. b
    PROVE  Cardinality(P) + Cardinality(A) + Cardinality(D) <= b - a
  <1> DEFINE U == P \cup A
             V == U \cup D
  <1>1. U \cap D = {}
    OBVIOUS
  <1>3. IsFiniteSet(U) /\ Cardinality(U) = Cardinality(P) + Cardinality(A)
    BY DisjointUnion
  <1> HIDE DEF U
  <1>4. IsFiniteSet(V) /\ Cardinality(V) = Cardinality(U) + Cardinality(D)
    BY <1>1, <1>3, DisjointUnion
  <1>5. IsFiniteSet(a + 1 .. b) /\ Cardinality(a + 1 .. b) = b - a
    <2>1. /\ IsFiniteSet(a + 1 .. b)
          /\ Cardinality(a + 1 .. b) = IF a + 1 > b THEN 0 ELSE b - (a + 1) + 1
      BY FS_Interval
    <2> QED
      BY <2>1
  <1>6. V \subseteq a + 1 .. b
    BY DEF U
  <1> HIDE DEF V
  <1>7. Cardinality(V) <= b - a
    BY <1>5, <1>6, FS_Subset
  <1>8. Cardinality(P) \in Nat /\ Cardinality(A) \in Nat /\ Cardinality(D) \in Nat
    BY FS_CardinalityType
  <1> QED
    BY <1>3, <1>4, <1>7, <1>8

\* The window: the numbers of the points under way, of the one about to be
\* confirmed and of the confirmations under way lie between the last point
\* confirmed and the last one sent, and no two of them are the same.
LEMMA WindowFits == RtInv /\ TransferInv /\ PointInv => WindowKept
  <1> SUFFICES ASSUME RtInv, TransferInv, PointInv, NEW s \in Side, Sending(s)
               PROVE  Under(Peer(s), "MIP") + Under(s, "MIA") +
                        (IF Due(Peer(s), "minor") THEN 1 ELSE 0) <= mode.window
    BY DEF WindowKept
  <1> DEFINE o == Peer(s)
             I == Places(net[o], "MIP")
             J == Places(net[s], "MIA")
             P == Numbers(net[o], "MIP")
             A == Numbers(net[s], "MIA")
             D == IF Due(o, "minor") THEN {rts[o].ssn} ELSE {}
             a == acb[s].acb_ack
             b == acb[s].acb_ssn
  <1>1. /\ ReceiverOK(s) /\ SenderOK(s) /\ ReceiverOK(o) /\ PointsOK(s, o)
        /\ SideOK(o) /\ SenderOK(o) /\ o \in Side
        /\ a \in Nat /\ b \in Nat /\ sb[s].sb_V_M \in Nat /\ sb[o].sb_V_M \in Nat
        /\ mode.window \in Nat \ {0} /\ rts[o].ssn \in Nat
        /\ net[s] \in Seq(S!Spdu) /\ net[o] \in Seq(S!Spdu)
        /\ \A i \in DOMAIN net[s] : net[s][i].serial \in Nat
        /\ \A i \in DOMAIN net[o] : net[o][i].serial \in Nat
    BY Known, PointsKnown, NumberTypes, Sides
  <1>2. Under(o, "MIP") = Cardinality(I) /\ Under(s, "MIA") = Cardinality(J)
    BY DEF Under, Places
  <1> HIDE DEF o
  <1>3. CASE ~mode.ckpoint
    <2>1. I = {} /\ J = {} /\ ~Due(o, "minor")
      BY <1>1, <1>3 DEF SenderOK, Carries, Places
    <2> HIDE DEF I, J
    <2>2. Under(o, "MIP") = 0 /\ Under(s, "MIA") = 0
      BY <1>2, <2>1, FS_EmptySet
    <2> QED
      BY <1>1, <2>1, <2>2 DEF o
  <1>4. CASE mode.ckpoint
    <2>1. a <= b /\ b <= a + mode.window /\ sb[s].sb_V_M = b + 1
      BY <1>1, <1>4 DEF SenderOK
    <2>2. IsFiniteSet(P) /\ Cardinality(P) = Cardinality(I)
      <3>1. PICK hi \in Nat : Numbered(net[o], NextPoint(o), hi)
        BY <1>1 DEF ReceiverOK
      <3>2. \A i \in DOMAIN net[o], j \in DOMAIN net[o] :
              i < j /\ net[o][i].code = "MIP" /\ net[o][j].code = "MIP"
                => net[o][i].serial < net[o][j].serial
        BY <3>1 DEF Numbered
      <3> QED
        BY <1>1, <3>2, NumbersCount
    <2>3. IsFiniteSet(A) /\ Cardinality(A) = Cardinality(J)
      <3>1. \A i \in DOMAIN net[s], j \in DOMAIN net[s] :
              i < j /\ net[s][i].code = "MIA" /\ net[s][j].code = "MIA"
                => net[s][i].serial < net[s][j].serial
        BY <1>1 DEF ReceiverOK, OrderOK
      <3> QED
        BY <1>1, <3>1, NumbersCount
    <2>4. IsFiniteSet(D) /\ Cardinality(D) = IF Due(o, "minor") THEN 1 ELSE 0
      BY FS_EmptySet, FS_Singleton
    \* where the three lie
    <2>5. NextPoint(o) \in Nat
      BY <1>1 DEF NextPoint
    <2>6. ASSUME NEW n \in P
          PROVE  n \in a + 1 .. b /\ NextPoint(o) <= n /\ Has(o, "ACB_CONN")
      <3>1. PICK i \in DOMAIN net[o] : net[o][i].code = "MIP" /\ n = net[o][i].serial
        BY <2>6 DEF Numbers, Places
      <3>2. Has(o, "ACB_CONN")
        <4>1. Carries(net[o], {"MIP"})
          BY <3>1 DEF Carries
        <4> QED
          BY <1>1, <4>1, GoneQueue
      <3>3. NextPoint(o) <= n /\ n < sb[s].sb_V_M /\ a < NextPoint(o) /\ n \in Nat
        BY <1>1, <3>1, <3>2 DEF PointsOK, ReceiverOK, Numbered
      <3> HIDE DEF P, a, b
      <3> QED
        BY <1>1, <2>1, <2>5, <3>2, <3>3
    <2>7. ASSUME NEW n \in A
          PROVE  /\ n \in a + 1 .. b /\ (Has(o, "ACB_CONN") => n < NextPoint(o))
                 /\ (Due(o, "minor") => n < rts[o].ssn)
      <3>1. PICK i \in DOMAIN net[s] : net[s][i].code = "MIA" /\ n = net[s][i].serial
        BY <2>7 DEF Numbers, Places
      <3>2. /\ a < n /\ n < sb[s].sb_V_M /\ n \in Nat
            /\ Has(o, "ACB_CONN") => n < NextPoint(o)
            /\ Due(o, "minor") => n < rts[o].ssn
        BY <1>1, <3>1 DEF PointsOK
      <3> HIDE DEF A, a, b
      <3> QED
        BY <1>1, <2>1, <3>2
    <2>8. Due(o, "minor") => rts[o].ssn \in a + 1 .. b /\ rts[o].ssn < NextPoint(o)
      <3>1. Due(o, "minor") => a < rts[o].ssn /\ rts[o].ssn < sb[s].sb_V_M
        BY <1>1 DEF PointsOK
      <3>2. Due(o, "minor") => rts[o].ssn < NextPoint(o)
        BY <1>1 DEF ReceiverOK, NextPoint
      <3> HIDE DEF a, b
      <3> QED
        BY <1>1, <2>1, <3>1, <3>2
    <2>9. ASSUME NEW n \in D PROVE Due(o, "minor") /\ n = rts[o].ssn
      BY <2>9
    <2>10. ASSUME NEW n \in A PROVE n \in Nat
      BY <1>1, <2>10 DEF Numbers, Places
    <2> HIDE DEF I, J, P, A, D, a, b
    <2>11. P \cap A = {}
      <3> SUFFICES ASSUME NEW n \in P, n \in A PROVE FALSE
        OBVIOUS
      <3> QED
        BY <2>5, <2>6, <2>7, <2>10
    <2>12. P \cap D = {}
      <3> SUFFICES ASSUME NEW n \in P, n \in D PROVE FALSE
        OBVIOUS
      <3>1. n = rts[o].ssn /\ NextPoint(o) <= n /\ rts[o].ssn < NextPoint(o)
        BY <2>6, <2>8, <2>9
      <3> QED
        BY <1>1, <2>5, <3>1
    <2>13. A \cap D = {}
      <3> SUFFICES ASSUME NEW n \in A, n \in D PROVE FALSE
        OBVIOUS
      <3>1. n = rts[o].ssn /\ n < rts[o].ssn
        BY <2>7, <2>9
      <3> QED
        BY <1>1, <3>1
    <2>14. P \cup A \cup D \subseteq a + 1 .. b
      BY <2>6, <2>7, <2>8, <2>9
    <2>15. Cardinality(P) + Cardinality(A) + Cardinality(D) <= b - a
      BY <1>1, <2>1, <2>2, <2>3, <2>4, <2>11, <2>12, <2>13, <2>14, IntervalHolds
    <2>16. Cardinality(I) \in Nat /\ Cardinality(J) \in Nat
      BY <2>2, <2>3, FS_CardinalityType
    <2>17. Cardinality(I) + Cardinality(J) + (IF Due(o, "minor") THEN 1 ELSE 0) <= b - a
      BY <2>2, <2>3, <2>4, <2>15
    <2>18. Cardinality(I) + Cardinality(J) + (IF Due(o, "minor") THEN 1 ELSE 0) <= mode.window
      BY <1>1, <2>1, <2>16, <2>17
    <2> QED
      BY <1>2, <2>18 DEF o
  <1> QED
    BY <1>3, <1>4

\* The checkpoint window holds, for every window and number of chunks: the
\* points that the receiver has still to read, has still to confirm or whose
\* confirmation is under way are never more than acb_window.
THEOREM WindowIsKept == Spec => []WindowKept
  BY WindowFits, InitRt, NextRt, InitTransfer, NextTransfer, InitPoints, NextPoints, PTL
  DEF Spec
====
