----------------------------- MODULE SsapResync -----------------------------
(***************************************************************************)
(* Colliding resynchronizations, interruptions and releases of Ssap, for   *)
(* every set of functional units and user calls, with and without an       *)
(* expedited flow: OneResponder, TokenExclusive and ReleasedTogether of    *)
(* SsapProperties.                                                         *)
(*                                                                         *)
(* An SPM gives up its own RS when it reads one that it does not beat, and *)
(* silently discards one that it beats, so each SPM relies on the other to *)
(* decide alike, on an SPDU that may have been under way for long.  What   *)
(* makes that right is that each RS under way to s is either the one its   *)
(* peer still waits for, or one that s beats as long as it is under way    *)
(* (BidsOK).  The release loop takes an RS without any of these tests;     *)
(* that it may is what the second part shows.                              *)
(*                                                                         *)
(* Tokens are given, taken back by a resynchronization and taken whole by  *)
(* an interruption, each end updating sb_owned as it writes or reads.  An  *)
(* end that has asked and one that has still to answer may both own a      *)
(* token on paper; HandsOK counts who will own it once the answers under   *)
(* way have been read, and that nobody does twice.                         *)
(***************************************************************************)
EXTENDS SsapProofs, SequenceTheorems

-----------------------------------------------------------------------------
(* The collision rule of SDoCollideAux, for all serial numbers.            *)

\* The order in which the operations are tried is total and strict.
LEMMA PrecedenceNat ==
    ASSUME NEW a \in SyncOp
    PROVE  Precedence(a) \in Nat
  BY DEF SyncOp, ResyncType, Precedence

LEMMA PrecedenceInjective ==
    ASSUME NEW a \in SyncOp, NEW b \in SyncOp, Precedence(a) = Precedence(b)
    PROVE  a = b
  BY DEF SyncOp, ResyncType, Precedence

\* Of two operations that collide exactly one survives: the initiator's SPM
\* keeps its own exactly if the responder's SPM gives way.  Each SPM applies
\* the rule to its own block and the SPDU it read, so nothing else makes the
\* two decisions agree.  Two interruptions or two discards are left out:
\* there each end takes its own to have won (only the end that holds the
\* major/activity token may issue one).
THEOREM CollisionHasOneWinner ==
    ASSUME NEW a \in SyncOp, NEW m \in Nat, NEW b \in SyncOp, NEW n \in Nat,
           ~(a = b /\ a \in {"DISC", "INTR"})
    PROVE  SDoCollideAux(TRUE, a, m, b, n) <=> ~SDoCollideAux(FALSE, b, n, a, m)
  <1> DEFINE pa == Precedence(a)
             pb == Precedence(b)
  <1>1. pa \in Nat /\ pb \in Nat
    BY PrecedenceNat
  <1>2. CASE a # b
    <2>1. pa # pb
      BY <1>2, PrecedenceInjective
    <2>2. (pa < pb) <=> ~(pb < pa)
      BY <2>1, <1>1
    <2> QED
      BY <1>2, <2>2 DEF SDoCollideAux
  <1>3. CASE a = b
    <2>1. ~(pa < pb) /\ ~(pb < pa)
      BY <1>1, <1>3
    <2>2. a \in ResyncType
      BY <1>3 DEF SyncOp
    <2>3. CASE a = "RESTART"
      BY <1>3, <2>1, <2>3 DEF SDoCollideAux
    <2>4. CASE a \in {"ABANDON", "SET"}
      BY <1>3, <2>1, <2>4 DEF SDoCollideAux
    <2> QED
      BY <2>2, <2>3, <2>4 DEF ResyncType
  <1> QED
    BY <1>2, <1>3

-----------------------------------------------------------------------------
(* The inductive invariant.                                                *)

Carries(q, codes) == \E i \in DOMAIN q : q[i].code \in codes
AtMostOne(q, codes) ==
    \A i \in DOMAIN q, j \in DOMAIN q :
      q[i].code \in codes /\ q[j].code \in codes => i = j

Intr == {"AI", "AD"}
IntrAck == {"AIA", "ADA"}
Work == {"GT", "GTC"}
Closing == {"RA"} \cup IntrAck
Tracked == {"RS", "RA", "FN", "NF", "DN"} \cup Intr \cup IntrAck \cup Work

\* The SPDUs that s has still to read, the one put back first.
Queue(s) == sb[s].sb_spdu \o net[s]

\* An end as far as it matters here.  SB_RELEASE is also in flags while the
\* user is in the release loop: the end is leaving.
View(s) == [flags |-> sb[s].sb_flags \cup (IF inRelease[s] THEN {"SB_RELEASE"} ELSE {}),
            rs |-> sb[s].sb_rs, rsn |-> sb[s].sb_rsn, q |-> Queue(s),
            owned |-> sb[s].sb_owned, req |-> sb[s].sb_requirements]

\* In what follows v is the view of end e, w that of its peer.
Leaving(v) == "SB_RELEASE" \in v.flags

\* x is the resynchronization that the sender waits for; e beats x.
Live(w, x) == "SB_RS" \in w.flags /\ x.type = w.rs /\ x.serial = w.rsn
Beaten(e, v, x) ==
    /\ "SB_RS" \in v.flags \/ "SB_AI" \in v.flags
    /\ SDoCollideAux(e = "init", v.rs, v.rsn, x.type, x.serial)

Normal(q) == \A i \in DOMAIN q : q[i].code \in Tracked => ~q[i].expd

\* One end by itself.
FlagsOK(v) ==
    /\ "SB_RS" \in v.flags => /\ "SB_RA" \notin v.flags /\ "SB_AI" \notin v.flags
                              /\ v.rs \in ResyncType
    /\ "SB_AI" \in v.flags => "SB_RA" \notin v.flags /\ v.rs \in {"INTR", "DISC"}
    /\ Leaving(v) => "SB_RS" \notin v.flags /\ "SB_AI" \notin v.flags
    /\ Normal(v.q)

\* Each RS under way to e is the one the peer waits for, and then the last
\* and before any answer of the peer, or e beats it and will until it is read.
BidsOK(e, v, w) ==
    \A i \in DOMAIN v.q : v.q[i].code = "RS" =>
      \/ /\ Live(w, v.q[i])
         /\ \A j \in DOMAIN v.q : i < j => v.q[j].code \notin {"RS", "RA"}
      \/ /\ Beaten(e, v, v.q[i])
         /\ \A j \in DOMAIN v.q : j < i => v.q[j].code \notin {"RA"} \cup IntrAck

\* What an end is asked to answer, or has answered, the peer waits for.
AskedOK(v, w) ==
    /\ "SB_RA" \in v.flags \/ Carries(w.q, {"RA"}) =>
         "SB_RS" \in w.flags /\ ~Carries(v.q, {"RS"})
    /\ "SB_RA" \in v.flags => ~Carries(w.q, {"RA"})
    /\ AtMostOne(v.q, {"RA"})

\* The same for an interruption or a discard of the peer's activity.
IntrOK(v, w) ==
    /\ Carries(v.q, Intr) \/ "SB_AIA" \in v.flags \/ Carries(w.q, IntrAck) =>
         "SB_AI" \in w.flags
    /\ Carries(v.q, Intr) => "SB_AIA" \notin v.flags /\ ~Carries(w.q, IntrAck)
    /\ "SB_AIA" \in v.flags => ~Carries(w.q, IntrAck)
    /\ AtMostOne(v.q, Intr) /\ AtMostOne(v.q, IntrAck)
    /\ \A i \in DOMAIN v.q, j \in DOMAIN v.q :
         i < j /\ v.q[i].code \in Intr => v.q[j].code \notin {"RS", "RA"}

\* Nothing that e reads before the j-th SPDU ends its resynchronization.
Held(e, v, j) ==
    /\ "SB_RS" \in v.flags
    /\ \A i \in DOMAIN v.q : i < j =>
         /\ v.q[i].code \notin {"RA"} \cup Intr
         /\ v.q[i].code = "RS" => Beaten(e, v, v.q[i])

\* An FN to e: its sender is still leaving, or e cannot accept it.
FinishOK(e, v, w) ==
    /\ "SB_FINN" \in v.flags => Leaving(w) \/ "SB_RS" \in v.flags
    /\ "SB_FINN" \in v.flags /\ Carries(v.q, {"FN"}) => "SB_RS" \in v.flags
    /\ \A j \in DOMAIN v.q : v.q[j].code = "FN" => Leaving(w) \/ Held(e, v, j)
    /\ \A i \in DOMAIN v.q, j \in DOMAIN v.q :
         i < j /\ v.q[i].code = "FN" /\ v.q[j].code = "FN" => Held(e, v, i)

\* An NF: its reader is leaving, and nothing before it makes him stay.
RefuseOK(v, w) ==
    /\ Carries(v.q, {"NF"}) =>
         Leaving(v) /\ "SB_FINN" \notin w.flags /\ ~Carries(w.q, {"FN"})
    /\ \A i \in DOMAIN v.q, j \in DOMAIN v.q :
         i < j /\ v.q[j].code = "NF" => v.q[i].code \notin {"RS", "FN", "NF"}

\* The end is leaving, and nothing makes it stay.
Parting(v) == Leaving(v) /\ ~Carries(v.q, {"RS", "NF"})

DoneOK(v, w) == Carries(v.q, {"DN"}) => Parting(v) /\ Parting(w)

EndOK(e, v, w) == /\ FlagsOK(v) /\ BidsOK(e, v, w) /\ AskedOK(v, w) /\ IntrOK(v, w)
                  /\ FinishOK(e, v, w) /\ RefuseOK(v, w) /\ DoneOK(v, w)

PairOK(e, v, w) == EndOK(e, v, w) /\ EndOK(Peer(e), w, v)

\* Tokens.  An end that waits for an answer, or owes one, uses no token.
Waiting(v) == {"SB_RS", "SB_RA", "SB_AI", "SB_AIA"} \cap v.flags # {}

\* Reading x makes e own the token t.
Brings(e, x, t) == \/ x.code = "GT" /\ t \in x.tokens
                   \/ x.code \in {"GTC"} \cup IntrAck
                   \/ x.code = "RA" /\ x.settings[t] = Mine(e)

\* The i-th SPDU under way to e brings the token t, or, where i is 0, e owns
\* it; and e will have stopped waiting by the time that SPDU is read.
Due(e, v, t, i) ==
    /\ Waiting(v) => \E k \in DOMAIN v.q : k <= i /\ v.q[k].code \in Closing
    /\ \/ i = 0 /\ t \in v.owned
       \/ i \in DOMAIN v.q /\ Brings(e, v.q[i], t)

\* A token is given only by an end that neither waits nor owes an answer: the
\* tokens under way that e will accept came before what they might cross.
WorkOK(e, v) ==
    /\ \A i \in DOMAIN v.q, j \in DOMAIN v.q : i < j /\ v.q[j].code \in Work =>
         /\ v.q[i].code \notin Intr
         /\ v.q[i].code = "RS" =>
              /\ Beaten(e, v, v.q[i])
              /\ \A k \in DOMAIN v.q : k < i => v.q[k].code \notin Closing
    /\ "SB_RA" \in v.flags \/ "SB_AIA" \in v.flags => ~Carries(v.q, Work)
    /\ \A i \in DOMAIN v.q : v.q[i].code = "RA" =>
         \A t \in Available(v.req) : v.q[i].settings[t] # "CALL"
    /\ v.owned \subseteq Available(v.req)

\* Each token is due once, at one end.
OnceOK(e, v) ==
    \A t \in Available(v.req), i \in Nat, j \in Nat :
      Due(e, v, t, i) /\ Due(e, v, t, j) => i = j
ApartOK(e, v, w) ==
    \A t \in Available(v.req), i \in Nat, j \in Nat :
      ~(Due(e, v, t, i) /\ Due(Peer(e), w, t, j))

HandOK(e, v) == WorkOK(e, v) /\ OnceOK(e, v)
HandsOK(e, v, w) == /\ v.req = w.req
                    /\ HandOK(e, v) /\ HandOK(Peer(e), w) /\ ApartOK(e, v, w)

Both == \A s \in Side : Connected(s)

ResyncInv ==
    /\ Both => \A s \in Side : EndOK(s, View(s), View(Peer(s)))
    /\ Both => \A s \in Side : HandsOK(s, View(s), View(Peer(s)))
    /\ \A s \in Side : /\ outcome[s] = "released" /\ Connected(Peer(s)) =>
                            Parting(View(Peer(s)))
                       /\ Len(sb[s].sb_spdu) <= 1

-----------------------------------------------------------------------------
(* Queues.                                                                 *)

\* Of the SPDUs with one of these codes r has no other than q, in q's order.
Maps(f, codes, q, r) ==
    /\ f \in [DOMAIN r -> Nat]
    /\ \A i \in DOMAIN r : r[i].code \in codes => f[i] \in DOMAIN q /\ r[i] = q[f[i]]
    /\ \A i \in DOMAIN r, j \in DOMAIN r :
         i < j /\ r[i].code \in codes /\ r[j].code \in codes => f[i] < f[j]
Sub(codes, q, r) == \E f : Maps(f, codes, q, r)

\* r is q without x, its first; r is q and then x, perhaps after a PR.
Took(q, r, x) ==
    /\ 1 \in DOMAIN q /\ q[1] = x
    /\ \A i \in DOMAIN r : i + 1 \in DOMAIN q /\ r[i] = q[i + 1] /\ i \in Nat /\ 1 <= i
Gave(q, r, x) ==
    /\ Len(r) \in DOMAIN r \ DOMAIN q /\ Len(r) \in Nat /\ r[Len(r)] = x
    /\ \A i \in DOMAIN q : i \in DOMAIN r /\ r[i] = q[i]
    /\ \A i \in DOMAIN r : i \in Nat /\ i <= Len(r)
    /\ \A i \in DOMAIN r \ DOMAIN q : i = Len(r) \/ r[i].code \notin Tracked
    /\ \A i \in DOMAIN q, j \in DOMAIN r \ DOMAIN q : i < j

LEMMA SubItself ==
    ASSUME NEW codes, NEW q \in Seq(Spdu)
    PROVE  Sub(codes, q, q)
  <1>1. Maps([i \in DOMAIN q |-> i], codes, q, q)
    BY DEF Maps
  <1> QED
    BY <1>1 DEF Sub

LEMMA SubLess ==
    ASSUME NEW codes, NEW more, codes \subseteq more, NEW q, NEW r, Sub(more, q, r)
    PROVE  Sub(codes, q, r)
  <1>1. PICK f : Maps(f, more, q, r)
    BY DEF Sub
  <1>2. Maps(f, codes, q, r)
    BY <1>1 DEF Maps
  <1> QED
    BY <1>2 DEF Sub

LEMMA TookSub ==
    ASSUME NEW codes, NEW q \in Seq(Spdu), NEW r \in Seq(Spdu), NEW x, Took(q, r, x)
    PROVE  Sub(codes, q, r)
  <1> DEFINE f == [i \in DOMAIN r |-> i + 1]
  <1>1. f \in [DOMAIN r -> Nat] /\ \A i \in DOMAIN r : f[i] = i + 1 /\ i \in Nat
    OBVIOUS
  <1> HIDE DEF f
  <1>2. Maps(f, codes, q, r)
    BY <1>1 DEF Maps, Took
  <1> QED
    BY <1>2 DEF Sub

LEMMA GaveSub ==
    ASSUME NEW codes \in SUBSET Tracked, NEW q \in Seq(Spdu), NEW r \in Seq(Spdu),
           NEW x, Gave(q, r, x), x.code \notin codes
    PROVE  Sub(codes, q, r)
  <1> DEFINE f == [i \in DOMAIN r |-> i]
  <1>1. f \in [DOMAIN r -> Nat] /\ \A i \in DOMAIN r : f[i] = i /\ i \in Nat
    OBVIOUS
  <1> HIDE DEF f
  <1>2. \A i \in DOMAIN r : r[i].code \in codes => i \in DOMAIN q /\ r[i] = q[i]
    BY DEF Gave
  <1>3. Maps(f, codes, q, r)
    BY <1>1, <1>2 DEF Maps
  <1> QED
    BY <1>3 DEF Sub

LEMMA SubCarries ==
    ASSUME NEW codes, NEW q, NEW r, Sub(codes, q, r), Carries(r, codes)
    PROVE  Carries(q, codes)
  BY DEF Sub, Maps, Carries

LEMMA SubOne ==
    ASSUME NEW codes, NEW q, NEW r \in Seq(Spdu), Sub(codes, q, r), AtMostOne(q, codes)
    PROVE  AtMostOne(r, codes)
  <1> SUFFICES ASSUME NEW i \in DOMAIN r, NEW j \in DOMAIN r,
                      r[i].code \in codes, r[j].code \in codes
               PROVE  i = j
    BY DEF AtMostOne
  <1>1. PICK f : Maps(f, codes, q, r)
    BY DEF Sub
  <1>2. f[i] = f[j] /\ f[i] \in Nat
    BY <1>1 DEF AtMostOne, Maps
  <1>3. ~(i < j) /\ ~(j < i)
    BY <1>1, <1>2 DEF Maps
  <1> QED
    BY <1>3

LEMMA GaveCarries ==
    ASSUME NEW q, NEW r, NEW x, Gave(q, r, x), NEW codes \in SUBSET Tracked
    PROVE  Carries(r, codes) <=> Carries(q, codes) \/ x.code \in codes
  BY DEF Gave, Carries

LEMMA GaveOne ==
    ASSUME NEW q, NEW r, NEW x, Gave(q, r, x), NEW codes \in SUBSET Tracked,
           AtMostOne(q, codes), x.code \in codes => ~Carries(q, codes)
    PROVE  AtMostOne(r, codes)
  BY DEF Gave, AtMostOne, Carries

LEMMA TookCarries ==
    ASSUME NEW q \in Seq(Spdu), NEW r \in Seq(Spdu), NEW x, Took(q, r, x), NEW codes,
           AtMostOne(q, codes), x.code \in codes
    PROVE  ~Carries(r, codes)
  BY DEF Took, AtMostOne, Carries

\* Where the three come from.
LEMMA TailTook ==
    ASSUME NEW q \in Seq(Spdu), q # << >>
    PROVE  Took(q, Tail(q), q[1])
  BY DEF Took

LEMMA RemoveAtSub ==
    ASSUME NEW codes, NEW q \in Seq(Spdu), NEW k \in 1 .. Len(q)
    PROVE  Sub(codes, q, RemoveAt(q, k))
  <1> DEFINE a == SubSeq(q, 1, k - 1)
             b == SubSeq(q, k + 1, Len(q))
             r == a \o b
             f == [i \in DOMAIN r |-> IF i < k THEN i ELSE i + 1]
  <1>1. /\ a \in Seq(Spdu) /\ Len(a) = k - 1
        /\ \A i \in 1 .. k - 1 : a[i] = q[i]
        /\ b \in Seq(Spdu) /\ Len(b) = Len(q) - k
        /\ \A i \in 1 .. Len(q) - k : b[i] = q[k + i]
    OBVIOUS
  <1> HIDE DEF a, b
  <1>2. /\ r \in Seq(Spdu) /\ Len(r) = Len(q) - 1 /\ DOMAIN r = 1 .. Len(q) - 1
        /\ \A i \in DOMAIN r : r[i] = q[IF i < k THEN i ELSE i + 1]
    <2>1. r \in Seq(Spdu) /\ Len(r) = Len(q) - 1 /\ DOMAIN r = 1 .. Len(q) - 1
      <3>1. r \in Seq(Spdu) /\ Len(r) = Len(a) + Len(b)
        BY <1>1, ConcatProperties
      <3>2. Len(a) + Len(b) = Len(q) - 1
        BY <1>1
      <3> HIDE DEF r
      <3> QED
        BY <3>1, <3>2
    <2>2. ASSUME NEW i \in DOMAIN r, i < k PROVE r[i] = q[i]
      <3>1. r[i] = a[i]
        BY <1>1, <2>1, <2>2
      <3> QED
        BY <1>1, <2>1, <2>2, <3>1
    <2>3. ASSUME NEW i \in DOMAIN r, ~(i < k) PROVE r[i] = q[i + 1]
      <3>1. r[i] = b[i - (k - 1)]
        BY <1>1, <2>1, <2>3
      <3>2. i - (k - 1) \in 1 .. Len(q) - k /\ k + (i - (k - 1)) = i + 1
        BY <2>1, <2>3
      <3> QED
        BY <1>1, <3>1, <3>2
    <2> HIDE DEF r
    <2> QED
      BY <2>1, <2>2, <2>3
  <1>3. RemoveAt(q, k) = r
    BY DEF RemoveAt, a, b
  <1> HIDE DEF r
  <1>4. f \in [DOMAIN r -> Nat] /\ \A i \in DOMAIN r : f[i] = IF i < k THEN i ELSE i + 1
    <2>1. \A i \in DOMAIN r : (IF i < k THEN i ELSE i + 1) \in Nat
      BY <1>2
    <2> QED
      BY <2>1
  <1> HIDE DEF f
  <1>5. Sub(codes, q, r)
    <2>1. Maps(f, codes, q, r)
      BY <1>2, <1>4 DEF Maps
    <2> QED
      BY <2>1 DEF Sub
  <1> QED
    BY <1>3, <1>5

LEMMA RemoveHeadIsTail ==
    ASSUME NEW q \in Seq(Spdu), q # << >>
    PROVE  RemoveAt(q, 1) = Tail(q)
  <1> DEFINE a == SubSeq(q, 1, 1 - 1)
             b == SubSeq(q, 1 + 1, Len(q))
  <1>1. Len(q) \in Nat /\ Len(q) # 0
    BY EmptySeq
  <1>2. a = << >>
    OBVIOUS
  <1>3. b = Tail(q) /\ b \in Seq(Spdu)
    BY <1>1
  <1> HIDE DEF a, b
  <1>4. a \o b = b
    BY <1>2, <1>3, ConcatEmptySeq
  <1> QED
    BY <1>3, <1>4 DEF RemoveAt, a, b

LEMMA ConcatGave ==
    ASSUME NEW q \in Seq(Spdu), NEW x \in Spdu
    PROVE  Gave(q, q \o SWriteRequestAux(x), x) /\ Gave(q, q \o <<x>>, x)
  <1> DEFINE pr == [newspkt("PR") EXCEPT !.expd = TRUE, !.type = PrepareType(x.code)]
  <1>1. pr \in Spdu
    BY PrType, PrepareTypeType
  <1>2. pr.code \notin Tracked
    BY DEF newspkt, Tracked, Intr, IntrAck, Work
  <1>3. SWriteRequestAux(x) \in {<<pr, x>>, <<x>>}
    BY DEF SWriteRequestAux
  <1> HIDE DEF pr
  <1>4. Gave(q, q \o <<x>>, x)
    <2>1. /\ q \o <<x>> \in Seq(Spdu) /\ Len(q \o <<x>>) = Len(q) + 1
          /\ (q \o <<x>>)[Len(q) + 1] = x
          /\ \A i \in 1 .. Len(q) : (q \o <<x>>)[i] = q[i]
      OBVIOUS
    <2> QED
      BY <2>1 DEF Gave
  <1>5. Gave(q, q \o <<pr, x>>, x)
    <2>1. /\ q \o <<pr, x>> \in Seq(Spdu) /\ Len(q \o <<pr, x>>) = Len(q) + 2
          /\ (q \o <<pr, x>>)[Len(q) + 2] = x /\ (q \o <<pr, x>>)[Len(q) + 1] = pr
          /\ \A i \in 1 .. Len(q) : (q \o <<pr, x>>)[i] = q[i]
      BY <1>1
    <2> DEFINE r == q \o <<pr, x>>
               n == Len(q)
    <2>2. /\ DOMAIN r = 1 .. n + 2 /\ Len(r) = n + 2 /\ DOMAIN q = 1 .. n /\ n \in Nat
          /\ r[n + 2] = x /\ r[n + 1] = pr /\ \A i \in 1 .. n : r[i] = q[i]
      BY <2>1
    <2> HIDE DEF r, n
    <2>3. \A i \in 1 .. n + 2 : i \in 1 .. n \/ i = n + 1 \/ i = n + 2
      BY <2>2
    <2>4. Gave(q, r, x)
      BY <1>2, <2>2, <2>3 DEF Gave
    <2> QED
      BY <2>4 DEF r
  <1> QED
    BY <1>3, <1>4, <1>5

-----------------------------------------------------------------------------
(* What a step of s does to the two queues.                                *)

SameBlock(b, c) ==
    /\ c.sb_flags = b.sb_flags /\ c.sb_rs = b.sb_rs /\ c.sb_rsn = b.sb_rsn
    /\ c.sb_owned = b.sb_owned /\ c.sb_requirements = b.sb_requirements

LEMMA QueueType ==
    ASSUME TypeOK, NEW s \in Side
    PROVE  Queue(s) \in Seq(Spdu) /\ sb[s].sb_spdu \in Seq(Spdu) /\ net[s] \in Seq(Spdu)
  <1>1. sb[s].sb_spdu \in Seq(Spdu) /\ net[s] \in Seq(Spdu)
    BY DEF TypeOK, ssapblk
  <1> QED
    BY <1>1, ConcatProperties DEF Queue

\* What sb2spkt takes, and what it leaves.
LEMMA ReadTakes ==
    ASSUME TypeOK, NEW s \in Side, Connected(s), Len(sb[s].sb_spdu) <= 1,
           NEW in \in sb2spkt(s)
    PROVE  LET r == in.b.sb_spdu \o in.q IN
           /\ r \in Seq(Spdu) /\ Sub(Tracked, Queue(s), r)
           /\ SameBlock(sb[s], in.b) /\ Len(in.b.sb_spdu) <= 1
           /\ in.p.code \in Tracked =>
                /\ Carries(Queue(s), {in.p.code})
                /\ Normal(Queue(s)) => Took(Queue(s), r, in.p)
  <1> DEFINE b == sb[s]
             r == in.b.sb_spdu \o in.q
  <1>1. b \in ssapblk /\ b.sb_spdu \in Seq(Spdu) /\ net[s] \in Seq(Spdu) /\ Queue(s) \in Seq(Spdu)
    BY QueueType DEF TypeOK
  <1>2. in.p \in Spdu /\ Up(in.b) /\ in.q \in Seq(Spdu)
    BY ReadType
  <1>3. r \in Seq(Spdu)
    BY <1>2, ConcatProperties DEF Up, ssapblk
  <1>4. CASE b.sb_pr = "PR" /\ b.sb_xspdu
    <2>1. in = [p |-> [newspkt("EX") EXCEPT !.expd = TRUE],
                b |-> [b EXCEPT !.sb_xspdu = FALSE], q |-> net[s]]
      BY <1>4 DEF sb2spkt
    <2>2. in.b.sb_spdu = b.sb_spdu /\ SameBlock(b, in.b)
      BY <1>1, <2>1 DEF ssapblk, SameBlock
    <2>3. r = Queue(s) /\ in.p.code = "EX"
      BY <2>1, <2>2 DEF Queue, newspkt
    <2> QED
      BY <1>1, <2>2, <2>3, SubItself DEF Tracked, Intr, IntrAck, Work
  <1>5. CASE ~(b.sb_pr = "PR" /\ b.sb_xspdu) /\ b.sb_spdu # << >>
    <2>1. in = [p |-> b.sb_spdu[1], b |-> [b EXCEPT !.sb_spdu = << >>], q |-> net[s]]
      BY <1>5 DEF sb2spkt
    <2>2. in.b.sb_spdu = << >> /\ SameBlock(b, in.b)
      BY <1>1, <2>1 DEF ssapblk, SameBlock
    <2>3. r = net[s]
      BY <1>1, <2>1, <2>2, ConcatEmptySeq
    <2>4. Len(b.sb_spdu) = 1
      <3>1. Len(b.sb_spdu) \in Nat /\ Len(b.sb_spdu) # 0
        BY <1>1, <1>5, EmptySeq
      <3>2. \A n \in Nat : n <= 1 /\ n # 0 => n = 1
        OBVIOUS
      <3> QED
        BY <3>1, <3>2
    <2> DEFINE q == b.sb_spdu \o net[s]
    <2>5. /\ q = Queue(s) /\ Len(q) = 1 + Len(net[s]) /\ DOMAIN q = 1 .. 1 + Len(net[s])
          /\ \A i \in 1 .. 1 + Len(net[s]) :
               q[i] = IF i <= 1 THEN b.sb_spdu[i] ELSE net[s][i - 1]
      <3>1. q \in Seq(Spdu) /\ Len(q) = Len(b.sb_spdu) + Len(net[s])
            /\ \A i \in 1 .. Len(b.sb_spdu) + Len(net[s]) :
                 q[i] = IF i <= Len(b.sb_spdu) THEN b.sb_spdu[i]
                        ELSE net[s][i - Len(b.sb_spdu)]
        BY <1>1, ConcatProperties
      <3>2. DOMAIN q = 1 .. Len(q) /\ q = Queue(s)
        BY <3>1 DEF Queue
      <3> HIDE DEF q
      <3> QED
        BY <1>1, <2>4, <3>1, <3>2
    <2> HIDE DEF q
    <2>6. Took(q, net[s], in.p)
      BY <1>1, <2>1, <2>5 DEF Took
    <2>7. Sub(Tracked, q, net[s]) /\ Carries(q, {in.p.code})
      BY <1>1, <2>5, <2>6, TookSub DEF Took, Carries
    <2> HIDE DEF r
    <2> QED
      BY <1>3, <2>2, <2>3, <2>5, <2>6, <2>7 DEF r
  <1>6. CASE ~(b.sb_pr = "PR" /\ b.sb_xspdu) /\ b.sb_spdu = << >>
    <2>1. PICK i \in Arrivals(net[s]) :
            in = [p |-> net[s][i], b |-> b, q |-> RemoveAt(net[s], i)]
      BY <1>6 DEF sb2spkt
    <2>2. Queue(s) = net[s] /\ r = RemoveAt(net[s], i)
      <3>1. in.b.sb_spdu = << >> /\ in.q = RemoveAt(net[s], i)
        BY <1>6, <2>1
      <3> QED
        BY <1>1, <1>2, <1>6, <3>1, ConcatEmptySeq DEF Queue
    <2>3. i \in 1 .. Len(net[s])
      BY DEF Arrivals
    <2>4. Sub(Tracked, net[s], RemoveAt(net[s], i)) /\ Carries(net[s], {in.p.code})
      <3>1. Sub(Tracked, net[s], RemoveAt(net[s], i))
        BY <1>1, <2>3, RemoveAtSub
      <3>2. Carries(net[s], {in.p.code})
        BY <1>1, <2>1, <2>3 DEF Carries
      <3> QED
        BY <3>1, <3>2
    <2>5. ASSUME in.p.code \in Tracked, Normal(Queue(s))
          PROVE  Took(Queue(s), r, in.p)
      <3>1. i = 1
        BY <2>1, <2>2, <2>3, <2>5 DEF Arrivals, Normal, Tracked, Intr, IntrAck, Work
      <3>2. net[s] # << >>
        BY <1>1, <2>3, EmptySeq
      <3>3. RemoveAt(net[s], i) = Tail(net[s])
        BY <1>1, <3>1, <3>2, RemoveHeadIsTail
      <3> QED
        BY <1>1, <2>1, <2>2, <3>1, <3>2, <3>3, TailTook
    <2>6. SameBlock(b, in.b) /\ Len(in.b.sb_spdu) <= 1
      BY <1>6, <2>1 DEF SameBlock
    <2> HIDE DEF r
    <2> QED
      BY <1>3, <2>2, <2>4, <2>5, <2>6 DEF r
  <1> QED
    BY <1>4, <1>5, <1>6

\* s moves and neither end goes.
Moves(s) ==
    /\ Connected(s) /\ Connected(s)'
    /\ sb'[Peer(s)] = sb[Peer(s)] /\ inRelease'[Peer(s)] = inRelease[Peer(s)]
    /\ outcome' = outcome /\ Len(sb'[s].sb_spdu) <= 1
    /\ Sub(Tracked, Queue(s), Queue(s)')

\* The peer of s is sent nothing; it is sent x.
Silent(s) == Connected(Peer(s)) => Queue(Peer(s))' = Queue(Peer(s))
Says(s, x) == Connected(Peer(s)) => Gave(Queue(Peer(s)), Queue(Peer(s))', x)

\* The shape that all steps share: s stores b, keeps mine and sends out.
Stores(s, b, mine, out) ==
    /\ sb' = [sb EXCEPT ![s] = b]
    /\ net' = [net EXCEPT ![s] = mine, ![Peer(s)] = Deliver(Peer(s), out)]

\* What that does to the two queues.
Queues(s, b, mine, out) ==
    /\ sb'[s] = b /\ sb'[Peer(s)] = sb[Peer(s)]
    /\ Queue(s)' = b.sb_spdu \o mine
    /\ Connected(Peer(s)) => Queue(Peer(s))' = Queue(Peer(s)) \o out

LEMMA ConcatShift ==
    ASSUME NEW a \in Seq(Spdu), NEW n \in Seq(Spdu), NEW w \in Seq(Spdu)
    PROVE  (a \o n) \o w = a \o (n \o w)
  BY SMT

LEMMA StepEffect ==
    ASSUME Inv, NEW s \in Side, NEW b, NEW mine \in Seq(Spdu), NEW out \in Seq(Spdu),
           Stores(s, b, mine, out)
    PROVE  Queues(s, b, mine, out) /\ (out = << >> => Silent(s))
  <1> DEFINE o == Peer(s)
  <1>1. /\ o \in Side /\ o # s /\ sb'[s] = b /\ sb'[o] = sb[o]
        /\ net'[s] = mine /\ net'[o] = Deliver(o, out)
    BY PeerSide DEF Inv, TypeOK, Stores
  <1> HIDE DEF o
  <1>2. sb[o].sb_spdu \in Seq(Spdu) /\ net[o] \in Seq(Spdu) /\ Queue(o) \in Seq(Spdu)
    BY <1>1, QueueType DEF Inv
  <1>3. Connected(o) => Queue(o)' = sb[o].sb_spdu \o (net[o] \o out)
    BY <1>1 DEF Queue, Deliver
  <1>4. Connected(o) => Queue(o)' = Queue(o) \o out
    <2>1. (sb[o].sb_spdu \o net[o]) \o out = sb[o].sb_spdu \o (net[o] \o out)
      BY <1>2, ConcatShift
    <2>2. Queue(o) \o out = sb[o].sb_spdu \o (net[o] \o out)
      BY <2>1 DEF Queue
    <2> QED
      BY <1>3, <2>2
  <1>5. out = << >> /\ Connected(o) => Queue(o)' = Queue(o)
    BY <1>2, <1>4, ConcatEmptySeq
  <1> QED
    BY <1>1, <1>4, <1>5 DEF Queue, Queues, Silent, o

LEMMA StepShape ==
    ASSUME Inv, NEW s \in Side, Connected(s), NEW b, "SB_CONN" \in b.sb_flags,
           NEW mine \in Seq(Spdu), NEW out \in Seq(Spdu), Stores(s, b, mine, out),
           inRelease'[Peer(s)] = inRelease[Peer(s)], outcome' = outcome,
           Len(b.sb_spdu) <= 1, Sub(Tracked, Queue(s), b.sb_spdu \o mine)
    PROVE  /\ Moves(s) /\ sb'[s] = b /\ Queue(s)' = b.sb_spdu \o mine
           /\ out = << >> => Silent(s)
           /\ \A x \in Spdu : out \in {<<x>>, SWriteRequestAux(x)} => Says(s, x)
  <1>1. Queues(s, b, mine, out) /\ (out = << >> => Silent(s))
    BY StepEffect
  <1>2. /\ sb'[s] = b /\ sb'[Peer(s)] = sb[Peer(s)] /\ Queue(s)' = b.sb_spdu \o mine
        /\ Connected(Peer(s)) => Queue(Peer(s))' = Queue(Peer(s)) \o out
    BY <1>1 DEF Queues
  <1>3. Queue(Peer(s)) \in Seq(Spdu)
    BY QueueType, PeerSide DEF Inv
  <1>4. ASSUME NEW x \in Spdu, out \in {<<x>>, SWriteRequestAux(x)} PROVE Says(s, x)
    BY <1>2, <1>3, <1>4, ConcatGave DEF Says
  <1>5. Connected(s)'
    BY <1>2 DEF Connected
  <1> QED
    BY <1>1, <1>2, <1>4, <1>5 DEF Moves

LEMMA RequestShape ==
    ASSUME Inv, NEW s \in Side, Connected(s), Len(sb[s].sb_spdu) <= 1,
           NEW b, "SB_CONN" \in b.sb_flags, b.sb_spdu = sb[s].sb_spdu,
           NEW p \in Spdu, Request(s, b, p)
    PROVE  /\ Moves(s) /\ sb'[s] = b /\ Queue(s)' = Queue(s) /\ Says(s, p)
           /\ inRelease' = inRelease
  <1>1. /\ Stores(s, b, net[s], SWriteRequestAux(p))
        /\ inRelease' = inRelease /\ outcome' = outcome
    BY PeerSide DEF Inv, TypeOK, Request, Update, Stores
  <1>2. SWriteRequestAux(p) \in Seq(Spdu)
    BY WriteType
  <1>3. /\ Queue(s) \in Seq(Spdu) /\ net[s] \in Seq(Spdu) /\ b.sb_spdu \o net[s] = Queue(s)
    BY QueueType DEF Inv, Queue
  <1>4. Sub(Tracked, Queue(s), b.sb_spdu \o net[s])
    BY <1>3, SubItself
  <1>5. /\ Moves(s) /\ sb'[s] = b /\ Queue(s)' = b.sb_spdu \o net[s]
        /\ \A x \in Spdu : SWriteRequestAux(p) \in {<<x>>, SWriteRequestAux(x)} => Says(s, x)
    BY <1>1, <1>2, <1>3, <1>4, StepShape
  <1> QED
    BY <1>1, <1>3, <1>5

\* What SReadRequest hands to its main switch.
LEMMA ReceivedTakes ==
    ASSUME Inv, NEW s \in Side, Connected(s), Len(sb[s].sb_spdu) <= 1,
           NEW codes, NEW in \in Received(s, codes)
    PROVE  LET r == in.b.sb_spdu \o in.q IN
           /\ r \in Seq(Spdu) /\ Sub(Tracked, Queue(s), r)
           /\ SameBlock(sb[s], in.b) /\ Len(in.b.sb_spdu) <= 1
           /\ in.p.code \in Tracked /\ Normal(Queue(s)) => Took(Queue(s), r, in.p)
           /\ in.p.code = "RS" => ~Beaten(s, View(s), in.p)
           /\ in.p.code \in codes /\ in.p \in Spdu /\ in.q \in Seq(Spdu) /\ Up(in.b)
  <1>1. PICK i \in sb2spkt(s) : /\ in = [i EXCEPT !.b = Prepared(i.b, i.p)]
                                /\ i.p.code \in codes /\ ~Discarded(s, i.b, i.p)
    BY DEF Received
  <1>2. "p" \in DOMAIN i /\ "b" \in DOMAIN i /\ "q" \in DOMAIN i
    BY DEF sb2spkt
  <1>3. in.p = i.p /\ in.b = Prepared(i.b, i.p) /\ in.q = i.q
    BY <1>1, <1>2
  <1>4. i.p \in Spdu /\ Up(i.b) /\ i.q \in Seq(Spdu)
    BY ReadType DEF Inv
  <1>5. /\ in.b.sb_spdu = i.b.sb_spdu /\ SameBlock(i.b, in.b) /\ Up(in.b)
    BY <1>3, <1>4, PreparedUp DEF Prepared, Up, ssapblk, SameBlock
  <1>6. LET r == i.b.sb_spdu \o i.q IN
        /\ r \in Seq(Spdu) /\ Sub(Tracked, Queue(s), r)
        /\ SameBlock(sb[s], i.b) /\ Len(i.b.sb_spdu) <= 1
        /\ i.p.code \in Tracked /\ Normal(Queue(s)) => Took(Queue(s), r, i.p)
    BY ReadTakes DEF Inv
  <1>7. i.p.code = "RS" => ~Beaten(s, View(s), i.p)
    <2>1. /\ View(s).rs = i.b.sb_rs /\ View(s).rsn = i.b.sb_rsn
          /\ \A f \in {"SB_RS", "SB_AI"} : f \in View(s).flags <=> f \in i.b.sb_flags
      BY <1>6 DEF View, SameBlock
    <2> QED
      BY <1>1, <2>1 DEF Discarded, PrAfterPr, LosesCollision, Beaten
  <1>8. SameBlock(sb[s], in.b)
    BY <1>5, <1>6 DEF SameBlock
  <1> QED
    BY <1>1, <1>3, <1>4, <1>5, <1>6, <1>7, <1>8

LEMMA AcceptShape ==
    ASSUME Inv, NEW s \in Side, Connected(s), Len(sb[s].sb_spdu) <= 1,
           NEW codes, NEW in \in Received(s, codes),
           NEW b, "SB_CONN" \in b.sb_flags, b.sb_spdu = in.b.sb_spdu,
           NEW reply \in Seq(Spdu), Accept(s, in, b, reply)
    PROVE  /\ Moves(s) /\ sb'[s] = b /\ inRelease' = inRelease
           /\ reply = << >> => Silent(s)
           /\ \A x \in Spdu : reply = <<x>> => Says(s, x)
           /\ in.p.code \in Tracked /\ Normal(Queue(s)) => Took(Queue(s), Queue(s)', in.p)
  <1> DEFINE r == in.b.sb_spdu \o in.q
  <1>1. /\ r \in Seq(Spdu) /\ Sub(Tracked, Queue(s), r) /\ Len(in.b.sb_spdu) <= 1
        /\ in.p.code \in Tracked /\ Normal(Queue(s)) => Took(Queue(s), r, in.p)
        /\ in.q \in Seq(Spdu)
    BY ReceivedTakes
  <1>2. Stores(s, b, in.q, reply) /\ inRelease' = inRelease /\ outcome' = outcome
    BY DEF Accept, Stores
  <1>3. b.sb_spdu \o in.q = r
    OBVIOUS
  <1> HIDE DEF r
  <1>4. /\ Moves(s) /\ sb'[s] = b /\ Queue(s)' = b.sb_spdu \o in.q
        /\ reply = << >> => Silent(s)
        /\ \A x \in Spdu : reply \in {<<x>>, SWriteRequestAux(x)} => Says(s, x)
    BY <1>1, <1>2, <1>3, StepShape
  <1> QED
    BY <1>1, <1>2, <1>3, <1>4

\* The same for the release loop.
LEMMA ResumeShape ==
    ASSUME Inv, NEW s \in Side, Connected(s), Len(sb[s].sb_spdu) <= 1,
           NEW codes, NEW in \in Awaited(s, codes), NEW reply \in Seq(Spdu),
           NEW waiting, Resume(s, in, in.b, reply, waiting)
    PROVE  /\ Moves(s) /\ SameBlock(sb[s], sb'[s]) /\ inRelease[s] /\ inRelease'[s] = waiting
           /\ reply = << >> => Silent(s)
           /\ \A x \in Spdu : reply = <<x>> => Says(s, x)
           /\ in.p.code \in codes
           /\ in.p.code \in Tracked /\ Normal(Queue(s)) => Took(Queue(s), Queue(s)', in.p)
  <1> DEFINE r == in.b.sb_spdu \o in.q
  <1>1. in \in sb2spkt(s) /\ inRelease[s] /\ in.p.code \in codes
    BY DEF Awaited
  <1>2. /\ r \in Seq(Spdu) /\ Sub(Tracked, Queue(s), r) /\ Len(in.b.sb_spdu) <= 1
        /\ SameBlock(sb[s], in.b)
        /\ in.p.code \in Tracked /\ Normal(Queue(s)) => Took(Queue(s), r, in.p)
    BY <1>1, ReadTakes DEF Inv
  <1>3. in.q \in Seq(Spdu) /\ "SB_CONN" \in in.b.sb_flags
    BY <1>1, ReadType DEF Inv, Up
  <1>4. /\ Stores(s, in.b, in.q, reply) /\ outcome' = outcome
        /\ inRelease'[Peer(s)] = inRelease[Peer(s)] /\ inRelease'[s] = waiting
    BY PeerSide DEF Resume, Stores, Inv, TypeOK
  <1>5. /\ Moves(s) /\ sb'[s] = in.b /\ Queue(s)' = r
        /\ reply = << >> => Silent(s)
        /\ \A x \in Spdu : reply \in {<<x>>, SWriteRequestAux(x)} => Says(s, x)
    BY <1>2, <1>3, <1>4, StepShape
  <1> HIDE DEF r
  <1> QED
    BY <1>1, <1>2, <1>4, <1>5

-----------------------------------------------------------------------------
(* Each part of the invariant where a step only takes SPDUs of the codes   *)
(* that the part is about.                                                 *)

Seen(v) == v.q \in Seq(Spdu) /\ v.rs \in SyncOp /\ v.rsn \in Nat

LEMMA NormalLess ==
    ASSUME NEW q, NEW r, Normal(q), Sub(Tracked, q, r)
    PROVE  Normal(r)
  BY DEF Normal, Sub, Maps

LEMMA BidsLess ==
    ASSUME NEW e, NEW v, NEW w, NEW v1, NEW w1, Seen(v1), BidsOK(e, v, w),
           \A x : Live(w, x) => Live(w1, x),
           \A x : Beaten(e, v, x) => Beaten(e, v1, x),
           Sub({"RS", "RA"} \cup IntrAck, v.q, v1.q)
    PROVE  BidsOK(e, v1, w1)
  <1>1. PICK f : Maps(f, {"RS", "RA"} \cup IntrAck, v.q, v1.q)
    BY DEF Sub
  <1> SUFFICES ASSUME NEW i \in DOMAIN v1.q, v1.q[i].code = "RS"
               PROVE  \/ /\ Live(w1, v1.q[i])
                         /\ \A j \in DOMAIN v1.q : i < j => v1.q[j].code \notin {"RS", "RA"}
                      \/ /\ Beaten(e, v1, v1.q[i])
                         /\ \A j \in DOMAIN v1.q : j < i => v1.q[j].code \notin {"RA"} \cup IntrAck
    BY DEF BidsOK
  <1>2. f[i] \in DOMAIN v.q /\ v1.q[i] = v.q[f[i]]
    BY <1>1 DEF Maps
  <1>3. CASE /\ Live(w, v.q[f[i]])
             /\ \A j \in DOMAIN v.q : f[i] < j => v.q[j].code \notin {"RS", "RA"}
    <2>1. \A j \in DOMAIN v1.q : i < j => v1.q[j].code \notin {"RS", "RA"}
      BY <1>1, <1>3 DEF Maps
    <2> QED
      BY <1>2, <1>3, <2>1
  <1>4. CASE /\ Beaten(e, v, v.q[f[i]])
             /\ \A j \in DOMAIN v.q : j < f[i] => v.q[j].code \notin {"RA"} \cup IntrAck
    <2>1. \A j \in DOMAIN v1.q : j < i => v1.q[j].code \notin {"RA"} \cup IntrAck
      BY <1>1, <1>4 DEF Maps
    <2> QED
      BY <1>2, <1>4, <2>1
  <1> QED
    BY <1>2, <1>3, <1>4 DEF BidsOK

LEMMA AskedLess ==
    ASSUME NEW v, NEW w, NEW v1, NEW w1, Seen(v1), AskedOK(v, w),
           "SB_RA" \in v1.flags => "SB_RA" \in v.flags,
           "SB_RS" \in w.flags => "SB_RS" \in w1.flags,
           Sub({"RS", "RA"}, v.q, v1.q), Sub({"RA"}, w.q, w1.q)
    PROVE  AskedOK(v1, w1)
  <1>1. Sub({"RS"}, v.q, v1.q) /\ Sub({"RA"}, v.q, v1.q)
    BY SubLess
  <1>2. /\ Carries(v1.q, {"RS"}) => Carries(v.q, {"RS"})
        /\ Carries(w1.q, {"RA"}) => Carries(w.q, {"RA"})
    BY <1>1, SubCarries
  <1>3. AtMostOne(v1.q, {"RA"})
    BY <1>1, SubOne DEF AskedOK, Seen
  <1> QED
    BY <1>2, <1>3 DEF AskedOK

LEMMA IntrLess ==
    ASSUME NEW v, NEW w, NEW v1, NEW w1, Seen(v1), IntrOK(v, w),
           "SB_AIA" \in v1.flags => "SB_AIA" \in v.flags,
           "SB_AI" \in w.flags => "SB_AI" \in w1.flags,
           Sub({"RS", "RA"} \cup Intr \cup IntrAck, v.q, v1.q), Sub(IntrAck, w.q, w1.q)
    PROVE  IntrOK(v1, w1)
  <1>1. Sub(Intr, v.q, v1.q) /\ Sub(IntrAck, v.q, v1.q)
    BY SubLess
  <1>2. /\ Carries(v1.q, Intr) => Carries(v.q, Intr)
        /\ Carries(w1.q, IntrAck) => Carries(w.q, IntrAck)
    BY <1>1, SubCarries
  <1>3. AtMostOne(v1.q, Intr) /\ AtMostOne(v1.q, IntrAck)
    BY <1>1, SubOne DEF IntrOK, Seen
  <1>4. \A i \in DOMAIN v1.q, j \in DOMAIN v1.q :
          i < j /\ v1.q[i].code \in Intr => v1.q[j].code \notin {"RS", "RA"}
    BY DEF Sub, Maps, IntrOK
  <1> QED
    BY <1>2, <1>3, <1>4 DEF IntrOK

FinishCodes == {"FN", "RA", "RS"} \cup Intr

LEMMA FinishLess ==
    ASSUME NEW e, NEW v, NEW w, NEW v1, NEW w1, Seen(v1), FinishOK(e, v, w),
           "SB_FINN" \in v1.flags => "SB_FINN" \in v.flags,
           "SB_RS" \in v.flags => "SB_RS" \in v1.flags,
           Leaving(w) => Leaving(w1),
           \A x : Beaten(e, v, x) => Beaten(e, v1, x),
           Sub(FinishCodes, v.q, v1.q)
    PROVE  FinishOK(e, v1, w1)
  <1>1. PICK f : Maps(f, FinishCodes, v.q, v1.q)
    BY DEF Sub
  <1>2. ASSUME NEW j \in DOMAIN v1.q, v1.q[j].code = "FN"
        PROVE  /\ f[j] \in DOMAIN v.q /\ v1.q[j] = v.q[f[j]]
               /\ Held(e, v, f[j]) => Held(e, v1, j)
    BY <1>1, <1>2 DEF Maps, Held, FinishCodes
  <1>3. Carries(v1.q, {"FN"}) => Carries(v.q, {"FN"})
    BY <1>2 DEF Carries
  <1>4. \A j \in DOMAIN v1.q : v1.q[j].code = "FN" => Leaving(w1) \/ Held(e, v1, j)
    BY <1>2 DEF FinishOK
  <1>5. \A i \in DOMAIN v1.q, j \in DOMAIN v1.q :
          i < j /\ v1.q[i].code = "FN" /\ v1.q[j].code = "FN" => Held(e, v1, i)
    BY <1>1, <1>2 DEF FinishOK, Maps, FinishCodes
  <1> QED
    BY <1>3, <1>4, <1>5 DEF FinishOK

LEMMA RefuseLess ==
    ASSUME NEW v, NEW w, NEW v1, NEW w1, RefuseOK(v, w),
           Leaving(v) => Leaving(v1),
           "SB_FINN" \in w1.flags => "SB_FINN" \in w.flags,
           Sub({"RS", "FN", "NF"}, v.q, v1.q), Sub({"FN"}, w.q, w1.q)
    PROVE  RefuseOK(v1, w1)
  <1>1. Sub({"NF"}, v.q, v1.q)
    BY SubLess
  <1>2. /\ Carries(v1.q, {"NF"}) => Carries(v.q, {"NF"})
        /\ Carries(w1.q, {"FN"}) => Carries(w.q, {"FN"})
    BY <1>1, SubCarries
  <1>3. \A i \in DOMAIN v1.q, j \in DOMAIN v1.q :
          i < j /\ v1.q[j].code = "NF" => v1.q[i].code \notin {"RS", "FN", "NF"}
    BY DEF Sub, Maps, RefuseOK
  <1> QED
    BY <1>2, <1>3 DEF RefuseOK

LEMMA PartingLess ==
    ASSUME NEW v, NEW v1, Parting(v), Leaving(v) => Leaving(v1),
           Sub({"RS", "NF"}, v.q, v1.q)
    PROVE  Parting(v1)
  BY SubCarries DEF Parting

LEMMA DoneLess ==
    ASSUME NEW v, NEW w, NEW v1, NEW w1, DoneOK(v, w),
           Leaving(v) => Leaving(v1), Leaving(w) => Leaving(w1),
           Sub({"DN", "RS", "NF"}, v.q, v1.q), Sub({"RS", "NF"}, w.q, w1.q)
    PROVE  DoneOK(v1, w1)
  <1>1. Sub({"DN"}, v.q, v1.q) /\ Sub({"RS", "NF"}, v.q, v1.q)
    BY SubLess
  <1>2. Carries(v1.q, {"DN"}) => Carries(v.q, {"DN"})
    BY <1>1, SubCarries
  <1> QED
    BY <1>1, <1>2, PartingLess DEF DoneOK

-----------------------------------------------------------------------------
(* Steps that leave alone all that matters, but for SPDUs they take.       *)

Watched == {"SB_RS", "SB_RA", "SB_AI", "SB_AIA", "SB_FINN", "SB_RELEASE"}

SameMind(v, v1) == /\ v1.rs = v.rs /\ v1.rsn = v.rsn
                   /\ \A f \in Watched : f \in v1.flags <=> f \in v.flags

LEMMA MindKeeps ==
    ASSUME NEW v, NEW v1, SameMind(v, v1)
    PROVE  /\ \A x : Live(v, x) => Live(v1, x)
           /\ \A e, x : Beaten(e, v, x) => Beaten(e, v1, x)
           /\ Leaving(v1) <=> Leaving(v)
           /\ "SB_RS" \in v1.flags <=> "SB_RS" \in v.flags
           /\ "SB_RA" \in v1.flags <=> "SB_RA" \in v.flags
           /\ "SB_AI" \in v1.flags <=> "SB_AI" \in v.flags
           /\ "SB_AIA" \in v1.flags <=> "SB_AIA" \in v.flags
           /\ "SB_FINN" \in v1.flags <=> "SB_FINN" \in v.flags
  BY DEF SameMind, Watched, Live, Beaten, Leaving

LEMMA CalmEnd ==
    ASSUME NEW e, NEW v, NEW w, NEW v1, NEW w1, Seen(v1), EndOK(e, v, w),
           SameMind(v, v1), SameMind(w, w1), Sub(Tracked, v.q, v1.q), Sub(Tracked, w.q, w1.q)
    PROVE  EndOK(e, v1, w1)
  <1>1. /\ \A x : Live(w, x) => Live(w1, x)
        /\ \A x : Beaten(e, v, x) => Beaten(e, v1, x)
        /\ Leaving(v1) <=> Leaving(v)
        /\ Leaving(w1) <=> Leaving(w)
        /\ \A f \in Watched : /\ f \in v1.flags <=> f \in v.flags
                              /\ f \in w1.flags <=> f \in w.flags
    BY MindKeeps DEF SameMind
  <1>2. ASSUME NEW codes \in SUBSET Tracked
        PROVE  Sub(codes, v.q, v1.q) /\ Sub(codes, w.q, w1.q)
    BY SubLess
  <1> USE DEF Watched
  <1>3. FlagsOK(v1)
    BY <1>1, NormalLess DEF EndOK, FlagsOK, SameMind
  <1>4. BidsOK(e, v1, w1)
    <2>1. Sub({"RS", "RA"} \cup IntrAck, v.q, v1.q)
      BY <1>2 DEF Tracked
    <2> QED
      BY <1>1, <2>1, BidsLess DEF EndOK
  <1>5. AskedOK(v1, w1)
    <2>1. Sub({"RS", "RA"}, v.q, v1.q) /\ Sub({"RA"}, w.q, w1.q)
      BY <1>2 DEF Tracked
    <2> QED
      BY <1>1, <2>1, AskedLess DEF EndOK
  <1>6. IntrOK(v1, w1)
    <2>1. Sub({"RS", "RA"} \cup Intr \cup IntrAck, v.q, v1.q) /\ Sub(IntrAck, w.q, w1.q)
      BY <1>2 DEF Tracked
    <2> QED
      BY <1>1, <2>1, IntrLess DEF EndOK
  <1>7. FinishOK(e, v1, w1)
    <2>1. Sub(FinishCodes, v.q, v1.q)
      BY <1>2 DEF Tracked, FinishCodes
    <2> QED
      BY <1>1, <2>1, FinishLess DEF EndOK
  <1>8. RefuseOK(v1, w1)
    <2>1. Sub({"RS", "FN", "NF"}, v.q, v1.q) /\ Sub({"FN"}, w.q, w1.q)
      BY <1>2 DEF Tracked
    <2> QED
      BY <1>1, <2>1, RefuseLess DEF EndOK
  <1>9. DoneOK(v1, w1)
    <2>1. Sub({"DN", "RS", "NF"}, v.q, v1.q) /\ Sub({"RS", "NF"}, w.q, w1.q)
      BY <1>2 DEF Tracked
    <2> QED
      BY <1>1, <2>1, DoneLess DEF EndOK
  <1> QED
    BY <1>3, <1>4, <1>5, <1>6, <1>7, <1>8, <1>9 DEF EndOK

-----------------------------------------------------------------------------
(* Steps that send x to the peer.                                          *)

\* The flags that matter become what gone and come say.
Turns(v, v1, gone, come) ==
    \A f \in Watched : f \in v1.flags <=> (f \in v.flags /\ f \notin gone) \/ f \in come

Sends(v, w, v1, w1, x) == /\ v1.q = v.q /\ SameMind(w, w1)
                          /\ Gave(w.q, w1.q, x) /\ ~x.expd

LEMMA SendsSubs ==
    ASSUME NEW v, NEW w, NEW v1, NEW w1, NEW x, Seen(v), Seen(w), Seen(w1),
           Sends(v, w, v1, w1, x)
    PROVE  /\ \A codes : Sub(codes, v.q, v1.q)
           /\ \A codes \in SUBSET Tracked : x.code \notin codes => Sub(codes, w.q, w1.q)
  <1>1. ASSUME NEW codes PROVE Sub(codes, v.q, v1.q)
    BY SubItself DEF Sends, Seen
  <1>2. ASSUME NEW codes \in SUBSET Tracked, x.code \notin codes
        PROVE  Sub(codes, w.q, w1.q)
    BY <1>2, GaveSub DEF Sends, Seen
  <1> QED
    BY <1>1, <1>2

LEMMA GrowFlags ==
    ASSUME NEW w, NEW w1, NEW x, FlagsOK(w), SameMind(w, w1), Gave(w.q, w1.q, x), ~x.expd
    PROVE  FlagsOK(w1)
  <1>1. Normal(w1.q)
    BY DEF FlagsOK, Normal, Gave
  <1> QED
    BY <1>1, MindKeeps DEF FlagsOK, SameMind

LEMMA GrowHeld ==
    ASSUME NEW e, NEW w, NEW w1, NEW x, SameMind(w, w1), Gave(w.q, w1.q, x), Seen(w), Seen(w1),
           NEW i \in DOMAIN w.q, Held(e, w, i)
    PROVE  Held(e, w1, i)
  <1>1. \A j \in DOMAIN w1.q : j < i => j \in DOMAIN w.q /\ w1.q[j] = w.q[j]
    BY DEF Gave, Seen
  <1> QED
    BY <1>1, MindKeeps DEF Held

LEMMA GrowFinish ==
    ASSUME NEW e, NEW v, NEW w, NEW v1, NEW w1, NEW x, FinishOK(e, w, v), x.code # "FN",
           SameMind(w, w1), Gave(w.q, w1.q, x), Seen(w), Seen(w1),
           Leaving(v) => Leaving(v1)
    PROVE  FinishOK(e, w1, v1)
  <1>1. \A i \in DOMAIN w1.q : w1.q[i].code = "FN" => i \in DOMAIN w.q /\ w1.q[i] = w.q[i]
    BY DEF Gave, Tracked
  <1>2. \A i \in DOMAIN w.q : Held(e, w, i) => Held(e, w1, i)
    BY GrowHeld
  <1>3. Carries(w1.q, {"FN"}) => Carries(w.q, {"FN"})
    BY <1>1 DEF Carries
  <1>4. \A j \in DOMAIN w1.q : w1.q[j].code = "FN" => Leaving(v1) \/ Held(e, w1, j)
    BY <1>1, <1>2 DEF FinishOK
  <1>5. \A i \in DOMAIN w1.q, j \in DOMAIN w1.q :
          i < j /\ w1.q[i].code = "FN" /\ w1.q[j].code = "FN" => Held(e, w1, i)
    BY <1>1, <1>2 DEF FinishOK
  <1> QED
    BY <1>3, <1>4, <1>5, MindKeeps DEF FinishOK

LEMMA GrowRefuse ==
    ASSUME NEW v, NEW w, NEW v1, NEW w1, NEW x, RefuseOK(w, v), x.code # "NF",
           SameMind(w, w1), Gave(w.q, w1.q, x), Seen(w), Seen(w1),
           "SB_FINN" \in v1.flags => "SB_FINN" \in v.flags,
           Carries(v1.q, {"FN"}) => Carries(v.q, {"FN"})
    PROVE  RefuseOK(w1, v1)
  <1>1. \A j \in DOMAIN w1.q : w1.q[j].code = "NF" =>
          /\ j \in DOMAIN w.q /\ w1.q[j] = w.q[j]
          /\ \A i \in DOMAIN w1.q : i < j => i \in DOMAIN w.q /\ w1.q[i] = w.q[i]
    BY DEF Gave, Tracked, Seen
  <1>2. Carries(w1.q, {"NF"}) => Carries(w.q, {"NF"})
    BY <1>1 DEF Carries
  <1>3. \A i \in DOMAIN w1.q, j \in DOMAIN w1.q :
          i < j /\ w1.q[j].code = "NF" => w1.q[i].code \notin {"RS", "FN", "NF"}
    BY <1>1 DEF RefuseOK
  <1> QED
    BY <1>2, <1>3, MindKeeps DEF RefuseOK

LEMMA GrowBids ==
    ASSUME NEW e, NEW v, NEW w, NEW v1, NEW w1, NEW x, BidsOK(e, w, v),
           "SB_RS" \notin v.flags, x.code = "RS" => Live(v1, x),
           SameMind(w, w1), Gave(w.q, w1.q, x), Seen(w), Seen(w1)
    PROVE  BidsOK(e, w1, v1)
  <1> SUFFICES ASSUME NEW i \in DOMAIN w1.q, w1.q[i].code = "RS"
               PROVE  \/ /\ Live(v1, w1.q[i])
                         /\ \A j \in DOMAIN w1.q : i < j => w1.q[j].code \notin {"RS", "RA"}
                      \/ /\ Beaten(e, w1, w1.q[i])
                         /\ \A j \in DOMAIN w1.q : j < i => w1.q[j].code \notin {"RA"} \cup IntrAck
    BY DEF BidsOK
  <1>1. CASE i \in DOMAIN w.q
    <2>1. w1.q[i] = w.q[i] /\ \A j \in DOMAIN w1.q : j < i => j \in DOMAIN w.q /\ w1.q[j] = w.q[j]
      BY <1>1 DEF Gave, Seen
    <2>2. /\ Beaten(e, w, w.q[i])
          /\ \A j \in DOMAIN w.q : j < i => w.q[j].code \notin {"RA"} \cup IntrAck
      BY <1>1, <2>1 DEF BidsOK, Live
    <2> QED
      BY <2>1, <2>2, MindKeeps
  <1>2. CASE i \notin DOMAIN w.q
    <2>1. i = Len(w1.q) /\ w1.q[i] = x
      BY <1>2 DEF Gave, Tracked
    <2>2. \A j \in DOMAIN w1.q : ~(i < j)
      BY <2>1 DEF Seen
    <2> QED
      BY <2>1, <2>2
  <1> QED
    BY <1>1, <1>2

\* The parts that x itself can disturb are left to each step.
LEMMA SendPair ==
    ASSUME NEW e \in Side, NEW v, NEW w, NEW v1, NEW w1, NEW x,
           Seen(v), Seen(w), Seen(v1), Seen(w1),
           PairOK(e, v, w), Sends(v, w, v1, w1, x),
           "SB_RS" \notin v.flags, "SB_AI" \notin v.flags, FlagsOK(v1),
           "SB_RA" \in v1.flags => "SB_RA" \in v.flags,
           "SB_AIA" \in v1.flags => "SB_AIA" \in v.flags,
           "SB_FINN" \in v1.flags => "SB_FINN" \in v.flags,
           Leaving(v) => Leaving(v1),
           x.code = "RS" => Live(v1, x),
           x.code \in {"RS", "NF"} => ~Leaving(v),
           x.code = "RA" => AskedOK(v1, w1),
           x.code \in {"RS", "RA"} => AskedOK(w1, v1),
           x.code \in IntrAck => IntrOK(v1, w1),
           x.code \in {"RS", "RA"} \cup Intr \cup IntrAck => IntrOK(w1, v1),
           x.code = "FN" => RefuseOK(v1, w1) /\ FinishOK(Peer(e), w1, v1),
           x.code = "NF" => RefuseOK(w1, v1),
           x.code = "DN" => DoneOK(w1, v1)
    PROVE  PairOK(e, v1, w1)
  <1>1. /\ SameMind(w, w1) /\ Gave(w.q, w1.q, x) /\ ~x.expd
        /\ EndOK(e, v, w) /\ EndOK(Peer(e), w, v)
    BY DEF Sends, PairOK
  <1>2. /\ \A y : Live(w, y) => Live(w1, y)
        /\ \A y : Beaten(e, v, y) => Beaten(e, v1, y)
        /\ Leaving(w1) <=> Leaving(w)
        /\ \A f \in Watched : f \in w1.flags <=> f \in w.flags
    BY <1>1, MindKeeps DEF SameMind, Beaten
  <1>3. /\ \A codes : Sub(codes, v.q, v1.q)
        /\ \A codes \in SUBSET Tracked : x.code \notin codes => Sub(codes, w.q, w1.q)
    BY SendsSubs
  <1>4. EndOK(e, v1, w1)
    <2>1. BidsOK(e, v1, w1)
      BY <1>1, <1>2, <1>3, BidsLess DEF EndOK
    <2>2. AskedOK(v1, w1)
      <3>1. x.code # "RA" => Sub({"RA"}, w.q, w1.q)
        BY <1>3 DEF Tracked
      <3> QED
        BY <1>1, <1>2, <1>3, <3>1, AskedLess DEF EndOK, Watched
    <2>3. IntrOK(v1, w1)
      <3>1. x.code \notin IntrAck => Sub(IntrAck, w.q, w1.q)
        BY <1>3 DEF Tracked
      <3> QED
        BY <1>1, <1>2, <1>3, <3>1, IntrLess DEF EndOK, Watched
    <2>4. FinishOK(e, v1, w1)
      BY <1>1, <1>2, <1>3, FinishLess DEF EndOK
    <2>5. RefuseOK(v1, w1)
      <3>1. x.code # "FN" => Sub({"FN"}, w.q, w1.q)
        BY <1>3 DEF Tracked
      <3> QED
        BY <1>1, <1>2, <1>3, <3>1, RefuseLess DEF EndOK, Watched
    <2>6. DoneOK(v1, w1)
      <3>1. CASE x.code \in {"RS", "NF"}
        BY <1>1, <3>1 DEF Sends, EndOK, DoneOK, Parting
      <3>2. CASE x.code \notin {"RS", "NF"}
        <4>1. Sub({"RS", "NF"}, w.q, w1.q)
          BY <1>3, <3>2 DEF Tracked
        <4> QED
          BY <1>1, <1>2, <1>3, <4>1, DoneLess DEF EndOK
      <3> QED
        BY <3>1, <3>2
    <2> QED
      BY <2>1, <2>2, <2>3, <2>4, <2>5, <2>6 DEF EndOK
  <1>5. EndOK(Peer(e), w1, v1)
    <2>1. FlagsOK(w1)
      BY <1>1, GrowFlags DEF EndOK
    <2>2. BidsOK(Peer(e), w1, v1)
      BY <1>1, GrowBids DEF EndOK
    <2>3. AskedOK(w1, v1)
      <3>1. x.code \notin {"RS", "RA"} => Sub({"RS", "RA"}, w.q, w1.q)
        BY <1>3 DEF Tracked
      <3> QED
        BY <1>1, <1>2, <1>3, <3>1, AskedLess DEF EndOK, Watched
    <2>4. IntrOK(w1, v1)
      <3> DEFINE codes == {"RS", "RA"} \cup Intr \cup IntrAck
      <3>1. x.code \notin codes => Sub(codes, w.q, w1.q)
        BY <1>3 DEF Tracked
      <3> QED
        BY <1>1, <1>2, <1>3, <3>1, IntrLess DEF EndOK, Watched
    <2>5. FinishOK(Peer(e), w1, v1)
      BY <1>1, GrowFinish DEF EndOK
    <2>6. RefuseOK(w1, v1)
      BY <1>1, GrowRefuse DEF EndOK, Sends
    <2>7. DoneOK(w1, v1)
      <3>1. CASE x.code \in {"RS", "NF"}
        <4>1. Sub({"DN"}, w.q, w1.q)
          BY <1>3, <3>1 DEF Tracked
        <4>2. ~Carries(w.q, {"DN"})
          BY <1>1, <3>1 DEF EndOK, DoneOK, Parting
        <4> QED
          BY <4>1, <4>2, SubCarries DEF DoneOK
      <3>2. CASE x.code \notin {"RS", "NF", "DN"}
        <4>1. Sub({"DN", "RS", "NF"}, w.q, w1.q)
          BY <1>3, <3>2 DEF Tracked
        <4> QED
          BY <1>1, <1>2, <1>3, <4>1, DoneLess DEF EndOK
      <3> QED
        BY <3>1, <3>2
    <2> QED
      BY <2>1, <2>2, <2>3, <2>4, <2>5, <2>6, <2>7 DEF EndOK
  <1> QED
    BY <1>4, <1>5 DEF PairOK

\* S-RESYNCHRONIZE.REQUEST.
LEMMA SendRS ==
    ASSUME NEW e \in Side, NEW v, NEW w, NEW v1, NEW w1, NEW x,
           Seen(v), Seen(w), Seen(v1), Seen(w1), PairOK(e, v, w), Sends(v, w, v1, w1, x),
           x.code = "RS", Turns(v, v1, {"SB_RA"}, {"SB_RS"}), Live(v1, x), v1.rs \in ResyncType,
           v.flags \cap {"SB_RS", "SB_AI", "SB_AIA", "SB_FINN", "SB_RELEASE"} = {}
    PROVE  PairOK(e, v1, w1)
  <1>1. /\ EndOK(e, v, w) /\ EndOK(Peer(e), w, v) /\ v1.q = v.q /\ SameMind(w, w1)
        /\ Gave(w.q, w1.q, x)
    BY DEF PairOK, Sends
  <1>2. /\ v.flags \cap {"SB_RS", "SB_AI", "SB_AIA", "SB_FINN", "SB_RELEASE"} = {}
        /\ v1.flags \cap {"SB_RA", "SB_AI", "SB_AIA", "SB_FINN", "SB_RELEASE"} = {}
        /\ "SB_RS" \in v1.flags
    BY DEF Turns, Watched
  <1>3. FlagsOK(v1)
    BY <1>1, <1>2 DEF EndOK, FlagsOK, Leaving
  <1>4. AskedOK(w1, v1)
    <2>1. "SB_RA" \notin w1.flags /\ ~Carries(v1.q, {"RA"})
      BY <1>1, <1>2, MindKeeps DEF EndOK, AskedOK
    <2>2. AtMostOne(w1.q, {"RA"})
      BY <1>1, GaveOne DEF EndOK, AskedOK, Tracked
    <2> QED
      BY <2>1, <2>2 DEF AskedOK
  <1>5. IntrOK(w1, v1)
    <2>1. ~Carries(w.q, Intr) /\ "SB_AIA" \notin w1.flags /\ ~Carries(v1.q, IntrAck)
      BY <1>1, <1>2, MindKeeps DEF EndOK, IntrOK
    <2>2. ~Carries(w1.q, Intr)
      BY <1>1, <2>1, GaveCarries DEF Tracked, Intr
    <2>3. AtMostOne(w1.q, IntrAck)
      BY <1>1, GaveOne DEF EndOK, IntrOK, Tracked, IntrAck
    <2> QED
      BY <2>1, <2>2, <2>3 DEF IntrOK, Carries, AtMostOne
  <1> QED
    BY <1>2, <1>3, <1>4, <1>5, SendPair DEF Leaving, IntrAck

\* S-RESYNCHRONIZE.RESPONSE.
LEMMA SendRA ==
    ASSUME NEW e \in Side, NEW v, NEW w, NEW v1, NEW w1, NEW x,
           Seen(v), Seen(w), Seen(v1), Seen(w1), PairOK(e, v, w), Sends(v, w, v1, w1, x),
           x.code = "RA", Turns(v, v1, {"SB_RA"}, {}), "SB_RA" \in v.flags,
           v.flags \cap {"SB_RS", "SB_AI", "SB_AIA", "SB_FINN", "SB_RELEASE"} = {}
    PROVE  PairOK(e, v1, w1)
  <1>1. /\ EndOK(e, v, w) /\ EndOK(Peer(e), w, v) /\ v1.q = v.q /\ SameMind(w, w1)
        /\ Gave(w.q, w1.q, x)
    BY DEF PairOK, Sends
  <1>2. v1.flags \cap Watched = {} /\ "SB_RS" \notin v.flags /\ "SB_AI" \notin v.flags
    BY DEF Turns, Watched
  <1>3. FlagsOK(v1)
    BY <1>1, <1>2 DEF EndOK, FlagsOK, Leaving, Watched
  <1>4. /\ "SB_RS" \in w.flags /\ "SB_RA" \notin w.flags /\ ~Carries(v.q, {"RS"})
        /\ ~Carries(w.q, {"RA"})
    BY <1>1 DEF EndOK, AskedOK, FlagsOK
  <1>5. AskedOK(v1, w1)
    BY <1>1, <1>2, <1>4, MindKeeps DEF EndOK, AskedOK, Watched
  <1>6. AskedOK(w1, v1)
    <2>1. "SB_RA" \notin w1.flags /\ ~Carries(v1.q, {"RA"})
      BY <1>1, <1>2, <1>4, MindKeeps DEF EndOK, AskedOK
    <2>2. AtMostOne(w1.q, {"RA"})
      BY <1>1, <1>4, GaveOne DEF EndOK, AskedOK, Tracked
    <2> QED
      BY <2>1, <2>2 DEF AskedOK
  <1>7. IntrOK(w1, v1)
    <2>1. ~Carries(w.q, Intr) /\ "SB_AIA" \notin w1.flags /\ ~Carries(v1.q, IntrAck)
      BY <1>1, <1>2, MindKeeps DEF EndOK, IntrOK
    <2>2. ~Carries(w1.q, Intr)
      BY <1>1, <2>1, GaveCarries DEF Tracked, Intr
    <2>3. AtMostOne(w1.q, IntrAck)
      BY <1>1, GaveOne DEF EndOK, IntrOK, Tracked, IntrAck
    <2> QED
      BY <2>1, <2>2, <2>3 DEF IntrOK, Carries, AtMostOne
  <1> QED
    BY <1>2, <1>3, <1>5, <1>6, <1>7, SendPair DEF Leaving, IntrAck, Watched

\* S-ACTIVITY-INTERRUPT.REQUEST and S-ACTIVITY-DISCARD.REQUEST.
LEMMA SendAI ==
    ASSUME NEW e \in Side, NEW v, NEW w, NEW v1, NEW w1, NEW x,
           Seen(v), Seen(w), Seen(v1), Seen(w1), PairOK(e, v, w), Sends(v, w, v1, w1, x),
           x.code \in Intr, Turns(v, v1, {}, {"SB_AI"}), v1.rs \in {"INTR", "DISC"},
           v.flags \cap Watched = {}
    PROVE  PairOK(e, v1, w1)
  <1>1. /\ EndOK(e, v, w) /\ EndOK(Peer(e), w, v) /\ v1.q = v.q /\ SameMind(w, w1)
        /\ Gave(w.q, w1.q, x)
    BY DEF PairOK, Sends
  <1>2. v1.flags \cap Watched = {"SB_AI"} /\ "SB_RS" \notin v.flags /\ "SB_AI" \notin v.flags
    BY DEF Turns, Watched
  <1>3. FlagsOK(v1)
    BY <1>1, <1>2 DEF EndOK, FlagsOK, Leaving, Watched
  <1>4. IntrOK(w1, v1)
    <2>1. ~Carries(w.q, Intr) /\ "SB_AIA" \notin w1.flags /\ ~Carries(v1.q, IntrAck)
      BY <1>1, <1>2, MindKeeps DEF EndOK, IntrOK
    <2>2. AtMostOne(w1.q, Intr)
      BY <1>1, <2>1, GaveOne DEF EndOK, IntrOK, Tracked
    <2>3. AtMostOne(w1.q, IntrAck)
      BY <1>1, GaveOne DEF EndOK, IntrOK, Tracked, Intr, IntrAck, Work
    <2>4. \A i \in DOMAIN w1.q, j \in DOMAIN w1.q : ~(i < j /\ w1.q[i].code \in Intr)
      BY <1>1, <2>1 DEF Carries, Gave, Seen, Tracked
    <2> QED
      BY <1>2, <2>1, <2>2, <2>3, <2>4 DEF IntrOK
  <1> QED
    BY <1>2, <1>3, <1>4, SendPair DEF Leaving, Intr, IntrAck, Watched

\* S-ACTIVITY-INTERRUPT.RESPONSE and S-ACTIVITY-DISCARD.RESPONSE.
LEMMA SendAIA ==
    ASSUME NEW e \in Side, NEW v, NEW w, NEW v1, NEW w1, NEW x,
           Seen(v), Seen(w), Seen(v1), Seen(w1), PairOK(e, v, w), Sends(v, w, v1, w1, x),
           x.code \in IntrAck, Turns(v, v1, {"SB_AIA"}, {}), "SB_AIA" \in v.flags,
           v.flags \cap {"SB_RS", "SB_AI", "SB_FINN", "SB_RELEASE"} = {}
    PROVE  PairOK(e, v1, w1)
  <1>1. /\ EndOK(e, v, w) /\ EndOK(Peer(e), w, v) /\ v1.q = v.q /\ SameMind(w, w1)
        /\ Gave(w.q, w1.q, x)
    BY DEF PairOK, Sends
  <1>2. /\ v1.flags \cap {"SB_RS", "SB_AI", "SB_AIA", "SB_FINN", "SB_RELEASE"} = {}
        /\ "SB_RA" \in v1.flags <=> "SB_RA" \in v.flags
        /\ "SB_RS" \notin v.flags /\ "SB_AI" \notin v.flags
    BY DEF Turns, Watched
  <1>3. FlagsOK(v1)
    BY <1>1, <1>2 DEF EndOK, FlagsOK, Leaving
  <1>4. "SB_AI" \in w.flags /\ ~Carries(w.q, IntrAck) /\ ~Carries(v.q, Intr)
    BY <1>1 DEF EndOK, IntrOK
  <1>5. IntrOK(v1, w1)
    <2>1. "SB_AI" \in w1.flags
      BY <1>1, <1>4, MindKeeps
    <2> QED
      BY <1>1, <1>2, <1>4, <2>1 DEF EndOK, IntrOK
  <1>6. IntrOK(w1, v1)
    <2>1. ~Carries(w.q, Intr) /\ "SB_AIA" \notin w1.flags /\ ~Carries(v1.q, IntrAck)
      BY <1>1, <1>2, MindKeeps DEF EndOK, IntrOK
    <2>2. ~Carries(w1.q, Intr)
      BY <1>1, <2>1, GaveCarries DEF Tracked, Intr, IntrAck, Work
    <2>3. AtMostOne(w1.q, IntrAck)
      BY <1>1, <1>4, GaveOne DEF EndOK, IntrOK, Tracked
    <2> QED
      BY <2>1, <2>2, <2>3 DEF IntrOK, Carries, AtMostOne
  <1> QED
    BY <1>2, <1>3, <1>5, <1>6, SendPair DEF Leaving, IntrAck

\* S-RELEASE.REQUEST.
LEMMA SendFN ==
    ASSUME NEW e \in Side, NEW v, NEW w, NEW v1, NEW w1, NEW x,
           Seen(v), Seen(w), Seen(v1), Seen(w1), PairOK(e, v, w), Sends(v, w, v1, w1, x),
           x.code = "FN", Turns(v, v1, {}, {"SB_RELEASE"}), v.flags \cap Watched = {}
    PROVE  PairOK(e, v1, w1)
  <1> DEFINE o == Peer(e)
  <1>1. /\ EndOK(e, v, w) /\ EndOK(o, w, v) /\ v1.q = v.q /\ SameMind(w, w1)
        /\ Gave(w.q, w1.q, x)
    BY DEF PairOK, Sends
  <1>2. /\ v1.flags \cap Watched = {"SB_RELEASE"} /\ Leaving(v1)
        /\ "SB_RS" \notin v.flags /\ "SB_AI" \notin v.flags /\ ~Leaving(v)
    BY DEF Turns, Watched, Leaving
  <1>3. FlagsOK(v1)
    BY <1>1, <1>2 DEF EndOK, FlagsOK, Watched
  <1>4. RefuseOK(v1, w1)
    BY <1>1, <1>2 DEF EndOK, RefuseOK, Carries
  <1>5. FinishOK(o, w1, v1)
    <2> HIDE DEF o
    <2>1. /\ "SB_RS" \in w1.flags <=> "SB_RS" \in w.flags
          /\ "SB_FINN" \in w1.flags <=> "SB_FINN" \in w.flags
      BY <1>1, MindKeeps
    <2>2. "SB_FINN" \in w1.flags => "SB_RS" \in w1.flags
      BY <1>1, <1>2, <2>1 DEF EndOK, FinishOK
    <2>3. ASSUME NEW i \in DOMAIN w1.q, NEW j \in DOMAIN w1.q,
                 i < j, w1.q[i].code = "FN", w1.q[j].code = "FN"
          PROVE  Held(o, w1, i)
      <3>1. i \in DOMAIN w.q /\ w1.q[i] = w.q[i]
        BY <1>1, <2>3 DEF Gave, Seen, Tracked
      <3>2. Held(o, w, i)
        BY <1>1, <1>2, <2>3, <3>1 DEF EndOK, FinishOK
      <3> QED
        BY <1>1, <3>1, <3>2, GrowHeld
    <2> QED
      BY <1>2, <2>2, <2>3 DEF FinishOK
  <1> QED
    BY <1>2, <1>3, <1>4, <1>5, SendPair DEF Leaving, Intr, IntrAck, Watched

\* No RS is under way to an end that is leaving if its peer waits for none.
LEMMA NoBids ==
    ASSUME NEW e, NEW v, NEW w, EndOK(e, v, w), Leaving(v), "SB_RS" \notin w.flags
    PROVE  ~Carries(v.q, {"RS"})
  BY DEF EndOK, FlagsOK, BidsOK, Live, Beaten, Carries

\* S-RELEASE.RESPONSE that refuses.
LEMMA SendNF ==
    ASSUME NEW e \in Side, NEW v, NEW w, NEW v1, NEW w1, NEW x,
           Seen(v), Seen(w), Seen(v1), Seen(w1), PairOK(e, v, w), Sends(v, w, v1, w1, x),
           x.code = "NF", Turns(v, v1, {"SB_FINN"}, {}), v.flags \cap Watched = {"SB_FINN"}
    PROVE  PairOK(e, v1, w1)
  <1> DEFINE o == Peer(e)
  <1>1. /\ EndOK(e, v, w) /\ EndOK(o, w, v) /\ v1.q = v.q /\ SameMind(w, w1)
        /\ Gave(w.q, w1.q, x)
    BY DEF PairOK, Sends
  <1>2. /\ v1.flags \cap Watched = {} /\ "SB_FINN" \in v.flags
        /\ "SB_RS" \notin v.flags /\ "SB_AI" \notin v.flags /\ ~Leaving(v)
    BY DEF Turns, Watched, Leaving
  <1>3. FlagsOK(v1)
    BY <1>1, <1>2 DEF EndOK, FlagsOK, Watched, Leaving
  <1>4. Leaving(w) /\ ~Carries(v.q, {"FN"})
    BY <1>1, <1>2 DEF EndOK, FinishOK
  <1>5. ~Carries(w.q, {"RS"})
    BY <1>1, <1>2, <1>4, NoBids
  <1>6. ~Carries(w.q, {"FN"}) /\ ~Carries(w.q, {"NF"})
    BY <1>1, <1>2, <1>4 DEF EndOK, FlagsOK, FinishOK, RefuseOK, Held, Carries
  <1>7. RefuseOK(w1, v1)
    <2>1. Leaving(w1) /\ "SB_FINN" \notin v1.flags /\ ~Carries(v1.q, {"FN"})
      BY <1>1, <1>2, <1>4, MindKeeps DEF Watched
    <2>2. ASSUME NEW i \in DOMAIN w1.q, NEW j \in DOMAIN w1.q, i < j
          PROVE  w1.q[i].code \notin {"RS", "FN", "NF"}
      BY <1>1, <1>5, <1>6, <2>2 DEF Gave, Carries, Seen, Tracked
    <2> QED
      BY <2>1, <2>2 DEF RefuseOK
  <1> QED
    BY <1>2, <1>3, <1>7, SendPair DEF Leaving, Intr, IntrAck, Watched

-----------------------------------------------------------------------------
(* Steps that read x and send nothing.                                     *)

LEMMA TakePair ==
    ASSUME NEW e \in Side, NEW v, NEW w, NEW v1, NEW x, Seen(v), Seen(w), Seen(v1),
           PairOK(e, v, w), Took(v.q, v1.q, x), Leaving(v) => Leaving(v1),
           FlagsOK(v1), BidsOK(e, v1, w), AskedOK(v1, w), IntrOK(v1, w), FinishOK(e, v1, w),
           BidsOK(Peer(e), w, v1), AskedOK(w, v1), IntrOK(w, v1), RefuseOK(w, v1)
    PROVE  PairOK(e, v1, w)
  <1>1. EndOK(e, v, w) /\ EndOK(Peer(e), w, v)
    BY DEF PairOK
  <1>2. /\ \A codes : Sub(codes, v.q, v1.q)
        /\ \A codes : Sub(codes, w.q, w.q)
    BY TookSub, SubItself DEF Seen
  <1>3. RefuseOK(v1, w)
    BY <1>1, <1>2, RefuseLess DEF EndOK
  <1>4. DoneOK(v1, w) /\ DoneOK(w, v1)
    BY <1>1, <1>2, DoneLess DEF EndOK
  <1>5. FinishOK(Peer(e), w, v1)
    BY <1>1 DEF EndOK, FinishOK
  <1> QED
    BY <1>1, <1>3, <1>4, <1>5 DEF PairOK, EndOK

\* What each part says of the first SPDU.
LEMMA TookShift ==
    ASSUME NEW v, NEW v1, NEW x, Seen(v), Seen(v1), Took(v.q, v1.q, x)
    PROVE  /\ 1 \in DOMAIN v.q /\ v.q[1] = x
           /\ \A i \in DOMAIN v1.q : i + 1 \in DOMAIN v.q /\ v1.q[i] = v.q[i + 1] /\ 1 < i + 1
           /\ \A codes : Carries(v1.q, codes) => Carries(v.q, codes)
           /\ \A codes : x.code \in codes => Carries(v.q, codes)
  BY DEF Took, Seen, Carries

\* The RS that the peer waits for: each SPM takes the peer's to have won.
LEMMA TakeRS ==
    ASSUME NEW e \in Side, NEW v, NEW w, NEW v1, NEW x, Seen(v), Seen(w), Seen(v1),
           PairOK(e, v, w), Took(v.q, v1.q, x), x.code = "RS", x.type \in ResyncType,
           ~Beaten(e, v, x), "SB_FINN" \notin v.flags,
           Turns(v, v1, {"SB_RS"}, {"SB_RA"})
    PROVE  PairOK(e, v1, w)
  <1> DEFINE o == Peer(e)
  <1>1. EndOK(e, v, w) /\ EndOK(o, w, v)
    BY DEF PairOK
  <1>2. /\ 1 \in DOMAIN v.q /\ v.q[1] = x
        /\ \A i \in DOMAIN v1.q : i + 1 \in DOMAIN v.q /\ v1.q[i] = v.q[i + 1] /\ 1 < i + 1
        /\ \A codes : Carries(v1.q, codes) => Carries(v.q, codes)
        /\ Carries(v.q, {"RS"})
    BY TookShift
  <1>3. /\ \A codes : Sub(codes, v.q, v1.q)
        /\ \A codes : Sub(codes, w.q, w.q)
    BY TookSub, SubItself DEF Seen
  <1>4. /\ "SB_RS" \notin v1.flags /\ "SB_RA" \in v1.flags /\ "SB_FINN" \notin v1.flags
        /\ Leaving(v1) <=> Leaving(v)
        /\ "SB_AI" \in v1.flags <=> "SB_AI" \in v.flags
        /\ "SB_AIA" \in v1.flags <=> "SB_AIA" \in v.flags
    BY DEF Turns, Watched, Leaving
  <1>5. Live(w, x) /\ \A j \in DOMAIN v.q : 1 < j => v.q[j].code \notin {"RS", "RA"}
    BY <1>1, <1>2 DEF EndOK, BidsOK
  <1>6. /\ "SB_RS" \in w.flags /\ "SB_RA" \notin w.flags /\ "SB_AI" \notin w.flags /\ ~Leaving(w)
        /\ ~Carries(v1.q, {"RS"}) /\ ~Carries(v1.q, {"RA"})
    BY <1>1, <1>2, <1>5 DEF EndOK, FlagsOK, Live, Carries
  <1>7. ~Carries(w.q, {"RA"}) /\ ~Carries(w.q, IntrAck)
    BY <1>1, <1>2, <1>6 DEF EndOK, AskedOK, IntrOK
  <1>8. "SB_AI" \notin v.flags
    BY <1>1 DEF EndOK, FlagsOK, Beaten, SDoCollideAux, Precedence, ResyncType
  <1>9. FlagsOK(v1)
    BY <1>1, <1>3, <1>4, <1>8, NormalLess DEF EndOK, FlagsOK
  <1>10. BidsOK(e, v1, w)
    BY <1>6 DEF BidsOK, Carries
  <1>11. AskedOK(v1, w)
    BY <1>6, <1>7 DEF AskedOK, Carries, AtMostOne
  <1>12. IntrOK(v1, w)
    BY <1>1, <1>3, <1>4, IntrLess DEF EndOK
  <1>13. FinishOK(e, v1, w)
    <2>1. \A j \in DOMAIN v1.q : v1.q[j].code # "FN"
      BY <1>1, <1>2, <1>6 DEF EndOK, FinishOK, Held
    <2> QED
      BY <1>4, <2>1 DEF FinishOK
  <1>14. BidsOK(o, w, v1)
    <2> SUFFICES ASSUME NEW i \in DOMAIN w.q, w.q[i].code = "RS"
                 PROVE  Beaten(o, w, w.q[i])
      BY <1>7 DEF BidsOK, Carries
    <2>1. CASE Live(v, w.q[i])
      <3>1. /\ "SB_RS" \in v.flags /\ w.q[i].type = v.rs /\ w.q[i].serial = v.rsn
            /\ w.rs = x.type /\ w.rsn = x.serial /\ v.rs \in ResyncType
        BY <1>1, <1>5, <2>1 DEF EndOK, FlagsOK, Live
      <3>2. ~SDoCollideAux(e = "init", v.rs, v.rsn, w.rs, w.rsn)
        BY <3>1 DEF Beaten
      <3>3. /\ v.rs \in SyncOp /\ v.rsn \in Nat /\ w.rs \in SyncOp /\ w.rsn \in Nat
            /\ v.rs \notin {"DISC", "INTR"}
        BY <3>1 DEF Seen, ResyncType
      <3>4. SDoCollideAux(o = "init", w.rs, w.rsn, v.rs, v.rsn)
        <4>1. CASE e = "init"
          BY <3>2, <3>3, <4>1, CollisionHasOneWinner DEF Peer
        <4>2. CASE e # "init"
          <5>1. o = "init"
            BY <4>2 DEF Peer, Side
          <5>2. w.rs \notin {"DISC", "INTR"}
            BY <3>1 DEF ResyncType
          <5> QED
            BY <3>2, <3>3, <4>2, <5>1, <5>2, CollisionHasOneWinner
        <4> QED
          BY <4>1, <4>2
      <3> QED
        BY <1>6, <3>1, <3>4 DEF Beaten
    <2>2. CASE ~Live(v, w.q[i])
      BY <1>1, <2>2 DEF EndOK, BidsOK
    <2> QED
      BY <2>1, <2>2
  <1>15. AskedOK(w, v1)
    BY <1>1, <1>6 DEF EndOK, AskedOK
  <1>16. IntrOK(w, v1)
    BY <1>1, <1>2, <1>8 DEF EndOK, IntrOK
  <1>17. RefuseOK(w, v1)
    BY <1>1, <1>6 DEF EndOK, RefuseOK, Carries
  <1> QED
    BY <1>4, <1>9, <1>10, <1>11, <1>12, <1>13, <1>14, <1>15, <1>16, <1>17, TakePair

\* The RA that ends the resynchronization.
LEMMA TakeRA ==
    ASSUME NEW e \in Side, NEW v, NEW w, NEW v1, NEW x, Seen(v), Seen(w), Seen(v1),
           PairOK(e, v, w), Took(v.q, v1.q, x), x.code = "RA", "SB_FINN" \notin v.flags,
           Turns(v, v1, {"SB_RS"}, {})
    PROVE  PairOK(e, v1, w)
  <1> DEFINE o == Peer(e)
  <1>1. EndOK(e, v, w) /\ EndOK(o, w, v)
    BY DEF PairOK
  <1>2. /\ 1 \in DOMAIN v.q /\ v.q[1] = x
        /\ \A i \in DOMAIN v1.q : i + 1 \in DOMAIN v.q /\ v1.q[i] = v.q[i + 1] /\ 1 < i + 1
        /\ \A codes : Carries(v1.q, codes) => Carries(v.q, codes)
        /\ Carries(v.q, {"RA"})
    BY TookShift
  <1>3. /\ \A codes : Sub(codes, v.q, v1.q)
        /\ \A codes : Sub(codes, w.q, w.q)
    BY TookSub, SubItself DEF Seen
  <1>4. /\ "SB_RS" \notin v1.flags /\ "SB_FINN" \notin v1.flags
        /\ Leaving(v1) <=> Leaving(v)
        /\ "SB_RA" \in v1.flags <=> "SB_RA" \in v.flags
        /\ "SB_AI" \in v1.flags <=> "SB_AI" \in v.flags
        /\ "SB_AIA" \in v1.flags <=> "SB_AIA" \in v.flags
    BY DEF Turns, Watched, Leaving
  <1>5. /\ "SB_RS" \in v.flags /\ ~Carries(w.q, {"RS"}) /\ "SB_RA" \notin w.flags
        /\ "SB_RA" \notin v.flags /\ "SB_AI" \notin v.flags /\ ~Leaving(v)
    BY <1>1, <1>2 DEF EndOK, AskedOK, FlagsOK
  <1>6. ~Carries(v1.q, {"RA"})
    BY <1>1, TookCarries DEF EndOK, AskedOK, Seen
  <1>7. FlagsOK(v1)
    BY <1>1, <1>3, <1>4, <1>5, NormalLess DEF EndOK, FlagsOK
  <1>8. BidsOK(e, v1, w)
    <2> SUFFICES ASSUME NEW i \in DOMAIN v1.q, v1.q[i].code = "RS"
                 PROVE  /\ Live(w, v1.q[i])
                        /\ \A j \in DOMAIN v1.q : i < j => v1.q[j].code \notin {"RS", "RA"}
      BY DEF BidsOK
    <2>1. /\ Live(w, v.q[i + 1])
          /\ \A j \in DOMAIN v.q : i + 1 < j => v.q[j].code \notin {"RS", "RA"}
      BY <1>1, <1>2 DEF EndOK, BidsOK
    <2> QED
      BY <1>2, <2>1 DEF Seen
  <1>9. AskedOK(v1, w)
    BY <1>1, <1>3, <1>4, AskedLess DEF EndOK
  <1>10. IntrOK(v1, w)
    BY <1>1, <1>3, <1>4, IntrLess DEF EndOK
  <1>11. FinishOK(e, v1, w)
    <2>1. \A j \in DOMAIN v1.q : ~Held(e, v, j + 1)
      BY <1>2 DEF Held
    <2>2. \A j \in DOMAIN v1.q : v1.q[j].code = "FN" => Leaving(w)
      BY <1>1, <1>2, <2>1 DEF EndOK, FinishOK
    <2>3. \A i \in DOMAIN v1.q, j \in DOMAIN v1.q :
            ~(i < j /\ v1.q[i].code = "FN" /\ v1.q[j].code = "FN")
      <3> SUFFICES ASSUME NEW i \in DOMAIN v1.q, NEW j \in DOMAIN v1.q,
                          i < j, v1.q[i].code = "FN", v1.q[j].code = "FN"
                   PROVE  FALSE
        OBVIOUS
      <3>1. i + 1 < j + 1
        BY DEF Seen
      <3> QED
        BY <1>1, <1>2, <2>1, <3>1 DEF EndOK, FinishOK
    <2> QED
      BY <1>4, <2>2, <2>3 DEF FinishOK
  <1>12. BidsOK(o, w, v1)
    BY <1>5 DEF BidsOK, Carries
  <1>13. AskedOK(w, v1)
    BY <1>1, <1>5, <1>6 DEF EndOK, AskedOK
  <1>14. IntrOK(w, v1)
    BY <1>1, <1>3, <1>4, IntrLess DEF EndOK
  <1>15. RefuseOK(w, v1)
    BY <1>1, <1>3, <1>4, RefuseLess DEF EndOK
  <1> QED
    BY <1>4, <1>7, <1>8, <1>9, <1>10, <1>11, <1>12, <1>13, <1>14, <1>15, TakePair

\* An AI or AD: the reader's own resynchronization is given up.
LEMMA TakeAI ==
    ASSUME NEW e \in Side, NEW v, NEW w, NEW v1, NEW x, Seen(v), Seen(w), Seen(v1),
           PairOK(e, v, w), Took(v.q, v1.q, x), x.code \in Intr, "SB_FINN" \notin v.flags,
           Turns(v, v1, {"SB_RS", "SB_RA"}, {"SB_AIA"}), v1.rs = "INTR"
    PROVE  PairOK(e, v1, w)
  <1> DEFINE o == Peer(e)
  <1>1. EndOK(e, v, w) /\ EndOK(o, w, v)
    BY DEF PairOK
  <1>2. /\ 1 \in DOMAIN v.q /\ v.q[1] = x
        /\ \A i \in DOMAIN v1.q : i + 1 \in DOMAIN v.q /\ v1.q[i] = v.q[i + 1] /\ 1 < i + 1
        /\ \A codes : Carries(v1.q, codes) => Carries(v.q, codes)
        /\ Carries(v.q, Intr)
    BY TookShift
  <1>3. /\ \A codes : Sub(codes, v.q, v1.q)
        /\ \A codes : Sub(codes, w.q, w.q)
    BY TookSub, SubItself DEF Seen
  <1>4. /\ "SB_RS" \notin v1.flags /\ "SB_RA" \notin v1.flags /\ "SB_FINN" \notin v1.flags
        /\ Leaving(v1) <=> Leaving(v)
        /\ "SB_AI" \in v1.flags <=> "SB_AI" \in v.flags
        /\ "SB_AIA" \in v1.flags
    BY DEF Turns, Watched, Leaving
  <1>5. /\ "SB_AI" \in w.flags /\ "SB_RS" \notin w.flags /\ "SB_RA" \notin w.flags
        /\ w.rs \in {"INTR", "DISC"} /\ ~Leaving(w) /\ ~Carries(w.q, IntrAck)
    BY <1>1, <1>2 DEF EndOK, IntrOK, FlagsOK
  <1>6. ~Carries(w.q, {"RA"})
    BY <1>1, <1>5 DEF EndOK, AskedOK
  <1>7. ~Carries(v1.q, Intr)
    BY <1>1, TookCarries DEF EndOK, IntrOK, Seen
  <1>8. ~Carries(v1.q, {"RS"}) /\ ~Carries(v1.q, {"RA"})
    BY <1>1, <1>2 DEF EndOK, IntrOK, Carries
  <1>9. FlagsOK(v1)
    BY <1>1, <1>3, <1>4, NormalLess DEF EndOK, FlagsOK
  <1>10. BidsOK(e, v1, w)
    BY <1>8 DEF BidsOK, Carries
  <1>11. AskedOK(v1, w)
    BY <1>4, <1>6, <1>8 DEF AskedOK, Carries, AtMostOne
  <1>12. IntrOK(v1, w)
    <2>1. AtMostOne(v1.q, IntrAck)
      BY <1>1, <1>3, SubOne DEF EndOK, IntrOK, Seen
    <2> QED
      BY <1>5, <1>7, <2>1 DEF IntrOK, Carries, AtMostOne
  <1>13. FinishOK(e, v1, w)
    <2>1. \A j \in DOMAIN v1.q : v1.q[j].code # "FN"
      BY <1>1, <1>2, <1>5 DEF EndOK, FinishOK, Held
    <2> QED
      BY <1>4, <2>1 DEF FinishOK
  <1>14. BidsOK(o, w, v1)
    <2> SUFFICES ASSUME NEW i \in DOMAIN w.q, w.q[i].code = "RS"
                 PROVE  Beaten(o, w, w.q[i])
      BY <1>5, <1>6 DEF BidsOK, Carries
    <2>1. w.q[i].type \in ResyncType
      BY DEF Seen, Spdu
    <2> QED
      BY <1>5, <2>1 DEF Beaten, SDoCollideAux, Precedence, ResyncType
  <1>15. AskedOK(w, v1)
    BY <1>1, <1>5, <1>8 DEF EndOK, AskedOK
  <1>16. IntrOK(w, v1)
    BY <1>1, <1>3, <1>4, IntrLess DEF EndOK
  <1>17. RefuseOK(w, v1)
    BY <1>1, <1>3, <1>4, RefuseLess DEF EndOK
  <1> QED
    BY <1>4, <1>9, <1>10, <1>11, <1>12, <1>13, <1>14, <1>15, <1>16, <1>17, TakePair

\* The AIA or ADA that ends the interruption.
LEMMA TakeAIA ==
    ASSUME NEW e \in Side, NEW v, NEW w, NEW v1, NEW x, Seen(v), Seen(w), Seen(v1),
           PairOK(e, v, w), Took(v.q, v1.q, x), x.code \in IntrAck, "SB_FINN" \notin v.flags,
           Turns(v, v1, {"SB_AI"}, {})
    PROVE  PairOK(e, v1, w)
  <1> DEFINE o == Peer(e)
  <1>1. EndOK(e, v, w) /\ EndOK(o, w, v)
    BY DEF PairOK
  <1>2. /\ 1 \in DOMAIN v.q /\ v.q[1] = x
        /\ \A i \in DOMAIN v1.q : i + 1 \in DOMAIN v.q /\ v1.q[i] = v.q[i + 1] /\ 1 < i + 1
        /\ \A codes : Carries(v1.q, codes) => Carries(v.q, codes)
        /\ Carries(v.q, IntrAck)
    BY TookShift
  <1>3. /\ \A codes : Sub(codes, v.q, v1.q)
        /\ \A codes : Sub(codes, w.q, w.q)
    BY TookSub, SubItself DEF Seen
  <1>4. /\ "SB_AI" \notin v1.flags /\ "SB_FINN" \notin v1.flags
        /\ Leaving(v1) <=> Leaving(v)
        /\ "SB_RA" \in v1.flags <=> "SB_RA" \in v.flags
        /\ "SB_RS" \in v1.flags <=> "SB_RS" \in v.flags
        /\ "SB_AIA" \in v1.flags <=> "SB_AIA" \in v.flags
    BY DEF Turns, Watched, Leaving
  <1>5. /\ "SB_AI" \in v.flags /\ ~Carries(w.q, Intr) /\ "SB_AIA" \notin w.flags
        /\ "SB_RS" \notin v.flags
    BY <1>1, <1>2 DEF EndOK, IntrOK, FlagsOK
  <1>6. ~Carries(v1.q, IntrAck)
    BY <1>1, TookCarries DEF EndOK, IntrOK, Seen
  <1>7. FlagsOK(v1)
    BY <1>1, <1>3, <1>4, <1>5, NormalLess DEF EndOK, FlagsOK
  <1>8. BidsOK(e, v1, w)
    <2> SUFFICES ASSUME NEW i \in DOMAIN v1.q, v1.q[i].code = "RS"
                 PROVE  /\ Live(w, v1.q[i])
                        /\ \A j \in DOMAIN v1.q : i < j => v1.q[j].code \notin {"RS", "RA"}
      BY DEF BidsOK
    <2>1. /\ Live(w, v.q[i + 1])
          /\ \A j \in DOMAIN v.q : i + 1 < j => v.q[j].code \notin {"RS", "RA"}
      BY <1>1, <1>2 DEF EndOK, BidsOK
    <2> QED
      BY <1>2, <2>1 DEF Seen
  <1>9. AskedOK(v1, w)
    BY <1>1, <1>3, <1>4, AskedLess DEF EndOK
  <1>10. IntrOK(v1, w)
    BY <1>1, <1>3, <1>4, IntrLess DEF EndOK
  <1>11. FinishOK(e, v1, w)
    <2>1. \A j \in DOMAIN v.q : ~Held(e, v, j)
      BY <1>5 DEF Held
    <2>2. \A j \in DOMAIN v1.q : v1.q[j].code = "FN" => Leaving(w)
      BY <1>1, <1>2, <2>1 DEF EndOK, FinishOK
    <2>3. \A i \in DOMAIN v1.q, j \in DOMAIN v1.q :
            ~(i < j /\ v1.q[i].code = "FN" /\ v1.q[j].code = "FN")
      <3> SUFFICES ASSUME NEW i \in DOMAIN v1.q, NEW j \in DOMAIN v1.q,
                          i < j, v1.q[i].code = "FN", v1.q[j].code = "FN"
                   PROVE  FALSE
        OBVIOUS
      <3>1. i + 1 < j + 1
        BY DEF Seen
      <3> QED
        BY <1>1, <1>2, <2>1, <3>1 DEF EndOK, FinishOK
    <2> QED
      BY <1>4, <2>2, <2>3 DEF FinishOK
  <1>12. BidsOK(o, w, v1)
    BY <1>1, <1>5 DEF EndOK, BidsOK, Live
  <1>13. AskedOK(w, v1)
    BY <1>1, <1>3, <1>4, AskedLess DEF EndOK
  <1>14. IntrOK(w, v1)
    BY <1>1, <1>5, <1>6 DEF EndOK, IntrOK
  <1>15. RefuseOK(w, v1)
    BY <1>1, <1>3, <1>4, RefuseLess DEF EndOK
  <1> QED
    BY <1>4, <1>7, <1>8, <1>9, <1>10, <1>11, <1>12, <1>13, <1>14, <1>15, TakePair

\* The FN of which the user is told.
LEMMA TakeFN ==
    ASSUME NEW e \in Side, NEW v, NEW w, NEW v1, NEW x, Seen(v), Seen(w), Seen(v1),
           PairOK(e, v, w), Took(v.q, v1.q, x), x.code = "FN",
           v1.rs = v.rs, v1.rsn = v.rsn, Turns(v, v1, {}, {"SB_FINN"})
    PROVE  PairOK(e, v1, w)
  <1> DEFINE o == Peer(e)
  <1>1. EndOK(e, v, w) /\ EndOK(o, w, v)
    BY DEF PairOK
  <1>2. /\ 1 \in DOMAIN v.q /\ v.q[1] = x
        /\ \A i \in DOMAIN v1.q : i + 1 \in DOMAIN v.q /\ v1.q[i] = v.q[i + 1] /\ 1 < i + 1
        /\ \A codes : Carries(v1.q, codes) => Carries(v.q, codes)
        /\ Carries(v.q, {"FN"})
    BY TookShift
  <1>3. /\ \A codes : Sub(codes, v.q, v1.q)
        /\ \A codes : Sub(codes, w.q, w.q)
    BY TookSub, SubItself DEF Seen
  <1>4. /\ Leaving(v1) <=> Leaving(v)
        /\ \A f \in Watched \ {"SB_FINN"} : f \in v1.flags <=> f \in v.flags
    BY DEF Turns, Watched, Leaving
  <1> USE DEF Watched
  <1>5. /\ \A y : Live(v, y) => Live(v1, y)
        /\ \A y : Beaten(e, v, y) => Beaten(e, v1, y)
    BY <1>4 DEF Live, Beaten
  <1>6. FlagsOK(v1)
    BY <1>1, <1>3, <1>4, NormalLess DEF EndOK, FlagsOK
  <1>7. BidsOK(e, v1, w)
    BY <1>1, <1>3, <1>5, BidsLess DEF EndOK
  <1>8. AskedOK(v1, w)
    BY <1>1, <1>3, <1>4, AskedLess DEF EndOK
  <1>9. IntrOK(v1, w)
    BY <1>1, <1>3, <1>4, IntrLess DEF EndOK
  <1>10. FinishOK(e, v1, w)
    <2>1. Leaving(w) \/ "SB_RS" \in v1.flags
      BY <1>1, <1>2, <1>4 DEF EndOK, FinishOK, Held
    <2>2. Carries(v1.q, {"FN"}) => "SB_RS" \in v1.flags
      BY <1>1, <1>2, <1>4 DEF EndOK, FinishOK, Held, Carries
    <2>3. \A j \in DOMAIN v1.q : Held(e, v, j + 1) => Held(e, v1, j)
      <3> SUFFICES ASSUME NEW j \in DOMAIN v1.q, Held(e, v, j + 1),
                          NEW i \in DOMAIN v1.q, i < j
                   PROVE  /\ v1.q[i].code \notin {"RA"} \cup Intr
                          /\ v1.q[i].code = "RS" => Beaten(e, v1, v1.q[i])
        BY <1>4 DEF Held
      <3>1. i + 1 < j + 1
        BY DEF Seen
      <3> QED
        BY <1>2, <1>5, <3>1 DEF Held
    <2>4. \A j \in DOMAIN v1.q : v1.q[j].code = "FN" => Leaving(w) \/ Held(e, v1, j)
      BY <1>1, <1>2, <2>3 DEF EndOK, FinishOK
    <2>5. \A i \in DOMAIN v1.q, j \in DOMAIN v1.q :
            i < j /\ v1.q[i].code = "FN" /\ v1.q[j].code = "FN" => Held(e, v1, i)
      <3> SUFFICES ASSUME NEW i \in DOMAIN v1.q, NEW j \in DOMAIN v1.q,
                          i < j, v1.q[i].code = "FN", v1.q[j].code = "FN"
                   PROVE  Held(e, v1, i)
        OBVIOUS
      <3>1. i + 1 < j + 1
        BY DEF Seen
      <3> QED
        BY <1>1, <1>2, <2>3, <3>1 DEF EndOK, FinishOK
    <2> QED
      BY <2>1, <2>2, <2>4, <2>5 DEF FinishOK
  <1>11. BidsOK(o, w, v1)
    BY <1>1, <1>3, <1>5, BidsLess DEF EndOK
  <1>12. AskedOK(w, v1)
    BY <1>1, <1>3, <1>4, AskedLess DEF EndOK
  <1>13. IntrOK(w, v1)
    BY <1>1, <1>3, <1>4, IntrLess DEF EndOK
  <1>14. RefuseOK(w, v1)
    BY <1>1, <1>2 DEF EndOK, RefuseOK, Carries
  <1> QED
    BY <1>4, <1>6, <1>7, <1>8, <1>9, <1>10, <1>11, <1>12, <1>13, <1>14, TakePair

-----------------------------------------------------------------------------
(* The release loop, which applies none of the tests of SReadRequest.      *)

\* A release collision: the FN is answered with a DN.
LEMMA LoopFN ==
    ASSUME NEW e \in Side, NEW v, NEW w, NEW v1, NEW w1, NEW x, NEW y,
           Seen(v), Seen(w), Seen(v1), Seen(w1), PairOK(e, v, w), Leaving(v),
           Took(v.q, v1.q, x), x.code = "FN", SameMind(v, v1),
           SameMind(w, w1), Gave(w.q, w1.q, y), y.code = "DN", ~y.expd
    PROVE  PairOK(e, v1, w1)
  <1> DEFINE o == Peer(e)
  <1>1. EndOK(e, v, w) /\ EndOK(o, w, v)
    BY DEF PairOK
  <1>2. /\ 1 \in DOMAIN v.q /\ v.q[1] = x
        /\ \A i \in DOMAIN v1.q : i + 1 \in DOMAIN v.q /\ v1.q[i] = v.q[i + 1] /\ 1 < i + 1
        /\ \A codes : Carries(v1.q, codes) => Carries(v.q, codes)
        /\ Carries(v.q, {"FN"})
    BY TookShift
  <1>3. Sub(Tracked, v.q, v1.q) /\ Sub(Tracked, w.q, w.q) /\ SameMind(w, w)
    BY TookSub, SubItself DEF Seen, SameMind
  <1>4. "SB_RS" \notin v.flags /\ "SB_AI" \notin v.flags
    BY <1>1 DEF EndOK, FlagsOK
  <1>5. Leaving(w)
    BY <1>1, <1>2, <1>4 DEF EndOK, FinishOK, Held
  <1>6. "SB_RS" \notin w.flags
    BY <1>1, <1>5 DEF EndOK, FlagsOK
  <1>7. ~Carries(v.q, {"RS"}) /\ ~Carries(w.q, {"RS"})
    BY <1>1, <1>4, <1>5, <1>6, NoBids
  <1>8. ~Carries(v1.q, {"NF"}) /\ ~Carries(w.q, {"NF"})
    BY <1>1, <1>2 DEF EndOK, RefuseOK, Carries
  <1>9. PairOK(e, v1, w)
    BY <1>1, <1>3, CalmEnd DEF PairOK
  <1>10. Sends(v1, w, v1, w1, y)
    BY DEF Sends
  <1>11. DoneOK(w1, v1)
    <2>1. Leaving(v1) /\ Leaving(w1)
      BY <1>5, MindKeeps
    <2>2. ~Carries(v1.q, {"RS", "NF"}) /\ ~Carries(w.q, {"RS", "NF"})
      BY <1>2, <1>7, <1>8 DEF Carries
    <2>3. ~Carries(w1.q, {"RS", "NF"})
      BY <2>2, GaveCarries DEF Tracked
    <2> QED
      BY <2>1, <2>2, <2>3 DEF DoneOK, Parting
  <1>12. "SB_RS" \notin v1.flags /\ "SB_AI" \notin v1.flags /\ FlagsOK(v1)
    BY <1>4, <1>9, MindKeeps DEF PairOK, EndOK
  <1> QED
    BY <1>9, <1>10, <1>11, <1>12, SendPair DEF Intr, IntrAck

\* All as before, but that v may no longer be leaving.
MayStay(v, v1) ==
    /\ v1.rs = v.rs /\ v1.rsn = v.rsn
    /\ \A f \in Watched \ {"SB_RELEASE"} : f \in v1.flags <=> f \in v.flags
    /\ Leaving(v1) => Leaving(v)

\* What remains to be shown of an end that stays.
LEMMA StayPair ==
    ASSUME NEW e \in Side, NEW v, NEW w, NEW v1, Seen(v), Seen(w), Seen(v1),
           PairOK(e, v, w), MayStay(v, v1), \A codes : Sub(codes, v.q, v1.q),
           RefuseOK(v1, w), DoneOK(v1, w), DoneOK(w, v1), FinishOK(Peer(e), w, v1)
    PROVE  PairOK(e, v1, w)
  <1> DEFINE o == Peer(e)
  <1>1. EndOK(e, v, w) /\ EndOK(o, w, v)
    BY DEF PairOK
  <1>2. \A codes : Sub(codes, w.q, w.q)
    BY SubItself DEF Seen
  <1>3. /\ Leaving(v1) => Leaving(v)
        /\ \A f \in Watched \ {"SB_RELEASE"} : f \in v1.flags <=> f \in v.flags
        /\ \A y : Live(v, y) => Live(v1, y)
        /\ \A y : Beaten(e, v, y) => Beaten(e, v1, y)
    BY DEF MayStay, Live, Beaten, Watched
  <1> USE DEF Watched
  <1>4. EndOK(e, v1, w)
    <2>1. FlagsOK(v1)
      BY <1>1, <1>3, NormalLess DEF EndOK, FlagsOK, MayStay
    <2>2. BidsOK(e, v1, w)
      BY <1>1, <1>3, BidsLess DEF EndOK
    <2>3. AskedOK(v1, w)
      BY <1>1, <1>2, <1>3, AskedLess DEF EndOK
    <2>4. IntrOK(v1, w)
      BY <1>1, <1>2, <1>3, IntrLess DEF EndOK
    <2>5. FinishOK(e, v1, w)
      BY <1>1, <1>3, FinishLess DEF EndOK
    <2> QED
      BY <2>1, <2>2, <2>3, <2>4, <2>5 DEF EndOK
  <1>5. EndOK(o, w, v1)
    <2>1. BidsOK(o, w, v1)
      BY <1>1, <1>2, <1>3, BidsLess DEF EndOK
    <2>2. AskedOK(w, v1)
      BY <1>1, <1>2, <1>3, AskedLess DEF EndOK
    <2>3. IntrOK(w, v1)
      BY <1>1, <1>2, <1>3, IntrLess DEF EndOK
    <2>4. RefuseOK(w, v1)
      BY <1>1, <1>2, <1>3, RefuseLess DEF EndOK
    <2> QED
      BY <1>1, <2>1, <2>2, <2>3, <2>4 DEF EndOK
  <1> QED
    BY <1>4, <1>5 DEF PairOK

\* The release is refused.
LEMMA LoopNF ==
    ASSUME NEW e \in Side, NEW v, NEW w, NEW v1, NEW x, Seen(v), Seen(w), Seen(v1),
           PairOK(e, v, w), Took(v.q, v1.q, x), x.code = "NF", MayStay(v, v1)
    PROVE  PairOK(e, v1, w)
  <1>1. EndOK(e, v, w) /\ EndOK(Peer(e), w, v)
    BY DEF PairOK
  <1>2. /\ 1 \in DOMAIN v.q /\ v.q[1] = x
        /\ \A i \in DOMAIN v1.q : i + 1 \in DOMAIN v.q /\ v1.q[i] = v.q[i + 1] /\ 1 < i + 1
        /\ \A codes : Carries(v1.q, codes) => Carries(v.q, codes)
        /\ Carries(v.q, {"NF"}) /\ Carries(v.q, {"RS", "NF"})
    BY TookShift
  <1>3. \A codes : Sub(codes, v.q, v1.q)
    BY TookSub DEF Seen
  <1>4. "SB_FINN" \notin w.flags /\ ~Carries(w.q, {"FN"})
    BY <1>1, <1>2 DEF EndOK, RefuseOK
  <1>5. RefuseOK(v1, w)
    BY <1>1, <1>2 DEF EndOK, RefuseOK, Carries
  <1>6. DoneOK(v1, w) /\ DoneOK(w, v1)
    BY <1>1, <1>2 DEF EndOK, DoneOK, Parting
  <1>7. FinishOK(Peer(e), w, v1)
    BY <1>4 DEF FinishOK, Carries
  <1> QED
    BY <1>3, <1>5, <1>6, <1>7, StayPair

\* The loop is left for the sake of an RS, which stays to be read.
LEMMA LoopRS ==
    ASSUME NEW e \in Side, NEW v, NEW w, NEW v1, Seen(v), Seen(w), Seen(v1),
           PairOK(e, v, w), v1.q = v.q, MayStay(v, v1), Leaving(v),
           1 \in DOMAIN v.q, v.q[1].code = "RS"
    PROVE  PairOK(e, v1, w)
  <1> DEFINE o == Peer(e)
  <1>1. EndOK(e, v, w) /\ EndOK(o, w, v)
    BY DEF PairOK
  <1>2. Carries(v.q, {"RS"}) /\ Carries(v.q, {"RS", "NF"})
    BY DEF Carries
  <1>3. \A codes : Sub(codes, v.q, v1.q)
    BY SubItself DEF Seen
  <1>4. "SB_RS" \notin v.flags /\ "SB_AI" \notin v.flags
    BY <1>1 DEF EndOK, FlagsOK
  <1>5. "SB_RS" \in w.flags
    BY <1>1, <1>2, NoBids
  <1>6. ~Carries(w.q, {"RA"}) /\ ~Carries(w.q, Intr)
    BY <1>1, <1>2, <1>4 DEF EndOK, AskedOK, IntrOK
  <1>7. \A j \in DOMAIN w.q : Held(o, w, j)
    <2>1. \A i \in DOMAIN w.q : w.q[i].code = "RS" => Beaten(o, w, w.q[i])
      BY <1>1, <1>4 DEF EndOK, BidsOK, Live
    <2> QED
      BY <1>5, <1>6, <2>1 DEF Held, Carries
  <1>8. FinishOK(o, w, v1)
    BY <1>5, <1>7 DEF FinishOK
  <1>9. RefuseOK(v1, w)
    <2>1. \A j \in DOMAIN v.q : j = 1 \/ 1 < j
      BY DEF Seen
    <2>2. ~Carries(v.q, {"NF"})
      BY <1>1, <2>1 DEF EndOK, RefuseOK, Carries
    <2> QED
      BY <2>2 DEF RefuseOK, Carries
  <1>10. DoneOK(v1, w) /\ DoneOK(w, v1)
    BY <1>1, <1>2 DEF EndOK, DoneOK, Parting
  <1> QED
    BY <1>3, <1>8, <1>9, <1>10, StayPair

-----------------------------------------------------------------------------
(* Tokens: the steps on views.                                             *)

HandCodes == {"RS"} \cup Intr \cup Closing \cup Work

\* What is due to e after a step was due to it before.
Stems(e, v, v1) ==
    \A t \in Available(v.req), i \in Nat :
      Due(e, v1, t, i) => \E k \in Nat : Due(e, v, t, k)

LEMMA HandsTurned ==
    ASSUME NEW e \in Side, NEW v, NEW w, HandsOK(e, v, w)
    PROVE  HandsOK(Peer(e), w, v)
  <1>1. Peer(Peer(e)) = e
    BY DEF Peer, Side
  <1> QED
    BY <1>1 DEF HandsOK, ApartOK

LEMMA HandsStem ==
    ASSUME NEW e, NEW v, NEW w, NEW v1, NEW w1, HandsOK(e, v, w),
           v1.req = v.req, w1.req = w.req, HandOK(e, v1), HandOK(Peer(e), w1),
           Stems(e, v, v1), Stems(Peer(e), w, w1)
    PROVE  HandsOK(e, v1, w1)
  <1>1. ApartOK(e, v1, w1)
    BY DEF HandsOK, ApartOK, Stems
  <1> QED
    BY <1>1 DEF HandsOK

\* An answer in v.q brings a token only to an end that waits for one.
LEMMA DueLess ==
    ASSUME NEW e, NEW v, NEW v1, NEW f, Seen(v), Seen(v1), Maps(f, HandCodes, v.q, v1.q),
           v1.owned \subseteq v.owned, Waiting(v) => Waiting(v1),
           NEW t, NEW i \in Nat, Due(e, v1, t, i)
    PROVE  \/ i = 0 /\ Due(e, v, t, 0)
           \/ /\ i \in DOMAIN v1.q /\ v1.q[i].code \in HandCodes
              /\ f[i] \in Nat /\ Due(e, v, t, f[i])
  <1>1. DOMAIN v1.q \subseteq Nat \ {0} /\ DOMAIN v.q \subseteq Nat \ {0}
    BY DEF Seen
  <1>2. \A k \in DOMAIN v1.q : v1.q[k].code \in HandCodes =>
          f[k] \in DOMAIN v.q /\ v1.q[k] = v.q[f[k]]
    BY DEF Maps
  <1>3. \A k \in DOMAIN v1.q, j \in DOMAIN v1.q :
          k <= j /\ v1.q[k].code \in HandCodes /\ v1.q[j].code \in HandCodes => f[k] <= f[j]
    <2> TAKE k \in DOMAIN v1.q, j \in DOMAIN v1.q
    <2> HAVE k <= j /\ v1.q[k].code \in HandCodes /\ v1.q[j].code \in HandCodes
    <2>1. f[k] \in Nat /\ f[j] \in Nat /\ k \in Nat /\ j \in Nat
      BY <1>1, <1>2
    <2>2. CASE k = j
      BY <2>1, <2>2
    <2>3. CASE k < j
      BY <2>1, <2>3 DEF Maps
    <2> QED
      BY <2>1, <2>2, <2>3
  <1>4. CASE i = 0
    <2>1. ~Waiting(v1) /\ t \in v1.owned
      BY <1>1, <1>4 DEF Due
    <2> QED
      BY <1>4, <2>1 DEF Due
  <1>5. CASE i # 0
    <2>1. i \in DOMAIN v1.q /\ Brings(e, v1.q[i], t)
      BY <1>5 DEF Due
    <2>2. v1.q[i].code \in HandCodes
      BY <2>1 DEF Brings, HandCodes, Closing, Work
    <2>3. f[i] \in DOMAIN v.q /\ f[i] \in Nat /\ Brings(e, v.q[f[i]], t)
      BY <1>1, <1>2, <2>1, <2>2
    <2>4. Waiting(v) => \E k \in DOMAIN v.q : k <= f[i] /\ v.q[k].code \in Closing
      <3>1. SUFFICES ASSUME Waiting(v)
                     PROVE  \E k \in DOMAIN v.q : k <= f[i] /\ v.q[k].code \in Closing
        OBVIOUS
      <3>2. PICK k \in DOMAIN v1.q : k <= i /\ v1.q[k].code \in Closing
        BY <3>1 DEF Due
      <3>3. v1.q[k].code \in HandCodes
        BY <3>2 DEF HandCodes
      <3>4. f[k] \in DOMAIN v.q /\ v.q[f[k]].code \in Closing /\ f[k] <= f[i]
        BY <1>2, <1>3, <2>1, <2>2, <3>2, <3>3
      <3> QED
        BY <3>4
    <2> QED
      BY <2>1, <2>2, <2>3, <2>4 DEF Due
  <1> QED
    BY <1>4, <1>5

\* A step that only takes SPDUs, perhaps gives tokens up, and waits no less.
LEMMA HandLess ==
    ASSUME NEW e, NEW v, NEW v1, Seen(v), Seen(v1), HandOK(e, v),
           Sub(HandCodes, v.q, v1.q), v1.req = v.req,
           v1.owned \subseteq v.owned, Waiting(v) => Waiting(v1),
           \A x : Beaten(e, v, x) => Beaten(e, v1, x),
           \A g \in {"SB_RA", "SB_AIA"} : g \in v1.flags => g \in v.flags
    PROVE  HandOK(e, v1) /\ Stems(e, v, v1)
  <1>1. PICK f : Maps(f, HandCodes, v.q, v1.q)
    BY DEF Sub
  <1>2. DOMAIN v1.q \subseteq Nat \ {0} /\ DOMAIN v.q \subseteq Nat \ {0}
    BY DEF Seen
  <1>3. /\ \A k \in DOMAIN v1.q : v1.q[k].code \in HandCodes =>
             f[k] \in DOMAIN v.q /\ v1.q[k] = v.q[f[k]]
        /\ \A k \in DOMAIN v1.q, j \in DOMAIN v1.q :
             k < j /\ v1.q[k].code \in HandCodes /\ v1.q[j].code \in HandCodes => f[k] < f[j]
    BY <1>1 DEF Maps
  <1>4. ASSUME NEW t, NEW i \in Nat, Due(e, v1, t, i)
        PROVE  \/ i = 0 /\ Due(e, v, t, 0)
               \/ /\ i \in DOMAIN v1.q /\ v1.q[i].code \in HandCodes
                  /\ f[i] \in Nat /\ Due(e, v, t, f[i])
    BY <1>1, <1>4, DueLess
  <1>5. Stems(e, v, v1)
    BY <1>4 DEF Stems
  <1>6. OnceOK(e, v1)
    <2> SUFFICES ASSUME NEW t \in Available(v.req), NEW i \in Nat, NEW j \in Nat,
                        Due(e, v1, t, i), Due(e, v1, t, j), i < j
                 PROVE  FALSE
      BY DEF OnceOK
    <2>1. /\ j \in DOMAIN v1.q /\ v1.q[j].code \in HandCodes
          /\ f[j] \in Nat /\ Due(e, v, t, f[j])
      BY <1>4
    <2>2. CASE i = 0 /\ Due(e, v, t, 0)
      <3>1. f[j] \in DOMAIN v.q
        BY <1>3, <2>1
      <3>2. f[j] # 0
        BY <1>2, <3>1
      <3> QED
        BY <2>1, <2>2, <3>2 DEF HandOK, OnceOK
    <2>3. CASE /\ i \in DOMAIN v1.q /\ v1.q[i].code \in HandCodes
               /\ f[i] \in Nat /\ Due(e, v, t, f[i])
      <3>1. f[i] < f[j]
        BY <1>3, <2>1, <2>3
      <3>2. f[i] = f[j]
        BY <2>1, <2>3 DEF HandOK, OnceOK
      <3> QED
        BY <2>1, <3>1, <3>2
    <2> QED
      BY <1>4, <2>2, <2>3
  <1>7. WorkOK(e, v1)
    <2>1. ASSUME NEW i \in DOMAIN v1.q, NEW j \in DOMAIN v1.q, i < j, v1.q[j].code \in Work
          PROVE  /\ v1.q[i].code \notin Intr
                 /\ v1.q[i].code = "RS" =>
                      /\ Beaten(e, v1, v1.q[i])
                      /\ \A k \in DOMAIN v1.q : k < i => v1.q[k].code \notin Closing
      <3>1. v1.q[j].code \in HandCodes
        BY <2>1 DEF HandCodes
      <3>2. CASE v1.q[i].code \notin {"RS"} \cup Intr
        BY <3>2
      <3>3. CASE v1.q[i].code \in {"RS"} \cup Intr
        <4>1. v1.q[i].code \in HandCodes
          BY <3>3 DEF HandCodes
        <4>2. /\ f[i] \in DOMAIN v.q /\ f[j] \in DOMAIN v.q /\ f[i] < f[j]
              /\ v1.q[i] = v.q[f[i]] /\ v.q[f[j]].code \in Work
          BY <1>3, <2>1, <3>1, <4>1
        <4>3. /\ v.q[f[i]].code \notin Intr
              /\ v.q[f[i]].code = "RS" =>
                   /\ Beaten(e, v, v.q[f[i]])
                   /\ \A k \in DOMAIN v.q : k < f[i] => v.q[k].code \notin Closing
          BY <4>2 DEF HandOK, WorkOK
        <4>4. ASSUME NEW k \in DOMAIN v1.q, k < i, v1.q[k].code \in Closing,
                     v1.q[i].code = "RS"
              PROVE  FALSE
          <5>1. v1.q[k].code \in HandCodes
            BY <4>4 DEF HandCodes
          <5>2. f[k] \in DOMAIN v.q /\ f[k] < f[i] /\ v.q[f[k]].code \in Closing
            BY <1>3, <4>1, <4>4, <5>1
          <5> QED
            BY <4>2, <4>3, <4>4, <5>2
        <4> QED
          BY <4>2, <4>3, <4>4
      <3> QED
        BY <3>2, <3>3
    <2>2. "SB_RA" \in v1.flags \/ "SB_AIA" \in v1.flags => ~Carries(v1.q, Work)
      <3>1. Sub(Work, v.q, v1.q)
        BY SubLess DEF HandCodes
      <3> QED
        BY <3>1, SubCarries DEF HandOK, WorkOK
    <2>3. \A i \in DOMAIN v1.q : v1.q[i].code = "RA" =>
            \A t \in Available(v1.req) : v1.q[i].settings[t] # "CALL"
      <3> TAKE i \in DOMAIN v1.q
      <3>1. v1.q[i].code = "RA" => f[i] \in DOMAIN v.q /\ v1.q[i] = v.q[f[i]]
        BY <1>3 DEF HandCodes, Closing
      <3> QED
        BY <3>1 DEF HandOK, WorkOK
    <2>4. v1.owned \subseteq Available(v1.req)
      BY DEF HandOK, WorkOK
    <2> QED
      BY <2>1, <2>2, <2>3, <2>4 DEF WorkOK
  <1> QED
    BY <1>5, <1>6, <1>7 DEF HandOK

\* A step that reads x.
LEMMA HandTake ==
    ASSUME NEW e, NEW v, NEW v1, NEW x, Seen(v), Seen(v1), HandOK(e, v),
           Took(v.q, v1.q, x), v1.req = v.req, v1.owned \subseteq Available(v.req),
           \/ \A y : Beaten(e, v, y) => Beaten(e, v1, y)
           \/ x.code \in Closing \/ ~Carries(v1.q, Work),
           \/ \A g \in {"SB_RA", "SB_AIA"} : g \in v1.flags => g \in v.flags
           \/ ~Carries(v1.q, Work),
           Waiting(v) => Waiting(v1) \/ x.code \in Closing,
           \A t \in v1.owned : ~Waiting(v1) =>
             Brings(e, x, t) \/ (t \in v.owned /\ x.code \notin Closing)
    PROVE  HandOK(e, v1) /\ Stems(e, v, v1)
  <1>1. DOMAIN v1.q \subseteq Nat \ {0} /\ DOMAIN v.q \subseteq Nat \ {0}
    BY DEF Seen
  <1>2. /\ 1 \in DOMAIN v.q /\ v.q[1] = x
        /\ \A i \in DOMAIN v1.q : i + 1 \in DOMAIN v.q /\ v1.q[i] = v.q[i + 1]
    BY DEF Took
  <1>3. ASSUME NEW t, NEW i \in Nat, Due(e, v1, t, i)
        PROVE  Due(e, v, t, i + 1) \/ (i = 0 /\ Due(e, v, t, 0))
    <2>1. CASE i = 0
      <3>1. ~Waiting(v1) /\ t \in v1.owned
        BY <1>1, <1>3, <2>1 DEF Due
      <3>2. CASE Brings(e, x, t)
        <4>1. Waiting(v) => x.code \in Closing
          BY <3>1
        <4> QED
          BY <1>2, <2>1, <3>2, <4>1 DEF Due
      <3>3. CASE t \in v.owned /\ x.code \notin Closing
        BY <2>1, <3>1, <3>3 DEF Due
      <3> QED
        BY <3>1, <3>2, <3>3
    <2>2. CASE i # 0
      <3>1. i \in DOMAIN v1.q /\ Brings(e, v1.q[i], t)
        BY <1>3, <2>2 DEF Due
      <3>2. i + 1 \in DOMAIN v.q /\ Brings(e, v.q[i + 1], t)
        BY <1>2, <3>1
      <3>3. Waiting(v) => \E k \in DOMAIN v.q : k <= i + 1 /\ v.q[k].code \in Closing
        <4>1. CASE x.code \in Closing
          BY <1>2, <4>1
        <4>2. CASE Waiting(v1)
          <5>1. PICK k \in DOMAIN v1.q : k <= i /\ v1.q[k].code \in Closing
            BY <1>3, <4>2 DEF Due
          <5>2. k \in Nat /\ k + 1 \in DOMAIN v.q /\ k + 1 <= i + 1 /\ v.q[k + 1].code \in Closing
            BY <1>1, <1>2, <5>1
          <5> QED
            BY <5>2
        <4> QED
          BY <4>1, <4>2
      <3> QED
        BY <3>2, <3>3 DEF Due
    <2> QED
      BY <2>1, <2>2
  <1>4. Stems(e, v, v1)
    BY <1>3 DEF Stems
  <1>5. OnceOK(e, v1)
    <2> SUFFICES ASSUME NEW t \in Available(v.req), NEW i \in Nat, NEW j \in Nat,
                        Due(e, v1, t, i), Due(e, v1, t, j), i < j
                 PROVE  FALSE
      BY DEF OnceOK
    <2>1. Due(e, v, t, j + 1) /\ j + 1 \in Nat
      BY <1>3
    <2>2. PICK k \in {0, i + 1} : Due(e, v, t, k)
      BY <1>3
    <2>3. k \in Nat /\ k # j + 1
      BY <2>2
    <2> QED
      BY <2>1, <2>2, <2>3 DEF HandOK, OnceOK
  <1>6. WorkOK(e, v1)
    <2>1. ASSUME NEW i \in DOMAIN v1.q, NEW j \in DOMAIN v1.q, i < j, v1.q[j].code \in Work
          PROVE  /\ v1.q[i].code \notin Intr
                 /\ v1.q[i].code = "RS" =>
                      /\ Beaten(e, v1, v1.q[i])
                      /\ \A k \in DOMAIN v1.q : k < i => v1.q[k].code \notin Closing
      <3>1. /\ i \in Nat \ {0} /\ j \in Nat /\ i + 1 < j + 1
            /\ i + 1 \in DOMAIN v.q /\ j + 1 \in DOMAIN v.q
            /\ v1.q[i] = v.q[i + 1] /\ v.q[j + 1].code \in Work
        BY <1>1, <1>2, <2>1
      <3>2. /\ v.q[i + 1].code \notin Intr
            /\ v.q[i + 1].code = "RS" =>
                 /\ Beaten(e, v, v.q[i + 1])
                 /\ \A k \in DOMAIN v.q : k < i + 1 => v.q[k].code \notin Closing
        BY <3>1 DEF HandOK, WorkOK
      <3>3. Carries(v1.q, Work)
        BY <2>1 DEF Carries
      <3>4. ASSUME v1.q[i].code = "RS"
            PROVE  Beaten(e, v1, v1.q[i])
        <4>1. x.code \notin Closing
          BY <1>2, <3>1, <3>2, <3>4
        <4> QED
          BY <3>1, <3>2, <3>3, <3>4, <4>1
      <3>5. ASSUME v1.q[i].code = "RS", NEW k \in DOMAIN v1.q, k < i
            PROVE  v1.q[k].code \notin Closing
        <4>1. k + 1 \in DOMAIN v.q /\ v1.q[k] = v.q[k + 1] /\ k + 1 < i + 1
          BY <1>1, <1>2, <3>1, <3>5
        <4> QED
          BY <3>1, <3>2, <3>5, <4>1
      <3> QED
        BY <3>1, <3>2, <3>4, <3>5
    <2>2. "SB_RA" \in v1.flags \/ "SB_AIA" \in v1.flags => ~Carries(v1.q, Work)
      <3>1. Carries(v1.q, Work) => Carries(v.q, Work)
        BY <1>2 DEF Carries
      <3> QED
        BY <3>1 DEF HandOK, WorkOK
    <2>3. \A i \in DOMAIN v1.q : v1.q[i].code = "RA" =>
            \A t \in Available(v1.req) : v1.q[i].settings[t] # "CALL"
      BY <1>2 DEF HandOK, WorkOK
    <2> QED
      BY <2>1, <2>2, <2>3 DEF WorkOK
  <1> QED
    BY <1>4, <1>5, <1>6 DEF HandOK

\* It is asked for an answer: no token is under way behind the request.
LEMMA TakeAsk ==
    ASSUME NEW e, NEW v, NEW v1, NEW x, Seen(v), Seen(v1), HandOK(e, v),
           Took(v.q, v1.q, x), v1.owned = v.owned, v1.req = v.req, Waiting(v1),
           x.code \in Intr \/ (x.code = "RS" /\ ~Beaten(e, v, x))
    PROVE  HandOK(e, v1) /\ Stems(e, v, v1)
  <1>1. ~Carries(v1.q, Work)
    <2> SUFFICES ASSUME NEW j \in DOMAIN v1.q, v1.q[j].code \in Work
                 PROVE  FALSE
      BY DEF Carries
    <2>1. /\ 1 \in DOMAIN v.q /\ v.q[1] = x /\ j + 1 \in DOMAIN v.q
          /\ v.q[j + 1].code \in Work /\ 1 < j + 1
      BY DEF Took
    <2> QED
      BY <2>1 DEF HandOK, WorkOK
  <1>2. v1.owned \subseteq Available(v.req)
    BY DEF HandOK, WorkOK
  <1> QED
    BY <1>1, <1>2, HandTake

\* It reads the answer that it waits for.
LEMMA TakeAnswer ==
    ASSUME NEW e, NEW v, NEW v1, NEW x, Seen(v), Seen(v1), HandOK(e, v),
           Took(v.q, v1.q, x), x.code \in Closing, v1.req = v.req,
           v1.owned \subseteq Available(v.req), \A t \in v1.owned : Brings(e, x, t),
           \A g \in {"SB_RA", "SB_AIA"} : g \in v1.flags => g \in v.flags
    PROVE  HandOK(e, v1) /\ Stems(e, v, v1)
  BY HandTake

\* It is given tokens.
LEMMA TakeWork ==
    ASSUME NEW e, NEW v, NEW v1, NEW x, Seen(v), Seen(v1), HandOK(e, v), SameMind(v, v1),
           Took(v.q, v1.q, x), x.code \in Work, v1.req = v.req,
           v1.owned \subseteq Available(v.req),
           \A t \in v1.owned : Brings(e, x, t) \/ t \in v.owned
    PROVE  HandOK(e, v1) /\ Stems(e, v, v1)
  <1>1. /\ \A y : Beaten(e, v, y) => Beaten(e, v1, y)
        /\ \A g \in {"SB_RA", "SB_AIA"} : g \in v1.flags => g \in v.flags
        /\ Waiting(v) => Waiting(v1)
    BY MindKeeps DEF Waiting
  <1>2. x.code \notin Closing
    BY DEF Work, Closing, IntrAck
  <1> QED
    BY <1>1, <1>2, HandTake

\* The peer of an end that sends x.
Grows(w, w1, x) == /\ SameMind(w, w1) /\ Gave(w.q, w1.q, x)
                   /\ w1.owned = w.owned /\ w1.req = w.req

LEMMA DueGrow ==
    ASSUME NEW e, NEW w, NEW w1, NEW x, Seen(w), Seen(w1), Grows(w, w1, x),
           NEW t, NEW i \in Nat, Due(e, w1, t, i)
    PROVE  Due(e, w, t, i) \/ (i = Len(w1.q) /\ i \in DOMAIN w1.q \ DOMAIN w.q /\ Brings(e, x, t))
  <1>1. /\ \A k \in DOMAIN w.q : k \in DOMAIN w1.q /\ w1.q[k] = w.q[k]
        /\ \A k \in DOMAIN w1.q \ DOMAIN w.q :
             /\ k = Len(w1.q) \/ w1.q[k].code \notin Tracked
             /\ \A j \in DOMAIN w.q : j < k
        /\ w1.q[Len(w1.q)] = x /\ w1.owned = w.owned
    BY DEF Grows, Gave
  <1>2. Waiting(w1) <=> Waiting(w)
    BY DEF Waiting, Grows, SameMind, Watched
  <1>3. DOMAIN w1.q \subseteq Nat \ {0} /\ DOMAIN w.q \subseteq Nat \ {0}
    BY DEF Seen
  <1>4. CASE i = 0
    <2>1. ~Waiting(w1) /\ t \in w1.owned
      BY <1>3, <1>4 DEF Due
    <2> QED
      BY <1>1, <1>2, <1>4, <2>1 DEF Due
  <1>5. CASE i \in DOMAIN w.q
    <2>1. Brings(e, w.q[i], t)
      BY <1>1, <1>3, <1>5 DEF Due
    <2>2. \A k \in DOMAIN w1.q : k <= i => k \in DOMAIN w.q /\ w1.q[k] = w.q[k]
      BY <1>1, <1>3, <1>5
    <2>3. Waiting(w) => \E k \in DOMAIN w.q : k <= i /\ w.q[k].code \in Closing
      BY <1>2, <2>2 DEF Due
    <2> QED
      BY <1>5, <2>1, <2>3 DEF Due
  <1>6. CASE i # 0 /\ i \notin DOMAIN w.q
    <2>1. i \in DOMAIN w1.q /\ Brings(e, w1.q[i], t)
      BY <1>6 DEF Due
    <2>2. w1.q[i].code \in Tracked
      BY <2>1 DEF Brings, Tracked, IntrAck, Work
    <2> QED
      BY <1>1, <1>6, <2>1, <2>2
  <1> QED
    BY <1>4, <1>5, <1>6

LEMMA GrowWork ==
    ASSUME NEW e, NEW w, NEW w1, NEW x, Seen(w), Seen(w1), Grows(w, w1, x), WorkOK(e, w),
           x.code = "RA" => \A t \in Available(w.req) : x.settings[t] # "CALL",
           x.code \in Work =>
             /\ \A i \in DOMAIN w.q :
                  /\ w.q[i].code \notin Intr
                  /\ w.q[i].code = "RS" =>
                       /\ Beaten(e, w, w.q[i])
                       /\ \A k \in DOMAIN w.q : k < i => w.q[k].code \notin Closing
             /\ "SB_RA" \notin w.flags /\ "SB_AIA" \notin w.flags
    PROVE  WorkOK(e, w1)
  <1>1. /\ \A k \in DOMAIN w.q : k \in DOMAIN w1.q /\ w1.q[k] = w.q[k]
        /\ \A k \in DOMAIN w1.q \ DOMAIN w.q :
             /\ k = Len(w1.q) \/ w1.q[k].code \notin Tracked
             /\ \A j \in DOMAIN w.q : j < k
        /\ w1.q[Len(w1.q)] = x /\ w1.owned = w.owned /\ w1.req = w.req
        /\ \A k \in DOMAIN w1.q : k <= Len(w1.q)
    BY DEF Grows, Gave
  <1>2. /\ \A y : Beaten(e, w, y) => Beaten(e, w1, y)
        /\ "SB_RA" \in w1.flags <=> "SB_RA" \in w.flags
        /\ "SB_AIA" \in w1.flags <=> "SB_AIA" \in w.flags
    BY MindKeeps DEF Grows
  <1>3. DOMAIN w1.q \subseteq Nat \ {0} /\ DOMAIN w.q \subseteq Nat \ {0} /\ Len(w1.q) \in Nat
    BY DEF Seen
  <1>4. \A i \in DOMAIN w.q, k \in DOMAIN w1.q : k < i => k \in DOMAIN w.q /\ w1.q[k] = w.q[k]
    BY <1>1, <1>3
  <1>5. ASSUME NEW i \in DOMAIN w1.q, NEW j \in DOMAIN w1.q, i < j, w1.q[j].code \in Work
        PROVE  /\ w1.q[i].code \notin Intr
               /\ w1.q[i].code = "RS" =>
                    /\ Beaten(e, w1, w1.q[i])
                    /\ \A k \in DOMAIN w1.q : k < i => w1.q[k].code \notin Closing
    <2>1. CASE j \in DOMAIN w.q
      <3>1. i \in DOMAIN w.q /\ w1.q[i] = w.q[i] /\ w1.q[j] = w.q[j]
        BY <1>1, <1>4, <1>5, <2>1
      <3>2. /\ w.q[i].code \notin Intr
            /\ w.q[i].code = "RS" =>
                 /\ Beaten(e, w, w.q[i])
                 /\ \A k \in DOMAIN w.q : k < i => w.q[k].code \notin Closing
        BY <1>5, <2>1, <3>1 DEF WorkOK
      <3> QED
        BY <1>2, <1>4, <3>1, <3>2
    <2>2. CASE j \notin DOMAIN w.q
      <3>1. j = Len(w1.q) /\ x.code \in Work
        BY <1>1, <1>5, <2>2 DEF Tracked
      <3>2. CASE i \in DOMAIN w.q
        <4>1. /\ w.q[i].code \notin Intr
              /\ w.q[i].code = "RS" =>
                   /\ Beaten(e, w, w.q[i])
                   /\ \A k \in DOMAIN w.q : k < i => w.q[k].code \notin Closing
          BY <3>1, <3>2
        <4> QED
          BY <1>1, <1>2, <1>4, <3>2, <4>1
      <3>3. CASE i \notin DOMAIN w.q
        <4>1. w1.q[i].code \notin Tracked
          BY <1>1, <1>3, <1>5, <3>1, <3>3
        <4> QED
          BY <4>1 DEF Tracked
      <3> QED
        BY <3>2, <3>3
    <2> QED
      BY <2>1, <2>2
  <1>6. "SB_RA" \in w1.flags \/ "SB_AIA" \in w1.flags => ~Carries(w1.q, Work)
    <2> SUFFICES ASSUME "SB_RA" \in w1.flags \/ "SB_AIA" \in w1.flags,
                        NEW i \in DOMAIN w1.q, w1.q[i].code \in Work
                 PROVE  FALSE
      BY DEF Carries
    <2>1. CASE i \in DOMAIN w.q
      BY <1>1, <1>2, <2>1 DEF WorkOK, Carries
    <2>2. CASE i \notin DOMAIN w.q
      <3>1. x.code \in Work
        BY <1>1, <2>2 DEF Tracked
      <3> QED
        BY <1>2, <3>1
    <2> QED
      BY <2>1, <2>2
  <1>7. \A i \in DOMAIN w1.q : w1.q[i].code = "RA" =>
          \A t \in Available(w1.req) : w1.q[i].settings[t] # "CALL"
    <2> TAKE i \in DOMAIN w1.q
    <2>1. CASE i \in DOMAIN w.q
      BY <1>1, <2>1 DEF WorkOK
    <2>2. CASE i \notin DOMAIN w.q
      BY <1>1, <2>2 DEF Tracked
    <2> QED
      BY <2>1, <2>2
  <1> QED
    BY <1>1, <1>5, <1>6, <1>7 DEF WorkOK

\* x takes no token along: it asks for an answer.
LEMMA HandAsked ==
    ASSUME NEW e, NEW w, NEW w1, NEW x, Seen(w), Seen(w1), Grows(w, w1, x), HandOK(e, w),
           x.code \in {"RS"} \cup Intr
    PROVE  HandOK(e, w1) /\ Stems(e, w, w1)
  <1>1. x.code # "RA" /\ x.code \notin Work /\ \A t : ~Brings(e, x, t)
    BY DEF Work, Intr, IntrAck, Brings
  <1>2. WorkOK(e, w1)
    BY <1>1, GrowWork DEF HandOK
  <1>3. ASSUME NEW t, NEW i \in Nat, Due(e, w1, t, i) PROVE Due(e, w, t, i)
    BY <1>1, <1>3, DueGrow
  <1>4. OnceOK(e, w1)
    BY <1>3 DEF HandOK, OnceOK, Grows
  <1> QED
    BY <1>2, <1>3, <1>4 DEF HandOK, Stems

LEMMA HandsAsk ==
    ASSUME NEW e, NEW v, NEW w, NEW v1, NEW w1, NEW x, Seen(v), Seen(w), Seen(v1), Seen(w1),
           HandsOK(e, v, w), Grows(w, w1, x), x.code \in {"RS"} \cup Intr,
           v1.q = v.q, v1.owned = v.owned, v1.req = v.req, Waiting(v1),
           "SB_RS" \notin v.flags, "SB_AI" \notin v.flags,
           \A g \in {"SB_RA", "SB_AIA"} : g \in v1.flags => g \in v.flags
    PROVE  HandsOK(e, v1, w1)
  <1>1. HandOK(e, v) /\ HandOK(Peer(e), w)
    BY DEF HandsOK
  <1>2. HandOK(Peer(e), w1) /\ Stems(Peer(e), w, w1) /\ w1.req = w.req
    BY <1>1, HandAsked DEF Grows
  <1>3. Sub(HandCodes, v.q, v1.q)
    BY SubItself DEF Seen
  <1>4. \A y : Beaten(e, v, y) => Beaten(e, v1, y)
    BY DEF Beaten
  <1>5. HandOK(e, v1) /\ Stems(e, v, v1)
    BY <1>1, <1>3, <1>4, HandLess
  <1> QED
    BY <1>2, <1>5, HandsStem

\* An end that waits for nothing gives tokens that it owns.
LEMMA HandsGive ==
    ASSUME NEW e \in Side, NEW v, NEW w, NEW v1, NEW w1, NEW x,
           Seen(v), Seen(w), Seen(v1), Seen(w1), PairOK(e, v, w), HandsOK(e, v, w),
           v1.q = v.q, v1.req = v.req, v1.owned \subseteq v.owned, SameMind(v, v1),
           Grows(w, w1, x), x.code \in Work, ~Waiting(v),
           \A t \in Available(v.req) : Brings(Peer(e), x, t) => t \in v.owned \ v1.owned
    PROVE  HandsOK(e, v1, w1)
  <1>1. /\ HandOK(e, v) /\ HandOK(Peer(e), w) /\ ApartOK(e, v, w) /\ v.req = w.req
        /\ w1.req = w.req
    BY DEF HandsOK, Grows
  <1>2. "SB_RS" \notin v.flags /\ "SB_AI" \notin v.flags
    BY DEF Waiting
  <1>3. HandOK(e, v1) /\ Stems(e, v, v1)
    <2>1. Sub(HandCodes, v.q, v1.q)
      BY SubItself DEF Seen
    <2>2. /\ \A y : Beaten(e, v, y) => Beaten(e, v1, y)
          /\ \A g \in {"SB_RA", "SB_AIA"} : g \in v1.flags => g \in v.flags
      BY MindKeeps
    <2> QED
      BY <1>1, <2>1, <2>2, HandLess
  <1>4. WorkOK(Peer(e), w1)
    <2>1. BidsOK(Peer(e), w, v) /\ AskedOK(w, v) /\ IntrOK(w, v)
      BY DEF PairOK, EndOK
    <2>2. "SB_RA" \notin w.flags /\ "SB_AIA" \notin w.flags /\ ~Carries(w.q, Intr)
      BY <1>2, <2>1 DEF AskedOK, IntrOK
    <2>3. \A i \in DOMAIN w.q : w.q[i].code = "RS" =>
            /\ Beaten(Peer(e), w, w.q[i])
            /\ \A k \in DOMAIN w.q : k < i => w.q[k].code \notin Closing
      BY <1>2, <2>1 DEF BidsOK, Live, Closing
    <2>4. x.code # "RA"
      BY DEF Work
    <2>5. \A i \in DOMAIN w.q : w.q[i].code \notin Intr
      BY <2>2 DEF Carries
    <2> QED
      BY <1>1, <2>2, <2>3, <2>4, <2>5, GrowWork DEF HandOK
  <1>5. ASSUME NEW t \in Available(v.req), NEW i \in Nat, Due(Peer(e), w1, t, i)
        PROVE  Due(Peer(e), w, t, i) \/ (i = Len(w1.q) /\ t \in v.owned \ v1.owned)
    BY <1>5, DueGrow
  <1>6. ASSUME NEW t \in v.owned PROVE Due(e, v, t, 0)
    BY <1>6 DEF Due
  <1>7. OnceOK(Peer(e), w1)
    <2> SUFFICES ASSUME NEW t \in Available(v.req), NEW i \in Nat, NEW j \in Nat,
                        Due(Peer(e), w1, t, i), Due(Peer(e), w1, t, j)
                 PROVE  i = j
      BY <1>1 DEF OnceOK
    <2>1. CASE t \in v.owned
      <3>1. ~Due(Peer(e), w, t, i) /\ ~Due(Peer(e), w, t, j)
        BY <1>1, <1>6, <2>1 DEF ApartOK
      <3> QED
        BY <1>5, <3>1
    <2>2. CASE t \notin v.owned
      BY <1>1, <1>5, <2>2 DEF HandOK, OnceOK
    <2> QED
      BY <2>1, <2>2
  <1>8. ApartOK(e, v1, w1)
    <2> SUFFICES ASSUME NEW t \in Available(v.req), NEW i \in Nat, NEW j \in Nat,
                        Due(e, v1, t, i), Due(Peer(e), w1, t, j)
                 PROVE  FALSE
      BY DEF ApartOK
    <2>1. ~Due(Peer(e), w, t, j)
      BY <1>1, <1>3 DEF ApartOK, Stems
    <2>2. t \in v.owned /\ t \notin v1.owned
      BY <1>5, <2>1
    <2>3. i # 0 /\ Due(e, v, t, i)
      <3>1. i # 0
        BY <2>2 DEF Due, Seen
      <3>2. ~Waiting(v)
        OBVIOUS
      <3> QED
        BY <3>1, <3>2 DEF Due
    <2> QED
      BY <1>1, <1>6, <2>2, <2>3 DEF HandOK, OnceOK
  <1> QED
    BY <1>1, <1>3, <1>4, <1>7, <1>8 DEF HandsOK, HandOK

\* An end that owes an answer gives it: nothing but the answer settles where
\* the tokens are.
LEMMA HandsAnswer ==
    ASSUME NEW e \in Side, NEW v, NEW w, NEW v1, NEW w1, NEW x,
           Seen(v), Seen(w), Seen(v1), Seen(w1), PairOK(e, v, w), HandsOK(e, v, w),
           v1.q = v.q, v1.req = v.req, v1.owned \subseteq Available(v.req),
           ~Waiting(v1), Grows(w, w1, x), x.code \in Closing,
           x.code = "RA" => /\ "SB_RA" \in v.flags
                            /\ \A t \in Available(v.req) : x.settings[t] # "CALL",
           x.code \in IntrAck => "SB_AIA" \in v.flags,
           "SB_RS" \notin v.flags, "SB_AI" \notin v.flags,
           \A t \in v1.owned : ~Brings(Peer(e), x, t)
    PROVE  HandsOK(e, v1, w1)
  <1>1. /\ HandOK(e, v) /\ HandOK(Peer(e), w) /\ ApartOK(e, v, w) /\ v.req = w.req
        /\ w1.req = w.req
    BY DEF HandsOK, Grows
  <1>2. DOMAIN w1.q \subseteq Nat \ {0} /\ DOMAIN v.q \subseteq Nat \ {0}
    BY DEF Seen
  <1>3. ~Carries(v.q, Closing) /\ ~Carries(v.q, Work)
    <2>1. ~Carries(v.q, {"RA"}) /\ ~Carries(v.q, IntrAck)
      BY DEF PairOK, EndOK, AskedOK, IntrOK
    <2>2. "SB_RA" \in v.flags \/ "SB_AIA" \in v.flags
      BY DEF Closing
    <2> QED
      BY <1>1, <2>1, <2>2 DEF Closing, Carries, HandOK, WorkOK
  <1>4. ASSUME NEW t, NEW i \in Nat, Due(e, v1, t, i)
        PROVE  i = 0 /\ t \in v1.owned
    <2>1. \A j \in DOMAIN v.q : ~Brings(e, v.q[j], t)
      BY <1>3 DEF Carries, Brings, Closing, Work
    <2> QED
      BY <1>4, <2>1 DEF Due
  <1>5. Waiting(w) /\ ~Carries(w.q, Closing)
    <2>1. FlagsOK(w) /\ AskedOK(v, w) /\ IntrOK(v, w)
      BY DEF PairOK, EndOK
    <2>2. CASE x.code = "RA"
      <3>1. "SB_RS" \in w.flags /\ ~Carries(w.q, {"RA"})
        BY <2>1, <2>2 DEF AskedOK
      <3>2. ~Carries(w.q, IntrAck)
        BY <2>1, <3>1 DEF IntrOK, FlagsOK
      <3> QED
        BY <3>1, <3>2 DEF Waiting, Carries, Closing
    <2>3. CASE x.code \in IntrAck
      <3>1. "SB_AI" \in w.flags /\ ~Carries(w.q, IntrAck)
        BY <2>1, <2>3 DEF IntrOK
      <3>2. ~Carries(w.q, {"RA"})
        BY <2>1, <3>1 DEF AskedOK, FlagsOK
      <3> QED
        BY <3>1, <3>2 DEF Waiting, Carries, Closing
    <2> QED
      BY <2>2, <2>3 DEF Closing
  <1>6. ASSUME NEW t, NEW i \in Nat, Due(Peer(e), w1, t, i)
        PROVE  i = Len(w1.q) /\ Brings(Peer(e), x, t)
    <2>1. ~Due(Peer(e), w, t, i)
      BY <1>5 DEF Due, Carries
    <2> QED
      BY <1>6, <2>1, DueGrow
  <1>7. WorkOK(Peer(e), w1)
    <2>1. x.code \notin Work
      BY DEF Work, Closing, IntrAck
    <2>2. WorkOK(Peer(e), w)
      BY <1>1 DEF HandOK
    <2> QED
      BY <1>1, <2>1, <2>2, GrowWork
  <1>8. WorkOK(e, v1)
    <2>1. \A i \in DOMAIN v1.q : v1.q[i].code \notin Work /\ v1.q[i].code # "RA"
      BY <1>3 DEF Carries, Closing
    <2> QED
      BY <2>1 DEF WorkOK, Waiting
  <1>9. OnceOK(e, v1)
    BY <1>4 DEF OnceOK
  <1>10. OnceOK(Peer(e), w1)
    BY <1>6 DEF OnceOK
  <1>11. ApartOK(e, v1, w1)
    BY <1>4, <1>6 DEF ApartOK
  <1> QED
    BY <1>1, <1>7, <1>8, <1>9, <1>10, <1>11 DEF HandsOK, HandOK

-----------------------------------------------------------------------------
(* From the steps of Ssap to these.                                        *)

LEMMA ViewSeen ==
    ASSUME TypeOK, NEW s \in Side
    PROVE  Seen(View(s))
  <1>1. Queue(s) \in Seq(Spdu)
    BY QueueType
  <1>2. sb[s].sb_rs \in SyncOp /\ sb[s].sb_rsn \in Nat
    BY DEF TypeOK, ssapblk
  <1> QED
    BY <1>1, <1>2 DEF Seen, View

LEMMA ViewSeenNext ==
    ASSUME TypeOK', NEW s \in Side
    PROVE  Seen(View(s)')
  <1>1. sb'[s].sb_spdu \in Seq(Spdu) /\ net'[s] \in Seq(Spdu)
    BY DEF TypeOK, ssapblk
  <1>2. Queue(s)' \in Seq(Spdu)
    BY <1>1, ConcatProperties DEF Queue
  <1>3. sb'[s].sb_rs \in SyncOp /\ sb'[s].sb_rsn \in Nat
    BY DEF TypeOK, ssapblk
  <1> QED
    BY <1>2, <1>3 DEF Seen, View

\* What the view of s is after a step.
LEMMA ViewFields ==
    ASSUME NEW s \in Side
    PROVE  /\ View(s).q = Queue(s) /\ View(s)'.q = Queue(s)'
           /\ View(s).rs = sb[s].sb_rs /\ View(s)'.rs = sb'[s].sb_rs
           /\ View(s).rsn = sb[s].sb_rsn /\ View(s)'.rsn = sb'[s].sb_rsn
           /\ View(s).owned = sb[s].sb_owned /\ View(s)'.owned = sb'[s].sb_owned
           /\ View(s).req = sb[s].sb_requirements /\ View(s)'.req = sb'[s].sb_requirements
           /\ \A f \in Watched \ {"SB_RELEASE"} :
                /\ f \in View(s).flags <=> f \in sb[s].sb_flags
                /\ f \in View(s)'.flags <=> f \in sb'[s].sb_flags
           /\ Leaving(View(s)) <=> inRelease[s] \/ "SB_RELEASE" \in sb[s].sb_flags
           /\ Leaving(View(s)') <=> inRelease'[s] \/ "SB_RELEASE" \in sb'[s].sb_flags
  BY DEF View, Leaving, Watched

LEMMA PeerView ==
    ASSUME NEW s \in Side, Moves(s)
    PROVE  /\ SameMind(View(Peer(s)), View(Peer(s))')
           /\ Silent(s) /\ Connected(Peer(s)) => View(Peer(s))' = View(Peer(s))
           /\ \A x : Says(s, x) /\ Connected(Peer(s)) =>
                       /\ Gave(View(Peer(s)).q, View(Peer(s))'.q, x)
                       /\ Grows(View(Peer(s)), View(Peer(s))', x)
  BY DEF Moves, View, SameMind, Silent, Says, Grows

LEMMA BothPair ==
    ASSUME ResyncInv, Both, NEW s \in Side
    PROVE  PairOK(s, View(s), View(Peer(s)))
  <1>1. Peer(s) \in Side /\ Peer(Peer(s)) = s
    BY DEF Peer, Side
  <1> QED
    BY <1>1 DEF ResyncInv, PairOK

LEMMA MovesKeeps ==
    ASSUME Inv, ResyncInv, NEW s \in Side, Moves(s),
           Both => PairOK(s, View(s)', View(Peer(s))'),
           Both => HandsOK(s, View(s)', View(Peer(s))'),
           Parting(View(s)) => Leaving(View(s)')
    PROVE  ResyncInv'
  <1> DEFINE o == Peer(s)
  <1>1. o \in Side /\ o # s /\ Peer(o) = s /\ \A e \in Side : e = s \/ e = o
    BY DEF Peer, Side
  <1>2. Connected(o)' <=> Connected(o)
    BY DEF Moves, Connected
  <1>3. Both' <=> Both
    BY <1>1, <1>2 DEF Both, Moves
  <1>4. Both' => \A e \in Side : EndOK(e, View(e)', View(Peer(e))')
    BY <1>1, <1>3 DEF PairOK
  <1>5. outcome[s] # "released"
    BY DEF Inv, FreedIsGone, Moves
  <1>6. outcome[o] = "released" => Parting(View(s)')
    <2>1. Sub({"RS", "NF"}, View(s).q, View(s)'.q)
      BY SubLess, ViewFields DEF Moves, Tracked
    <2>2. outcome[o] = "released" => Parting(View(s))
      BY <1>1 DEF ResyncInv, Moves
    <2> QED
      BY <2>1, <2>2, PartingLess DEF Parting
  <1>7. \A e \in Side : outcome'[e] = "released" /\ Connected(Peer(e))' => Parting(View(Peer(e))')
    BY <1>1, <1>5, <1>6 DEF Moves
  <1>8. \A e \in Side : Len(sb'[e].sb_spdu) <= 1
    BY <1>1 DEF Moves, ResyncInv
  <1>9. Both' => \A e \in Side : HandsOK(e, View(e)', View(Peer(e))')
    BY <1>1, <1>3, HandsTurned
  <1> QED
    BY <1>4, <1>7, <1>8, <1>9 DEF ResyncInv

\* A step that leaves the tokens alone, whatever else it does.
SameHands(v, v1) ==
    /\ v1.owned = v.owned /\ v1.req = v.req /\ v1.rs = v.rs /\ v1.rsn = v.rsn
    /\ \A f \in {"SB_RS", "SB_RA", "SB_AI", "SB_AIA"} : f \in v1.flags <=> f \in v.flags

LEMMA HandSame ==
    ASSUME NEW e, NEW v, NEW v1, Seen(v), Seen(v1), HandOK(e, v),
           Sub(HandCodes, v.q, v1.q), SameHands(v, v1)
    PROVE  HandOK(e, v1) /\ Stems(e, v, v1)
  <1>1. /\ \A x : Beaten(e, v, x) => Beaten(e, v1, x)
        /\ Waiting(v) => Waiting(v1)
        /\ \A g \in {"SB_RA", "SB_AIA"} : g \in v1.flags => g \in v.flags
    BY DEF SameHands, Beaten, Waiting
  <1> QED
    BY <1>1, HandLess DEF SameHands

LEMMA HandCodesTracked == HandCodes \in SUBSET Tracked
  BY DEF HandCodes, Closing, Tracked

\* The peer is sent nothing that matters to the tokens.
Mute(s) == Silent(s) \/ \E x : x.code \notin HandCodes /\ Says(s, x)

LEMMA PeerHand ==
    ASSUME Inv, Inv', ResyncInv, NEW s \in Side, Moves(s), Mute(s), Both
    PROVE  LET w == View(Peer(s))
               w1 == View(Peer(s))'
           IN  HandOK(Peer(s), w1) /\ Stems(Peer(s), w, w1) /\ w1.req = w.req
  <1> DEFINE o == Peer(s)
             w == View(o)
             w1 == View(o)'
  <1>1. o \in Side /\ Seen(w) /\ Seen(w1) /\ Connected(o) /\ HandOK(o, w)
    BY PeerSide, ViewSeen, ViewSeenNext DEF Inv, ResyncInv, Both, HandsOK
  <1>2. SameHands(w, w1)
    BY ViewFields, PeerView, <1>1 DEF Moves, SameHands, SameMind, Watched
  <1>3. Sub(HandCodes, w.q, w1.q)
    <2>1. CASE Silent(s)
      <3>1. w1 = w
        BY <1>1, <2>1, PeerView
      <3> QED
        BY <1>1, <3>1, SubItself DEF Seen
    <2>2. ASSUME NEW x, x.code \notin HandCodes, Says(s, x)
          PROVE  Sub(HandCodes, w.q, w1.q)
      <3>1. Gave(w.q, w1.q, x)
        BY <1>1, <2>2, PeerView
      <3> QED
        BY <1>1, <2>2, <3>1, GaveSub, HandCodesTracked DEF Seen
    <2> QED
      BY <2>1, <2>2 DEF Mute
  <1> HIDE DEF o, w, w1
  <1>4. HandOK(o, w1) /\ Stems(o, w, w1) /\ w1.req = w.req
    BY <1>1, <1>2, <1>3, HandSame DEF SameHands
  <1> QED
    BY <1>4 DEF o, w, w1

\* Then the step is right if it is right for the end that takes it.
LEMMA HandsMute ==
    ASSUME Inv, Inv', ResyncInv, NEW s \in Side, Moves(s), Mute(s), Both,
           View(s)'.req = View(s).req, HandOK(s, View(s)'), Stems(s, View(s), View(s)')
    PROVE  HandsOK(s, View(s)', View(Peer(s))')
  <1> DEFINE w == View(Peer(s))
             w1 == View(Peer(s))'
  <1>1. HandOK(Peer(s), w1) /\ Stems(Peer(s), w, w1) /\ w1.req = w.req
    BY PeerHand
  <1>2. HandsOK(s, View(s), w)
    BY DEF ResyncInv
  <1> HIDE DEF w, w1
  <1>3. HandsOK(s, View(s)', w1)
    BY <1>1, <1>2, HandsStem
  <1> QED
    BY <1>3 DEF w1

LEMMA HandsSame ==
    ASSUME Inv, Inv', ResyncInv, NEW s \in Side, Moves(s), Mute(s), Both,
           SameHands(View(s), View(s)')
    PROVE  HandsOK(s, View(s)', View(Peer(s))')
  <1>1. /\ Seen(View(s)) /\ Seen(View(s)') /\ HandOK(s, View(s))
    BY ViewSeen, ViewSeenNext DEF Inv, ResyncInv, HandsOK
  <1>2. Sub(HandCodes, View(s).q, View(s)'.q)
    BY ViewFields, SubLess, HandCodesTracked DEF Moves
  <1>3. HandOK(s, View(s)') /\ Stems(s, View(s), View(s)')
    BY <1>1, <1>2, HandSame
  <1> QED
    BY <1>3, HandsMute DEF SameHands

\* A step that changes nothing that matters and sends nothing that matters.
LEMMA CalmPair ==
    ASSUME Inv, Inv', ResyncInv, NEW s \in Side, Moves(s), SameMind(View(s), View(s)'),
           Silent(s) \/ (\E x : x.code \notin Tracked /\ Says(s, x)), Both
    PROVE  PairOK(s, View(s)', View(Peer(s))')
  <1> DEFINE o == Peer(s)
             v == View(s)
             w == View(o)
             v1 == View(s)'
             w1 == View(o)'
  <1>1. o \in Side /\ Seen(v) /\ Seen(w) /\ Seen(v1) /\ Seen(w1) /\ Connected(o)
    BY PeerSide, ViewSeen, ViewSeenNext DEF Inv, Both
  <1>2. SameMind(v, v1) /\ SameMind(w, w1)
    BY PeerView
  <1>3. Sub(Tracked, v.q, v1.q)
    BY ViewFields DEF Moves
  <1>4. PairOK(s, v, w)
    BY BothPair
  <1>5. Sub(Tracked, w.q, w1.q)
    <2>1. CASE Silent(s)
      <3>1. w1 = w
        BY <1>1, <2>1, PeerView
      <3> QED
        BY <1>1, <3>1, SubItself DEF Seen
    <2>2. ASSUME NEW x, x.code \notin Tracked, Says(s, x)
          PROVE  Sub(Tracked, w.q, w1.q)
      <3>1. Gave(w.q, w1.q, x)
        BY <1>1, <2>2, PeerView
      <3> QED
        BY <1>1, <2>2, <3>1, GaveSub DEF Seen
    <2> QED
      BY <2>1, <2>2
  <1> HIDE DEF o, v, w, v1, w1
  <1>6. PairOK(s, v1, w1)
    BY <1>1, <1>2, <1>3, <1>4, <1>5, CalmEnd DEF PairOK, o
  <1> QED
    BY <1>6 DEF v1, w1, o

LEMMA CalmMoves ==
    ASSUME Inv, Inv', ResyncInv, NEW s \in Side, Moves(s), SameMind(View(s), View(s)'),
           SameHands(View(s), View(s)'),
           Silent(s) \/ \E x : x.code \notin Tracked /\ Says(s, x)
    PROVE  ResyncInv'
  <1>1. Both => PairOK(s, View(s)', View(Peer(s))')
    BY CalmPair
  <1>2. Both => HandsOK(s, View(s)', View(Peer(s))')
    BY HandsSame, HandCodesTracked DEF Mute
  <1>3. Parting(View(s)) => Leaving(View(s)')
    BY MindKeeps DEF Parting
  <1> QED
    BY <1>1, <1>2, <1>3, MovesKeeps

\* c is b as far as it matters.
CalmBlock(b, c) ==
    /\ c.sb_spdu = b.sb_spdu /\ c.sb_rs = b.sb_rs /\ c.sb_rsn = b.sb_rsn
    /\ c.sb_owned = b.sb_owned /\ c.sb_requirements = b.sb_requirements
    /\ \A f \in Watched \cup {"SB_CONN"} : f \in c.sb_flags <=> f \in b.sb_flags

LEMMA CalmView ==
    ASSUME NEW s \in Side, CalmBlock(sb[s], sb'[s]), inRelease' = inRelease
    PROVE  SameMind(View(s), View(s)') /\ SameHands(View(s), View(s)')
  BY ViewFields DEF CalmBlock, SameMind, SameHands, Leaving, Watched

LEMMA RequestCalm ==
    ASSUME Inv, Inv', ResyncInv, NEW s \in Side, Connected(s), NEW b, CalmBlock(sb[s], b),
           NEW p \in Spdu, p.code \notin Tracked, Request(s, b, p)
    PROVE  ResyncInv'
  <1>1. Len(sb[s].sb_spdu) <= 1 /\ "SB_CONN" \in b.sb_flags /\ b.sb_spdu = sb[s].sb_spdu
    BY DEF ResyncInv, CalmBlock, Connected
  <1>2. Moves(s) /\ sb'[s] = b /\ Says(s, p) /\ inRelease' = inRelease
    BY <1>1, RequestShape
  <1>3. SameMind(View(s), View(s)') /\ SameHands(View(s), View(s)')
    BY <1>2, CalmView
  <1> QED
    BY <1>2, <1>3, CalmMoves

LEMMA AcceptCalm ==
    ASSUME Inv, Inv', ResyncInv, NEW s \in Side, Connected(s), NEW codes,
           NEW in \in Received(s, codes), NEW b, CalmBlock(in.b, b),
           NEW reply \in {<< >>, <<newspkt("GTA")>>}, Accept(s, in, b, reply)
    PROVE  ResyncInv'
  <1>1. Len(sb[s].sb_spdu) <= 1 /\ SameBlock(sb[s], in.b) /\ Up(in.b)
    <2>1. Len(sb[s].sb_spdu) <= 1
      BY DEF ResyncInv
    <2> QED
      BY <2>1, ReceivedTakes
  <1>2. "SB_CONN" \in b.sb_flags /\ b.sb_spdu = in.b.sb_spdu
    BY <1>1 DEF CalmBlock, Up
  <1>3. newspkt("GTA") \in Spdu /\ newspkt("GTA").code \notin Tracked
    BY NewspktType DEF SpduCode, newspkt, Tracked, Intr, IntrAck, Work
  <1>4. reply \in Seq(Spdu)
    <2>1. << >> \in Seq(Spdu) /\ \A x \in Spdu : <<x>> \in Seq(Spdu)
      OBVIOUS
    <2> QED
      BY <1>3, <2>1
  <1>5. /\ Moves(s) /\ sb'[s] = b /\ inRelease' = inRelease
        /\ reply = << >> => Silent(s)
        /\ \A x \in Spdu : reply = <<x>> => Says(s, x)
    BY <1>1, <1>2, <1>4, AcceptShape
  <1>6. SameMind(View(s), View(s)') /\ SameHands(View(s), View(s)')
    BY <1>1, <1>5, ViewFields
       DEF CalmBlock, SameBlock, SameMind, SameHands, Leaving, Watched
  <1>7. Silent(s) \/ \E x : x.code \notin Tracked /\ Says(s, x)
    BY <1>3, <1>5
  <1> QED
    BY <1>5, <1>6, <1>7, CalmMoves

-----------------------------------------------------------------------------
(* Blocks that are freed, and those whose other end has been freed.        *)

LEMMA ConcatCarries ==
    ASSUME NEW a \in Seq(Spdu), NEW b \in Seq(Spdu), NEW codes, Carries(a \o b, codes)
    PROVE  Carries(a, codes) \/ Carries(b, codes)
  <1>1. PICK i \in 1 .. Len(a) + Len(b) : (a \o b)[i].code \in codes
    BY DEF Carries
  <1>2. CASE i <= Len(a)
    <2>1. i \in DOMAIN a /\ (a \o b)[i] = a[i]
      BY <1>2
    <2> QED
      BY <1>1, <2>1 DEF Carries
  <1>3. CASE ~(i <= Len(a))
    <2>1. i - Len(a) \in DOMAIN b /\ (a \o b)[i] = b[i - Len(a)]
      BY <1>3
    <2> QED
      BY <1>1, <2>1 DEF Carries
  <1> QED
    BY <1>2, <1>3

LEMMA FreeCalm ==
    ASSUME Inv, ResyncInv, NEW s \in Side, NEW why, NEW q \in Seq(Spdu), freesblk(s, why, q),
           why = "released" /\ Connected(Peer(s)) =>
             Parting(View(Peer(s))) /\ ~Carries(q, {"RS", "NF"})
    PROVE  ResyncInv'
  <1> DEFINE o == Peer(s)
             out == Append(q, TDISC)
  <1>1. o \in Side /\ o # s /\ Peer(o) = s /\ \A e \in Side : e = s \/ e = o
    BY DEF Peer, Side
  <1>2. out \in Seq(Spdu) /\ << >> \in Seq(Spdu)
    BY TdiscType
  <1>3. Stores(s, newsblk, << >>, out)
    BY DEF freesblk, Stores
  <1>4. Queues(s, newsblk, << >>, out)
    BY <1>2, <1>3, StepEffect
  <1>5. /\ sb'[s] = newsblk /\ sb'[o] = sb[o] /\ inRelease'[o] = inRelease[o]
        /\ outcome'[s] = why /\ outcome'[o] = outcome[o]
        /\ Connected(o) => Queue(o)' = Queue(o) \o out
    BY <1>1, <1>4 DEF Queues, freesblk, Inv, TypeOK
  <1>6. ~Connected(s)' /\ (Connected(o)' <=> Connected(o))
    BY <1>5 DEF Connected, newsblk
  <1>7. ASSUME why = "released", Connected(o) PROVE Parting(View(o)')
    <2>1. Leaving(View(o)) /\ ~Carries(Queue(o), {"RS", "NF"}) /\ ~Carries(q, {"RS", "NF"})
      BY <1>1, <1>7, ViewFields DEF Parting
    <2>2. Leaving(View(o)')
      BY <1>1, <1>5, <2>1, ViewFields
    <2>3. ~Carries(out, {"RS", "NF"})
      <3>1. TDISC.code \notin {"RS", "NF"}
        BY DEF TDISC, newspkt
      <3> QED
        BY <2>1, <3>1, TdiscType DEF Carries
    <2>4. Queue(o) \in Seq(Spdu)
      BY <1>1, QueueType DEF Inv
    <2> HIDE DEF out
    <2>5. ~Carries(Queue(o) \o out, {"RS", "NF"})
      BY <1>2, <2>1, <2>3, <2>4, ConcatCarries
    <2>6. ~Carries(View(o)'.q, {"RS", "NF"})
      BY <1>1, <1>5, <1>7, <2>5, ViewFields
    <2> QED
      BY <2>2, <2>6 DEF Parting
  <1>8. ~Both'
    BY <1>6 DEF Both
  <1>9. \A e \in Side : outcome'[e] = "released" /\ Connected(Peer(e))' => Parting(View(Peer(e))')
    BY <1>1, <1>5, <1>6, <1>7
  <1>10. \A e \in Side : Len(sb'[e].sb_spdu) <= 1
    <2>1. newsblk.sb_spdu = << >>
      BY DEF newsblk
    <2>2. Len(<< >>) = 0
      OBVIOUS
    <2> QED
      BY <1>1, <1>5, <2>1, <2>2 DEF ResyncInv
  <1> QED
    BY <1>8, <1>9, <1>10 DEF ResyncInv

-----------------------------------------------------------------------------
(* The actions that nothing here hangs on.                                 *)

LEMMA FlagsCalm ==
    ASSUME NEW b, Up(b), NEW g, NEW gone, NEW come,
           (gone \cup come) \cap (Watched \cup {"SB_CONN"}) = {},
           g = (b.sb_flags \ gone) \cup come
    PROVE  CalmBlock(b, [b EXCEPT !.sb_flags = g])
  <1>1. [b EXCEPT !.sb_flags = g].sb_flags = g
    BY DEF Up, ssapblk
  <1>2. \A f \in Watched \cup {"SB_CONN"} : f \in g <=> f \in b.sb_flags
    OBVIOUS
  <1> HIDE DEF Watched
  <1> QED
    BY <1>1, <1>2 DEF CalmBlock, Up, ssapblk

LEMMA DataCalm ==
    ASSUME Inv, Inv', ResyncInv, NEW s \in Side,
           \/ SDataRequest(s) \/ STypedRequest(s) \/ SExpdRequest(s)
    PROVE  ResyncInv'
  <1>1. Connected(s) /\ Up(sb[s])
    BY CallerUp DEF SDataRequest, STypedRequest, SExpdRequest, Calls, Responds
  <1>2. newspkt("DT") \in Spdu /\ newspkt("TD") \in Spdu /\ newspkt("EX") \in Spdu
    BY NewspktType DEF SpduCode
  <1>3. [newspkt("EX") EXCEPT !.expd = TRUE] \in Spdu
    BY <1>2 DEF Spdu
  <1>4. /\ newspkt("DT").code \notin Tracked /\ newspkt("TD").code \notin Tracked
        /\ [newspkt("EX") EXCEPT !.expd = TRUE].code \notin Tracked
    BY DEF newspkt, Tracked, Intr, IntrAck, Work
  <1>5. CalmBlock(sb[s], sb[s])
    BY DEF CalmBlock
  <1> QED
    BY <1>1, <1>2, <1>3, <1>4, <1>5, RequestCalm
    DEF SDataRequest, STypedRequest, SExpdRequest

LEMMA TokenCalm ==
    ASSUME Inv, Inv', ResyncInv, NEW s \in Side, NEW tokens \in SUBSET Token,
           SPTokenRequest(s, tokens)
    PROVE  ResyncInv'
  <1>1. Connected(s) /\ Up(sb[s])
    BY CallerUp DEF SPTokenRequest, Calls, Responds
  <1>2. [newspkt("PT") EXCEPT !.tokens = tokens] \in Spdu
    BY TokensSpdu DEF SpduCode
  <1>3. [newspkt("PT") EXCEPT !.tokens = tokens].code \notin Tracked
    BY DEF newspkt, Tracked, Intr, IntrAck, Work
  <1>4. CalmBlock(sb[s], sb[s])
    BY DEF CalmBlock
  <1> QED
    BY <1>1, <1>2, <1>3, <1>4, RequestCalm DEF SPTokenRequest

LEMMA ControlCalm ==
    ASSUME Inv, Inv', ResyncInv, NEW s \in Side,
           SCapdRequest(s) \/ SUReportRequest(s) \/ SCapdResponse(s)
    PROVE  ResyncInv'
  <1>1. Connected(s) /\ Up(sb[s])
    BY CallerUp DEF SCapdRequest, SUReportRequest, SCapdResponse, Calls, Responds
  <1>2. \A code \in {"CD", "ED", "CDA"} :
          newspkt(code) \in Spdu /\ newspkt(code).code \notin Tracked
    BY NewspktType DEF SpduCode, newspkt, Tracked, Intr, IntrAck, Work
  <1>3. /\ CalmBlock(sb[s], [sb[s] EXCEPT !.sb_flags = @ \cup {"SB_CD"}])
        /\ CalmBlock(sb[s], [sb[s] EXCEPT !.sb_flags = @ \ {"SB_CDA"}])
        /\ CalmBlock(sb[s], [sb[s] EXCEPT !.sb_flags = @ \cup {"SB_ED"}])
    BY <1>1 DEF Up, ssapblk, CalmBlock, Watched
  <1>4. CASE SCapdRequest(s)
    BY <1>1, <1>2, <1>3, <1>4, RequestCalm DEF SCapdRequest
  <1>5. CASE SUReportRequest(s)
    BY <1>1, <1>2, <1>3, <1>5, RequestCalm DEF SUReportRequest
  <1>6. CASE SCapdResponse(s)
    BY <1>1, <1>2, <1>3, <1>6, RequestCalm DEF SCapdResponse
  <1> QED
    BY <1>4, <1>5, <1>6

LEMMA PointCalm ==
    ASSUME NEW b, Up(b)
    PROVE  CalmBlock(b, IssuePoint(b)) /\ CalmBlock(b, CountPoint(b))
  BY DEF Up, ssapblk, CalmBlock, Watched, IssuePoint, CountPoint

\* The block of a point or of an activity, whatever becomes of other flags.
LEMMA OtherFlags ==
    ASSUME NEW b, NEW c, CalmBlock(b, c), Up(c), NEW g,
           \A f \in Watched \cup {"SB_CONN"} : f \in g <=> f \in b.sb_flags
    PROVE  CalmBlock(b, [c EXCEPT !.sb_flags = g])
  BY DEF Up, ssapblk, CalmBlock

LEMMA SyncCalm ==
    ASSUME Inv, Inv', ResyncInv, NEW s \in Side,
           SMinSyncRequest(s) \/ SMajSyncRequest(s) \/ SActEndRequest(s)
    PROVE  ResyncInv'
  <1>1. Connected(s) /\ Up(sb[s])
    BY CallerUp
    DEF SMinSyncRequest, SMajSyncRequest, SActEndRequest, Calls, Responds
  <1>2. sb[s].sb_V_M \in Nat
    BY <1>1 DEF Up, ssapblk
  <1>3. Up(IssuePoint(sb[s])) /\ CalmBlock(sb[s], IssuePoint(sb[s]))
    BY <1>1, IssuePointUp, PointCalm
  <1>4. ASSUME NEW code \in {"MIP", "MAP", "AE"}
        PROVE  LET p == [newspkt(code) EXCEPT !.serial = sb[s].sb_V_M]
               IN  p \in Spdu /\ p.code \notin Tracked
    BY <1>2, SerialSpdu DEF SpduCode, newspkt, Tracked, Intr, IntrAck, Work
  <1>5. CASE SMinSyncRequest(s)
    BY <1>1, <1>3, <1>4, <1>5, RequestCalm DEF SMinSyncRequest
  <1>6. ASSUME NEW noend \in BOOLEAN, SMajSyncRequestAux(s, noend)
        PROVE  ResyncInv'
    <2> DEFINE b == sb[s]
               f == (b.sb_flags \cup {"SB_MAP"}) \ {"SB_Vsc"}
               g == IF ~noend THEN (f \cup {"SB_AE"}) \ {"SB_Vnextact"}
                    ELSE IF "ACTIVITY" \in b.sb_requirements
                         THEN f \cup {"SB_Vnextact"} ELSE f
               code == IF noend THEN "MAP" ELSE "AE"
               p == [newspkt(code) EXCEPT !.serial = b.sb_V_M]
    <2>1. Request(s, [IssuePoint(b) EXCEPT !.sb_flags = g], p)
      BY <1>6 DEF SMajSyncRequestAux
    <2>2. \A h \in Watched \cup {"SB_CONN"} : h \in g <=> h \in b.sb_flags
      BY DEF Watched
    <2>3. code \in {"MIP", "MAP", "AE"}
      OBVIOUS
    <2> HIDE DEF g, code
    <2>4. p \in Spdu /\ p.code \notin Tracked
      BY <1>4, <2>3
    <2> HIDE DEF p
    <2>5. CalmBlock(b, [IssuePoint(b) EXCEPT !.sb_flags = g])
      BY <1>3, <2>2, OtherFlags
    <2> QED
      BY <1>1, <2>1, <2>4, <2>5, RequestCalm
  <1> QED
    BY <1>5, <1>6 DEF SMajSyncRequest, SActEndRequest

LEMMA MinSyncResponseCalm ==
    ASSUME Inv, Inv', ResyncInv, NEW s \in Side, NEW ssn \in Nat, SMinSyncResponse(s, ssn)
    PROVE  ResyncInv'
  <1>1. Connected(s) /\ Up(sb[s])
    BY CallerUp DEF SMinSyncResponse, Calls, Responds
  <1>2. CalmBlock(sb[s], [sb[s] EXCEPT !.sb_V_A = ssn + 1])
    BY <1>1 DEF Up, ssapblk, CalmBlock
  <1>3. [newspkt("MIA") EXCEPT !.serial = ssn] \in Spdu
    BY SerialSpdu DEF SpduCode
  <1>4. [newspkt("MIA") EXCEPT !.serial = ssn].code \notin Tracked
    BY DEF newspkt, Tracked, Intr, IntrAck, Work
  <1> QED
    BY <1>1, <1>2, <1>3, <1>4, RequestCalm DEF SMinSyncResponse

LEMMA MajSyncResponseCalm ==
    ASSUME Inv, Inv', ResyncInv, NEW s \in Side, SMajSyncResponseAux(s)
    PROVE  ResyncInv'
  <1> DEFINE b == sb[s]
             m == b.sb_V_M
             f == NextAct(b) \ {"SB_MAA", "SB_AE"}
             p == [newspkt("MAA") EXCEPT !.serial = m - 1]
  <1>1. Connected(s) /\ Up(b)
    BY CallerUp DEF SMajSyncResponseAux, Responds
  <1>2. m \in Nat /\ m - 1 \in Nat
    BY <1>1 DEF SMajSyncResponseAux, Up, ssapblk
  <1>3. Request(s, [b EXCEPT !.sb_V_A = m, !.sb_V_R = m, !.sb_flags = f], p)
    BY DEF SMajSyncResponseAux
  <1>4. p \in Spdu /\ p.code \notin Tracked
    BY <1>2, SerialSpdu DEF SpduCode, newspkt, Tracked, Intr, IntrAck, Work
  <1>5. \A h \in Watched \cup {"SB_CONN"} : h \in f <=> h \in b.sb_flags
    BY DEF Watched, NextAct
  <1> HIDE DEF m, f, p
  <1>6. CalmBlock(b, [b EXCEPT !.sb_V_A = m, !.sb_V_R = m, !.sb_flags = f])
    BY <1>1, <1>5 DEF Up, ssapblk, CalmBlock
  <1> QED
    BY <1>1, <1>3, <1>4, <1>6, RequestCalm

LEMMA StartedCalm ==
    ASSUME NEW b, Up(b), NEW n
    PROVE  CalmBlock(b, Started(b, n))
  BY DEF Up, ssapblk, CalmBlock, Watched, Started

LEMMA ActivityCalm ==
    ASSUME Inv, Inv', ResyncInv, NEW s \in Side,
           SActStartRequest(s) \/ \E ssn \in Nat : SActResumeRequest(s, ssn)
    PROVE  ResyncInv'
  <1>1. Connected(s) /\ Up(sb[s])
    BY CallerUp DEF SActStartRequest, SActResumeRequest, Calls, Responds
  <1>2. CASE SActStartRequest(s)
    <2>1. newspkt("AS") \in Spdu /\ newspkt("AS").code \notin Tracked
      BY NewspktType DEF SpduCode, newspkt, Tracked, Intr, IntrAck, Work
    <2> QED
      BY <1>1, <1>2, <2>1, StartedCalm, RequestCalm DEF SActStartRequest
  <1>3. ASSUME NEW ssn \in Nat, SActResumeRequest(s, ssn)
        PROVE  ResyncInv'
    <2>1. [newspkt("AR") EXCEPT !.serial = ssn] \in Spdu
      BY SerialSpdu DEF SpduCode
    <2>2. [newspkt("AR") EXCEPT !.serial = ssn].code \notin Tracked
      BY DEF newspkt, Tracked, Intr, IntrAck, Work
    <2> QED
      BY <1>1, <1>3, <2>1, <2>2, StartedCalm, RequestCalm DEF SActResumeRequest
  <1> QED
    BY <1>2, <1>3

\* A case of the main switch that sends no reply and keeps the block calm.
LEMMA ReadCalm ==
    ASSUME Inv, Inv', ResyncInv, NEW s \in Side, Connected(s), NEW codes,
           NEW in \in Received(s, codes), NEW b, CalmBlock(in.b, b), Accept(s, in, b, << >>)
    PROVE  ResyncInv'
  BY AcceptCalm

LEMMA ReadFlagsCalm ==
    ASSUME Inv, Inv', ResyncInv, NEW s \in Side,
           \/ ReadGTA(s) \/ ReadCD(s) \/ ReadCDA(s) \/ ReadED(s)
    PROVE  ResyncInv'
  <1>1. Connected(s)
    BY DEF ReadGTA, ReadCD, ReadCDA, ReadED, Reads
  <1>2. ASSUME NEW codes, NEW in \in Received(s, codes), NEW gone, NEW come,
               (gone \cup come) \cap (Watched \cup {"SB_CONN"}) = {},
               AcceptFlags(s, in, gone, come)
        PROVE  ResyncInv'
    <2>1. Up(in.b)
      BY <1>1, <1>2, ReceivedType DEF Inv
    <2>2. CalmBlock(in.b, [in.b EXCEPT !.sb_flags = (@ \ gone) \cup come])
      BY <1>2, <2>1, FlagsCalm
    <2> QED
      BY <1>1, <1>2, <2>2, ReadCalm DEF AcceptFlags
  <1>3. ASSUME NEW x \in SUBSET {"SB_GTC", "SB_CDA", "SB_CD", "SB_EDACK"}
        PROVE  x \cap (Watched \cup {"SB_CONN"}) = {}
    BY DEF Watched
  <1>4. CASE ReadGTA(s)
    BY <1>2, <1>3, <1>4 DEF ReadGTA
  <1>5. CASE ReadCD(s)
    BY <1>2, <1>3, <1>5 DEF ReadCD
  <1>6. CASE ReadCDA(s)
    BY <1>2, <1>3, <1>6 DEF ReadCDA
  <1>7. CASE ReadED(s)
    BY <1>2, <1>3, <1>7 DEF ReadED
  <1> QED
    BY <1>4, <1>5, <1>6, <1>7

LEMMA ReadDataCalm ==
    ASSUME Inv, Inv', ResyncInv, NEW s \in Side,
           ReadDT(s) \/ ReadEX(s) \/ ReadPR(s)
    PROVE  ResyncInv'
  <1>1. Connected(s)
    BY DEF ReadDT, ReadEX, ReadPR, Reads
  <1>2. ASSUME NEW codes, NEW in \in Received(s, codes)
        PROVE  Up(in.b)
    BY <1>1, <1>2, ReceivedType DEF Inv
  <1>3. CASE ReadDT(s)
    <2>1. \A b : CalmBlock(b, b)
      BY DEF CalmBlock
    <2> QED
      BY <1>1, <1>3, <2>1, ReadCalm DEF ReadDT
  <1>4. CASE ReadEX(s)
    <2>1. PICK in \in Received(s, {"EX"}) :
            Accept(s, in, [in.b EXCEPT !.sb_xspdu = (in.b.sb_pr # "PR")], << >>)
      BY <1>4 DEF ReadEX
    <2>2. \A x : CalmBlock(in.b, [in.b EXCEPT !.sb_xspdu = x])
      BY <1>2 DEF Up, ssapblk, CalmBlock
    <2> QED
      BY <1>1, <2>1, <2>2, ReadCalm
  <1>5. CASE ReadPR(s)
    <2>1. PICK in \in Received(s, {"PR"}) :
            Accept(s, in,
              [in.b EXCEPT !.sb_pr = in.p.type,
                 !.sb_flags = IF in.p.type = "RS" THEN @ \ {"SB_ED"} ELSE @],
              << >>)
      BY <1>5 DEF ReadPR
    <2>2. ASSUME NEW pr, NEW g \in {in.b.sb_flags, in.b.sb_flags \ {"SB_ED"}}
          PROVE  CalmBlock(in.b, [in.b EXCEPT !.sb_pr = pr, !.sb_flags = g])
      BY <1>2 DEF Up, ssapblk, CalmBlock, Watched
    <2> QED
      BY <1>1, <2>1, <2>2, ReadCalm
  <1> QED
    BY <1>3, <1>4, <1>5

LEMMA ReadPointCalm ==
    ASSUME Inv, Inv', ResyncInv, NEW s \in Side,
           \/ ReadMAP(s) \/ ReadAE(s) \/ ReadMAA(s) \/ ReadMIP(s) \/ ReadMIA(s)
           \/ ReadAS(s) \/ ReadAR(s)
    PROVE  ResyncInv'
  <1>1. Connected(s)
    BY DEF ReadMAP, ReadAE, ReadMAA, ReadMIP, ReadMIA, ReadAS, ReadAR, Reads
  <1>2. ASSUME NEW codes, NEW in \in Received(s, codes)
        PROVE  /\ Up(in.b) /\ Up(CountPoint(in.b)) /\ CalmBlock(in.b, CountPoint(in.b))
               /\ CountPoint(in.b).sb_flags = in.b.sb_flags
    <2>1. Up(in.b)
      BY <1>1, <1>2, ReceivedType DEF Inv
    <2> QED
      BY <2>1, CountPointUp, PointCalm DEF CountPoint, Up, ssapblk
  <1>3. ASSUME NEW codes, NEW in \in Received(s, codes), NEW g,
               g \ {"SB_MAA", "SB_AE", "SB_Vnextact", "SB_Vsc"} =
                 in.b.sb_flags \ {"SB_MAA", "SB_AE", "SB_Vnextact", "SB_Vsc"},
               Accept(s, in, [CountPoint(in.b) EXCEPT !.sb_flags = g], << >>)
        PROVE  ResyncInv'
    <2>1. \A f \in Watched \cup {"SB_CONN"} :
            f \notin {"SB_MAA", "SB_AE", "SB_Vnextact", "SB_Vsc"}
      BY DEF Watched
    <2>2. \A f \in Watched \cup {"SB_CONN"} : f \in g <=> f \in in.b.sb_flags
      BY <1>3, <2>1
    <2>3. CalmBlock(in.b, [CountPoint(in.b) EXCEPT !.sb_flags = g])
      BY <1>2, <2>2, OtherFlags
    <2> QED
      BY <1>1, <1>3, <2>3, ReadCalm
  <1>4. CASE ReadMAP(s)
    <2> DEFINE g(in) == IF "SB_ED" \in in.b.sb_flags
                        THEN CountPoint(in.b).sb_flags
                        ELSE CountPoint(in.b).sb_flags \cup {"SB_MAA"} \cup
                             (IF "ACTIVITY" \in in.b.sb_requirements
                              THEN {"SB_Vnextact"} ELSE {})
    <2>1. PICK in \in Received(s, {"MAP"}) :
            Accept(s, in, [CountPoint(in.b) EXCEPT !.sb_flags = g(in)], << >>)
      BY <1>4 DEF ReadMAP
    <2>2. g(in) \ {"SB_MAA", "SB_AE", "SB_Vnextact", "SB_Vsc"} =
            in.b.sb_flags \ {"SB_MAA", "SB_AE", "SB_Vnextact", "SB_Vsc"}
      BY <1>2
    <2> HIDE DEF g
    <2> QED
      BY <1>3, <2>1, <2>2
  <1>5. CASE ReadAE(s)
    <2> DEFINE g(in) == (CountPoint(in.b).sb_flags \ {"SB_Vnextact"})
                          \cup {"SB_MAA", "SB_AE"}
    <2>1. PICK in \in Received(s, {"AE"}) :
            Accept(s, in, [CountPoint(in.b) EXCEPT !.sb_flags = g(in)], << >>)
      BY <1>5 DEF ReadAE
    <2>2. g(in) \ {"SB_MAA", "SB_AE", "SB_Vnextact", "SB_Vsc"} =
            in.b.sb_flags \ {"SB_MAA", "SB_AE", "SB_Vnextact", "SB_Vsc"}
      BY <1>2
    <2> HIDE DEF g
    <2> QED
      BY <1>3, <2>1, <2>2
  <1>6. CASE ReadMIP(s)
    <2> DEFINE g(in) == CountPoint(in.b).sb_flags \cup {"SB_Vsc"}
    <2>1. PICK in \in Received(s, {"MIP"}) :
            Accept(s, in, [CountPoint(in.b) EXCEPT !.sb_flags = g(in)], << >>)
      BY <1>6 DEF ReadMIP
    <2>2. g(in) \ {"SB_MAA", "SB_AE", "SB_Vnextact", "SB_Vsc"} =
            in.b.sb_flags \ {"SB_MAA", "SB_AE", "SB_Vnextact", "SB_Vsc"}
      BY <1>2
    <2> HIDE DEF g
    <2> QED
      BY <1>3, <2>1, <2>2
  <1>7. CASE ReadMAA(s)
    <2> DEFINE g(in) == NextAct(in.b) \ {"SB_MAP", "SB_AE"}
    <2>1. PICK in \in Received(s, {"MAA"}) :
            Accept(s, in, [in.b EXCEPT !.sb_V_A = in.b.sb_V_M, !.sb_V_R = in.b.sb_V_M,
                                       !.sb_flags = g(in)], << >>)
      BY <1>7 DEF ReadMAA
    <2>2. \A f \in Watched \cup {"SB_CONN"} : f \in g(in) <=> f \in in.b.sb_flags
      BY DEF Watched, NextAct
    <2> HIDE DEF g
    <2>3. \A m : CalmBlock(in.b, [in.b EXCEPT !.sb_V_A = m, !.sb_V_R = m,
                                              !.sb_flags = g(in)])
      BY <1>2, <2>2 DEF Up, ssapblk, CalmBlock
    <2> QED
      BY <1>1, <2>1, <2>3, ReadCalm
  <1>8. CASE ReadMIA(s)
    <2>1. PICK in \in Received(s, {"MIA"}) :
            Accept(s, in, [in.b EXCEPT !.sb_V_A = in.p.serial], << >>)
      BY <1>8 DEF ReadMIA
    <2>2. \A m : CalmBlock(in.b, [in.b EXCEPT !.sb_V_A = m])
      BY <1>2 DEF Up, ssapblk, CalmBlock
    <2> QED
      BY <1>1, <2>1, <2>2, ReadCalm
  <1>9. CASE ReadAS(s) \/ ReadAR(s)
    <2>1. PICK codes : \E in \in Received(s, codes) :
                         \E n : Accept(s, in, Started(in.b, n), << >>)
      BY <1>9 DEF ReadAS, ReadAR
    <2> QED
      BY <1>1, <1>2, <2>1, StartedCalm, ReadCalm
  <1> QED
    BY <1>4, <1>5, <1>6, <1>7, <1>8, <1>9

\* What is dropped ends no resynchronization, though it may end a preparation.
LEMMA ReadSpinCalm ==
    ASSUME Inv, Inv', ResyncInv, NEW s \in Side, ReadSpin(s)
    PROVE  ResyncInv'
  <1>1. Connected(s) /\ Len(sb[s].sb_spdu) <= 1
    BY DEF ReadSpin, Reads, ResyncInv
  <1>2. PICK in \in sb2spkt(s) : Accept(s, in, Prepared(in.b, in.p), << >>)
    BY DEF ReadSpin
  <1> DEFINE b == Prepared(in.b, in.p)
             r == in.b.sb_spdu \o in.q
  <1>3. Up(in.b) /\ in.q \in Seq(Spdu) /\ in.p \in Spdu
    BY <1>1, ReadType DEF Inv
  <1>4. /\ r \in Seq(Spdu) /\ Sub(Tracked, Queue(s), r)
        /\ SameBlock(sb[s], in.b) /\ Len(in.b.sb_spdu) <= 1
    BY <1>1, ReadTakes DEF Inv
  <1>5. b.sb_spdu = in.b.sb_spdu /\ SameBlock(in.b, b) /\ Up(b)
    BY <1>3, PreparedUp DEF Prepared, Up, ssapblk, SameBlock
  <1>6. Stores(s, b, in.q, << >>) /\ inRelease' = inRelease /\ outcome' = outcome
    BY <1>2 DEF Accept, Stores
  <1>7. << >> \in Seq(Spdu) /\ b.sb_spdu \o in.q = r /\ "SB_CONN" \in b.sb_flags
    BY <1>5 DEF Up
  <1> HIDE DEF b, r
  <1>8. Moves(s) /\ sb'[s] = b /\ Silent(s)
    BY <1>1, <1>3, <1>4, <1>5, <1>6, <1>7, StepShape
  <1>9. SameMind(View(s), View(s)') /\ SameHands(View(s), View(s)')
    BY <1>4, <1>5, <1>6, <1>8, ViewFields
       DEF SameBlock, SameMind, SameHands, Leaving, Watched
  <1> QED
    BY <1>8, <1>9, CalmMoves

-----------------------------------------------------------------------------
(* Resynchronization, interruption and refusal are asked for and answered. *)

LEMMA BlockTurns ==
    ASSUME NEW s \in Side, inRelease'[s] = inRelease[s], NEW gone, NEW come,
           "SB_RELEASE" \notin gone \cup come,
           \A f \in Watched : f \in sb'[s].sb_flags <=>
             (f \in sb[s].sb_flags /\ f \notin gone) \/ f \in come
    PROVE  Turns(View(s), View(s)', gone, come)
  BY ViewFields DEF Turns, Leaving, Watched

LEMMA RequestSends ==
    ASSUME Inv, Inv', ResyncInv, NEW s \in Side, Connected(s),
           NEW b, "SB_CONN" \in b.sb_flags, b.sb_spdu = sb[s].sb_spdu,
           NEW p \in Spdu, ~p.expd, Request(s, b, p)
    PROVE  LET v == View(s)
               w == View(Peer(s))
               v1 == View(s)'
               w1 == View(Peer(s))'
           IN  /\ Moves(s) /\ sb'[s] = b /\ inRelease' = inRelease /\ Says(s, p)
               /\ Seen(v) /\ Seen(w) /\ Seen(v1) /\ Seen(w1)
               /\ Both => /\ PairOK(s, v, w) /\ Sends(v, w, v1, w1, p)
                          /\ HandsOK(s, v, w) /\ Grows(w, w1, p)
  <1>1. Len(sb[s].sb_spdu) <= 1
    BY DEF ResyncInv
  <1>2. /\ Moves(s) /\ sb'[s] = b /\ Queue(s)' = Queue(s) /\ Says(s, p)
        /\ inRelease' = inRelease
    BY <1>1, RequestShape
  <1>3. Peer(s) \in Side
    BY PeerSide
  <1>4. Seen(View(s)) /\ Seen(View(Peer(s))) /\ Seen(View(s)') /\ Seen(View(Peer(s))')
    BY <1>3, ViewSeen, ViewSeenNext DEF Inv
  <1>5. ASSUME Both
        PROVE  /\ Sends(View(s), View(Peer(s)), View(s)', View(Peer(s))', p)
               /\ Grows(View(Peer(s)), View(Peer(s))', p) /\ HandsOK(s, View(s), View(Peer(s)))
    <2>1. Connected(Peer(s))
      BY <1>3, <1>5 DEF Both
    <2> QED
      BY <1>2, <1>5, <2>1, PeerView, ViewFields DEF Sends, ResyncInv
  <1> QED
    BY <1>2, <1>4, <1>5, BothPair

\* An end that is not in the release loop, by the flags of its block.
LEMMA ViewClear ==
    ASSUME NEW s \in Side, ~inRelease[s], NEW flags \in SUBSET Watched,
           sb[s].sb_flags \cap flags = {}
    PROVE  View(s).flags \cap flags = {}
  BY ViewFields DEF Leaving, Watched

\* An end that is not leaving keeps what it owes to a peer that has left.
LEMMA NotParting ==
    ASSUME NEW s \in Side, ~inRelease[s], "SB_RELEASE" \notin sb[s].sb_flags
    PROVE  ~Parting(View(s))
  BY ViewFields DEF Parting

\* An end that neither waits nor owes an answer gives tokens away.
LEMMA GiveResync ==
    ASSUME Inv, Inv', ResyncInv, NEW s \in Side, Connected(s), ~inRelease[s],
           sb[s].sb_flags \cap Watched = {}, NEW b, "SB_CONN" \in b.sb_flags,
           b.sb_flags \cap Watched = {}, b.sb_spdu = sb[s].sb_spdu, b.sb_rs = sb[s].sb_rs,
           b.sb_rsn = sb[s].sb_rsn, b.sb_requirements = sb[s].sb_requirements,
           b.sb_owned \subseteq sb[s].sb_owned,
           NEW p \in Spdu, ~p.expd, p.code \in Work, Request(s, b, p),
           \A t \in Available(sb[s].sb_requirements) :
             Brings(Peer(s), p, t) => t \in sb[s].sb_owned \ b.sb_owned
    PROVE  ResyncInv'
  <1> DEFINE v == View(s)
             w == View(Peer(s))
             v1 == View(s)'
             w1 == View(Peer(s))'
  <1>1. /\ Moves(s) /\ sb'[s] = b /\ inRelease' = inRelease
        /\ Seen(v) /\ Seen(w) /\ Seen(v1) /\ Seen(w1)
        /\ Both => /\ PairOK(s, v, w) /\ Sends(v, w, v1, w1, p)
                   /\ HandsOK(s, v, w) /\ Grows(w, w1, p)
    BY RequestSends
  <1>2. ~Parting(v)
    BY NotParting DEF Watched
  <1>3. \A f \in Watched : f \notin v.flags /\ f \notin v1.flags
    BY <1>1, ViewFields DEF Leaving, Watched
  <1>4. v1.rs = v.rs /\ v1.rsn = v.rsn /\ v1.req = v.req /\ v1.owned \subseteq v.owned
    BY <1>1, ViewFields
  <1>5. \A t \in Available(v.req) : Brings(Peer(s), p, t) => t \in v.owned \ v1.owned
    BY <1>1, ViewFields
  <1> HIDE DEF v, w, v1, w1
  <1>6. SameMind(v, v1) /\ ~Waiting(v)
    BY <1>3, <1>4 DEF SameMind, Waiting, Watched
  <1>7. ASSUME Both PROVE FlagsOK(v1)
    <2>1. Normal(v.q) /\ v1.q = v.q
      BY <1>1, <1>7 DEF PairOK, EndOK, FlagsOK, Sends
    <2> QED
      BY <1>3, <2>1 DEF FlagsOK, Leaving, Watched
  <1>8. p.code \notin {"RS", "RA", "FN", "NF", "DN"} \cup Intr \cup IntrAck
    BY DEF Work, Intr, IntrAck
  <1>9. Both => PairOK(s, v1, w1)
    BY <1>1, <1>3, <1>7, <1>8, SendPair DEF Leaving, Watched
  <1>10. Both => HandsOK(s, v1, w1)
    BY <1>1, <1>4, <1>5, <1>6, HandsGive DEF Sends
  <1> QED
    BY <1>1, <1>2, <1>9, <1>10, MovesKeeps DEF v, v1, w1

LEMMA GTokenResync ==
    ASSUME Inv, Inv', ResyncInv, NEW s \in Side, NEW tokens \in SUBSET Token,
           SGTokenRequest(s, tokens)
    PROVE  ResyncInv'
  <1> DEFINE b == [sb[s] EXCEPT !.sb_owned = @ \ tokens, !.sb_flags = @ \ {"SB_EDACK"}]
             p == [newspkt("GT") EXCEPT !.tokens = tokens]
  <1>1. Connected(s) /\ Up(sb[s]) /\ ~inRelease[s]
    BY CallerUp DEF SGTokenRequest, Calls, Responds
  <1>2. sb[s].sb_flags \cap Watched = {} /\ tokens \subseteq sb[s].sb_owned
    BY DEF SGTokenRequest, ssapXsig, Clear, Watched
  <1>3. p \in Spdu
    BY TokensSpdu DEF SpduCode
  <1>4. ~p.expd /\ p.code = "GT" /\ p.tokens = tokens
    BY DEF newspkt
  <1>5. /\ b.sb_spdu = sb[s].sb_spdu /\ b.sb_rs = sb[s].sb_rs /\ b.sb_rsn = sb[s].sb_rsn
        /\ b.sb_requirements = sb[s].sb_requirements
        /\ b.sb_owned = sb[s].sb_owned \ tokens
        /\ b.sb_flags = sb[s].sb_flags \ {"SB_EDACK"}
    BY <1>1 DEF Up, ssapblk
  <1>6. Request(s, b, p)
    BY DEF SGTokenRequest
  <1> HIDE DEF b, p
  <1>7. "SB_CONN" \in b.sb_flags /\ b.sb_flags \cap Watched = {}
    BY <1>1, <1>2, <1>5 DEF Up
  <1>8. p.code \in Work /\ \A t : Brings(Peer(s), p, t) => t \in tokens
    BY <1>4 DEF Work, Brings, IntrAck
  <1> QED
    BY <1>1, <1>2, <1>3, <1>4, <1>5, <1>6, <1>7, <1>8, GiveResync

LEMMA GControlResync ==
    ASSUME Inv, Inv', ResyncInv, NEW s \in Side, SGControlRequest(s)
    PROVE  ResyncInv'
  <1> DEFINE b == [sb[s] EXCEPT !.sb_owned = {}, !.sb_flags = @ \cup {"SB_GTC"}]
             p == newspkt("GTC")
  <1>1. Connected(s) /\ Up(sb[s]) /\ ~inRelease[s]
    BY CallerUp DEF SGControlRequest, Calls, Responds
  <1>2. sb[s].sb_flags \cap Watched = {}
    BY DEF SGControlRequest, ssapPsig, Clear, Watched
  <1>3. \A t \in Available(sb[s].sb_requirements) : t \in sb[s].sb_owned
    <2>1. \A t \in Available(sb[s].sb_requirements) : t \in {"DAT", "MIN", "MAJ", "RLS"}
      BY DEF Available
    <2> QED
      BY <2>1 DEF SGControlRequest, SDoActivityAux, Owns
  <1>4. p \in Spdu /\ ~p.expd /\ p.code \in Work
    BY NewspktType DEF SpduCode, newspkt, Work
  <1>5. /\ b.sb_spdu = sb[s].sb_spdu /\ b.sb_rs = sb[s].sb_rs /\ b.sb_rsn = sb[s].sb_rsn
        /\ b.sb_requirements = sb[s].sb_requirements /\ b.sb_owned = {}
        /\ b.sb_flags = sb[s].sb_flags \cup {"SB_GTC"}
    BY <1>1 DEF Up, ssapblk
  <1>6. Request(s, b, p)
    BY DEF SGControlRequest
  <1> HIDE DEF b, p
  <1>7. "SB_CONN" \in b.sb_flags /\ b.sb_flags \cap Watched = {}
    BY <1>1, <1>2, <1>5 DEF Up, Watched
  <1> QED
    BY <1>1, <1>2, <1>3, <1>4, <1>5, <1>6, <1>7, GiveResync

LEMMA ReSyncRequestResync ==
    ASSUME Inv, Inv', ResyncInv, NEW s \in Side, NEW type \in ResyncType, NEW ssn \in Nat,
           NEW settings \in Settings, SReSyncRequest(s, type, ssn, settings)
    PROVE  ResyncInv'
  <1> DEFINE b == [sb[s] EXCEPT !.sb_rs = type, !.sb_rsn = ssn, !.sb_rsettings = settings,
                     !.sb_flags = (@ \cup {"SB_RS"}) \ {"SB_RA", "SB_EDACK"}]
             p == [newspkt("RS") EXCEPT !.serial = ssn, !.type = type,
                                        !.settings = settings]
             v == View(s)
             w == View(Peer(s))
             v1 == View(s)'
             w1 == View(Peer(s))'
  <1>1. Connected(s) /\ Up(sb[s]) /\ ~inRelease[s]
    BY CallerUp DEF SReSyncRequest, Calls, Responds
  <1>2. sb[s].sb_flags \cap {"SB_RS", "SB_AI", "SB_AIA", "SB_FINN", "SB_RELEASE"} = {}
    BY DEF SReSyncRequest, ssapRsig, Clear
  <1>3. p \in Spdu /\ ~p.expd /\ p.code = "RS" /\ p.type = type /\ p.serial = ssn
    BY DEF newspkt, Spdu, SpduCode
  <1>4. /\ b.sb_spdu = sb[s].sb_spdu /\ b.sb_rs = type /\ b.sb_rsn = ssn
        /\ b.sb_flags = (sb[s].sb_flags \cup {"SB_RS"}) \ {"SB_RA", "SB_EDACK"}
        /\ b.sb_owned = sb[s].sb_owned /\ b.sb_requirements = sb[s].sb_requirements
    BY <1>1 DEF Up, ssapblk
  <1>5. Request(s, b, p)
    BY DEF SReSyncRequest
  <1>6. "SB_CONN" \in b.sb_flags
    BY <1>1, <1>4 DEF Up
  <1> HIDE DEF b, p
  <1>7. /\ Moves(s) /\ sb'[s] = b /\ inRelease' = inRelease
        /\ Seen(v) /\ Seen(w) /\ Seen(v1) /\ Seen(w1)
        /\ Both => /\ PairOK(s, v, w) /\ Sends(v, w, v1, w1, p)
                   /\ HandsOK(s, v, w) /\ Grows(w, w1, p)
    BY <1>1, <1>3, <1>4, <1>5, <1>6, RequestSends
  <1>8. Turns(v, v1, {"SB_RA"}, {"SB_RS"})
    BY <1>2, <1>4, <1>7, BlockTurns DEF Watched
  <1>9. v1.rs = type /\ v1.rsn = ssn
    BY <1>4, <1>7, ViewFields
  <1>10. "SB_RS" \in v1.flags
    BY <1>8 DEF Turns, Watched
  <1>11. v.flags \cap {"SB_RS", "SB_AI", "SB_AIA", "SB_FINN", "SB_RELEASE"} = {}
    BY <1>1, <1>2, ViewClear DEF Watched
  <1>12. ~Parting(v)
    BY <1>1, <1>2, NotParting
  <1>13. Live(v1, p) /\ v1.rs \in ResyncType
    BY <1>3, <1>9, <1>10 DEF Live
  <1>14. Both => PairOK(s, v1, w1)
    <2> HIDE DEF v, w, v1, w1
    <2> QED
      BY <1>3, <1>7, <1>8, <1>11, <1>13, SendRS
  <1>15. v1.owned = v.owned /\ v1.req = v.req
    BY <1>4, <1>7, ViewFields
  <1>16. Both => HandsOK(s, v1, w1)
    <2>1. /\ Waiting(v1) /\ "SB_RS" \notin v.flags /\ "SB_AI" \notin v.flags
          /\ \A g \in {"SB_RA", "SB_AIA"} : g \in v1.flags => g \in v.flags
      BY <1>8, <1>10, <1>11 DEF Waiting, Turns, Watched
    <2> HIDE DEF v, w, v1, w1
    <2> QED
      BY <1>3, <1>7, <1>15, <2>1, HandsAsk DEF Sends
  <1> QED
    BY <1>7, <1>12, <1>14, <1>16, MovesKeeps

LEMMA ReSyncResponseResync ==
    ASSUME Inv, Inv', ResyncInv, NEW s \in Side, NEW ssn \in Nat, NEW settings \in Answers(sb[s]),
           SReSyncResponse(s, ssn, settings)
    PROVE  ResyncInv'
  <1> DEFINE b == [Resynced(s, sb[s], ssn, settings) EXCEPT !.sb_flags = @ \ {"SB_RA"}]
             p == [newspkt("RA") EXCEPT !.serial = ssn, !.settings = settings]
             v == View(s)
             w == View(Peer(s))
             v1 == View(s)'
             w1 == View(Peer(s))'
  <1>1. Connected(s) /\ Up(sb[s]) /\ ~inRelease[s]
    BY CallerUp DEF SReSyncResponse, Responds
  <1>2. /\ sb[s].sb_flags \cap {"SB_RS", "SB_AI", "SB_AIA", "SB_FINN", "SB_RELEASE"} = {}
        /\ "SB_RA" \in sb[s].sb_flags
    BY DEF SReSyncResponse, ssapRsig, Clear
  <1>3. p \in Spdu /\ ~p.expd /\ p.code = "RA" /\ p.settings = settings
    <2>1. newspkt("RA") \in Spdu /\ settings \in Settings
      BY NewspktType DEF SpduCode, Answers, Settings, Setting
    <2>2. p \in Spdu
      BY <2>1 DEF Spdu
    <2>3. ~p.expd /\ p.code = "RA" /\ p.settings = settings
      BY DEF newspkt
    <2> QED
      BY <2>2, <2>3
  <1>4. /\ b.sb_spdu = sb[s].sb_spdu /\ b.sb_flags = sb[s].sb_flags \ {"SB_RA"}
        /\ b.sb_owned = OwnedUnder(s, sb[s].sb_requirements, settings, sb[s].sb_owned)
        /\ b.sb_requirements = sb[s].sb_requirements
    BY <1>1 DEF Up, ssapblk, Resynced
  <1>5. Request(s, b, p)
    BY DEF SReSyncResponse
  <1>6. "SB_CONN" \in b.sb_flags
    BY <1>1, <1>4 DEF Up
  <1> HIDE DEF b, p
  <1>7. /\ Moves(s) /\ sb'[s] = b /\ inRelease' = inRelease
        /\ Seen(v) /\ Seen(w) /\ Seen(v1) /\ Seen(w1)
        /\ Both => /\ PairOK(s, v, w) /\ Sends(v, w, v1, w1, p)
                   /\ HandsOK(s, v, w) /\ Grows(w, w1, p)
    BY <1>1, <1>3, <1>4, <1>5, <1>6, RequestSends
  <1>8. Turns(v, v1, {"SB_RA"}, {})
    BY <1>2, <1>4, <1>7, BlockTurns DEF Watched
  <1>9. "SB_RA" \in v.flags
    BY <1>2, ViewFields DEF Watched
  <1>10. v.flags \cap {"SB_RS", "SB_AI", "SB_AIA", "SB_FINN", "SB_RELEASE"} = {}
    BY <1>1, <1>2, ViewClear DEF Watched
  <1>11. ~Parting(v)
    BY <1>1, <1>2, NotParting
  <1>12. Both => PairOK(s, v1, w1)
    <2> HIDE DEF v, w, v1, w1
    <2> QED
      BY <1>3, <1>7, <1>8, <1>9, <1>10, SendRA
  \* Each token is settled on one end, and both are told so.
  <1>13. /\ v1.req = v.req /\ v1.owned \subseteq Available(v.req)
         /\ \A t \in Available(v.req) : p.settings[t] # "CALL"
         /\ \A t \in v1.owned : ~Brings(Peer(s), p, t)
    <2>1. v1.req = v.req /\ v1.owned = OwnedUnder(s, v.req, settings, v.owned)
      BY <1>4, <1>7, ViewFields
    <2>2. \A t \in Available(v.req) : settings[t] # "CALL"
      BY DEF Answers, Available, Token
    <2>3. v1.owned \subseteq Available(v.req) /\ \A t \in v1.owned : settings[t] = Mine(s)
      BY <2>1, <2>2 DEF OwnedUnder
    <2>4. Mine(s) # Mine(Peer(s)) /\ "RA" \notin {"GT", "GTC"} \cup IntrAck
      BY DEF Mine, Peer, Side, IntrAck
    <2> QED
      BY <1>3, <2>1, <2>2, <2>3, <2>4 DEF Brings
  <1>14. Both => HandsOK(s, v1, w1)
    <2>1. ~Waiting(v1) /\ "SB_RS" \notin v.flags /\ "SB_AI" \notin v.flags
      BY <1>8, <1>10 DEF Waiting, Turns, Watched
    <2>2. p.code \in Closing /\ p.code \notin IntrAck
      BY <1>3 DEF Closing, IntrAck
    <2> HIDE DEF v, w, v1, w1
    <2> QED
      BY <1>3, <1>7, <1>9, <1>13, <2>1, <2>2, HandsAnswer DEF Sends
  <1> QED
    BY <1>7, <1>11, <1>12, <1>14, MovesKeeps

LEMMA ActIntrRequestResync ==
    ASSUME Inv, Inv', ResyncInv, NEW s \in Side, SActIntrRequest(s) \/ SActDiscRequest(s)
    PROVE  ResyncInv'
  <1> DEFINE b(op) == [sb[s] EXCEPT !.sb_rs = op,
                         !.sb_flags = (@ \cup {"SB_AI"}) \ {"SB_EDACK"}]
             v == View(s)
             w == View(Peer(s))
             v1 == View(s)'
             w1 == View(Peer(s))'
  <1>1. Connected(s) /\ Up(sb[s]) /\ ~inRelease[s]
    BY CallerUp DEF SActIntrRequest, SActDiscRequest, Calls, Responds
  <1>2. PICK code \in Intr, op \in {"INTR", "DISC"} : SActIntrRequestAux(s, code, op)
    BY DEF SActIntrRequest, SActDiscRequest, Intr
  <1>3. sb[s].sb_flags \cap Watched = {}
    BY <1>2 DEF SActIntrRequestAux, ssapXsig, Clear, Watched
  <1> DEFINE p == newspkt(code)
  <1>4. p \in Spdu /\ ~p.expd /\ p.code \in Intr
    BY NewspktType DEF newspkt, SpduCode, Intr
  <1>5. /\ b(op).sb_spdu = sb[s].sb_spdu /\ b(op).sb_rs = op
        /\ b(op).sb_flags = (sb[s].sb_flags \cup {"SB_AI"}) \ {"SB_EDACK"}
        /\ b(op).sb_owned = sb[s].sb_owned
        /\ b(op).sb_requirements = sb[s].sb_requirements
    BY <1>1 DEF Up, ssapblk
  <1>6. Request(s, b(op), p)
    BY <1>2 DEF SActIntrRequestAux
  <1>7. "SB_CONN" \in b(op).sb_flags
    BY <1>1, <1>5 DEF Up
  <1> HIDE DEF b, p
  <1>8. /\ Moves(s) /\ sb'[s] = b(op) /\ inRelease' = inRelease
        /\ Seen(v) /\ Seen(w) /\ Seen(v1) /\ Seen(w1)
        /\ Both => /\ PairOK(s, v, w) /\ Sends(v, w, v1, w1, p)
                   /\ HandsOK(s, v, w) /\ Grows(w, w1, p)
    BY <1>1, <1>4, <1>5, <1>6, <1>7, RequestSends
  <1>9. Turns(v, v1, {}, {"SB_AI"})
    BY <1>5, <1>8, BlockTurns DEF Watched
  <1>10. v1.rs \in {"INTR", "DISC"}
    BY <1>5, <1>8, ViewFields
  <1>11. v.flags \cap Watched = {}
    BY <1>1, <1>3, ViewClear
  <1>12. ~Parting(v)
    BY <1>1, <1>3, NotParting DEF Watched
  <1>13. Both => PairOK(s, v1, w1)
    <2> HIDE DEF v, w, v1, w1
    <2> QED
      BY <1>4, <1>8, <1>9, <1>10, <1>11, SendAI
  <1>14. v1.owned = v.owned /\ v1.req = v.req
    BY <1>5, <1>8, ViewFields
  <1>15. Both => HandsOK(s, v1, w1)
    <2>1. /\ Waiting(v1) /\ "SB_RS" \notin v.flags /\ "SB_AI" \notin v.flags
          /\ \A g \in {"SB_RA", "SB_AIA"} : g \in v1.flags => g \in v.flags
      BY <1>9, <1>11 DEF Waiting, Turns, Watched
    <2> HIDE DEF v, w, v1, w1
    <2> QED
      BY <1>4, <1>8, <1>14, <2>1, HandsAsk DEF Sends
  <1> QED
    BY <1>8, <1>12, <1>13, <1>15, MovesKeeps

LEMMA ActIntrResponseResync ==
    ASSUME Inv, Inv', ResyncInv, NEW s \in Side, SActIntrResponse(s) \/ SActDiscResponse(s)
    PROVE  ResyncInv'
  <1> DEFINE b == [sb[s] EXCEPT !.sb_owned = {}, !.sb_flags = @ \ {"SB_AIA", "SB_Vact"}]
             v == View(s)
             w == View(Peer(s))
             v1 == View(s)'
             w1 == View(Peer(s))'
  <1>1. Connected(s) /\ Up(sb[s]) /\ ~inRelease[s]
    BY CallerUp DEF SActIntrResponse, SActDiscResponse, Responds
  <1>2. PICK code \in IntrAck : SActIntrResponseAux(s, code)
    BY DEF SActIntrResponse, SActDiscResponse, IntrAck
  <1>3. /\ sb[s].sb_flags \cap {"SB_RS", "SB_AI", "SB_FINN", "SB_RELEASE"} = {}
        /\ "SB_AIA" \in sb[s].sb_flags
    BY <1>2 DEF SActIntrResponseAux, ssapAsig, Clear
  <1> DEFINE p == newspkt(code)
  <1>4. p \in Spdu /\ ~p.expd /\ p.code \in IntrAck
    BY NewspktType DEF newspkt, SpduCode, IntrAck
  <1>5. /\ b.sb_spdu = sb[s].sb_spdu /\ b.sb_flags = sb[s].sb_flags \ {"SB_AIA", "SB_Vact"}
        /\ b.sb_owned = {} /\ b.sb_requirements = sb[s].sb_requirements
    BY <1>1 DEF Up, ssapblk
  <1>6. Request(s, b, p)
    BY <1>2 DEF SActIntrResponseAux
  <1>7. "SB_CONN" \in b.sb_flags
    BY <1>1, <1>5 DEF Up
  <1> HIDE DEF b, p
  <1>8. /\ Moves(s) /\ sb'[s] = b /\ inRelease' = inRelease
        /\ Seen(v) /\ Seen(w) /\ Seen(v1) /\ Seen(w1)
        /\ Both => /\ PairOK(s, v, w) /\ Sends(v, w, v1, w1, p)
                   /\ HandsOK(s, v, w) /\ Grows(w, w1, p)
    BY <1>1, <1>4, <1>5, <1>6, <1>7, RequestSends
  <1>9. Turns(v, v1, {"SB_AIA"}, {})
    BY <1>5, <1>8, BlockTurns DEF Watched
  <1>10. "SB_AIA" \in v.flags
    BY <1>3, ViewFields DEF Watched
  <1>11. v.flags \cap {"SB_RS", "SB_AI", "SB_FINN", "SB_RELEASE"} = {}
    BY <1>1, <1>3, ViewClear DEF Watched
  <1>12. ~Parting(v)
    BY <1>1, <1>3, NotParting
  <1>13. Both => PairOK(s, v1, w1)
    <2> HIDE DEF v, w, v1, w1
    <2> QED
      BY <1>4, <1>8, <1>9, <1>10, <1>11, SendAIA
  <1>14. v1.owned = {} /\ v1.req = v.req
    BY <1>5, <1>8, ViewFields
  <1>15. Both => HandsOK(s, v1, w1)
    <2>1. "SB_RS" \notin v.flags /\ "SB_AI" \notin v.flags
      BY <1>11
    <2>2. p.code \in Closing /\ p.code # "RA"
      BY <1>4 DEF Closing, IntrAck
    <2> HIDE DEF v, w, v1, w1
    \* A peer that waits for this answer waits for no other.
    <2>3. Both => "SB_RA" \notin v.flags
      BY <1>8, <1>10 DEF PairOK, EndOK, AskedOK, IntrOK, FlagsOK
    <2>4. Both => ~Waiting(v1)
      BY <1>9, <2>1, <2>3 DEF Waiting, Turns, Watched
    <2> QED
      BY <1>4, <1>8, <1>10, <1>14, <2>1, <2>2, <2>4, HandsAnswer DEF Sends
  <1> QED
    BY <1>8, <1>12, <1>13, <1>15, MovesKeeps

LEMMA RelRejectResync ==
    ASSUME Inv, Inv', ResyncInv, NEW s \in Side, SRelReject(s)
    PROVE  ResyncInv'
  <1> DEFINE b == [sb[s] EXCEPT !.sb_flags = @ \ {"SB_FINN"}]
             p == newspkt("NF")
             v == View(s)
             w == View(Peer(s))
             v1 == View(s)'
             w1 == View(Peer(s))'
  <1>1. Connected(s) /\ Up(sb[s]) /\ ~inRelease[s]
    BY CallerUp DEF SRelReject, Responds
  <1>2. /\ sb[s].sb_flags \cap {"SB_RS", "SB_RA", "SB_AI", "SB_AIA", "SB_RELEASE"} = {}
        /\ "SB_FINN" \in sb[s].sb_flags
    BY DEF SRelReject, ssapFsig, Clear
  <1>3. p \in Spdu /\ ~p.expd /\ p.code = "NF"
    BY NewspktType DEF newspkt, SpduCode
  <1>4. /\ b.sb_spdu = sb[s].sb_spdu /\ b.sb_flags = sb[s].sb_flags \ {"SB_FINN"}
        /\ b.sb_owned = sb[s].sb_owned /\ b.sb_requirements = sb[s].sb_requirements
        /\ b.sb_rs = sb[s].sb_rs /\ b.sb_rsn = sb[s].sb_rsn
    BY <1>1 DEF Up, ssapblk
  <1>5. Request(s, b, p)
    BY DEF SRelReject
  <1>6. "SB_CONN" \in b.sb_flags
    BY <1>1, <1>4 DEF Up
  <1> HIDE DEF b, p
  <1>7. /\ Moves(s) /\ sb'[s] = b /\ inRelease' = inRelease /\ Says(s, p)
        /\ Seen(v) /\ Seen(w) /\ Seen(v1) /\ Seen(w1)
        /\ Both => /\ PairOK(s, v, w) /\ Sends(v, w, v1, w1, p)
                   /\ HandsOK(s, v, w) /\ Grows(w, w1, p)
    BY <1>1, <1>3, <1>4, <1>5, <1>6, RequestSends
  <1>8. Turns(v, v1, {"SB_FINN"}, {})
    BY <1>4, <1>7, BlockTurns DEF Watched
  <1>9. v.flags \cap {"SB_RS", "SB_RA", "SB_AI", "SB_AIA", "SB_RELEASE"} = {}
    BY <1>1, <1>2, ViewClear DEF Watched
  <1>10. "SB_FINN" \in v.flags
    BY <1>2, ViewFields DEF Watched
  <1>11. v.flags \cap Watched = {"SB_FINN"}
    BY <1>9, <1>10 DEF Watched
  <1>12. ~Parting(v)
    BY <1>1, <1>2, NotParting
  <1>13. Both => PairOK(s, v1, w1)
    <2> HIDE DEF v, w, v1, w1
    <2> QED
      BY <1>3, <1>7, <1>8, <1>11, SendNF
  <1>14. SameHands(v, v1)
    BY <1>4, <1>7, <1>8, ViewFields DEF SameHands, Turns, Watched
  <1>15. Mute(s)
    BY <1>3, <1>7 DEF Mute, HandCodes, Intr, Closing, IntrAck, Work
  <1>16. Both => HandsOK(s, v1, w1)
    BY <1>7, <1>14, <1>15, HandsSame
  <1> QED
    BY <1>7, <1>12, <1>13, <1>16, MovesKeeps

\* S-RELEASE.request goes out without SWriteRequestAux and enters the loop.
LEMMA RelRequestResync ==
    ASSUME Inv, Inv', ResyncInv, NEW s \in Side, SRelRequest(s)
    PROVE  ResyncInv'
  <1> DEFINE b == sb[s]
             p == newspkt("FN")
             v == View(s)
             w == View(Peer(s))
             v1 == View(s)'
             w1 == View(Peer(s))'
  <1>1. Connected(s) /\ Up(b) /\ ~inRelease[s] /\ Len(b.sb_spdu) <= 1
    BY CallerUp DEF SRelRequest, Calls, Responds, ResyncInv
  <1>2. b.sb_flags \cap Watched = {}
    BY DEF SRelRequest, ssapPsig, Clear, Watched
  <1>3. p \in Spdu /\ ~p.expd /\ p.code = "FN"
    BY NewspktType DEF newspkt, SpduCode
  <1>4. /\ Stores(s, b, net[s], <<p>>) /\ outcome' = outcome
        /\ inRelease'[s] = TRUE /\ inRelease'[Peer(s)] = inRelease[Peer(s)]
    BY PeerSide DEF SRelRequest, Inv, TypeOK, Update, Stores
  <1> HIDE DEF p
  <1>5. <<p>> \in Seq(Spdu)
    BY <1>3
  <1>6. net[s] \in Seq(Spdu) /\ Queue(s) \in Seq(Spdu) /\ b.sb_spdu \o net[s] = Queue(s)
    BY QueueType DEF Inv, Queue
  <1>7. Sub(Tracked, Queue(s), b.sb_spdu \o net[s])
    BY <1>6, SubItself
  <1>8. "SB_CONN" \in b.sb_flags
    BY <1>1 DEF Up
  <1>9. /\ Moves(s) /\ sb'[s] = b /\ Queue(s)' = b.sb_spdu \o net[s]
        /\ \A x \in Spdu : <<p>> \in {<<x>>, SWriteRequestAux(x)} => Says(s, x)
    BY <1>1, <1>4, <1>5, <1>6, <1>7, <1>8, StepShape
  <1>10. Says(s, p) /\ Queue(s)' = Queue(s)
    BY <1>3, <1>6, <1>9
  <1>11. Peer(s) \in Side
    BY PeerSide
  <1>12. Seen(v) /\ Seen(w) /\ Seen(v1) /\ Seen(w1)
    BY <1>11, ViewSeen, ViewSeenNext DEF Inv
  <1>13. Turns(v, v1, {}, {"SB_RELEASE"})
    BY <1>4, <1>9, ViewFields DEF Turns, Leaving, Watched
  <1>14. v.flags \cap Watched = {}
    BY <1>1, <1>2, ViewClear
  <1>15. ~Parting(v)
    BY <1>1, <1>2, NotParting DEF Watched
  <1>16. ASSUME Both PROVE PairOK(s, v1, w1)
    <2>1. Connected(Peer(s))
      BY <1>11, <1>16 DEF Both
    <2>2. Sends(v, w, v1, w1, p)
      BY <1>3, <1>9, <1>10, <2>1, PeerView, ViewFields DEF Sends
    <2>3. PairOK(s, v, w)
      BY <1>16, BothPair
    <2> HIDE DEF v, w, v1, w1
    <2> QED
      BY <1>3, <1>12, <1>13, <1>14, <2>2, <2>3, SendFN
  <1>17. SameHands(v, v1)
    BY <1>9, ViewFields DEF SameHands, Watched
  <1>18. Mute(s)
    BY <1>3, <1>10 DEF Mute, HandCodes, Intr, Closing, IntrAck, Work
  <1>19. Both => HandsOK(s, v1, w1)
    BY <1>9, <1>17, <1>18, HandsSame
  <1> QED
    BY <1>9, <1>15, <1>16, <1>19, MovesKeeps

-----------------------------------------------------------------------------
(* They are read.                                                          *)

LEMMA AcceptTakes ==
    ASSUME Inv, Inv', ResyncInv, NEW s \in Side, Reads(s), NEW codes \in SUBSET Tracked,
           NEW in \in Received(s, codes), NEW b, "SB_CONN" \in b.sb_flags,
           b.sb_spdu = in.b.sb_spdu, Accept(s, in, b, << >>)
    PROVE  LET v == View(s)
               w == View(Peer(s))
               v1 == View(s)'
           IN  /\ Moves(s) /\ sb'[s] = b /\ inRelease' = inRelease /\ Mute(s)
               /\ Seen(v) /\ Seen(w) /\ Seen(v1)
               /\ SameBlock(sb[s], in.b) /\ "SB_FINN" \notin v.flags
               /\ in.p.code \in codes /\ in.p \in Spdu
               /\ in.p.code = "RS" => ~Beaten(s, v, in.p)
               /\ Both => /\ PairOK(s, v, w) /\ Took(v.q, v1.q, in.p)
                          /\ View(Peer(s))' = w /\ HandOK(s, v)
  <1>1. Connected(s) /\ Len(sb[s].sb_spdu) <= 1 /\ "SB_FINN" \notin sb[s].sb_flags
    BY DEF Reads, ResyncInv
  <1>2. /\ SameBlock(sb[s], in.b)
        /\ in.p.code = "RS" => ~Beaten(s, View(s), in.p)
        /\ in.p.code \in codes /\ in.p \in Spdu
    BY <1>1, ReceivedTakes
  <1>3. << >> \in Seq(Spdu)
    OBVIOUS
  <1>4. /\ Moves(s) /\ sb'[s] = b /\ inRelease' = inRelease /\ Silent(s)
        /\ in.p.code \in Tracked /\ Normal(Queue(s)) => Took(Queue(s), Queue(s)', in.p)
    BY <1>1, <1>3, AcceptShape
  <1>5. Peer(s) \in Side
    BY PeerSide
  <1>6. Seen(View(s)) /\ Seen(View(Peer(s))) /\ Seen(View(s)')
    BY <1>5, ViewSeen, ViewSeenNext DEF Inv
  <1>7. "SB_FINN" \notin View(s).flags
    BY <1>1, ViewFields DEF Watched
  <1>8. ASSUME Both
        PROVE  /\ PairOK(s, View(s), View(Peer(s)))
               /\ Took(View(s).q, View(s)'.q, in.p) /\ View(Peer(s))' = View(Peer(s))
               /\ HandOK(s, View(s))
    <2>1. PairOK(s, View(s), View(Peer(s))) /\ Connected(Peer(s))
      BY <1>5, <1>8, BothPair DEF Both
    <2>2. Normal(Queue(s))
      BY <2>1, ViewFields DEF PairOK, EndOK, FlagsOK
    <2>3. HandOK(s, View(s))
      BY <1>8 DEF ResyncInv, HandsOK
    <2> QED
      BY <1>2, <1>4, <2>1, <2>2, <2>3, PeerView, ViewFields
  <1>9. Mute(s)
    BY <1>4 DEF Mute
  <1> QED
    BY <1>2, <1>4, <1>6, <1>7, <1>8, <1>9

\* Reading leaves an end leaving.
LEMMA StaysLeaving ==
    ASSUME NEW s \in Side, inRelease' = inRelease,
           "SB_RELEASE" \in sb[s].sb_flags => "SB_RELEASE" \in sb'[s].sb_flags
    PROVE  Parting(View(s)) => Leaving(View(s)')
  BY ViewFields DEF Parting

\* An end reads tokens that are given to it.
LEMMA TakenResync ==
    ASSUME Inv, Inv', ResyncInv, NEW s \in Side, Reads(s),
           NEW codes \in SUBSET Work, NEW in \in Received(s, codes), NEW b, "SB_CONN" \in b.sb_flags,
           b.sb_spdu = in.b.sb_spdu, b.sb_rs = in.b.sb_rs, b.sb_rsn = in.b.sb_rsn,
           b.sb_requirements = in.b.sb_requirements,
           \A f \in Watched : f \in b.sb_flags <=> f \in in.b.sb_flags,
           b.sb_owned \subseteq in.b.sb_owned \cup Available(in.b.sb_requirements),
           \A t \in b.sb_owned : Brings(s, in.p, t) \/ t \in in.b.sb_owned,
           NEW reply \in {<< >>, <<newspkt("GTA")>>}, Accept(s, in, b, reply)
    PROVE  ResyncInv'
  <1> DEFINE v == View(s)
             v1 == View(s)'
  <1>1. Connected(s) /\ Len(sb[s].sb_spdu) <= 1
    BY DEF Reads, ResyncInv
  <1>2. SameBlock(sb[s], in.b) /\ in.p.code \in Work
    BY <1>1, ReceivedTakes
  <1>3. newspkt("GTA") \in Spdu
    BY NewspktType DEF SpduCode
  <1>4. newspkt("GTA").code \notin Tracked
    BY DEF newspkt, Tracked, Intr, IntrAck, Work
  <1>5. reply \in Seq(Spdu)
    <2>1. << >> \in Seq(Spdu) /\ \A x \in Spdu : <<x>> \in Seq(Spdu)
      OBVIOUS
    <2> QED
      BY <1>3, <2>1
  <1>6. /\ Moves(s) /\ sb'[s] = b /\ inRelease' = inRelease
        /\ reply = << >> => Silent(s)
        /\ \A x \in Spdu : reply = <<x>> => Says(s, x)
        /\ in.p.code \in Tracked /\ Normal(Queue(s)) => Took(Queue(s), Queue(s)', in.p)
    BY <1>1, <1>5, AcceptShape
  <1>7. Silent(s) \/ \E x : x.code \notin Tracked /\ Says(s, x)
    BY <1>3, <1>4, <1>6
  <1>8. Mute(s)
    BY <1>7, HandCodesTracked DEF Mute
  <1>9. SameMind(v, v1) /\ v1.req = v.req
    BY <1>2, <1>6, ViewFields DEF SameBlock, SameMind, Leaving, Watched
  <1>10. /\ v1.owned \subseteq v.owned \cup Available(v.req)
         /\ \A t \in v1.owned : Brings(s, in.p, t) \/ t \in v.owned
    BY <1>2, <1>6, ViewFields DEF SameBlock
  <1>11. ASSUME Both PROVE HandsOK(s, v1, View(Peer(s))')
    <2>1. Seen(v) /\ Seen(v1) /\ HandOK(s, v)
      BY <1>11, ViewSeen, ViewSeenNext DEF Inv, ResyncInv, HandsOK
    <2>2. Took(v.q, v1.q, in.p)
      <3>1. Normal(Queue(s))
        BY <1>11, BothPair, ViewFields DEF PairOK, EndOK, FlagsOK
      <3>2. in.p.code \in Tracked
        BY <1>2 DEF Tracked
      <3> QED
        BY <1>6, <3>1, <3>2, ViewFields
    <2>3. v1.owned \subseteq Available(v.req)
      BY <1>10, <2>1 DEF HandOK, WorkOK
    <2>4. HandOK(s, v1) /\ Stems(s, v, v1)
      <3> HIDE DEF v, v1
      <3> QED
        BY <1>2, <1>9, <1>10, <2>1, <2>2, <2>3, TakeWork
    <2> QED
      BY <1>6, <1>8, <1>9, <1>11, <2>4, HandsMute
  <1>12. Both => PairOK(s, v1, View(Peer(s))')
    BY <1>6, <1>7, <1>9, CalmPair
  <1>13. Parting(v) => Leaving(v1)
    BY <1>9, MindKeeps DEF Parting
  <1> QED
    BY <1>6, <1>11, <1>12, <1>13, MovesKeeps

LEMMA ReadGTResync ==
    ASSUME Inv, Inv', ResyncInv, NEW s \in Side, ReadGT(s)
    PROVE  ResyncInv'
  <1>1. Reads(s) /\ Connected(s)
    BY DEF ReadGT, Reads
  <1> DEFINE b(in) == [in.b EXCEPT
                         !.sb_owned = @ \cup (in.p.tokens \cap Available(in.b.sb_requirements)),
                         !.sb_flags = IF "DAT" \in in.p.tokens THEN @ \ {"SB_ED"} ELSE @]
  <1>2. PICK in \in Received(s, {"GT"}) : Accept(s, in, b(in), << >>)
    BY DEF ReadGT
  <1>3. Up(in.b)
    BY <1>1, ReceivedType DEF Inv
  <1>4. in.p.code = "GT" /\ {"GT"} \in SUBSET Work
    <2>1. Len(sb[s].sb_spdu) <= 1
      BY DEF ResyncInv
    <2> QED
      BY <1>1, <2>1, ReceivedTakes DEF Work
  <1>5. /\ b(in).sb_spdu = in.b.sb_spdu /\ b(in).sb_rs = in.b.sb_rs
        /\ b(in).sb_rsn = in.b.sb_rsn /\ b(in).sb_requirements = in.b.sb_requirements
        /\ b(in).sb_owned = in.b.sb_owned \cup
                              (in.p.tokens \cap Available(in.b.sb_requirements))
        /\ b(in).sb_flags = IF "DAT" \in in.p.tokens THEN in.b.sb_flags \ {"SB_ED"}
                            ELSE in.b.sb_flags
    BY <1>3 DEF Up, ssapblk
  <1>6. /\ "SB_CONN" \in b(in).sb_flags
        /\ \A f \in Watched : f \in b(in).sb_flags <=> f \in in.b.sb_flags
    BY <1>3, <1>5 DEF Up, Watched
  <1> HIDE DEF b
  <1>7. \A t \in b(in).sb_owned : Brings(s, in.p, t) \/ t \in in.b.sb_owned
    BY <1>4, <1>5 DEF Brings
  <1> QED
    BY <1>1, <1>2, <1>4, <1>5, <1>6, <1>7, TakenResync

LEMMA ReadGTCResync ==
    ASSUME Inv, Inv', ResyncInv, NEW s \in Side, ReadGTC(s)
    PROVE  ResyncInv'
  <1>1. Reads(s) /\ Connected(s)
    BY DEF ReadGTC, Reads
  <1> DEFINE b(in) == [in.b EXCEPT !.sb_owned = Available(in.b.sb_requirements)]
  <1>2. PICK in \in Received(s, {"GTC"}) : Accept(s, in, b(in), <<newspkt("GTA")>>)
    BY DEF ReadGTC
  <1>3. Up(in.b)
    BY <1>1, ReceivedType DEF Inv
  <1>4. in.p.code = "GTC" /\ {"GTC"} \in SUBSET Work
    <2>1. Len(sb[s].sb_spdu) <= 1
      BY DEF ResyncInv
    <2> QED
      BY <1>1, <2>1, ReceivedTakes DEF Work
  <1>5. /\ b(in).sb_spdu = in.b.sb_spdu /\ b(in).sb_rs = in.b.sb_rs
        /\ b(in).sb_rsn = in.b.sb_rsn /\ b(in).sb_requirements = in.b.sb_requirements
        /\ b(in).sb_owned = Available(in.b.sb_requirements)
        /\ b(in).sb_flags = in.b.sb_flags
    BY <1>3 DEF Up, ssapblk
  <1>6. "SB_CONN" \in b(in).sb_flags
    BY <1>3, <1>5 DEF Up
  <1> HIDE DEF b
  <1>7. \A t \in b(in).sb_owned : Brings(s, in.p, t)
    BY <1>4 DEF Brings
  <1> QED
    BY <1>1, <1>2, <1>4, <1>5, <1>6, <1>7, TakenResync

LEMMA ReadRSResync ==
    ASSUME Inv, Inv', ResyncInv, NEW s \in Side, ReadRS(s)
    PROVE  ResyncInv'
  <1>1. Reads(s) /\ Connected(s)
    BY DEF ReadRS, Reads
  <1> DEFINE b(in) == [in.b EXCEPT !.sb_flags = (@ \ {"SB_RS"}) \cup {"SB_RA"},
                         !.sb_rs = in.p.type, !.sb_rsn = in.p.serial,
                         !.sb_rsettings = in.p.settings]
             v == View(s)
             w == View(Peer(s))
             v1 == View(s)'
  <1>2. PICK in \in Received(s, {"RS"}) : Accept(s, in, b(in), << >>)
    BY DEF ReadRS
  <1>3. Up(in.b)
    BY <1>1, ReceivedType DEF Inv
  <1>4. /\ b(in).sb_spdu = in.b.sb_spdu
        /\ b(in).sb_flags = (in.b.sb_flags \ {"SB_RS"}) \cup {"SB_RA"}
        /\ b(in).sb_owned = in.b.sb_owned /\ b(in).sb_requirements = in.b.sb_requirements
    BY <1>3 DEF Up, ssapblk
  <1>5. "SB_CONN" \in b(in).sb_flags
    BY <1>3, <1>4 DEF Up
  <1>6. {"RS"} \in SUBSET Tracked
    BY DEF Tracked
  <1> HIDE DEF b
  <1>7. /\ Moves(s) /\ sb'[s] = b(in) /\ inRelease' = inRelease /\ Mute(s)
        /\ Seen(v) /\ Seen(w) /\ Seen(v1) /\ SameBlock(sb[s], in.b)
        /\ "SB_FINN" \notin v.flags /\ in.p.code = "RS" /\ in.p \in Spdu
        /\ ~Beaten(s, v, in.p)
        /\ Both => /\ PairOK(s, v, w) /\ Took(v.q, v1.q, in.p)
                   /\ View(Peer(s))' = w /\ HandOK(s, v)
    BY <1>1, <1>2, <1>4, <1>5, <1>6, AcceptTakes
  <1>8. Turns(v, v1, {"SB_RS"}, {"SB_RA"})
    BY <1>4, <1>7, BlockTurns DEF Watched, SameBlock
  <1>9. in.p.type \in ResyncType
    BY <1>7 DEF Spdu
  <1>10. Parting(v) => Leaving(v1)
    BY <1>4, <1>7, StaysLeaving DEF SameBlock
  <1>11. Both => PairOK(s, v1, View(Peer(s))')
    <2> HIDE DEF v, w, v1
    <2> QED
      BY <1>7, <1>8, <1>9, TakeRS
  <1>12. v1.owned = v.owned /\ v1.req = v.req /\ Waiting(v1)
    BY <1>4, <1>7, <1>8, ViewFields DEF SameBlock, Waiting, Turns, Watched
  <1>13. Both => HandOK(s, v1) /\ Stems(s, v, v1)
    <2> HIDE DEF v, w, v1
    <2> QED
      BY <1>7, <1>12, TakeAsk
  <1>14. Both => HandsOK(s, v1, View(Peer(s))')
    BY <1>7, <1>12, <1>13, HandsMute
  <1> QED
    BY <1>7, <1>10, <1>11, <1>14, MovesKeeps

LEMMA ReadRAResync ==
    ASSUME Inv, Inv', ResyncInv, NEW s \in Side, ReadRA(s)
    PROVE  ResyncInv'
  <1>1. Reads(s) /\ Connected(s)
    BY DEF ReadRA, Reads
  <1> DEFINE b(in) == [Resynced(s, in.b, in.p.serial, in.p.settings) EXCEPT
                         !.sb_flags = @ \ {"SB_RS"}, !.sb_rsettings = in.p.settings]
             v == View(s)
             w == View(Peer(s))
             v1 == View(s)'
  <1>2. PICK in \in Received(s, {"RA"}) : Accept(s, in, b(in), << >>)
    BY DEF ReadRA
  <1>3. Up(in.b)
    BY <1>1, ReceivedType DEF Inv
  <1>4. /\ b(in).sb_spdu = in.b.sb_spdu /\ b(in).sb_flags = in.b.sb_flags \ {"SB_RS"}
        /\ b(in).sb_owned =
             OwnedUnder(s, in.b.sb_requirements, in.p.settings, in.b.sb_owned)
        /\ b(in).sb_requirements = in.b.sb_requirements
    BY <1>3 DEF Up, ssapblk, Resynced
  <1>5. "SB_CONN" \in b(in).sb_flags
    BY <1>3, <1>4 DEF Up
  <1>6. {"RA"} \in SUBSET Tracked
    BY DEF Tracked
  <1> HIDE DEF b
  <1>7. /\ Moves(s) /\ sb'[s] = b(in) /\ inRelease' = inRelease /\ Mute(s)
        /\ Seen(v) /\ Seen(w) /\ Seen(v1) /\ SameBlock(sb[s], in.b)
        /\ "SB_FINN" \notin v.flags /\ in.p.code = "RA"
        /\ Both => /\ PairOK(s, v, w) /\ Took(v.q, v1.q, in.p)
                   /\ View(Peer(s))' = w /\ HandOK(s, v)
    BY <1>1, <1>2, <1>4, <1>5, <1>6, AcceptTakes
  <1>8. Turns(v, v1, {"SB_RS"}, {})
    BY <1>4, <1>7, BlockTurns DEF Watched, SameBlock
  <1>9. Parting(v) => Leaving(v1)
    BY <1>4, <1>7, StaysLeaving DEF SameBlock
  <1>10. Both => PairOK(s, v1, View(Peer(s))')
    <2> HIDE DEF v, w, v1
    <2> QED
      BY <1>7, <1>8, TakeRA
  <1>11. v1.req = v.req /\ v1.owned = OwnedUnder(s, v.req, in.p.settings, v.owned)
    BY <1>4, <1>7, ViewFields DEF SameBlock
  <1>12. ASSUME Both PROVE HandOK(s, v1) /\ Stems(s, v, v1)
    <2> HIDE DEF v, w, v1
    <2>1. \A t \in Available(v.req) : in.p.settings[t] # "CALL"
      BY <1>7, <1>12 DEF HandOK, WorkOK, Took
    <2>2. v1.owned \subseteq Available(v.req) /\ \A t \in v1.owned : Brings(s, in.p, t)
      BY <1>7, <1>11, <2>1 DEF OwnedUnder, Brings
    <2>3. /\ in.p.code \in Closing
          /\ \A g \in {"SB_RA", "SB_AIA"} : g \in v1.flags => g \in v.flags
      BY <1>7, <1>8 DEF Closing, Turns, Watched
    <2> QED
      BY <1>7, <1>11, <1>12, <2>2, <2>3, TakeAnswer
  <1>13. Both => HandsOK(s, v1, View(Peer(s))')
    BY <1>7, <1>11, <1>12, HandsMute
  <1> QED
    BY <1>7, <1>9, <1>10, <1>13, MovesKeeps

LEMMA ReadAIResync ==
    ASSUME Inv, Inv', ResyncInv, NEW s \in Side, ReadAI(s)
    PROVE  ResyncInv'
  <1>1. Reads(s) /\ Connected(s)
    BY DEF ReadAI, Reads
  <1> DEFINE b(in) == [in.b EXCEPT !.sb_flags = (@ \ {"SB_RS", "SB_RA"}) \cup {"SB_AIA"},
                                   !.sb_rs = "INTR"]
             v == View(s)
             w == View(Peer(s))
             v1 == View(s)'
  <1>2. PICK in \in Received(s, Intr) : Accept(s, in, b(in), << >>)
    BY DEF ReadAI, Intr
  <1>3. Up(in.b)
    BY <1>1, ReceivedType DEF Inv
  <1>4. /\ b(in).sb_spdu = in.b.sb_spdu /\ b(in).sb_rs = "INTR"
        /\ b(in).sb_flags = (in.b.sb_flags \ {"SB_RS", "SB_RA"}) \cup {"SB_AIA"}
        /\ b(in).sb_owned = in.b.sb_owned /\ b(in).sb_requirements = in.b.sb_requirements
    BY <1>3 DEF Up, ssapblk
  <1>5. "SB_CONN" \in b(in).sb_flags
    BY <1>3, <1>4 DEF Up
  <1>6. Intr \in SUBSET Tracked
    BY DEF Tracked
  <1> HIDE DEF b
  <1>7. /\ Moves(s) /\ sb'[s] = b(in) /\ inRelease' = inRelease /\ Mute(s)
        /\ Seen(v) /\ Seen(w) /\ Seen(v1) /\ SameBlock(sb[s], in.b)
        /\ "SB_FINN" \notin v.flags /\ in.p.code \in Intr
        /\ Both => /\ PairOK(s, v, w) /\ Took(v.q, v1.q, in.p)
                   /\ View(Peer(s))' = w /\ HandOK(s, v)
    BY <1>1, <1>2, <1>4, <1>5, <1>6, AcceptTakes
  <1>8. Turns(v, v1, {"SB_RS", "SB_RA"}, {"SB_AIA"})
    BY <1>4, <1>7, BlockTurns DEF Watched, SameBlock
  <1>9. v1.rs = "INTR"
    BY <1>4, <1>7, ViewFields
  <1>10. Parting(v) => Leaving(v1)
    BY <1>4, <1>7, StaysLeaving DEF SameBlock
  <1>11. Both => PairOK(s, v1, View(Peer(s))')
    <2> HIDE DEF v, w, v1
    <2> QED
      BY <1>7, <1>8, <1>9, TakeAI
  <1>12. v1.owned = v.owned /\ v1.req = v.req /\ Waiting(v1)
    BY <1>4, <1>7, <1>8, ViewFields DEF SameBlock, Waiting, Turns, Watched
  <1>13. Both => HandOK(s, v1) /\ Stems(s, v, v1)
    <2> HIDE DEF v, w, v1
    <2> QED
      BY <1>7, <1>12, TakeAsk
  <1>14. Both => HandsOK(s, v1, View(Peer(s))')
    BY <1>7, <1>12, <1>13, HandsMute
  <1> QED
    BY <1>7, <1>10, <1>11, <1>14, MovesKeeps

LEMMA ReadAIAResync ==
    ASSUME Inv, Inv', ResyncInv, NEW s \in Side, ReadAIA(s)
    PROVE  ResyncInv'
  <1>1. Reads(s) /\ Connected(s)
    BY DEF ReadAIA, Reads
  <1> DEFINE b(in) == [in.b EXCEPT !.sb_flags = @ \ {"SB_AI", "SB_Vact"},
                                   !.sb_owned = Available(in.b.sb_requirements)]
             v == View(s)
             w == View(Peer(s))
             v1 == View(s)'
  <1>2. PICK in \in Received(s, IntrAck) : Accept(s, in, b(in), << >>)
    BY DEF ReadAIA, IntrAck
  <1>3. Up(in.b)
    BY <1>1, ReceivedType DEF Inv
  <1>4. /\ b(in).sb_spdu = in.b.sb_spdu /\ b(in).sb_flags = in.b.sb_flags \ {"SB_AI", "SB_Vact"}
        /\ b(in).sb_owned = Available(in.b.sb_requirements)
        /\ b(in).sb_requirements = in.b.sb_requirements
    BY <1>3 DEF Up, ssapblk
  <1>5. "SB_CONN" \in b(in).sb_flags
    BY <1>3, <1>4 DEF Up
  <1>6. IntrAck \in SUBSET Tracked
    BY DEF Tracked
  <1> HIDE DEF b
  <1>7. /\ Moves(s) /\ sb'[s] = b(in) /\ inRelease' = inRelease /\ Mute(s)
        /\ Seen(v) /\ Seen(w) /\ Seen(v1) /\ SameBlock(sb[s], in.b)
        /\ "SB_FINN" \notin v.flags /\ in.p.code \in IntrAck
        /\ Both => /\ PairOK(s, v, w) /\ Took(v.q, v1.q, in.p)
                   /\ View(Peer(s))' = w /\ HandOK(s, v)
    BY <1>1, <1>2, <1>4, <1>5, <1>6, AcceptTakes
  <1>8. Turns(v, v1, {"SB_AI"}, {})
    BY <1>4, <1>7, BlockTurns DEF Watched, SameBlock
  <1>9. Parting(v) => Leaving(v1)
    BY <1>4, <1>7, StaysLeaving DEF SameBlock
  <1>10. Both => PairOK(s, v1, View(Peer(s))')
    <2> HIDE DEF v, w, v1
    <2> QED
      BY <1>7, <1>8, TakeAIA
  <1>11. v1.req = v.req /\ v1.owned = Available(v.req)
    BY <1>4, <1>7, ViewFields DEF SameBlock
  <1>12. Both => HandOK(s, v1) /\ Stems(s, v, v1)
    <2>1. /\ in.p.code \in Closing /\ \A t : Brings(s, in.p, t)
          /\ \A g \in {"SB_RA", "SB_AIA"} : g \in v1.flags => g \in v.flags
      BY <1>7, <1>8 DEF Closing, Brings, Turns, Watched
    <2> HIDE DEF v, w, v1
    <2> QED
      BY <1>7, <1>11, <2>1, TakeAnswer
  <1>13. Both => HandsOK(s, v1, View(Peer(s))')
    BY <1>7, <1>11, <1>12, HandsMute
  <1> QED
    BY <1>7, <1>9, <1>10, <1>13, MovesKeeps

LEMMA ReadFNResync ==
    ASSUME Inv, Inv', ResyncInv, NEW s \in Side, ReadFN(s)
    PROVE  ResyncInv'
  <1>1. Reads(s) /\ Connected(s)
    BY DEF ReadFN, Reads
  <1> DEFINE b(in) == [in.b EXCEPT !.sb_flags = (@ \ {}) \cup {"SB_FINN"}]
             v == View(s)
             w == View(Peer(s))
             v1 == View(s)'
  <1>2. PICK in \in Received(s, {"FN"}) : Accept(s, in, b(in), << >>)
    BY DEF ReadFN, AcceptFlags
  <1>3. Up(in.b)
    BY <1>1, ReceivedType DEF Inv
  <1>4. /\ b(in).sb_spdu = in.b.sb_spdu /\ b(in).sb_rs = in.b.sb_rs
        /\ b(in).sb_rsn = in.b.sb_rsn /\ b(in).sb_flags = in.b.sb_flags \cup {"SB_FINN"}
        /\ b(in).sb_owned = in.b.sb_owned /\ b(in).sb_requirements = in.b.sb_requirements
    BY <1>3 DEF Up, ssapblk
  <1>5. "SB_CONN" \in b(in).sb_flags
    BY <1>3, <1>4 DEF Up
  <1>6. {"FN"} \in SUBSET Tracked
    BY DEF Tracked
  <1> HIDE DEF b
  <1>7. /\ Moves(s) /\ sb'[s] = b(in) /\ inRelease' = inRelease /\ Mute(s)
        /\ Seen(v) /\ Seen(w) /\ Seen(v1) /\ SameBlock(sb[s], in.b)
        /\ in.p.code = "FN"
        /\ Both => /\ PairOK(s, v, w) /\ Took(v.q, v1.q, in.p)
                   /\ View(Peer(s))' = w /\ HandOK(s, v)
    BY <1>1, <1>2, <1>4, <1>5, <1>6, AcceptTakes
  <1>8. Turns(v, v1, {}, {"SB_FINN"})
    BY <1>4, <1>7, BlockTurns DEF Watched, SameBlock
  <1>9. v1.rs = v.rs /\ v1.rsn = v.rsn
    BY <1>4, <1>7, ViewFields DEF SameBlock
  <1>10. Parting(v) => Leaving(v1)
    BY <1>4, <1>7, StaysLeaving DEF SameBlock
  <1>11. Both => PairOK(s, v1, View(Peer(s))')
    <2> HIDE DEF v, w, v1
    <2> QED
      BY <1>7, <1>8, <1>9, TakeFN
  <1>12. SameHands(v, v1)
    BY <1>4, <1>7, <1>8, <1>9, ViewFields DEF SameBlock, SameHands, Turns, Watched
  <1>13. Both => HandsOK(s, v1, View(Peer(s))')
    BY <1>7, <1>12, HandsSame
  <1> QED
    BY <1>7, <1>10, <1>11, <1>13, MovesKeeps

-----------------------------------------------------------------------------
(* The release loop.                                                       *)

\* What stands first in the queue and is put back stands first again.
LEMMA PutBack ==
    ASSUME TypeOK, NEW s \in Side, Connected(s), Len(sb[s].sb_spdu) <= 1,
           NEW in \in sb2spkt(s), in.p.code \in Tracked, Normal(Queue(s))
    PROVE  <<in.p>> \o in.q = Queue(s) /\ 1 \in DOMAIN Queue(s) /\ Queue(s)[1] = in.p
  <1> DEFINE b == sb[s]
  <1>1. b \in ssapblk /\ b.sb_spdu \in Seq(Spdu) /\ net[s] \in Seq(Spdu)
    BY QueueType DEF TypeOK
  <1>2. 1 \in DOMAIN Queue(s) /\ Queue(s)[1] = in.p
    BY ReadTakes DEF Took
  <1>3. CASE b.sb_pr = "PR" /\ b.sb_xspdu
    BY <1>3 DEF sb2spkt, newspkt, Tracked, Intr, IntrAck, Work
  <1>4. CASE ~(b.sb_pr = "PR" /\ b.sb_xspdu) /\ b.sb_spdu # << >>
    <2>1. in.p = b.sb_spdu[1] /\ in.q = net[s]
      BY <1>4 DEF sb2spkt
    <2>2. Len(b.sb_spdu) \in Nat /\ Len(b.sb_spdu) # 0
      BY <1>1, <1>4, EmptySeq
    <2>3. \A n \in Nat : n <= 1 /\ n # 0 => n = 1
      OBVIOUS
    <2>4. Len(b.sb_spdu) = 1
      BY <2>2, <2>3
    <2>5. \A q \in Seq(Spdu) : Len(q) = 1 => <<q[1]>> = q
      OBVIOUS
    <2>6. <<b.sb_spdu[1]>> = b.sb_spdu
      BY <1>1, <2>4, <2>5
    <2> QED
      BY <1>2, <2>1, <2>6 DEF Queue
  <1>5. CASE ~(b.sb_pr = "PR" /\ b.sb_xspdu) /\ b.sb_spdu = << >>
    <2>1. PICK i \in Arrivals(net[s]) :
            in = [p |-> net[s][i], b |-> b, q |-> RemoveAt(net[s], i)]
      BY <1>5 DEF sb2spkt
    <2>2. Queue(s) = net[s]
      BY <1>1, <1>5, ConcatEmptySeq DEF Queue
    <2>3. i \in 1 .. Len(net[s])
      BY DEF Arrivals
    <2>4. i = 1
      BY <2>1, <2>2, <2>3 DEF Arrivals, Normal, Tracked, Intr, IntrAck, Work
    <2>5. net[s] # << >>
      BY <1>1, <2>3, EmptySeq
    <2>6. in.q = Tail(net[s]) /\ in.p = net[s][1]
      BY <1>1, <2>1, <2>4, <2>5, RemoveHeadIsTail
    <2>7. \A q \in Seq(Spdu) : q # << >> => <<q[1]>> \o Tail(q) = q
      OBVIOUS
    <2> QED
      BY <1>1, <1>2, <2>2, <2>5, <2>6, <2>7
  <1> QED
    BY <1>3, <1>4, <1>5

\* What the loop finds is under way, and a peer that has left sent none that
\* would have made it stay.
LEMMA LoopFinds ==
    ASSUME Inv, ResyncInv, NEW s \in Side, NEW codes \in SUBSET Tracked,
           NEW in \in Awaited(s, codes)
    PROVE  /\ Connected(s) /\ inRelease[s] /\ Len(sb[s].sb_spdu) <= 1
           /\ in \in sb2spkt(s) /\ in.p.code \in codes /\ Carries(View(s).q, codes)
  <1>1. inRelease[s] /\ in \in sb2spkt(s) /\ in.p.code \in codes
    BY DEF Awaited
  <1>2. Connected(s) /\ Len(sb[s].sb_spdu) <= 1
    BY <1>1, LoopUp DEF ResyncInv
  <1>3. Carries(Queue(s), {in.p.code})
    BY <1>1, <1>2, ReadTakes DEF Inv
  <1> QED
    BY <1>1, <1>2, <1>3, ViewFields DEF Carries

LEMMA RelFNResync ==
    ASSUME Inv, Inv', ResyncInv, NEW s \in Side, RelFN(s)
    PROVE  ResyncInv'
  <1> DEFINE p == newspkt("DN")
             v == View(s)
             w == View(Peer(s))
             v1 == View(s)'
             w1 == View(Peer(s))'
  <1>1. PICK in \in Awaited(s, {"FN"}) : Resume(s, in, in.b, <<p>>, TRUE)
    BY DEF RelFN
  <1>2. {"FN"} \in SUBSET Tracked
    BY DEF Tracked
  <1>3. Connected(s) /\ inRelease[s] /\ Len(sb[s].sb_spdu) <= 1 /\ in.p.code = "FN"
    BY <1>2, LoopFinds
  <1>4. p \in Spdu /\ p.code = "DN" /\ ~p.expd
    BY NewspktType DEF SpduCode, newspkt
  <1> HIDE DEF p
  <1>5. <<p>> \in Seq(Spdu)
    BY <1>4
  <1>6. /\ Moves(s) /\ SameBlock(sb[s], sb'[s]) /\ inRelease'[s] = TRUE
        /\ \A x \in Spdu : <<p>> = <<x>> => Says(s, x)
        /\ in.p.code \in Tracked /\ Normal(Queue(s)) => Took(Queue(s), Queue(s)', in.p)
    BY <1>1, <1>3, <1>5, ResumeShape
  <1>7. Says(s, p)
    BY <1>4, <1>6
  <1>8. Peer(s) \in Side
    BY PeerSide
  <1>9. Seen(v) /\ Seen(w) /\ Seen(v1) /\ Seen(w1)
    BY <1>8, ViewSeen, ViewSeenNext DEF Inv
  <1>10. SameMind(v, v1) /\ Leaving(v) /\ Leaving(v1)
    BY <1>3, <1>6, ViewFields DEF SameBlock, SameMind, Leaving, Watched
  <1>11. ASSUME Both PROVE PairOK(s, v1, w1)
    <2>1. Connected(Peer(s))
      BY <1>8, <1>11 DEF Both
    <2>2. SameMind(w, w1) /\ Gave(w.q, w1.q, p)
      BY <1>6, <1>7, <2>1, PeerView
    <2>3. PairOK(s, v, w)
      BY <1>11, BothPair
    <2>4. Normal(Queue(s))
      BY <2>3, ViewFields DEF PairOK, EndOK, FlagsOK
    <2>5. Took(v.q, v1.q, in.p)
      BY <1>2, <1>3, <1>6, <2>4, ViewFields
    <2> HIDE DEF v, w, v1, w1
    <2> QED
      BY <1>3, <1>4, <1>9, <1>10, <2>2, <2>3, <2>5, LoopFN
  <1>12. SameHands(v, v1)
    BY <1>6, ViewFields DEF SameBlock, SameHands, Watched
  <1>13. Mute(s)
    BY <1>4, <1>7 DEF Mute, HandCodes, Intr, Closing, IntrAck, Work
  <1>14. Both => HandsOK(s, v1, w1)
    BY <1>6, <1>12, <1>13, HandsSame
  <1> QED
    BY <1>6, <1>10, <1>11, <1>14, MovesKeeps

LEMMA RelNFResync ==
    ASSUME Inv, Inv', ResyncInv, NEW s \in Side, RelNF(s)
    PROVE  ResyncInv'
  <1> DEFINE v == View(s)
             w == View(Peer(s))
             v1 == View(s)'
             w1 == View(Peer(s))'
  <1>1. PICK in \in Awaited(s, {"NF"}) : Resume(s, in, in.b, << >>, FALSE)
    BY DEF RelNF
  <1>2. {"NF"} \in SUBSET Tracked /\ << >> \in Seq(Spdu)
    BY DEF Tracked
  <1>3. /\ Connected(s) /\ inRelease[s] /\ Len(sb[s].sb_spdu) <= 1 /\ in.p.code = "NF"
        /\ Carries(v.q, {"NF"})
    BY <1>2, LoopFinds
  <1>4. /\ Moves(s) /\ SameBlock(sb[s], sb'[s]) /\ inRelease'[s] = FALSE /\ Silent(s)
        /\ in.p.code \in Tracked /\ Normal(Queue(s)) => Took(Queue(s), Queue(s)', in.p)
    BY <1>1, <1>2, <1>3, ResumeShape
  <1>5. Peer(s) \in Side
    BY PeerSide
  <1>6. Seen(v) /\ Seen(w) /\ Seen(v1)
    BY <1>5, ViewSeen, ViewSeenNext DEF Inv
  <1>7. MayStay(v, v1)
    BY <1>3, <1>4, ViewFields DEF SameBlock, MayStay
  <1>8. ~Parting(v)
    BY <1>3 DEF Parting, Carries
  <1>9. ASSUME Both PROVE PairOK(s, v1, w1)
    <2>1. Connected(Peer(s))
      BY <1>5, <1>9 DEF Both
    <2>2. w1 = w
      BY <1>4, <2>1, PeerView
    <2>3. PairOK(s, v, w)
      BY <1>9, BothPair
    <2>4. Normal(Queue(s))
      BY <2>3, ViewFields DEF PairOK, EndOK, FlagsOK
    <2>5. Took(v.q, v1.q, in.p)
      BY <1>2, <1>3, <1>4, <2>4, ViewFields
    <2> HIDE DEF v, w, v1, w1
    <2> QED
      BY <1>3, <1>6, <1>7, <2>2, <2>3, <2>5, LoopNF
  <1>10. SameHands(v, v1) /\ Mute(s)
    BY <1>4, ViewFields DEF SameBlock, SameHands, Watched, Mute
  <1>11. Both => HandsOK(s, v1, w1)
    BY <1>4, <1>10, HandsSame
  <1> QED
    BY <1>4, <1>8, <1>9, <1>11, MovesKeeps

LEMMA RelRSResync ==
    ASSUME Inv, Inv', ResyncInv, NEW s \in Side, RelRS(s)
    PROVE  ResyncInv'
  <1> DEFINE b(in) == [in.b EXCEPT !.sb_spdu = <<in.p>>]
             o == Peer(s)
             v == View(s)
             w == View(o)
             v1 == View(s)'
             w1 == View(o)'
  <1>1. PICK in \in Awaited(s, {"RS"}) : Resume(s, in, b(in), << >>, FALSE)
    BY DEF RelRS
  <1>2. {"RS"} \in SUBSET Tracked /\ << >> \in Seq(Spdu)
    BY DEF Tracked
  <1>3. /\ Connected(s) /\ inRelease[s] /\ Len(sb[s].sb_spdu) <= 1 /\ in.p.code = "RS"
        /\ in \in sb2spkt(s) /\ Carries(v.q, {"RS"})
    BY <1>2, LoopFinds
  <1>4. Up(in.b) /\ in.q \in Seq(Spdu) /\ in.p \in Spdu /\ SameBlock(sb[s], in.b)
    BY <1>3, ReadType, ReadTakes DEF Inv
  <1>5. b(in).sb_spdu = <<in.p>> /\ SameBlock(in.b, b(in)) /\ "SB_CONN" \in b(in).sb_flags
    BY <1>4 DEF Up, ssapblk, SameBlock
  <1>6. Len(b(in).sb_spdu) <= 1
    <2>1. Len(<<in.p>>) <= 1
      OBVIOUS
    <2> QED
      BY <1>5, <2>1
  <1>7. /\ Stores(s, b(in), in.q, << >>) /\ outcome' = outcome
        /\ inRelease'[s] = FALSE /\ inRelease'[o] = inRelease[o]
    BY <1>1, PeerSide DEF Resume, Stores, Inv, TypeOK
  <1> HIDE DEF b
  <1>8. o \in Side /\ o # s /\ Peer(o) = s /\ \A e \in Side : e = s \/ e = o
    BY DEF Peer, Side
  <1>9. ~Parting(v)
    BY <1>3 DEF Parting, Carries
  <1>10. CASE Both
    <2>1. PairOK(s, v, w) /\ Connected(o)
      BY <1>8, <1>10, BothPair DEF Both
    <2>2. Normal(Queue(s))
      BY <2>1, ViewFields DEF PairOK, EndOK, FlagsOK
    <2>3. <<in.p>> \o in.q = Queue(s) /\ 1 \in DOMAIN Queue(s) /\ Queue(s)[1] = in.p
      BY <1>2, <1>3, <2>2, PutBack DEF Inv
    <2>4. b(in).sb_spdu \o in.q = Queue(s) /\ Queue(s) \in Seq(Spdu)
      BY <1>5, <2>3, QueueType DEF Inv
    <2>5. Sub(Tracked, Queue(s), b(in).sb_spdu \o in.q)
      BY <2>4, SubItself
    <2>6. Moves(s) /\ sb'[s] = b(in) /\ Queue(s)' = b(in).sb_spdu \o in.q /\ Silent(s)
      BY <1>2, <1>3, <1>4, <1>5, <1>6, <1>7, <2>5, StepShape
    <2>7. Seen(v) /\ Seen(w) /\ Seen(v1)
      BY <1>8, ViewSeen, ViewSeenNext DEF Inv
    <2>8. MayStay(v, v1) /\ Leaving(v)
      BY <1>3, <1>4, <1>5, <1>7, <2>6, ViewFields DEF SameBlock, MayStay
    <2>9. v1.q = v.q /\ 1 \in DOMAIN v.q /\ v.q[1].code = "RS"
      BY <1>3, <2>3, <2>4, <2>6, ViewFields
    <2>10. w1 = w
      BY <2>1, <2>6, PeerView
    <2>11. PairOK(s, v1, w1)
      <3> HIDE DEF v, w, v1, w1
      <3> QED
        BY <2>1, <2>7, <2>8, <2>9, <2>10, LoopRS
    <2>12. SameHands(v, v1) /\ Mute(s)
      BY <1>4, <1>5, <2>6, ViewFields DEF SameBlock, SameHands, Watched, Mute
    <2>13. HandsOK(s, v1, w1)
      BY <1>10, <2>6, <2>12, HandsSame
    <2> QED
      BY <1>9, <2>6, <2>11, <2>13, MovesKeeps
  \* The peer has gone, and it has not released the connection.
  <1>11. CASE ~Both
    <2>1. Queues(s, b(in), in.q, << >>)
      BY <1>2, <1>4, <1>7, StepEffect
    <2>2. sb'[s] = b(in) /\ sb'[o] = sb[o]
      BY <2>1 DEF Queues
    <2>3. ~Connected(o) /\ ~Connected(o)' /\ ~Both'
      BY <1>3, <1>8, <1>11, <2>2 DEF Both, Connected
    <2>4. outcome'[o] # "released"
      BY <1>3, <1>7, <1>8, <1>9 DEF ResyncInv
    <2>5. \A e \in Side : outcome'[e] = "released" /\ Connected(Peer(e))' =>
                            Parting(View(Peer(e))')
      BY <1>8, <2>3, <2>4
    <2>6. \A e \in Side : Len(sb'[e].sb_spdu) <= 1
      BY <1>6, <1>8, <2>2 DEF ResyncInv
    <2> QED
      BY <2>3, <2>5, <2>6 DEF ResyncInv
  <1> QED
    BY <1>10, <1>11

\* The timer runs out, or the user comes back: the end goes on leaving.
LEMMA LeavingOn ==
    ASSUME Inv, Inv', ResyncInv, NEW s \in Side, SRelTimeout(s) \/ SRelRetryRequest(s)
    PROVE  ResyncInv'
  <1> DEFINE o == Peer(s)
  <1>1. o \in Side /\ o # s
    BY PeerSide
  <1>2. Connected(s)
    <2>1. CASE SRelTimeout(s)
      BY <2>1 DEF SRelTimeout, Uses
    <2>2. CASE SRelRetryRequest(s)
      <3>1. sb[s] # newsblk
        BY <2>2 DEF SRelRetryRequest, newsblk
      <3> QED
        BY <3>1 DEF Inv, FreedIsGone
    <2> QED
      BY <2>1, <2>2
  <1>3. /\ sb[s] \in ssapblk /\ Len(sb[s].sb_spdu) <= 1
        /\ Queue(s) \in Seq(Spdu) /\ Queue(o) \in Seq(Spdu)
    BY <1>1, QueueType DEF Inv, TypeOK, ResyncInv
  <1>4. /\ net' = net /\ outcome' = outcome /\ inRelease'[o] = inRelease[o]
        /\ sb'[o] = sb[o] /\ sb'[s].sb_spdu = sb[s].sb_spdu
        /\ sb'[s].sb_rs = sb[s].sb_rs /\ sb'[s].sb_rsn = sb[s].sb_rsn
        /\ sb'[s].sb_owned = sb[s].sb_owned
        /\ sb'[s].sb_requirements = sb[s].sb_requirements
        /\ \A f : f # "SB_RELEASE" => (f \in sb'[s].sb_flags <=> f \in sb[s].sb_flags)
    <2>1. CASE SRelTimeout(s)
      <3>1. /\ sb' = [sb EXCEPT ![s].sb_flags = @ \cup {"SB_RELEASE"}]
            /\ inRelease' = [inRelease EXCEPT ![s] = FALSE]
            /\ net' = net /\ outcome' = outcome
        BY <2>1 DEF SRelTimeout
      <3>2. sb'[s] = [sb[s] EXCEPT !.sb_flags = @ \cup {"SB_RELEASE"}] /\ sb'[o] = sb[o]
        BY <1>1, <3>1 DEF Inv, TypeOK
      <3>3. inRelease'[o] = inRelease[o]
        BY <1>1, <3>1 DEF Inv, TypeOK
      <3>4. /\ sb'[s].sb_flags = sb[s].sb_flags \cup {"SB_RELEASE"}
            /\ sb'[s].sb_spdu = sb[s].sb_spdu
            /\ sb'[s].sb_rs = sb[s].sb_rs /\ sb'[s].sb_rsn = sb[s].sb_rsn
            /\ sb'[s].sb_owned = sb[s].sb_owned
            /\ sb'[s].sb_requirements = sb[s].sb_requirements
        BY <1>3, <3>2 DEF ssapblk
      <3> QED
        BY <3>1, <3>2, <3>3, <3>4
    <2>2. CASE SRelRetryRequest(s)
      BY <1>1, <2>2 DEF SRelRetryRequest, Inv, TypeOK
    <2> QED
      BY <2>1, <2>2
  <1>5. Leaving(View(s)) /\ Leaving(View(s)')
    <2>1. CASE SRelTimeout(s)
      <3>1. /\ inRelease[s] /\ sb \in [Side -> ssapblk]
            /\ sb' = [sb EXCEPT ![s].sb_flags = @ \cup {"SB_RELEASE"}]
        BY <2>1 DEF SRelTimeout, Inv, TypeOK
      <3>2. sb'[s] = [sb[s] EXCEPT !.sb_flags = @ \cup {"SB_RELEASE"}]
        BY <3>1
      <3>3. "SB_RELEASE" \in sb'[s].sb_flags
        BY <1>3, <3>2 DEF ssapblk
      <3> QED
        BY <3>1, <3>3, ViewFields
    <2>2. CASE SRelRetryRequest(s)
      <3>1. "SB_RELEASE" \in sb[s].sb_flags /\ sb' = sb
        BY <2>2 DEF SRelRetryRequest
      <3> QED
        BY <3>1, ViewFields
    <2> QED
      BY <2>1, <2>2
  <1>6. Queue(s)' = Queue(s) /\ Queue(o)' = Queue(o)
    BY <1>4 DEF Queue
  <1>7. Moves(s) /\ Silent(s)
    <2>1. Connected(s)'
      BY <1>2, <1>4 DEF Connected
    <2>2. Sub(Tracked, Queue(s), Queue(s)')
      BY <1>3, <1>6, SubItself
    <2> QED
      BY <1>2, <1>3, <1>4, <1>6, <2>1, <2>2 DEF Moves, Silent
  <1>8. SameMind(View(s), View(s)') /\ SameHands(View(s), View(s)')
    BY <1>4, <1>5, ViewFields DEF SameMind, SameHands, Leaving, Watched
  <1> QED
    BY <1>7, <1>8, CalmMoves

-----------------------------------------------------------------------------
(* The end of the session.                                                 *)

\* The transport tells both ends.
LEMMA TransportCalm ==
    ASSUME Inv, Inv', ResyncInv, TransportFails
    PROVE  ResyncInv'
  <1>1. /\ net' = [s \in Side |-> Append(net[s], TDISC)]
        /\ sb' = sb /\ inRelease' = inRelease /\ outcome' = outcome /\ Both
    BY DEF TransportFails, Uses, Both
  <1>2. ASSUME NEW s \in Side
        PROVE  Sub(Tracked, View(s).q, View(s)'.q)
    <2>1. net[s] \in Seq(Spdu) /\ sb[s].sb_spdu \in Seq(Spdu) /\ Queue(s) \in Seq(Spdu)
      BY QueueType DEF Inv
    <2>2. TDISC \in Spdu /\ TDISC.code \notin Tracked
      BY TdiscType DEF TDISC, newspkt, Tracked, Intr, IntrAck, Work
    <2>3. net'[s] = net[s] \o <<TDISC>> /\ <<TDISC>> \in Seq(Spdu)
      <3>1. net'[s] = Append(net[s], TDISC)
        BY <1>1
      <3>2. \A q \in Seq(Spdu), x \in Spdu : Append(q, x) = q \o <<x>> /\ <<x>> \in Seq(Spdu)
        OBVIOUS
      <3> QED
        BY <2>1, <2>2, <3>1, <3>2
    <2>4. Queue(s)' = Queue(s) \o <<TDISC>>
      <3>1. Queue(s)' = sb[s].sb_spdu \o (net[s] \o <<TDISC>>)
        BY <1>1, <2>3 DEF Queue
      <3>2. (sb[s].sb_spdu \o net[s]) \o <<TDISC>> = sb[s].sb_spdu \o (net[s] \o <<TDISC>>)
        BY <2>1, <2>3, ConcatShift
      <3> QED
        BY <3>1, <3>2 DEF Queue
    <2>5. Gave(Queue(s), Queue(s) \o <<TDISC>>, TDISC)
      BY <2>1, <2>2, ConcatGave
    <2>6. Queue(s)' \in Seq(Spdu)
      BY ViewSeenNext, ViewFields DEF Inv, Seen
    <2> QED
      BY <2>1, <2>2, <2>4, <2>5, <2>6, GaveSub, ViewFields
  <1>3. ASSUME NEW s \in Side
        PROVE  SameMind(View(s), View(s)') /\ SameHands(View(s), View(s)')
    BY <1>1, ViewFields DEF SameMind, SameHands, Leaving, Watched
  <1>4. ASSUME NEW s \in Side
        PROVE  EndOK(s, View(s)', View(Peer(s))')
    <2>1. Peer(s) \in Side
      BY PeerSide
    <2> DEFINE v == View(s)
               w == View(Peer(s))
               v1 == View(s)'
               w1 == View(Peer(s))'
    <2>2. EndOK(s, v, w)
      BY <1>1 DEF ResyncInv
    <2>3. Seen(v) /\ Seen(w) /\ Seen(v1) /\ Seen(w1)
      BY <2>1, ViewSeen, ViewSeenNext DEF Inv
    <2>4. /\ SameMind(v, v1) /\ SameMind(w, w1)
          /\ Sub(Tracked, v.q, v1.q) /\ Sub(Tracked, w.q, w1.q)
      BY <1>2, <1>3, <2>1
    <2> HIDE DEF v, w, v1, w1
    <2>5. EndOK(s, v1, w1)
      BY <2>2, <2>3, <2>4, CalmEnd
    <2> QED
      BY <2>5 DEF v1, w1
  <1>5. \A s \in Side : outcome[s] # "released"
    BY <1>1 DEF Inv, FreedIsGone, Both
  <1>6. ASSUME NEW s \in Side
        PROVE  HandOK(s, View(s)') /\ Stems(s, View(s), View(s)') /\ View(s)'.req = View(s).req
    <2>1. HandOK(s, View(s)) /\ Seen(View(s)) /\ Seen(View(s)')
      BY <1>1, ViewSeen, ViewSeenNext DEF Inv, ResyncInv, HandsOK
    <2>2. Sub(HandCodes, View(s).q, View(s)'.q)
      BY <1>2, SubLess, HandCodesTracked
    <2> QED
      BY <1>3, <2>1, <2>2, HandSame DEF SameHands
  <1>7. ASSUME NEW s \in Side
        PROVE  HandsOK(s, View(s)', View(Peer(s))')
    <2>1. Peer(s) \in Side /\ HandsOK(s, View(s), View(Peer(s)))
      BY <1>1, PeerSide DEF ResyncInv
    <2> QED
      BY <1>6, <2>1, HandsStem
  <1> QED
    BY <1>1, <1>4, <1>5, <1>7 DEF ResyncInv

LEMMA AbortCalm ==
    ASSUME Inv, ResyncInv, NEW s \in Side,
           \/ ReadMangled(s) \/ ReadAB(s) \/ TDiscRead(s) \/ ReadEXCongest(s)
           \/ RelAB(s) \/ RelMangled(s) \/ SRelResponseFails(s)
           \/ SUAbortRequest(s) \/ SUAbortPrepared(s) \/ SMajSyncResponseBadConv(s)
    PROVE  ResyncInv'
  <1>1. <<AB>> \in Seq(Spdu)
    BY AbType
  <1>2. << >> \in Seq(Spdu)
    OBVIOUS
  <1>3. CASE SUAbortPrepared(s)
    <2> DEFINE pr == [newspkt("PR") EXCEPT !.expd = TRUE, !.type = "AB"]
               ab == newspkt("AB")
    <2>1. pr \in Spdu /\ ab \in Spdu
      BY PrType, NewspktType DEF Prepare, SpduCode
    <2>2. freesblk(s, "uabort", <<pr, ab>>)
      BY <1>3 DEF SUAbortPrepared
    <2> HIDE DEF pr, ab
    <2>3. <<pr, ab>> \in Seq(Spdu)
      BY <2>1
    <2> QED
      BY <2>2, <2>3, FreeCalm
  <1>4. CASE SMajSyncResponseBadConv(s)
    <2> DEFINE pr == [newspkt("PR") EXCEPT !.expd = TRUE, !.type = "MAA"]
               q == IF Expd THEN <<pr>> ELSE << >>
    <2>1. pr \in Spdu
      BY PrType DEF Prepare
    <2>2. freesblk(s, "badconv", q)
      BY <1>4 DEF SMajSyncResponseBadConv
    <2> HIDE DEF pr
    <2>3. q \in Seq(Spdu)
      BY <2>1
    <2> HIDE DEF q
    <2> QED
      BY <2>2, <2>3, FreeCalm
  <1>5. CASE ~SUAbortPrepared(s) /\ ~SMajSyncResponseBadConv(s)
    <2>1. PICK why \in {"protocol", "abort", "disc", "congest", "uabort"},
               q \in {<< >>, <<AB>>} : freesblk(s, why, q)
      BY <1>5 DEF ReadMangled, ReadAB, TDiscRead, ReadEXCongest, RelAB, RelMangled,
                  SRelResponseFails, SUAbortRequest
    <2> QED
      BY <1>1, <1>2, <2>1, FreeCalm
  <1> QED
    BY <1>3, <1>4, <1>5

\* An end that accepts a release has a peer that is leaving, and nothing is
\* under way to make that peer stay.
LEMMA AcceptedLeaves ==
    ASSUME NEW e \in Side, NEW v, NEW w, EndOK(e, v, w), EndOK(Peer(e), w, v),
           "SB_FINN" \in v.flags, "SB_RS" \notin v.flags
    PROVE  Parting(w)
  <1>1. Leaving(w)
    BY DEF EndOK, FinishOK
  <1>2. ~Carries(w.q, {"RS"})
    BY <1>1, NoBids
  <1>3. ~Carries(w.q, {"NF"})
    BY DEF EndOK, RefuseOK
  <1> QED
    BY <1>1, <1>2, <1>3 DEF Parting, Carries

LEMMA ReleasedResync ==
    ASSUME Inv, ResyncInv, NEW s \in Side, SRelAccept(s) \/ RelDN(s)
    PROVE  ResyncInv'
  <1>1. Peer(s) \in Side /\ \A e \in Side : e = s \/ e = Peer(s)
    BY DEF Peer, Side
  <1> DEFINE v == View(s)
             w == View(Peer(s))
  <1>2. CASE SRelAccept(s)
    <2> DEFINE p == newspkt("DN")
    <2>1. /\ Connected(s) /\ "SB_FINN" \in sb[s].sb_flags /\ "SB_RS" \notin sb[s].sb_flags
          /\ freesblk(s, "released", <<p>>)
      BY <1>2 DEF SRelAccept, Uses, ssapFsig, Clear
    <2>2. p \in Spdu /\ p.code = "DN"
      BY NewspktType DEF SpduCode, newspkt
    <2> HIDE DEF p
    <2>3. <<p>> \in Seq(Spdu) /\ ~Carries(<<p>>, {"RS", "NF"})
      BY <2>2 DEF Carries
    <2>4. "SB_FINN" \in v.flags /\ "SB_RS" \notin v.flags
      BY <2>1, ViewFields DEF Watched
    <2>5. ASSUME Connected(Peer(s)) PROVE Parting(w)
      <3>1. Both
        BY <1>1, <2>1, <2>5 DEF Both
      <3>2. PairOK(s, v, w)
        BY <3>1, BothPair
      <3> HIDE DEF v, w
      <3> QED
        BY <2>4, <3>2, AcceptedLeaves DEF PairOK
    <2> QED
      BY <2>1, <2>3, <2>5, FreeCalm
  <1>3. CASE RelDN(s)
    <2>1. PICK in \in Awaited(s, {"DN"}) : freesblk(s, "released", << >>)
      BY <1>3 DEF RelDN
    <2>2. {"DN"} \in SUBSET Tracked
      BY DEF Tracked
    <2>3. Connected(s) /\ Carries(v.q, {"DN"})
      BY <2>2, LoopFinds
    <2>4. << >> \in Seq(Spdu) /\ ~Carries(<< >>, {"RS", "NF"})
      BY DEF Carries
    <2>5. ASSUME Connected(Peer(s)) PROVE Parting(w)
      <3>1. Both
        BY <1>1, <2>3, <2>5 DEF Both
      <3>2. PairOK(s, v, w)
        BY <3>1, BothPair
      <3> QED
        BY <2>3, <3>2 DEF PairOK, EndOK, DoneOK
    <2> QED
      BY <2>1, <2>4, <2>5, FreeCalm
  <1> QED
    BY <1>2, <1>3

-----------------------------------------------------------------------------
(* The theorems.                                                           *)

LEMMA InitResync == Init => ResyncInv
  <1> SUFFICES ASSUME Init PROVE ResyncInv
    OBVIOUS
  <1>1. \A s \in Side : /\ sb[s].sb_flags = {"SB_CONN"} /\ sb[s].sb_spdu = << >>
                        /\ net[s] = << >> /\ ~inRelease[s] /\ outcome[s] = "none"
    <2>1. \A req, owned, isn : LET b == ConnectedBlock(req, owned, isn)
                              IN  b.sb_flags = {"SB_CONN"} /\ b.sb_spdu = << >>
      BY DEF ConnectedBlock, newsblk
    <2>2. \A s \in Side : \E req, owned, isn : sb[s] = ConnectedBlock(req, owned, isn)
      BY DEF Init
    <2>3. \A s \in Side : sb[s].sb_flags = {"SB_CONN"} /\ sb[s].sb_spdu = << >>
      BY <2>1, <2>2
    <2> QED
      BY <2>3 DEF Init
  <1>2. << >> \o << >> = << >> /\ Len(<< >>) <= 1
    OBVIOUS
  <1>3. ASSUME NEW s \in Side
        PROVE  View(s).flags \cap Watched = {} /\ View(s).q = << >>
    <2>1. View(s).q = << >>
      BY <1>1, <1>2, ViewFields DEF Queue
    <2>2. sb[s].sb_flags \cap Watched = {}
      BY <1>1 DEF Watched
    <2> QED
      BY <1>1, <2>1, <2>2, ViewClear
  <1>4. ASSUME NEW e, NEW v, NEW w, v.flags \cap Watched = {}, w.flags \cap Watched = {},
               v.q = << >>, w.q = << >>
        PROVE  EndOK(e, v, w)
    <2>1. DOMAIN v.q = {} /\ DOMAIN w.q = {}
      BY <1>4
    <2>2. \A f \in Watched : f \notin v.flags /\ f \notin w.flags
      BY <1>4
    <2>3. FlagsOK(v) /\ BidsOK(e, v, w) /\ AskedOK(v, w)
      BY <2>1, <2>2 DEF FlagsOK, Normal, BidsOK, AskedOK, AtMostOne, Carries, Leaving, Watched
    <2>4. IntrOK(v, w) /\ FinishOK(e, v, w) /\ RefuseOK(v, w) /\ DoneOK(v, w)
      BY <2>1, <2>2 DEF IntrOK, AtMostOne, FinishOK, RefuseOK, DoneOK, Carries, Watched
    <2> QED
      BY <2>3, <2>4 DEF EndOK
  <1>5. \A s \in Side : EndOK(s, View(s), View(Peer(s)))
    BY <1>3, <1>4, PeerSide
  <1>6. PICK req, mine : /\ mine \subseteq Available(req)
                         /\ \A s \in Side :
                              /\ View(s).req = req
                              /\ View(s).owned = IF s = "init" THEN mine
                                                 ELSE Available(req) \ mine
    <2>1. PICK req, isn, mine : mine \subseteq Available(req) /\
            sb = [s \in Side |-> ConnectedBlock(req, IF s = "init" THEN mine
                                                     ELSE Available(req) \ mine, isn)]
      BY DEF Init
    <2>2. \A owned : LET b == ConnectedBlock(req, owned, isn)
                     IN  b.sb_owned = owned /\ b.sb_requirements = req
      BY DEF ConnectedBlock, newsblk
    <2>3. \A s \in Side : /\ sb[s].sb_requirements = req
                          /\ sb[s].sb_owned = IF s = "init" THEN mine ELSE Available(req) \ mine
      BY <2>1, <2>2
    <2>4. \A s \in Side : /\ View(s).req = req
                          /\ View(s).owned = IF s = "init" THEN mine ELSE Available(req) \ mine
      BY <2>3, ViewFields
    <2> QED
      BY <2>1, <2>4
  <1>7. ASSUME NEW e, NEW v, v.flags \cap Watched = {}, v.q = << >>,
               v.owned \subseteq Available(v.req)
        PROVE  HandOK(e, v) /\ \A t, i : Due(e, v, t, i) => i = 0 /\ t \in v.owned
    <2>1. DOMAIN v.q = {} /\ \A f \in Watched : f \notin v.flags
      BY <1>7
    <2>2. \A t, i : Due(e, v, t, i) => i = 0 /\ t \in v.owned
      BY <2>1 DEF Due
    <2>3. WorkOK(e, v)
      BY <1>7, <2>1 DEF WorkOK, Carries, Watched
    <2> QED
      BY <2>2, <2>3 DEF HandOK, OnceOK
  <1>8. ASSUME NEW s \in Side
        PROVE  HandsOK(s, View(s), View(Peer(s)))
    <2> DEFINE o == Peer(s)
    <2>1. o \in Side /\ View(s).req = req /\ View(o).req = req
          /\ View(s).owned \subseteq Available(req) /\ View(o).owned \subseteq Available(req)
          /\ View(s).owned \cap View(o).owned = {}
      BY <1>6 DEF Side, Peer
    <2>2. HandOK(s, View(s)) /\ \A t, i : Due(s, View(s), t, i) => t \in View(s).owned
      BY <1>3, <1>7, <2>1
    <2>3. HandOK(o, View(o)) /\ \A t, i : Due(o, View(o), t, i) => t \in View(o).owned
      BY <1>3, <1>7, <2>1
    <2> QED
      BY <2>1, <2>2, <2>3 DEF HandsOK, ApartOK
  <1> QED
    BY <1>1, <1>2, <1>5, <1>8 DEF ResyncInv

LEMMA NextResync == Inv /\ ResyncInv /\ [Next]_vars => ResyncInv'
  <1> SUFFICES ASSUME Inv, ResyncInv, [Next]_vars PROVE ResyncInv'
    OBVIOUS
  <1>1. Inv'
    BY NextInv
  <1>2. (\A n \in 0 .. MaxSsn : n \in Nat) /\ (\A n \in 0 .. (MaxSsn - 1) : n \in Nat)
    BY BoundsAssumption
  <1>3. ASSUME NEW s \in Side, Requesting(s) PROVE ResyncInv'
    <2>1. CASE \E type \in ResyncType, ssn \in 0 .. MaxSsn, settings \in ResyncSettings :
                 SReSyncRequest(s, type, ssn, settings)
      BY <1>1, <1>2, <2>1, SettingsAssumption, ReSyncRequestResync
    <2>2. CASE \E ssn \in 0 .. (MaxSsn - 1) : SActResumeRequest(s, ssn)
      BY <1>1, <1>2, <2>2, ActivityCalm
    <2>3. CASE \E tokens \in SUBSET Token :
                 SGTokenRequest(s, tokens) \/ SPTokenRequest(s, tokens)
      BY <1>1, <2>3, GTokenResync, TokenCalm
    <2> QED
      BY <1>1, <1>3, <2>1, <2>2, <2>3, DataCalm, GControlResync, ControlCalm, SyncCalm,
         ActivityCalm, ActIntrRequestResync, RelRequestResync, AbortCalm DEF Requesting
  <1>4. ASSUME NEW s \in Side, Responding(s) PROVE ResyncInv'
    <2>1. CASE \E ssn \in 0 .. MaxSsn, settings \in Answers(sb[s]) :
                 SReSyncResponse(s, ssn, settings)
      BY <1>1, <1>2, <2>1, ReSyncResponseResync
    <2> QED
      BY <1>1, <1>4, <2>1, ControlCalm, MajSyncResponseCalm, ActIntrResponseResync,
         RelRejectResync, ReleasedResync, AbortCalm DEF Responding
  <1>5. ASSUME NEW s \in Side, Reading(s) PROVE ResyncInv'
    BY <1>1, <1>5, AbortCalm, ReadSpinCalm, ReadDataCalm, ReadFlagsCalm, ReadPointCalm,
       ReadGTResync, ReadGTCResync, ReadRSResync, ReadRAResync, ReadAIResync, ReadAIAResync,
       ReadFNResync DEF Reading
  <1>6. ASSUME NEW s \in Side, Releasing(s) \/ SRelTimeout(s) PROVE ResyncInv'
    BY <1>1, <1>6, LeavingOn, RelFNResync, ReleasedResync, RelNFResync, RelRSResync, AbortCalm
    DEF Releasing
  <1>7. ASSUME NEW s \in Side, NEW ssn \in 0 .. MaxSsn, SMinSyncResponse(s, ssn)
        PROVE  ResyncInv'
    BY <1>1, <1>2, <1>7, MinSyncResponseCalm
  <1>8. CASE TransportFails
    BY <1>1, <1>8, TransportCalm
  <1>9. CASE UNCHANGED vars
    <2>1. /\ sb' = sb /\ outcome' = outcome /\ inRelease' = inRelease /\ net' = net
      BY <1>9 DEF vars
    <2>2. \A s \in Side : View(s)' = View(s) /\ (Connected(s)' <=> Connected(s))
      BY <2>1 DEF View, Queue, Connected
    <2> QED
      BY <2>1, <2>2, PeerSide DEF ResyncInv, Both
  <1> QED
    BY <1>3, <1>4, <1>5, <1>6, <1>7, <1>8, <1>9 DEF Next

\* Whatever the two users ask for at once, and however SPDUs cross, at most
\* one of them is ever asked to answer a resynchronization: an end that owes
\* a resynchronize acknowledgement has a peer that waits for it, and no end
\* both waits and owes.
THEOREM OneEndResponds == Spec => []OneResponder
  <1>1. Inv /\ ResyncInv => OneResponder
    <2> SUFFICES ASSUME Inv, ResyncInv, \A s \in Side : "SB_RA" \in sb[s].sb_flags
                 PROVE  FALSE
      BY DEF OneResponder
    <2>1. ASSUME NEW s \in Side PROVE Connected(s)
      <3>1. sb[s] # newsblk
        BY DEF newsblk
      <3> QED
        BY <3>1 DEF Inv, FreedIsGone
    <2>2. PICK s \in Side : TRUE
      BY DEF Side
    <2>3. Peer(s) \in Side
      BY PeerSide
    <2>4. PairOK(s, View(s), View(Peer(s)))
      BY <2>1, BothPair DEF Both
    <2>5. "SB_RA" \in View(s).flags /\ "SB_RA" \in View(Peer(s)).flags
      BY <2>3, ViewFields DEF Watched
    <2> QED
      BY <2>4, <2>5 DEF PairOK, EndOK, AskedOK, FlagsOK
  <1>2. Init => Inv /\ ResyncInv
    BY InitInv, InitResync
  <1>3. Inv /\ ResyncInv /\ [Next]_vars => Inv' /\ ResyncInv'
    BY NextInv, NextResync
  <1> QED
    BY <1>1, <1>2, <1>3, PTL DEF Spec

\* No token is usable at both ends.  Each end keeps sb_owned by itself, and
\* GT, GTC, RS, RA, AI and AIA SPDUs may cross in any order that the code
\* allows; still a user who neither waits for a resynchronization or an
\* interruption to end, nor has one to answer, shares no token of his with a
\* peer in the same position.
THEOREM TokensApart == Spec => []TokenExclusive
  <1>1. Inv /\ ResyncInv => TokenExclusive
    <2> SUFFICES ASSUME Inv, ResyncInv, NEW t \in Token, Usable("init", t), Usable("resp", t)
                 PROVE  FALSE
      BY DEF TokenExclusive
    <2>1. /\ "init" \in Side /\ "resp" \in Side /\ Peer("init") = "resp"
          /\ \A s \in Side : Usable(s, t)
      BY DEF Side, Peer
    <2>2. HandsOK("init", View("init"), View("resp"))
      BY <2>1 DEF ResyncInv, Both, Usable
    <2>3. ASSUME NEW s \in Side PROVE Due(s, View(s), t, 0)
      <3>1. t \in sb[s].sb_owned
            /\ \A f \in {"SB_RS", "SB_RA", "SB_AI", "SB_AIA"} : f \notin sb[s].sb_flags
        BY <2>1 DEF Usable, Exchanging
      <3>2. t \in View(s).owned /\ ~Waiting(View(s))
        BY <3>1, ViewFields DEF Waiting, Watched
      <3> QED
        BY <3>2 DEF Due
    <2>4. t \in Available(View("init").req)
      BY <2>1, <2>2, ViewFields DEF HandsOK, HandOK, WorkOK, Usable
    <2> QED
      BY <2>1, <2>2, <2>3, <2>4 DEF HandsOK, ApartOK
  <1>2. Init => Inv /\ ResyncInv
    BY InitInv, InitResync
  <1>3. Inv /\ ResyncInv /\ [Next]_vars => Inv' /\ ResyncInv'
    BY NextInv, NextResync
  <1> QED
    BY <1>1, <1>2, <1>3, PTL DEF Spec

\* Nobody is told that the session was released while the other end goes on
\* with it: when a release has succeeded for one user, the other has asked
\* for it too and is still leaving, or his end has gone.  A refusal or a
\* resynchronization that is still under way never takes back what an FN
\* and its DN have settled.
THEOREM BothLeave == Spec => []ReleasedTogether
  <1>1. Inv /\ ResyncInv => ReleasedTogether
    BY PeerSide, ViewFields DEF ResyncInv, ReleasedTogether, Parting
  <1>2. Init => Inv /\ ResyncInv
    BY InitInv, InitResync
  <1>3. Inv /\ ResyncInv /\ [Next]_vars => Inv' /\ ResyncInv'
    BY NextInv, NextResync
  <1> QED
    BY <1>1, <1>2, <1>3, PTL DEF Spec
====
