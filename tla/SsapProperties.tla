--------------------------- MODULE SsapProperties ---------------------------
(***************************************************************************)
(* What the session protocol machines of Ssap promise each other.  Most    *)
(* properties relate the two blocks: each SPM keeps its own copy of the    *)
(* token positions, the serial numbers, the activity and the requests in   *)
(* progress, and nothing but the SPDUs under way keeps the copies alike.   *)
(***************************************************************************)
EXTENDS Ssap

\* A resynchronization or an activity interruption is under way at s: until
\* it ends, s may use no token (every ssap?sig macro refuses).
Exchanging(s) ==
    sb[s].sb_flags \cap {"SB_RS", "SB_RA", "SB_AI", "SB_AIA"} # {}

\* Both ends are up and neither has anything left to read.
Idle == \A s \in Side : /\ Connected(s) /\ net[s] = << >>
                        /\ sb[s].sb_spdu = << >>

Quiet == Idle /\ \A s \in Side : ~Exchanging(s)

-----------------------------------------------------------------------------
(* Types.                                                                  *)

\* Every field of struct ssapblk stays in its range; the serial numbers in
\* blocks and SPDUs, signed longs in the program, never become negative.
TypeOK ==
    /\ sb \in [Side -> ssapblk]
    /\ inRelease \in [Side -> BOOLEAN]
    /\ outcome \in [Side -> Outcome]
    /\ net \in [Side -> Seq(Spdu)]

-----------------------------------------------------------------------------
(* Tokens.                                                                 *)

Usable(s, t) == Connected(s) /\ t \in sb[s].sb_owned /\ ~Exchanging(s)

\* No token is usable at both ends: whatever GT, GTC, RS, RA, AI and AIA
\* SPDUs cross, at most one user may act on the token (sb_owned is updated
\* by each end on its own).
TokenExclusive == \A t \in Token : ~(Usable("init", t) /\ Usable("resp", t))

\* No token is lost: once nothing is under way, each token that the
\* functional units bring into existence is in one end's sb_owned.  The
\* giver drops it when it writes the GT, the taker adds it when it reads it.
TokenConserved ==
    Quiet => \A t \in Available(sb["init"].sb_requirements) :
               \E s \in Side : t \in sb[s].sb_owned

-----------------------------------------------------------------------------
(* Serial numbers and activities.                                          *)

\* Once nothing is under way both ends have the same next serial number,
\* although each counts sync points, restarts and activity starts itself.
SsnAgree == Quiet => sb["init"].sb_V_M = sb["resp"].sb_V_M

\* A restart point always exists: the lowest serial number for
\* resynchronization is not beyond the next one, also after a restart that
\* crossed the confirmation of a major synchronization point.
ResyncWindow == \A s \in Side : sb[s].sb_V_R <= sb[s].sb_V_M

\* Once nothing is under way and no major synchronization is unconfirmed,
\* either both ends are in an activity or neither is.
ActAgree ==
    (Quiet /\ \A s \in Side : "SB_MAP" \notin sb[s].sb_flags) =>
      ("SB_Vact" \in sb["init"].sb_flags <=> "SB_Vact" \in sb["resp"].sb_flags)

-----------------------------------------------------------------------------
(* Confirmed services.                                                     *)

\* A major synchronization, activity end, activity interruption or give
\* control that is in progress at one end while nothing is under way is one
\* the other end's user has been told of and has still to answer.
PendingKnown ==
    Idle => \A s \in Side :
      /\ "SB_MAP" \in sb[s].sb_flags => "SB_MAA" \in sb[Peer(s)].sb_flags
      /\ "SB_AI" \in sb[s].sb_flags => "SB_AIA" \in sb[Peer(s)].sb_flags
      /\ "SB_GTC" \notin sb[s].sb_flags

\* The same for a resynchronization: an RS SPDU may be discarded by the
\* collision rule, but never so that both ends wait.
ResyncKnown ==
    Idle => \A s \in Side :
      "SB_RS" \in sb[s].sb_flags => "SB_RA" \in sb[Peer(s)].sb_flags

\* The same for an exception report: the end that holds the data token knows
\* that it is being waited for.
ExceptionKnown ==
    Idle => \A s \in Side :
      "SB_ED" \in sb[s].sb_flags => "SB_EDACK" \in sb[Peer(s)].sb_flags

\* A collision has one winner: the two users are never both asked to answer
\* a resynchronization.
OneResponder == ~ \A s \in Side : "SB_RA" \in sb[s].sb_flags

-----------------------------------------------------------------------------
(* Expedited flow.                                                         *)

\* An SPM that discards normal SPDUs because a PR SPDU told it to prepare
\* has the SPDU that ends the preparation still to come.
PreparationEnds ==
    \A s \in Side : sb[s].sb_pr # "PR" =>
      \E i \in DOMAIN net[s] : net[s][i].code \in Ends(sb[s].sb_pr) \cup {"TDISC"}

\* Neither SPM finds that the other broke the protocol: both are this
\* program, so SC_PROTOCOL would be its own doing.
NoProtocolError == \A s \in Side : outcome[s] # "protocol"

-----------------------------------------------------------------------------
(* Release and abort.                                                      *)

\* S-RELEASE is agreed: the end that sees it succeed (DN sent or received)
\* has a peer that is gone too, or that asked for the release itself.
ReleasedTogether ==
    \A s \in Side : outcome[s] = "released" =>
      \/ ~Connected(Peer(s)) \/ inRelease[Peer(s)]
      \/ "SB_RELEASE" \in sb[Peer(s)].sb_flags

\* A freed block stays freed: exactly the ends whose user has been told of
\* the end of the session have none, nothing is delivered to it, no release
\* loop runs on it and no late timer or read brings back any of its state.
FreedIsGone ==
    \A s \in Side :
      /\ outcome[s] = "none" <=> Connected(s)
      /\ ~Connected(s) => sb[s] = newsblk /\ net[s] = << >> /\ ~inRelease[s]

\* A user who is awaited may answer: neither the response to an RS SPDU
\* (SB_RA) nor the one to an FN SPDU (SB_FINN) is refused by its macro.
Answerable ==
    \A s \in Side : /\ "SB_RA" \in sb[s].sb_flags => ssapRsig(sb[s])
                    /\ "SB_FINN" \in sb[s].sb_flags => ssapFsig(sb[s])

-----------------------------------------------------------------------------
(* Liveness, under Fairness: the users read and answer.                    *)

Settles(f) == \A s \in Side : (f \in sb[s].sb_flags) ~> (f \notin sb[s].sb_flags)

\* Every resynchronization completes, however many collide on the way.
ResyncEnds == Settles("SB_RS")

\* Every major synchronization is confirmed.  (In an activity it may also be
\* left behind: nothing keeps a user who owes the confirmation from starting
\* and discarding activities for ever.)
MajorSyncEnds ==
    \A s \in Side :
      ("SB_MAP" \in sb[s].sb_flags /\ "ACTIVITY" \notin sb[s].sb_requirements)
        ~> ("SB_MAP" \notin sb[s].sb_flags)

\* Every activity interruption, discard and give control completes.
InterruptEnds == Settles("SB_AI") /\ Settles("SB_GTC")

\* SRelRequest returns: no user is left in the release loop.
ReleaseEnds == \A s \in Side : inRelease[s] ~> ~inRelease[s]
=============================================================================
