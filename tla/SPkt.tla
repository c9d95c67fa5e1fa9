-------------------------------- MODULE SPkt --------------------------------
(***************************************************************************)
(* Vocabulary of the ISODE session layer (h/ssap.h, h/spkt.h): the two     *)
(* ends of a session, the functional units, the tokens they bring into     *)
(* existence and how a token setting is read, the SPDUs, and the rule that *)
(* decides which of two colliding resynchronizations survives.             *)
(***************************************************************************)
EXTENDS Naturals, Sequences, FiniteSets

\* The ends of a session connection; SB_INIT marks the initiator's block.
Side == {"init", "resp"}
Peer(s) == IF s = "init" THEN "resp" ELSE "init"

-----------------------------------------------------------------------------
(* Functional units and tokens.                                            *)

FunctionalUnits ==
    {"HALFDUPLEX", "DUPLEX", "EXPEDITED", "MINORSYNC", "MAJORSYNC", "RESYNC",
     "ACTIVITY", "NEGOTIATED", "CAPABILITY", "EXCEPTIONS", "TYPEDATA"}

\* ST_MAJ_TOKEN and ST_ACT_TOKEN are the same bit.
Token == {"RLS", "MAJ", "MIN", "DAT"}

\* dotokens(): the tokens that exist under a set of functional units.
Available(req) ==
    (IF "NEGOTIATED" \in req THEN {"RLS"} ELSE {}) \cup
    (IF req \cap {"MAJORSYNC", "ACTIVITY"} # {} THEN {"MAJ"} ELSE {}) \cup
    (IF "MINORSYNC" \in req THEN {"MIN"} ELSE {}) \cup
    (IF "HALFDUPLEX" \in req THEN {"DAT"} ELSE {})

\* ST_INIT_VALUE, ST_RESP_VALUE, ST_CALL_VALUE: two bits per token.
Setting == {"INIT", "RESP", "CALL"}
Settings == [Token -> Setting]

\* What a block initialised by calloc() or a missing parameter holds.
NoSettings == [t \in Token |-> "INIT"]

\* The setting that gives a token to side s.
Mine(s) == IF s = "init" THEN "INIT" ELSE "RESP"

\* Mutant of OwnedUnder: a token settled on the peer is not given up.
OwnedUnderKeeps(s, req, settings, owned) ==
    {t \in Available(req) : settings[t] = Mine(s) \/ t \in owned}

\* dotokens() over agreed settings: the tokens side s owns afterwards; a
\* token set to CALL stays where it was.
OwnedUnder(s, req, settings, owned) ==
    {t \in Available(req) : \/ settings[t] = Mine(s)
                            \/ settings[t] = "CALL" /\ t \in owned}

-----------------------------------------------------------------------------
(* Session protocol data units.                                            *)

ResyncType == {"RESTART", "ABANDON", "SET"}

\* sb_rs also records activity interrupt and discard.
SyncOp == ResyncType \cup {"INTR", "DISC"}

\* SPDU_DT and SPDU_GT, SPDU_AI and SPDU_AB, SPDU_AIA and SPDU_AA share a
\* code in the program and are told apart by s_mask; here they have a name
\* each.  AE is a MAP without MAP_SYNC_NOEND.  TDISC is the transport's
\* T-DISCONNECT.indication, which TReadRequest returns in place of a TSDU.
SpduCode ==
    {"FN", "DN", "NF", "AB", "DT", "EX", "TD", "CD", "CDA", "GT", "PT",
     "GTC", "GTA", "MIP", "MIA", "MAP", "AE", "MAA", "RS", "RA", "PR", "ED",
     "AS", "AR", "AI", "AIA", "AD", "ADA", "TDISC"}

\* sb_pr and s_pr_type: "PR" is the idle value.
Prepare == {"PR", "MAA", "RS", "RA", "AB"}

\* The type parameter is s_rs_type in an RS SPDU and s_pr_type in a PR SPDU.
Spdu ==
    {p \in [code : SpduCode, expd : BOOLEAN, tokens : SUBSET Token,
            serial : Nat, type : ResyncType \cup Prepare, settings : Settings] :
       /\ p.code = "RS" => p.type \in ResyncType
       /\ p.code = "PR" => p.type \in Prepare}

\* newspkt(): a zeroed SPDU of the given code.
newspkt(code) ==
    [code |-> code, expd |-> FALSE, tokens |-> {}, serial |-> 0,
     type |-> "RESTART", settings |-> NoSettings]

-----------------------------------------------------------------------------
(* Collision of two resynchronizations.                                    *)

\* The order in which SDoCollideAux tries the operations.
Precedence(op) ==
    CASE op = "DISC" -> 0 [] op = "INTR" -> 1 [] op = "ABANDON" -> 2
      [] op = "SET" -> 3 [] op = "RESTART" -> 4

\* Mutants of SDoCollideAux: neither end, or each end, wins a tie.
SDoCollideAuxNobody(init, localop, localssn, remoteop, remotessn) ==
    \/ Precedence(localop) < Precedence(remoteop)
    \/ localop = remoteop /\ localop = "RESTART" /\ localssn < remotessn
SDoCollideAuxBoth(init, localop, localssn, remoteop, remotessn) ==
    \/ Precedence(localop) < Precedence(remoteop)
    \/ localop = remoteop /\ (localop = "RESTART" => localssn <= remotessn)

\* SDoCollideAux: TRUE (OK) when the local operation takes precedence.
SDoCollideAux(init, localop, localssn, remoteop, remotessn) ==
    \/ Precedence(localop) < Precedence(remoteop)
    \/ /\ localop = remoteop
       /\ \/ localop \in {"DISC", "INTR"}
          \/ localop \in {"ABANDON", "SET"} /\ init
          \/ /\ localop = "RESTART"
             /\ \/ localssn < remotessn
                \/ localssn = remotessn /\ init
=============================================================================
