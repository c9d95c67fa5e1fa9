------------------------------- MODULE MCSsap -------------------------------
(***************************************************************************)
(* Instances of Ssap for TLC.  A run is a profile (the functional units    *)
(* the connection has), the primitives its users call, the token settings  *)
(* they propose when they resynchronize, and the bounds of its .cfg.       *)
(***************************************************************************)
EXTENDS SsapProperties

\* One connection: the session starts with either end holding each token.
Zero == {0}

\* All tokens to one end; all tokens to one end or to the responder's choice.
FixedSettings == {[t \in Token |-> "INIT"], [t \in Token |-> "RESP"]}
MixedSettings == {[t \in Token |-> "INIT"], [t \in Token |-> "CALL"]}
NoResync == {}

TokenCalls == {"SGTokenRequest"}
MajorCalls == {"SMajSyncRequest", "SMajSyncResponse"}
MinorCalls == {"SMinSyncRequest", "SMinSyncResponse"}
ResyncCalls == {"SReSyncRequest", "SReSyncResponse"}
InterruptCalls == {"SActIntrRequest", "SActIntrResponse", "SActDiscRequest",
                   "SActDiscResponse"}
ActivityCalls == InterruptCalls \cup
    {"SActStartRequest", "SActEndRequest", "SMajSyncResponse", "SGControlRequest"}

-----------------------------------------------------------------------------
(* The connections of each run: what the users of a profile call.          *)

Sync == {"HALFDUPLEX", "MINORSYNC", "MAJORSYNC"}
Activity == {"HALFDUPLEX", "ACTIVITY", "CAPABILITY"}
MinorActivity == {"DUPLEX", "ACTIVITY", "MINORSYNC"}
PointRequests ==
    Sync :> (TokenCalls \cup MajorCalls \cup MinorCalls) @@
    Activity :> (TokenCalls \cup ActivityCalls \cup
                 {"SActResumeRequest", "SCapdRequest", "SCapdResponse"}) @@
    MinorActivity :> (TokenCalls \cup ActivityCalls \cup
                      {"SActResumeRequest", "SMinSyncRequest"})

Resync == {"DUPLEX", "MAJORSYNC", "RESYNC"}
TokenResync == {"HALFDUPLEX", "RESYNC"}
Duplex == {"DUPLEX", "RESYNC"}
Negotiated == {"HALFDUPLEX", "NEGOTIATED", "TYPEDATA"}
ReleaseCalls == {"SRelRequest", "SRelResponse", "SRelReject"}
ResyncRequests ==
    Resync :> (MajorCalls \cup ResyncCalls) @@
    TokenResync :> (TokenCalls \cup ResyncCalls) @@
    Duplex :> (ReleaseCalls \cup ResyncCalls \cup {"SRelTimeout"}) @@
    Negotiated :> (TokenCalls \cup ReleaseCalls \cup
                   {"SDataRequest", "STypedRequest", "SPTokenRequest",
                    "SRelTimeout", "SUAbortRequest", "TransportFails"})
ResyncProfiles == DOMAIN ResyncRequests

SessionRequests == PointRequests @@ ResyncRequests
SessionProfiles == DOMAIN SessionRequests

Expedited == {"DUPLEX", "EXPEDITED", "MINORSYNC", "RESYNC"}
Exception == {"HALFDUPLEX", "EXCEPTIONS", "MAJORSYNC"}
ExceptionCalls == TokenCalls \cup MajorCalls \cup {"SUReportRequest"}
ExpeditedRequests ==
    Expedited :> (ResyncCalls \cup
                  {"SExpdRequest", "SMinSyncRequest", "SUAbortRequest"}) @@
    Exception :> ExceptionCalls
ExpeditedProfiles == DOMAIN ExpeditedRequests

LiveRequests ==
    {"HALFDUPLEX", "MAJORSYNC"} :> (TokenCalls \cup MajorCalls) @@
    {"HALFDUPLEX", "ACTIVITY"} :>
      (TokenCalls \cup ActivityCalls \cup {"SMajSyncRequest"}) @@
    {"HALFDUPLEX", "NEGOTIATED"} :>
      (TokenCalls \cup ReleaseCalls \cup {"SDataRequest"}) @@
    TokenResync :> (TokenCalls \cup ResyncCalls)
LiveProfiles == DOMAIN LiveRequests

-----------------------------------------------------------------------------
(* Instances in which the program does not do what its comments say.       *)

LostRequests == Exception :> ExceptionCalls
LostProfiles == DOMAIN LostRequests

AnswerRequests ==
    {"HALFDUPLEX", "ACTIVITY", "RESYNC"} :>
      (ResyncCalls \cup {"SActStartRequest", "SActEndRequest", "SMajSyncResponse"}) @@
    Duplex :> (ResyncCalls \cup {"SRelRequest", "SRelResponse"})
AnswerProfiles == DOMAIN AnswerRequests
=============================================================================
