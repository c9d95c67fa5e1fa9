---------------------------- MODULE MCSsapConnect ----------------------------
(* An instance of SsapConnect for TLC.                                     *)
EXTENDS SsapConnect

\* Units with and without tokens, each rule about a combination included.
SomeUnits == {"HALFDUPLEX", "DUPLEX", "EXCEPTIONS", "MINORSYNC", "ACTIVITY",
              "CAPABILITY"}
FewUnits == {"HALFDUPLEX", "DUPLEX", "MINORSYNC"}

\* Each setting for each of the tokens of these units, and mixed ones.
SomeSettings ==
    {[t \in Token |-> v] : v \in Setting} \cup
    {[t \in Token |-> IF t = "DAT" THEN "CALL" ELSE "RESP"],
     [t \in Token |-> IF t = "DAT" THEN "RESP" ELSE "CALL"]}

OneIsn == {1}
TwoIsns == {1, 2}
=============================================================================
