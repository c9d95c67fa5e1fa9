------------------------------- MODULE MCRosy -------------------------------
(***************************************************************************)
(* Instances of Rosy for TLC: a run is a set of uses of the association.   *)
(***************************************************************************)
EXTENDS RosyProperties, TLC

\* A client and its server, with and without several invocations under way.
Client == [invokers |-> {"init"}, classes |-> {"ROS_SYNC"}]
AsyncClient == [invokers |-> {"init"}, classes |-> {"ROS_ASYNC"}]

\* Both ends invoke, in either way.
Peers == [invokers |-> {"init", "resp"}, classes |-> {"ROS_SYNC", "ROS_ASYNC"}]

AllUses == {Client, AsyncClient, Peers}
ClientUses == {AsyncClient}
=============================================================================
