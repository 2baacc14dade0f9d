------------------------ MODULE MCEndpointBroadcast ------------------------
(* Three endpoints, two of them private relays, under every strategy. *)
EXTENDS EndpointBroadcast

CONSTANTS e1, e2, e3

MCOrder == <<e1, e2, e3>>
MCPrivate == {e1, e2}
MCStrategies ==
  {"Fanout", "RaceAll", "BroadcastAll", "PriorityOrdered", "PrivateFirst"}
=============================================================================
