-------------------------- MODULE MCGatewayCallers --------------------------
(* A problem whose cases are generated and one that brings its own. *)
EXTENDS GatewayCallers
MCSources == <<"api", "own">>
=============================================================================
