------------------------------ MODULE MCGateway ------------------------------
(* OAuth's instances, with the endpoints its tokens open. *)
EXTENDS MCOAuth, Gateway

MCRequired == [mcp |-> {read}, a2a |-> {}]
==============================================================================
