--------------------------- MODULE MCPubSubCache ---------------------------
(***************************************************************************)
(* Instances of PubSubCache for TLC.                                       *)
(***************************************************************************)
EXTENDS PubSubCache
=============================================================================
