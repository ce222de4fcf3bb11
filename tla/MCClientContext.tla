--------------------------- MODULE MCClientContext ---------------------------
(* A finite instance of ClientContext for TLC. *)
EXTENDS ClientContext

MCPayload == <<"p1", "p2", "p3">>
MCReply == <<"r1", "r2", "r3">>
=============================================================================
