--------------------------- MODULE MCGatewayInbound ---------------------------
(***************************************************************************)
(* Small instances of GatewayInbound: three or four pushes of which the    *)
(* first two are of one message, in one session or in two.                 *)
(***************************************************************************)
EXTENDS GatewayInbound, TLC

CONSTANTS p1, p2, p3, p4, m1, m2, m3, chat, thread

FirstTwiceOf == [p \in Push |-> CASE p \in {p1, p2} -> m1
                                  [] p = p3 -> m2
                                  [] OTHER -> m3]

OneChat == [m \in Message |-> chat]
ThreadOfLast == [m \in Message |-> IF m = m3 THEN thread ELSE chat]
=============================================================================
