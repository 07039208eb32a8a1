----------------------------- MODULE MCTcpServer -----------------------------
(* Two peers, one of which talks; poll has room for both in the first run  *)
(* and for one of them in the second.                                      *)
EXTENDS TcpServer

CONSTANTS p1, p2

TwoPeers   == {p1, p2}
MCSaid     == [p \in TwoPeers |-> IF p = p1 THEN 2 ELSE 0]
MCLimit    == [run \in 0 .. 2 |-> IF run < 2 THEN 3 ELSE 2]
=============================================================================
