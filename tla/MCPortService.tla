---------------------------- MODULE MCPortService ----------------------------
(* PortService with the clients and mixes of requests its runs ask about. *)
EXTENDS PortService

CONSTANTS c1, c2, s1, s2

May(n, ops) == [n |-> n, ops |-> ops]
Nothing == May(0, {})

\* One client sends everything; or one has a stream transmitted, and may build and
\* change the mode, while another sends two of anything.
Transmit == {"addStream", "modifyStream", "modifyPort"} \cup TransmitOps
OneOrTwo == {[c \in Conns |-> IF c = c1 THEN May(5, AllOps) ELSE Nothing],
             [c \in Conns |-> IF c = c1 THEN May(2, AllOps) ELSE May(2, AllOps)],
             [c \in Conns |-> IF c = c1 THEN May(4, Transmit) ELSE May(1, AllOps)]}

NeighborTransmitOps == {"addStream", "modifyStream", "deviceNeighbors", "startTransmit"}
NeighborTransmit == {[c \in Conns |-> May(5, NeighborTransmitOps)]}
=============================================================================
