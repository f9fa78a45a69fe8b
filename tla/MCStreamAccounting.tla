-------------------------- MODULE MCStreamAccounting --------------------------
(* A list of a packet that is sent twice and another behind it. *)
EXTENDS StreamAccounting

Packet(g) == [guid |-> g, ts |-> 0]
Set == [pkts |-> <<Packet(1)>>, repeatCount |-> 2, repeatSize |-> 1, usecDelay |-> 0]
Tail1 == [pkts |-> <<Packet(2)>>, repeatCount |-> 1, repeatSize |-> 1, usecDelay |-> 0]
TwoStreams == [seqs |-> <<Set, Tail1>>, listSize |-> 3]

\* It is what the scheduler's calls make.
ASSUME TwoStreamsBuilt ==
    LET set == AppendToPacketList(LoopNextPacketSet(ClearedPacketList, 1, 2, 0), Packet(1))
        list == AppendToPacketList(set, Packet(2))
    IN  list.seqs = TwoStreams.seqs /\ list.listSize = TwoStreams.listSize
=============================================================================
