------------------------------ MODULE MCTxThread ------------------------------
(* Lists for TxThread, built by the calls the port makes: nothing at all, one  *)
(* plain sequence, a repeated set and a tail, a set that overflows its first   *)
(* sequence, a set announced without packets before another, loops, one of     *)
(* them without a packet.                                                     *)
EXTENDS TxThread

Pkt(g, t) == [guid |-> g, ts |-> t]

Built(b) == [seqs |-> b.seqs, returnTo |-> b.returnTo]
AppendAll(b, pkts) == FoldLeft(AppendToPacketList, b, pkts)
Looped(b) == SetPacketListLoopMode(b, TRUE, 0)

PlainList  == AppendAll(ClearedPacketList, <<Pkt(1, 0), Pkt(1, 1), Pkt(2, 2)>>)
SetAndTail == AppendAll(LoopNextPacketSet(ClearedPacketList, 2, 2, 1),
                        <<Pkt(1, 0), Pkt(2, 1), Pkt(3, 2)>>)
LongSet    == AppendAll(LoopNextPacketSet(ClearedPacketList, 3, 2, 1),
                        <<Pkt(1, 0), Pkt(2, 1), Pkt(3, 2), Pkt(4, 3)>>)
EmptySet   == AppendAll(LoopNextPacketSet(LoopNextPacketSet(ClearedPacketList, 2, 2, 1),
                                          1, 2, 1), <<Pkt(1, 0)>>)

BarrenSet  == LoopNextPacketSet(ClearedPacketList, 2, 2, 1)

MCPacketLists ==
    {Built(ClearedPacketList), Built(PlainList), Built(SetAndTail), Built(LongSet),
     Built(EmptySet), Built(Looped(PlainList)), Built(Looped(SetAndTail)),
     Built(Looped(BarrenSet))}
=============================================================================
