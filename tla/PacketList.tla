------------------------------ MODULE PacketList ------------------------------
(***************************************************************************)
(* The packet list of a port's transmit thread: how PcapTxThread builds     *)
(* packetSequenceList_ out of the calls of the scheduler                    *)
(* (clearPacketList, loopNextPacketSet, appendToPacketList,                 *)
(* setPacketListLoopMode), the order in which run() walks what was built,   *)
(* and the per stream accounting updateStreamStats() makes of it.           *)
(*                                                                          *)
(* A list under construction is a record                                    *)
(*   seqs         packetSequenceList_, a sequence of packet sequences        *)
(*   cur          index of currentPacketSequence_, 0 for NULL                *)
(*   repeatStart  repeatSequenceStart_                                      *)
(*   repeatSize   repeatSize_, 0 when no repeated set is open                *)
(*   packetCount  packetCount_                                              *)
(*   listSize     packetListSize_                                           *)
(*   returnTo     returnToQIdx_, -1 for "do not loop"                        *)
(*   loopDelay    loopDelay_, in microseconds                               *)
(* and a packet is [guid, ts]: the stream it is signed with and its         *)
(* timestamp in microseconds.  Packets have one size, so the 1 MB send      *)
(* queue of a sequence holds SeqCapacity of them.                           *)
(***************************************************************************)
EXTENDS Integers, Sequences, FiniteSets, SequencesExt

CONSTANTS SeqCapacity,  \* packets that fit the send queue of one PacketSequence
          MaxInt,       \* INT_MAX, 2^31 - 1
          MaxCounter    \* ULLONG_MAX, 2^64 - 1

ASSUME SeqCapacityAssumption == SeqCapacity \in Nat \ {0}
ASSUME WidthAssumption == MaxInt \in Nat /\ MaxCounter \in Nat

\* A number that is stored in an int.  (An int product that overflows is undefined; it is
\* taken to wrap, too, and no property says what comes of it.)
AsInt(n) == ((n + MaxInt + 1) % (2 * MaxInt + 2)) - MaxInt - 1
AsCounter(n) == n % (MaxCounter + 1)

PacketType   == [guid : Nat, ts : Int]
SequenceType == [pkts : Seq(PacketType), repeatCount : Nat,
                 repeatSize : Nat \ {0}, usecDelay : Int]

BuilderType  == [seqs : Seq(SequenceType), cur : Nat, repeatStart : Int,
                 repeatSize : Nat, packetCount : Nat, listSize : Nat,
                 returnTo : {-1, 0}, loopDelay : Int]

NewSequence(repeats, delay) ==
    [pkts |-> <<>>, repeatCount |-> repeats, repeatSize |-> 1, usecDelay |-> delay]

HasFreeSpace(seq) == Len(seq.pkts) < SeqCapacity

(***************************************************************************)
(* The builder's calls                                                     *)
(***************************************************************************)
ClearedPacketList ==
    [seqs |-> <<>>, cur |-> 0, repeatStart |-> -1, repeatSize |-> 0,
     packetCount |-> 0, listSize |-> 0, returnTo |-> -1, loopDelay |-> 0]

LoopNextPacketSet(b, size, repeats, usecs) ==
    [b EXCEPT !.seqs = Append(@, NewSequence(AsInt(repeats), usecs)),
              !.cur = Len(b.seqs) + 1,
              !.repeatStart = Len(b.seqs),
              !.repeatSize = size,
              !.packetCount = 0]

SetPacketListLoopMode(b, loop, usecs) ==
    [b EXCEPT !.returnTo = IF loop THEN 0 ELSE -1, !.loopDelay = usecs]

\* The sequence the next packet goes to: a full one is closed with the gap to
\* the packet that did not fit, and a new one is opened behind it.
RoomForPacket(b, pkt) ==
    IF b.cur # 0 /\ HasFreeSpace(b.seqs[b.cur])
    THEN b
    ELSE LET closed == IF b.cur = 0 THEN b.seqs
                       ELSE [b.seqs EXCEPT ![b.cur].usecDelay =
                                 pkt.ts - Last(b.seqs[b.cur].pkts).ts]
         IN [b EXCEPT !.seqs = Append(closed, NewSequence(1, 0)),
                      !.cur = Len(b.seqs) + 1]

\* Mutant: the current sequence stays open behind the set.
ClosePacketSetStaysOpen(b) == [b EXCEPT !.repeatSize = 0]

\* Mutant: the size of a set that takes several sequences is one too large.
ClosePacketSetTooLong(b) ==
    LET first == b.repeatStart + 1
    IN [b EXCEPT !.seqs = IF b.cur = first THEN @
                          ELSE [@ EXCEPT ![first].repeatSize = Len(b.seqs) - b.repeatStart + 1],
                 !.repeatSize = 0, !.cur = 0]

\* The last packet of a repeated set: the delay between repeats moves from the
\* first sequence of the set to its last one, the first one learns how many
\* sequences the set takes, and the next packet opens a sequence of its own.
ClosePacketSet(b) ==
    LET first == b.repeatStart + 1
        moved == [b.seqs EXCEPT ![b.cur].usecDelay = b.seqs[first].usecDelay,
                                ![first].usecDelay = 0,
                                ![first].repeatSize = Len(b.seqs) - b.repeatStart]
    IN [b EXCEPT !.seqs = IF b.cur = first THEN @ ELSE moved,
                 !.repeatSize = 0,
                 !.cur = 0]

\* Mutant: the list size counts a packet once, however often it is repeated.
AppendCountsOnce(b, pkt) ==
    LET r == RoomForPacket(b, pkt)
        a == [r EXCEPT !.seqs[r.cur].pkts = Append(@, pkt),
                       !.packetCount = @ + 1, !.listSize = @ + 1]
    IN IF a.repeatSize > 0 /\ a.packetCount = a.repeatSize THEN ClosePacketSet(a) ELSE a

AppendToPacketList(b, pkt) ==
    LET r == RoomForPacket(b, pkt)
        a == [r EXCEPT !.seqs[r.cur].pkts = Append(@, pkt),
                       !.packetCount = @ + 1,
                       !.listSize = @ + (IF r.repeatSize > 0
                                         THEN r.seqs[r.cur].repeatCount ELSE 1)]
    IN IF a.repeatSize > 0 /\ a.packetCount = a.repeatSize
       THEN ClosePacketSet(a) ELSE a

(***************************************************************************)
(* What run() sends: one pass over the list, each packet with the pause     *)
(* that follows it.  The pause between two packets of a sequence is the     *)
(* difference of their timestamps, the one after a sequence its usecDelay_. *)
(***************************************************************************)
SequencePackets(seq) ==
    [p \in 1 .. Len(seq.pkts) |->
        [guid |-> seq.pkts[p].guid,
         gap  |-> IF p = Len(seq.pkts) THEN seq.usecDelay
                  ELSE seq.pkts[p + 1].ts - seq.pkts[p].ts]]

\* The packets of the first k sequences from index i on.
PacketsOf(seqs, i, k) ==
    FlattenSeq([m \in 1 .. k |-> SequencePackets(seqs[i + m - 1])])

\* The packets of the set that starts at index i, one repetition.
SetPackets(seqs, i) == PacketsOf(seqs, i, seqs[i].repeatSize)

\* The sets tile the list: from head to head by repeatSize_, the first sequence and
\* the end of the list are reached exactly.
TiledBy(seqs, heads) ==
    /\ \A q \in 1 .. Len(seqs) : q + seqs[q].repeatSize <= Len(seqs) + 1
    /\ heads \subseteq 1 .. Len(seqs) + 1
    /\ 1 \in heads /\ Len(seqs) + 1 \in heads
    /\ \A h \in heads \ {Len(seqs) + 1} : h + seqs[h].repeatSize \in heads

Tiled(seqs) == \E heads \in SUBSET (1 .. Len(seqs) + 1) : TiledBy(seqs, heads)

Repeat(s, n) == [m \in 1 .. n * Len(s) |-> s[((m - 1) % Len(s)) + 1]]

\* What is sent from index i on.
TransmitFrom(seqs) ==
    LET from[i \in 1 .. Len(seqs) + 1] ==
            IF i > Len(seqs) THEN <<>>
            ELSE Repeat(SetPackets(seqs, i), seqs[i].repeatCount)
                 \o from[i + seqs[i].repeatSize]
    IN from

TransmitOrder(seqs) == TransmitFrom(seqs)[1]

Guids(order) == [m \in 1 .. Len(order) |-> order[m].guid]

CountOf(guid, guids) == Cardinality({m \in 1 .. Len(guids) : guids[m] = guid})

(***************************************************************************)
(* updateStreamStats(): the packets per stream among those that were sent.   *)
(***************************************************************************)
\* How many were sent, by the counter before and after.  A counter that has not grown
\* is taken to have wrapped, one packet of which is lost.
SentPkts(before, after) ==
    IF after > before THEN after - before ELSE after + (MaxCounter - before)

\* Complete passes, set by set: each as often as it is repeated.
PassesFrom(seqs, passes, guid) ==
    LET from[i \in 1 .. Len(seqs) + 1] ==
            IF i > Len(seqs) THEN 0
            ELSE AsInt(passes * seqs[i].repeatCount) * CountOf(guid, Guids(SetPackets(seqs, i)))
                 + from[i + seqs[i].repeatSize]
    IN from

PassesPkts(seqs, passes, guid) == PassesFrom(seqs, passes, guid)[1]

\* The part of a last pass, packet by packet; all of the first sequence if the number of
\* packets is negative, which none of its tests is made for.
PartialPkts(seqs, partial, guid) ==
    LET order == Guids(TransmitOrder(seqs))
        sent  == IF partial < Len(order) THEN partial ELSE Len(order)
    IN IF partial < 0 THEN CountOf(guid, Guids(SequencePackets(seqs[1])))
       ELSE CountOf(guid, SubSeq(order, 1, sent))

\* listSize packets are taken to be one pass over the list.
StreamTxPkts(seqs, listSize, pkts, guid) ==
    IF listSize = 0 THEN 0
    ELSE AsCounter(PassesPkts(seqs, AsInt(pkts \div listSize), guid)
                     + PartialPkts(seqs, AsInt(pkts % listSize), guid))

\* The numbers of packets whose passes, repeated packets and remainder fit an int, and
\* for which what is told fits a counter.
CountsFit(seqs, listSize, pkts) ==
    LET passes  == pkts \div listSize
        partial == pkts % listSize
    IN  /\ listSize > 0 /\ passes <= MaxInt /\ partial <= MaxInt
        /\ \A q \in 1 .. Len(seqs) : passes * seqs[q].repeatCount <= MaxInt
        /\ passes * Len(TransmitOrder(seqs)) + partial <= MaxCounter

=============================================================================
