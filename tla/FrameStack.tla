----------------------------- MODULE FrameStack -----------------------------
(***************************************************************************)
(* How a stream's protocols become its frames: each protocol gives its bytes,  *)
(* for which it asks the others for their sizes, ids and checksums, and the     *)
(* stream puts them one behind the other and cuts or pads the frame.  What is   *)
(* sent is a short list of frames that is repeated.                            *)
(*                                                                          *)
(* A stream is [lenMode, len, min, max, protocols]; a protocol is a record of   *)
(* its data with "proto", its name; "over", the values of the fields that the    *)
(* user has overridden; and "vary", its variable fields.  Left out: random       *)
(* modes, addresses taken from devices, scripts; combined protocols stand for     *)
(* their parts.  A stream has one protocol at most that fills the frame: the      *)
(* sizes of two would be defined by each other.                                *)
(***************************************************************************)
EXTENDS FrameBytes, Multiples, FiniteSetsExt, Functions, TLC

CONSTANTS FrameStreams,      \* the streams to choose from
          MaxPktSize,    \* kMaxPktSize: what the buffer holds
          Rounds         \* bound: how often the counters of a stream go round

VARIABLES
    stream,
    built,      \* frames built so far
    frame       \* what the buffer holds: the last frame

frameVars == <<stream, built, frame>>

FcsSize == 4
NoProtocol == -1        \* 0xFFFFFFFF

Proto(s, k) == s.protocols[k]
Top(s) == Len(s.protocols)
Given(p, field, computed) == IF field \in DOMAIN p.over THEN p.over[field] ELSE computed

-----------------------------------------------------------------------------
(* Lengths and sizes                                                       *)

FrameLenCount(s) == IF s.lenMode = "fixed" THEN 1 ELSE s.max - s.min + 1
FrameLen(s, i) ==
    CASE s.lenMode = "fixed" -> s.len
      [] s.lenMode = "inc" -> s.min + (i % FrameLenCount(s))
      [] s.lenMode = "dec" -> s.max - (i % FrameLenCount(s))

\* ICMP messages that have an identifier and a sequence number.
IsIdSeqType(p) == p.type \in IF p.version = 4 THEN {0, 8, 15, 16} ELSE {128, 129}

\* FieldBitSize of the frame fields, in order.
FieldBits(p) ==
    CASE p.proto = "mac"  -> <<48, 48>>
      [] p.proto = "vlan" -> <<16, 3, 1, 12>>
      [] p.proto \in {"eth2", "dot3"} -> <<16>>
      [] p.proto = "llc"  -> <<8, 8, 8>>
      [] p.proto = "snap" -> <<24, 16>>
      [] p.proto = "arp"  -> <<16, 16, 8, 8, 16, 48, 32, 48, 32>>
      [] p.proto = "ip4"  -> <<4, 4, 8, 16, 16, 3, 13, 8, 8, 16, 32, 32, 8 * Len(p.options)>>
      [] p.proto = "ip6"  -> <<4, 8, 20, 16, 8, 8, 128, 128>>
      [] p.proto = "udp"  -> <<16, 16, 16, 16>>
      [] p.proto = "tcp"  -> <<16, 16, 32, 32, 4, 4, 8, 16, 16, 16>>
      [] p.proto = "icmp" -> IF IsIdSeqType(p) THEN <<8, 8, 16, 16, 16>> ELSE <<8, 8, 16>>
      [] p.proto = "sign" -> <<8, 32, 32>>
      [] p.proto = "hexdump" -> <<8 * Len(p.content)>>
      [] OTHER -> <<0>>          \* "payload"
OwnSize(p) == (Total(FieldBits(p)) + 7) \div 8

\* A payload, or a hex dump that is the last protocol, fills what the others leave.
FillsFrame(s, k) == \/ Proto(s, k).proto = "payload"
                    \/ Proto(s, k).proto = "hexdump" /\ Proto(s, k).pad /\ k = Top(s)

\* Streams whose frames are defined: the index of a frame is divided by each of these
\* counts, and by the number of lengths from min to max; the data are as wide as
\* their fields; and one protocol at most fills the frame.
Counts == Nat \ {0}
Wide(n) == [1 .. n -> 0 .. 255]
Counted(p) ==
    LET InMode(a) == a.mode # "fixed" => a.count \in Counts IN
    /\ p.vary \in Seq(Range(p.vary)) /\ \A n \in DOMAIN p.vary : p.vary[n].count \in Counts
    /\ p.proto \in {"mac", "ip4", "ip6"} => InMode(p.src) /\ InMode(p.dst)
    /\ p.proto = "arp" =>
           InMode(p.senderHw) /\ InMode(p.senderProto) /\ InMode(p.targetHw) /\ InMode(p.targetProto)
Sized(p) ==
    /\ p.proto \in {"mac", "vlan", "eth2", "dot3", "llc", "snap", "arp", "ip4", "ip6", "udp", "tcp", "icmp",
                     "sign", "hexdump", "payload"}
    /\ p.proto = "mac" => p.src.addr \in Wide(6) /\ p.dst.addr \in Wide(6)
    /\ p.proto = "arp" => /\ p.senderHw.addr \in Wide(6) /\ p.targetHw.addr \in Wide(6)
                          /\ p.senderProto.addr \in Wide(4) /\ p.targetProto.addr \in Wide(4)
    /\ p.proto = "ip4" => p.src.addr \in Wide(4) /\ p.dst.addr \in Wide(4) /\ p.options \in Seq(0 .. 255)
    /\ p.proto = "ip6" => p.src.addr \in Wide(16) /\ p.dst.addr \in Wide(16)
    /\ p.proto = "tcp" => p.seq \in Wide(4) /\ p.ack \in Wide(4)
    /\ p.proto = "hexdump" => p.content \in Seq(0 .. 255)
    /\ p.proto = "sign" => p.guid \in Nat /\ (p.guid \div 256) \div 256 <= 255
ASSUME FrameAssumption ==
    /\ MaxPktSize \in Nat
    /\ \A s \in FrameStreams :
        /\ s.lenMode \in {"fixed", "inc", "dec"}
        /\ s.lenMode = "fixed" => s.len \in Nat
        /\ s.lenMode # "fixed" => s.min \in Nat /\ s.max \in Nat /\ s.min <= s.max
        /\ s.protocols \in Seq(Range(s.protocols))
        /\ \A k \in 1 .. Top(s) : Counted(Proto(s, k)) /\ Sized(Proto(s, k))
        /\ \A k, l \in 1 .. Top(s) : FillsFrame(s, k) /\ FillsFrame(s, l) => k = l

SumOfSizes(s, last) == Total([k \in 1 .. last |-> OwnSize(Proto(s, k))])

\* Mutant: a payload fills the frame as if nothing came behind it.
FillingToTheEnd(s, k, i) ==
    IF ~FillsFrame(s, k) THEN 0 ELSE Max({0, FrameLen(s, i) - SumOfSizes(s, k) - FcsSize})
\* protocolFrameOffset() and protocolFramePayloadSize() of the filling protocol.
Filling(s, k, i) ==
    IF ~FillsFrame(s, k) THEN 0
    ELSE Max({0, FrameLen(s, i) - SumOfSizes(s, Top(s)) - FcsSize})

ProtocolFrameSize(s, k, i) == OwnSize(Proto(s, k)) + Filling(s, k, i)
ProtocolFrameOffset(s, k, i) ==
    Total([l \in 1 .. k - 1 |-> ProtocolFrameSize(s, l, i)])

ProtocolFramePayloadSize(s, k, i) ==
    Total([l \in 1 .. Top(s) - k |-> ProtocolFrameSize(s, k + l, i)])

FrameProtocolLength(s, i) == ProtocolFrameOffset(s, Top(s) + 1, i)

-----------------------------------------------------------------------------
(* Ids                                                                     *)

ProtocolIds ==
    ("ip4"  :> [llc |-> \h060603, eth |-> \h0800, ip |-> 4]) @@
    ("ip6"  :> [eth |-> \h86dd, ip |-> \h29]) @@
    ("arp"  :> [eth |-> \h0806]) @@
    ("snap" :> [llc |-> \hAAAA03]) @@
    ("udp"  :> [ip |-> \h11]) @@
    ("tcp"  :> [ip |-> 6])

ProtocolId(p, type) ==
    IF p.proto = "icmp" /\ type = "ip" THEN IF p.version = 4 THEN 1 ELSE \h3A
    ELSE IF p.proto \in DOMAIN ProtocolIds /\ type \in DOMAIN ProtocolIds[p.proto]
         THEN ProtocolIds[p.proto][type] ELSE 0

PayloadProtocolId(s, k, type) ==
    IF k = Top(s) THEN NoProtocol ELSE ProtocolId(Proto(s, k + 1), type)

\* protocolIdType() # ProtocolIdNone: the protocol names the next one.
NamesPayload == {"eth2", "snap", "llc", "ip4", "ip6", "udp", "tcp"}

-----------------------------------------------------------------------------
(* Field values (FieldFrameValue); sum stands for the checksum field.       *)

MacAddress(a, i) == IF a.mode = "fixed" THEN a.addr ELSE Plus(a.addr, StepsOf(a, i))

\* inc_host and dec_host: the bits outside the mask count, by one; those inside stay.
Host(addr, mask) == Merge(Zeros(Len(addr)), addr, Inverted(mask))
HostAddress(a, addr, mask, i) ==
    IF a.mode = "fixed" THEN addr
    ELSE Merge(addr, Plus(Host(addr, mask), OnesOf(a, i)), Inverted(mask))
Ip4Address(a, i) == HostAddress(a, a.addr, a.mask, i)

\* Each half counts by itself.  1 << p is taken for the number of bits kept, from the
\* left, when it is the number of bits that count, from the right; for p = 64, which C++ leaves
\* undefined, it is what x86 makes of it, 1 << 0.  Prefixes are whole bytes.
Ip6Mask(p) == IF p = 0 THEN Zeros(8) ELSE [d \in 1 .. 8 |-> IF 8 * (8 - d) >= p % 64 THEN 255 ELSE 0]
Ip6Address(a, i) ==
    LET Half(from, p) == HostAddress(a, SubSeq(a.addr, from, from + 7), Ip6Mask(p), i)
    IN  Half(1, Min({a.prefix, 64})) \o Half(9, Max({a.prefix - 64, 0}))

MacFields(p, i) == <<MacAddress(p.dst, i), MacAddress(p.src, i)>>

VlanFields(p) ==
    <<Bytes(Given(p, "tpid", \h8100), 2), <<(p.tag \div 8192) % 8>>, <<(p.tag \div 4096) % 2>>,
      Bytes(p.tag % 4096, 2)>>

Eth2Fields(s, k) == <<Bytes(Given(Proto(s, k), "type", PayloadProtocolId(s, k, "eth")), 2)>>
Dot3Fields(s, k, i) ==
    <<Bytes(Given(Proto(s, k), "length", ProtocolFramePayloadSize(s, k, i)), 2)>>
LlcFields(s, k) ==
    LET id == Bytes(PayloadProtocolId(s, k, "llc"), 3) IN
    [f \in 1 .. 3 |-> <<Given(Proto(s, k), <<"dsap", "ssap", "ctl">>[f], id[f])>>]
SnapFields(s, k) ==
    <<Bytes(Given(Proto(s, k), "oui", 0), 3),
      Bytes(Given(Proto(s, k), "type", PayloadProtocolId(s, k, "eth")), 2)>>

ArpFields(p, i) ==
    <<Bytes(1, 2), Bytes(\h0800, 2), <<6>>, <<4>>, Bytes(p.opCode, 2),
      MacAddress(p.senderHw, i), Ip4Address(p.senderProto, i),
      MacAddress(p.targetHw, i), Ip4Address(p.targetProto, i)>>

Ip4Fields(s, k, i, sum) ==
    LET p == Proto(s, k) IN
    <<<<Given(p, "ver", 4)>>, <<Given(p, "hdrLen", 5 + Len(p.options) \div 4) % 16>>, <<p.tos>>,
      Bytes(Given(p, "totLen", ProtocolFramePayloadSize(s, k, i) + 20 + Len(p.options)), 2),
      Bytes(p.id, 2), <<p.flags>>, Bytes(p.fragOfs, 2), <<p.ttl>>,
      Bytes(Given(p, "protocol", PayloadProtocolId(s, k, "ip")), 1), Bytes(sum, 2),
      Ip4Address(p.src, i), Ip4Address(p.dst, i), p.options>>

Ip6Fields(s, k, i) ==
    LET p == Proto(s, k)
        id == PayloadProtocolId(s, k, "ip")
        none == id = 0 /\ Proto(s, k + 1).proto \notin NamesPayload
    IN  <<<<Given(p, "version", 6)>>, <<p.trafficClass>>, Bytes(p.flowLabel, 3),
          Bytes(Given(p, "payloadLength", ProtocolFramePayloadSize(s, k, i)), 2),
          Bytes(Given(p, "nextHeader", IF none THEN \h3b ELSE id), 1), <<p.hopLimit>>,
          Ip6Address(p.src, i), Ip6Address(p.dst, i)>>

UdpFields(s, k, i, sum) ==
    LET p == Proto(s, k)
        port == PayloadProtocolId(s, k, "port")
    IN  <<Bytes(Given(p, "srcPort", port), 2), Bytes(Given(p, "dstPort", port), 2),
          Bytes(Given(p, "totLen", ProtocolFramePayloadSize(s, k, i) + 8), 2), Bytes(sum, 2)>>

TcpFields(s, k, i, sum) ==
    LET p == Proto(s, k)
        port == PayloadProtocolId(s, k, "port")
    IN  <<Bytes(Given(p, "srcPort", port), 2), Bytes(Given(p, "dstPort", port), 2),
          p.seq, p.ack, <<Given(p, "hdrLen", 5)>>, <<p.rsvd>>, <<p.flags>>, Bytes(p.window, 2),
          Bytes(sum, 2), Bytes(p.urgPtr, 2)>>

IcmpFields(p, sum) ==
    <<<<p.type>>, <<p.code>>, Bytes(sum, 2)>>
      \o (IF IsIdSeqType(p) THEN <<Bytes(p.id, 2), Bytes(p.seq, 2)>> ELSE <<>>)

PayloadByte(p, n) ==
    CASE p.pattern = "fixed_word" -> p.word[1 + (n % 4)]
      [] p.pattern = "inc_byte" -> n % 256
      [] p.pattern = "dec_byte" -> 255 - (n % 256)
\* An empty payload still gives one byte.
PayloadBytes(s, k, i) ==
    [n \in 1 .. Max({1, ProtocolFrameSize(s, k, i)}) |-> PayloadByte(Proto(s, k), n - 1)]

HexDumpBytes(s, k, i) ==
    Proto(s, k).content \o Zeros(Filling(s, k, i))

TypeLenEnd == \h00
TypeLenGuid == \h61
SignMagic == <<\h1d, \h10, \hc0, \hda>>

\* SignProtocol::packetGuid(): from the magic number back through type-lengths, each
\* behind its value; no packet is read beyond its beginning.
NoGuid == -1
PacketGuid(pkt) ==
    LET magicAt == Len(pkt) - Len(SignMagic)
        guid[p \in 1 .. magicAt] ==
            LET before == p - (1 + pkt[p] \div 32) IN
            IF pkt[p] = TypeLenEnd THEN NoGuid
            ELSE IF pkt[p] = TypeLenGuid THEN Number(SubSeq(pkt, p - 3, p - 1))
            ELSE IF before \in 1 .. p - 1 THEN guid[before] ELSE NoGuid
    IN  IF SubSeq(pkt, magicAt + 1, Len(pkt)) # SignMagic THEN NoGuid ELSE guid[magicAt]

SignFields(p) == <<<<TypeLenEnd>>, Append(Bytes(p.guid, 3), TypeLenGuid), SignMagic>>

FieldValues(s, k, i, sum) ==
    LET p == Proto(s, k) IN
    CASE p.proto = "mac"  -> MacFields(p, i)
      [] p.proto = "vlan" -> VlanFields(p)
      [] p.proto = "eth2" -> Eth2Fields(s, k)
      [] p.proto = "dot3" -> Dot3Fields(s, k, i)
      [] p.proto = "llc"  -> LlcFields(s, k)
      [] p.proto = "snap" -> SnapFields(s, k)
      [] p.proto = "arp"  -> ArpFields(p, i)
      [] p.proto = "ip4"  -> Ip4Fields(s, k, i, sum)
      [] p.proto = "ip6"  -> Ip6Fields(s, k, i)
      [] p.proto = "udp"  -> UdpFields(s, k, i, sum)
      [] p.proto = "tcp"  -> TcpFields(s, k, i, sum)
      [] p.proto = "icmp" -> IcmpFields(p, sum)
      [] OTHER -> SignFields(p)          \* "sign"

\* protocolFrameValue() with a given checksum; the MAC's own one has no variable fields.
ValueWith(s, k, i, sum) ==
    LET p == Proto(s, k) IN
    Overwritten(CASE p.proto = "payload" -> PayloadBytes(s, k, i)
                  [] p.proto = "hexdump" -> HexDumpBytes(s, k, i)
                  [] OTHER -> Pack(FieldBits(p), FieldValues(s, k, i, sum)),
                IF p.proto = "mac" THEN <<>> ELSE [n \in DOMAIN p.vary |-> Counter(p.vary[n], i)])

-----------------------------------------------------------------------------
(* Checksums.  The operators give ~cksum, the sum that is still to be          *)
(* complemented.                                                            *)

\* protocolFrameCksum(CksumIp)
OwnSum(s, k, i) == Sum16(ValueWith(s, k, i, 0))

\* Mutant: a protocol at an odd offset is summed like the others.
PayloadSumUnswapped(s, k, i) == Folded(Total([l \in 1 .. Top(s) - k |-> OwnSum(s, k + l, i)]))
\* protocolFramePayloadCksum(): what comes after the first at an odd offset - from
\* the start of the frame - is swapped.
PayloadSum(s, k, i) ==
    LET Turned(l, sum) ==
            IF l > k + 1 /\ ProtocolFrameOffset(s, l, i) % 2 = 1 THEN Swap16(sum) ELSE sum
    IN  Folded(Total([l \in 1 .. Top(s) - k |-> Turned(k + l, OwnSum(s, k + l, i))]))

IpsBefore(s, k) == {l \in 1 .. k - 1 : Proto(s, l).proto \in {"ip4", "ip6"}}
Addresses(p, header) == IF p.proto = "ip4" THEN SubSeq(header, 13, 20) ELSE SubSeq(header, 9, 40)
\* protocolFrameHeaderCksum(CksumIpPseudo): addresses of the nearest IP header before.
PseudoSum(s, k, i) ==
    LET ip == Max(IpsBefore(s, k)) IN
    IF IpsBefore(s, k) = {} THEN 0
    ELSE Folded(Sum16(Addresses(Proto(s, ip), ValueWith(s, ip, i, 0))) + ProtocolFrameSize(s, k, i)
                  + ProtocolFramePayloadSize(s, k, i) + ProtocolId(Proto(s, k), "ip"))

\* The checksum fields.
HasPseudoHeader(p) == p.proto \in {"udp", "tcp"} \/ (p.proto = "icmp" /\ p.version = 6)
Checksum(s, k, i) ==
    LET p == Proto(s, k)
        Complement(sum) == IF p.proto = "udp" /\ sum = 65535 THEN 65535 ELSE 65535 - sum
        behind == IF p.proto = "ip4" THEN 0
                  ELSE PayloadSum(s, k, i) + IF HasPseudoHeader(p) THEN PseudoSum(s, k, i) ELSE 0
    IN  Given(p, "cksum", Complement(Folded(OwnSum(s, k, i) + behind)))

Checksummed == {"ip4", "udp", "tcp", "icmp"}
ProtocolFrameValue(s, k, i) ==
    ValueWith(s, k, i, IF Proto(s, k).proto \in Checksummed THEN Checksum(s, k, i) ELSE 0)

-----------------------------------------------------------------------------
(* Frames                                                                  *)

\* How many different values a protocol has.  protocolFramePayloadVariableCount()
\* returns false, so that UDP, TCP and 802.3 count their own variable fields only.
CountOfMode(a) == IF a.mode = "fixed" THEN 1 ELSE a.count
ModeCounts(p) ==
    CASE p.proto \in {"mac", "ip4", "ip6"} -> <<CountOfMode(p.src), CountOfMode(p.dst)>>
      [] p.proto = "arp" -> <<CountOfMode(p.senderHw), CountOfMode(p.senderProto),
                              CountOfMode(p.targetHw), CountOfMode(p.targetProto)>>
      [] OTHER -> <<>>
ProtocolFrameVariableCount(s, k) ==
    LET p == Proto(s, k)
        own == LcmOf([n \in DOMAIN p.vary |-> p.vary[n].count])
    IN  Lcm(own, IF p.proto = "payload" THEN FrameLenCount(s) ELSE LcmOf(ModeCounts(p)))

CountOfProtocols(s) == LcmOf([k \in 1 .. Top(s) |-> ProtocolFrameVariableCount(s, k)])
\* Mutant: frames without a payload are taken to have one length.
FrameVariableCountOfProtocols(s) == CountOfProtocols(s)
FrameVariableCount(s) == Lcm(CountOfProtocols(s), FrameLenCount(s))

\* gcd() and lcm() are quint64, the counts are kept and returned as int, and nothing looks
\* whether they fit: of a stream with more frames than an int holds nothing is said here.
ASSUME CountAssumption == \A s \in FrameStreams : FrameVariableCount(s) <= 2147483647

\* StreamBase::frameValue()
FrameValue(s, i) ==
    LET Fitted(bytes, size) == [n \in 1 .. size |-> IF n <= Len(bytes) THEN bytes[n] ELSE 0]
    IN  Fitted(FlattenSeq([k \in 1 .. Top(s) |-> ProtocolFrameValue(s, k, i)]),
            Min({FrameLen(s, i) - FcsSize, MaxPktSize}))

FrameInit == stream \in FrameStreams /\ built = 0 /\ frame = <<>>

\* updatePacketListSequential() builds the frames of a set in turn, and only one if
\* they are all the same.
BuildFrame ==
    /\ built < Rounds * FrameVariableCount(stream)
    /\ built' = built + 1
    /\ frame' = IF built = 0 \/ FrameVariableCount(stream) > 1 THEN FrameValue(stream, built) ELSE frame
    /\ UNCHANGED stream

FrameNext == BuildFrame
FrameSpec == FrameInit /\ [][FrameNext]_frameVars

-----------------------------------------------------------------------------
(***************************************************************************)
(* Properties                                                              *)
(***************************************************************************)
index == built - 1

\* The frame has room for all protocols, and for a byte of payload if there is one.
HasPayload == \E k \in 1 .. Top(stream) : Proto(stream, k).proto = "payload"
Intact ==
    /\ built > 0
    /\ Len(frame) = FrameLen(stream, index) - FcsSize
    /\ Len(frame) >= SumOfSizes(stream, Top(stream)) + (IF HasPayload THEN 1 ELSE 0)

Offset(k) == ProtocolFrameOffset(stream, k, index)
FromFrame(at, n) == SubSeq(frame, at + 1, at + n)
Bit(bytes, b) == (bytes[1 + b \div 8] \div 2 ^ (7 - (b % 8))) % 2

\* The fields of protocol k, read bit by bit where it starts in the frame.
FieldsFound(k) ==
    LET p == Proto(stream, k)
        bits == FieldBits(p)
        From(f) == 8 * Offset(k) + Total(SubSeq(bits, 1, f - 1))
        Found(values) ==
            \A f \in DOMAIN bits : \A b \in 0 .. bits[f] - 1 :
                Bit(frame, From(f) + b) = Bit(values[f], 8 * Len(values[f]) - bits[f] + b)
    IN  Found(FieldValues(stream, k, index,
                          IF p.proto \in Checksummed THEN Checksum(stream, k, index) ELSE 0))

\* Where the header says how long what it counts is, and from where it counts.
LengthField ==
    ("dot3" :> [name |-> "length", at |-> 0, from |-> 2]) @@
    ("ip4"  :> [name |-> "totLen", at |-> 2, from |-> 0]) @@
    ("ip6"  :> [name |-> "payloadLength", at |-> 4, from |-> 40]) @@
    ("udp"  :> [name |-> "totLen", at |-> 4, from |-> 0])
LengthReachesEnd(k) ==
    LET field == LengthField[Proto(stream, k).proto]
    IN  field.name \in DOMAIN Proto(stream, k).over
          \/ Offset(k) + field.from + Number(FromFrame(Offset(k) + field.at, 2))
                = FrameProtocolLength(stream, index)

\* A receiver that knows the protocols finds every field of a header in its bits -
\* fields of 3, 4, 12, 13 and 20 bits share bytes - and is led by each length to the end
\* of the data, however long this frame is.
HeadersRead ==
    Intact => \A k \in 1 .. Top(stream) :
        LET p == Proto(stream, k) IN
        p.proto \notin {"payload", "hexdump"} /\ (p.vary = <<>> \/ p.proto = "mac") =>
            FieldsFound(k) /\ (p.proto \in DOMAIN LengthField => LengthReachesEnd(k))

\* What a receiver sums up for protocol k: its bytes, those behind it if it covers them, the
\* addresses of the IP header in front.
ReceivedSum(k) ==
    LET p == Proto(stream, k)
        n == FrameProtocolLength(stream, index) - Offset(k)
        ip == Max(IpsBefore(stream, k))
        pseudo == Sum16(Addresses(Proto(stream, ip), FromFrame(Offset(ip), Len(frame) - Offset(ip))))
                    + n + ProtocolId(p, "ip")
    IN  IF p.proto = "ip4" THEN Sum16(FromFrame(Offset(k), OwnSize(p)))
        ELSE Folded(Sum16(FromFrame(Offset(k), n))
                    + IF HasPseudoHeader(p) /\ IpsBefore(stream, k) # {} THEN pseudo ELSE 0)

Covered(k) == IF Proto(stream, k).proto = "ip4" THEN {} ELSE k + 1 .. Top(stream)

\* Checksums are put together protocol by protocol, each summed as if it were alone; what
\* a receiver sums over the bytes that arrived must still be all ones.  Excepted: a header
\* at an odd offset with more than one protocol behind it, because the swap goes by
\* the offset in the frame (abstractprotocol.cpp:1008), and checksums within checksums, which
\* are counted as zero (abstractprotocol.cpp:616).
ChecksumsVerify ==
    Intact => \A k \in 1 .. Top(stream) :
        \/ Proto(stream, k).proto \notin Checksummed
        \/ "cksum" \in DOMAIN Proto(stream, k).over
        \/ Offset(k) % 2 = 1 /\ Cardinality(Covered(k)) > 1
        \/ \E l \in Covered(k) : Proto(stream, l).proto \in Checksummed
        \/ ReceivedSum(k) = 65535

\* The receive statistics know a stream by the signature at the end of its packets: it
\* is found there for frames of any length, if something fills them, and nothing of the
\* payload in front is taken for it.
SignatureFound ==
    LET last == Proto(stream, Top(stream))
        filled == \E k \in 1 .. Top(stream) : FillsFrame(stream, k)
    IN  Intact /\ filled /\ last.proto = "sign" /\ last.vary = <<>> => PacketGuid(frame) = last.guid

\* The list holds FrameVariableCount frames, which are sent over and over: they must be
\* those the stream would give if it went on.
FramesRepeat ==
    built > 0 => \A m \in 1 .. 2 :
        frame = FrameValue(stream, index + m * FrameVariableCount(stream))
=============================================================================
