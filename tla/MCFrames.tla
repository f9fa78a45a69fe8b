------------------------------ MODULE MCFrames ------------------------------
(* Streams for FrameStack: every protocol, and every way to fill, vary and override. *)
EXTENDS FrameStack

Fixed(addr) == [mode |-> "fixed", addr |-> addr]
Vary(mode, addr, count, step) == [mode |-> mode, addr |-> addr, count |-> count, step |-> step]
Hosts(mode, addr, count) == [mode |-> mode, addr |-> addr, count |-> count]

MacA == <<0, 17, 34, 51, 68, 255>>
MacB == <<2, 0, 0, 255, 255, 254>>
IpA  == <<10, 0, 0, 254>>
IpB  == <<192, 168, 7, 1>>
Net24 == <<255, 255, 255, 0>>
Ip6A == <<32, 1, 13, 184, 0, 0, 0, 0, 0, 0, 0, 0, 255, 255, 255, 255>>
Ip6B == [Ip6A EXCEPT ![16] = 7]

Plain(name) == [proto |-> name, over |-> <<>>, vary |-> <<>>]
MacOf(dst, src) == [dst |-> dst, src |-> src] @@ Plain("mac")
Mac  == MacOf(Fixed(MacA), Fixed(MacB))
Mac6 == MacOf(Vary("inc", MacA, 3, 1), Vary("dec", MacB, 2, 256))
Vlan == [tag |-> 5 * 8192 + 4096 + 2989] @@ Plain("vlan")
Eth2 == Plain("eth2")
Dot3 == Plain("dot3")
Llc  == Plain("llc")
Snap == Plain("snap")
Arp  == [opCode |-> 1, senderHw |-> Vary("dec", MacA, 2, 1), senderProto |-> [mask |-> Net24] @@ Hosts("inc", IpA, 4),
         targetHw |-> Fixed(MacB), targetProto |-> Fixed(IpB)] @@ Plain("arp")
Ip4  == [tos |-> 3, id |-> 1234, flags |-> 2, fragOfs |-> 4660, ttl |-> 127, options |-> <<>>,
         src |-> Fixed(IpA), dst |-> Fixed(IpB)] @@ Plain("ip4")
Ip4Options == [Ip4 EXCEPT !.options = <<7, 4, 4, 1>>]
Ip4Hosts == [Ip4 EXCEPT !.src = [mask |-> Net24] @@ Hosts("inc", IpA, 3),
                        !.dst = [mask |-> Net24] @@ Hosts("dec", IpB, 2)]
Ip6  == [trafficClass |-> 175, flowLabel |-> 703710, hopLimit |-> 64, src |-> Fixed(Ip6A),
         dst |-> Fixed(Ip6B)] @@ Plain("ip6")
Ip6Hosts == [Ip6 EXCEPT !.src = [prefix |-> 64] @@ Hosts("inc", Ip6A, 2)]
Udp  == Plain("udp")
Tcp  == [seq |-> <<1, 2, 3, 4>>, ack |-> <<255, 255, 255, 255>>, rsvd |-> 0, flags |-> 18,
         window |-> 1024, urgPtr |-> 0] @@ Plain("tcp")
Icmp(version, type) ==
    [version |-> version, type |-> type, code |-> 1, id |-> 1234, seq |-> 7] @@ Plain("icmp")
Payload(pattern) == [pattern |-> pattern, word |-> <<222, 173, 190, 239>>] @@ Plain("payload")
Data == Payload("inc_byte")
Hex(content, pad) == [content |-> content, pad |-> pad] @@ Plain("hexdump")
Odd  == Hex(<<1, 2, 3>>, FALSE)
Sign == [guid |-> 6356992 + 97] @@ Plain("sign")        \* looks like a type-length itself

Changing(p, fields) == [p EXCEPT !.vary = fields]
Field(offset, mask, value, mode, count, step) ==
    [offset |-> offset, mask |-> mask, value |-> value, mode |-> mode, count |-> count, step |-> step]
Ports == <<Field(0, <<255, 255>>, <<0, 254>>, "inc", 3, 1), Field(2, <<15, 240>>, <<1, 0>>, "dec", 2, 16)>>
Bytes4 == <<Field(4, <<255, 255, 255, 255>>, <<0, 0, 0, 1>>, "dec", 3, 1)>>
Beyond == <<Field(3, <<255>>, <<9>>, "inc", 4, 2), Field(7, <<255, 255>>, <<1, 1>>, "inc", 2, 1)>>
Over(p, fields) == [p EXCEPT !.over = fields]

Of(len, protocols) == [lenMode |-> "fixed", len |-> len, protocols |-> protocols]
Sizes(mode, min, max, protocols) == [lenMode |-> mode, min |-> min, max |-> max, protocols |-> protocols]

SomeStreams == {
    Of(64, <<Mac6, Eth2, Ip4, Udp, Data, Sign>>),
    Of(68, <<Mac, Vlan, Eth2, Ip4Hosts, Tcp, Payload("fixed_word")>>),
    Of(65, <<Mac, Dot3, Llc, Snap, Ip4, Udp, Payload("dec_byte")>>),
    Of(65, <<Mac, Dot3, Llc, Ip4, Udp, Data>>),
    Of(66, <<Mac, Dot3, Llc, Ip4, Udp, Data, Sign>>),
    Of(78, <<Mac, Eth2, Ip6Hosts, Tcp, Data>>),
    Of(75, <<Mac, Eth2, Ip6, Icmp(6, 128), Data, Sign>>),
    Of(64, <<Mac, Eth2, Ip6, Data>>),
    Of(64, <<Mac, Eth2, Ip4, Icmp(4, 8), Data>>),
    Of(80, <<Mac, Eth2, Ip4, Icmp(4, 3), Ip4, Udp, Data>>),
    Of(64, <<Mac, Eth2, Arp, Data>>),
    Of(72, <<Mac, Eth2, Ip4Options, Udp, Data, Sign>>),
    Of(70, <<Mac, Eth2, Ip4, Ip4, Udp, Data, Sign>>),
    Of(64, <<Mac, Eth2, Ip4, Udp, Odd, Odd, Payload("dec_byte"), Sign>>),
    Of(70, <<Mac, Eth2, Ip4, Changing(Udp, Ports), Data, Sign>>),
    Of(70, <<Mac, Eth2, Ip4, Changing(Tcp, Bytes4), Payload("dec_byte")>>),
    Of(60, <<Mac, Eth2, Changing(Hex(<<9, 8, 7, 6, 5, 4, 3, 2>>, TRUE), Beyond)>>),
    Of(64, <<Mac, Eth2, Over(Ip4, "totLen" :> 40), Over(Udp, "cksum" :> 0), Data>>),
    Of(64, <<Mac, Eth2, Over(Ip4, "hdrLen" :> 6), Over(Udp, "totLen" :> 9), Data, Sign>>),
    Of(64, <<Mac, Over(Dot3, "length" :> 1536), Over(Llc, "dsap" :> 66), Odd>>),
    Of(48, <<Mac, Eth2, Ip4, Udp, Data, Sign>>),
    Of(55, <<Mac, Eth2, Ip4, Udp, Data, Sign>>),
    Of(3, <<Mac, Eth2>>),
    Sizes("inc", 56, 60, <<Mac, Eth2, Ip4, Udp, Data, Sign>>),
    Sizes("dec", 64, 67, <<Mac, Vlan, Vlan, Eth2, Ip4, Udp, Data, Sign>>),
    Sizes("dec", 60, 62, <<Mac6, Dot3, Hex(<<1, 2, 3, 4, 5>>, TRUE)>>),
    Sizes("inc", 30, 34, <<Mac, Eth2, Hex(<<1, 2, 3>>, FALSE)>>),
    Sizes("inc", 95, 98, <<Mac, Eth2, Ip4, Udp, Data, Sign>>)}
=============================================================================
