------------------------ MODULE MCSchedule --------------------------------
(* Small streams for both schedulers: rates with and without a fraction,   *)
(* sets that fit a packet sequence and sets that do not, tails, disabled and  *)
(* empty streams, frames that do not build.                                   *)
EXTENDS InterleavedSchedule

PacketStream(g, frames, packets, next) ==
    [guid |-> g, enabled |-> TRUE, unit |-> "packets", frames |-> frames,
     unbuilt |-> {}, packets |-> packets, burst |-> 1, bursts |-> 1,
     gap |-> [whole |-> 3333, num |-> 1, den |-> 3], next |-> next]

BurstStream(g, frames, burst, bursts, next) ==
    [guid |-> g, enabled |-> TRUE, unit |-> "bursts", frames |-> frames,
     unbuilt |-> {}, packets |-> 0, burst |-> burst, bursts |-> bursts,
     gap |-> [whole |-> 5000, num |-> 0, den |-> 1], next |-> next]

\* sets of one sequence, tails, no packets at all, a sequence cut by overflow
PlainStreams ==
    {PacketStream(1, 1, 7, "goto_next"), PacketStream(2, 1, 1, "goto_next"),
     PacketStream(3, 1, 0, "stop"), PacketStream(4, 2, 5, "goto_id"),
     [PacketStream(5, 1, 3, "stop") EXCEPT !.enabled = FALSE],
     BurstStream(6, 1, 2, 3, "goto_next"), BurstStream(7, 3, 2, 1, "goto_id"),
     [PacketStream(8, 1, 4, "goto_next") EXCEPT !.gap = [whole |-> 0, num |-> 0, den |-> 1]]}

\* sets that overflow the first packet sequence, frames that do not build
CutStreams ==
    {PacketStream(1, 3, 6, "goto_next"), PacketStream(2, 5, 11, "stop"),
     BurstStream(3, 1, 4, 2, "goto_next"), PacketStream(4, 1, 1, "goto_next"),
     [PacketStream(5, 3, 8, "goto_next") EXCEPT !.unbuilt = {1}]}

UpTo(m, S) == UNION {[1 .. n -> S] : n \in 0 .. m}

CutLists == UpTo(3, CutStreams)

\* Rates for interleaving: three in a second, ten, two bursts, one in a second and a
\* half, one that a clock of the others' gaps never meets; none.  Each also disabled.
Paced(s, whole, num, den) == [s EXCEPT !.gap = [whole |-> whole, num |-> num, den |-> den]]
PacedStreams ==
    LET on == {Paced(PacketStream(11, 1, 1, "goto_next"), 333333, 1, 3),
               Paced(PacketStream(12, 2, 1, "goto_next"), 100000, 0, 1),
               Paced(BurstStream(13, 1, 2, 1, "goto_next"), 475000, 0, 1),
               Paced(PacketStream(14, 1, 1, "goto_next"), 1500000, 0, 1),
               [Paced(PacketStream(15, 3, 1, "goto_next"), 250000, 0, 1) EXCEPT !.unbuilt = {1}],
               Paced(PacketStream(16, 1, 1, "goto_next"), 0, 0, 1),
               Paced(PacketStream(17, 1, 1, "goto_next"), 150000, 0, 1)}
    IN  on \cup {[s EXCEPT !.enabled = FALSE] : s \in on}

InterleavedLists == {l \in UpTo(3, PacedStreams) : \A a, b \in DOMAIN l : a < b => l[a].guid # l[b].guid}
AllLists == UpTo(3, PlainStreams) \cup CutLists
=============================================================================
