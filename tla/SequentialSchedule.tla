-------------------------- MODULE SequentialSchedule --------------------------
(***************************************************************************)
(* AbstractPort::updatePacketListSequential(): the scheduler that turns the  *)
(* streams of a port into the packet list of PacketList.tla, one enabled     *)
(* stream after the other in ordinal order.                                  *)
(*                                                                          *)
(* A stream is a record                                                     *)
(*   guid      the stream's identity in signed packets                       *)
(*   enabled   isEnabled()                                                  *)
(*   unit      sendUnit(): "packets" or "bursts"                             *)
(*   frames    frameVariableCount(): after how many frames the content       *)
(*             repeats                                                      *)
(*   unbuilt   the frame indices whose frameValue() is empty                 *)
(*   packets   numPackets()                                                 *)
(*   burst, bursts   burstSize(), numBursts()                                *)
(*   gap       nanoseconds between packets (bursts), a rational              *)
(*             [whole, num, den]; whole = num = 0 for a rate of 0            *)
(*   next      nextWhat(): "stop", "goto_next" or "goto_id"                  *)
(***************************************************************************)
EXTENDS PacketList, Multiples

CONSTANTS StreamLists,         \* the stream lists a port may hold
          MinPacketSetSize     \* minPacketSetSize_ of the platform's port

ASSUME ScheduleAssumption == MinPacketSetSize \in Nat

StreamType ==
    [guid : Nat, enabled : BOOLEAN, unit : {"packets", "bursts"}, frames : Nat \ {0},
     unbuilt : SUBSET Nat, packets : Nat, burst : Nat, bursts : Nat,
     gap : [whole : Nat, num : Nat, den : Nat \ {0}],
     next : {"stop", "goto_next", "goto_id"}]

ASSUME StreamListsAssumption == StreamLists \subseteq Seq(StreamType)

VARIABLES
    streamList_,    \* the port's streams, sorted by ordinal
    list,           \* the packet list under construction
    pc,             \* "stream", "frame", "next", "done"
    i,              \* index of the stream being scheduled
    j,              \* index of the frame within the stream
    now             \* sec and nsec of the next packet, in nanoseconds

vars == <<streamList_, list, pc, i, j, now>>

stream == streamList_[i]

CeilGap(g) == g.whole + (IF g.num > 0 THEN 1 ELSE 0)
\* How many of m gaps are rounded up so that the rate holds on average.
CeilCount(g, m) == (g.num * m) \div g.den

TotalFrames(s) == IF s.unit = "packets" THEN s.packets ELSE s.burst * s.bursts

\* The content repeats every SetSize frames: the smallest multiple of the
\* frame count that also covers whole bursts (bursts) or that is not below the
\* platform's minimum (packets).
SetSize(s) ==
    IF s.unit = "bursts" THEN Lcm(s.frames, s.burst)
    ELSE IF s.frames >= MinPacketSetSize THEN s.frames
    ELSE s.frames * ((MinPacketSetSize + s.frames - 1) \div s.frames)

\* n * x + y frames are to be sent.
SetRepeats(s) == TotalFrames(s) \div SetSize(s)
TailSize(s)   == TotalFrames(s) % SetSize(s)
FramesInSet(s) == IF SetRepeats(s) = 0 THEN 0 ELSE SetSize(s)

\* repeatCount_ is an int.  (Sets of 16 packets or more fit whatever numPackets() is; more
\* than 2^31 - 1 bursts may not.)
RepeatsFit(l) == \A k \in 1 .. Len(l) : SetRepeats(l[k]) <= MaxInt

ASSUME RepeatsAssumption == \A l \in StreamLists : RepeatsFit(l)

BurstLength(s) == IF s.unit = "bursts" THEN s.burst ELSE SetSize(s) + TailSize(s)

\* The pause that follows frame f of the stream, in nanoseconds.
PauseAfter(s, f) ==
    IF f > 0 /\ (f + 1) % BurstLength(s) = 0
    THEN IF s.unit # "bursts" THEN 0
         ELSE IF f < CeilCount(s.gap, SetSize(s)) THEN CeilGap(s.gap) ELSE s.gap.whole
    ELSE IF s.unit # "packets" THEN 0
    ELSE IF f < FramesInSet(s)
    THEN IF f < CeilCount(s.gap, SetSize(s)) THEN CeilGap(s.gap) ELSE s.gap.whole
    ELSE IF f - FramesInSet(s) < CeilCount(s.gap, TailSize(s))
         THEN CeilGap(s.gap) ELSE s.gap.whole

FrameBuilds(s, f) == (f % s.frames) \notin s.unbuilt

-----------------------------------------------------------------------------
InitWith(lists) ==
    /\ streamList_ \in lists
    /\ list = ClearedPacketList
    /\ pc = "stream" /\ i = 1 /\ j = 0 /\ now = 0

Init == InitWith(StreamLists)

\* Mutant: the delay between repeats in nanoseconds, not microseconds.
StreamStartInNanoseconds ==
    /\ pc = "stream" /\ i <= Len(streamList_) /\ stream.enabled
    /\ list' = IF SetRepeats(stream) > 1
               THEN LoopNextPacketSet(list, SetSize(stream), SetRepeats(stream),
                                      stream.gap.whole)
               ELSE list
    /\ j' = 0 /\ pc' = "frame"
    /\ UNCHANGED <<streamList_, i, now>>

\* The next enabled stream: a set that is sent more than once is announced.
StreamStart ==
    /\ pc = "stream" /\ i <= Len(streamList_) /\ stream.enabled
    /\ list' = IF SetRepeats(stream) > 1
               THEN LoopNextPacketSet(list, SetSize(stream), SetRepeats(stream),
                                      stream.gap.whole \div 1000)
               ELSE list
    /\ j' = 0
    /\ pc' = "frame"
    /\ UNCHANGED <<streamList_, i, now>>

StreamSkip ==
    /\ pc = "stream" /\ i <= Len(streamList_) /\ ~stream.enabled
    /\ i' = i + 1
    /\ UNCHANGED <<streamList_, list, pc, j, now>>

\* One frame of the stream: appended with its timestamp, or left out (with its
\* pause) when nothing was built.
FrameAppend ==
    /\ pc = "frame" /\ j < FramesInSet(stream) + TailSize(stream)
    /\ FrameBuilds(stream, j)
    /\ list' = AppendToPacketList(list, [guid |-> stream.guid, ts |-> now \div 1000])
    /\ now' = now + PauseAfter(stream, j)
    /\ j' = j + 1
    /\ UNCHANGED <<streamList_, pc, i>>

FrameSkip ==
    /\ pc = "frame" /\ j < FramesInSet(stream) + TailSize(stream)
    /\ ~FrameBuilds(stream, j)
    /\ j' = j + 1
    /\ UNCHANGED <<streamList_, list, pc, i, now>>

FramesDone ==
    /\ pc = "frame" /\ j >= FramesInSet(stream) + TailSize(stream)
    /\ pc' = "next"
    /\ UNCHANGED <<streamList_, list, i, j, now>>

NextStop ==
    /\ pc = "next" /\ stream.next = "stop"
    /\ pc' = "done"
    /\ UNCHANGED <<streamList_, list, i, j, now>>

\* "goto first": the whole list loops, whatever the stream it names.
NextGotoId ==
    /\ pc = "next" /\ stream.next = "goto_id"
    /\ list' = SetPacketListLoopMode(list, TRUE, CeilGap(stream.gap) \div 1000)
    /\ pc' = "done"
    /\ UNCHANGED <<streamList_, i, j, now>>

NextGotoNext ==
    /\ pc = "next" /\ stream.next = "goto_next"
    /\ i' = i + 1
    /\ pc' = "stream"
    /\ UNCHANGED <<streamList_, list, j, now>>

\* Past the last stream: isSendQueueDirty_ is cleared.
StreamsDone ==
    /\ pc = "stream" /\ i > Len(streamList_)
    /\ pc' = "done"
    /\ UNCHANGED <<streamList_, list, i, j, now>>

Done == pc = "done" /\ UNCHANGED vars

Next ==
    \/ StreamStart \/ StreamSkip
    \/ FrameAppend \/ FrameSkip \/ FramesDone
    \/ NextStop \/ NextGotoId \/ NextGotoNext \/ StreamsDone
    \/ Done

Spec == Init /\ [][Next]_vars /\ WF_vars(Next)

-----------------------------------------------------------------------------
(***************************************************************************)
(* Properties                                                              *)
(***************************************************************************)
order == TransmitOrder(list.seqs)

\* The streams that are transmitted: enabled, and no earlier one ends the list.
Scheduled ==
    {k \in 1 .. Len(streamList_) :
        /\ streamList_[k].enabled
        /\ \A e \in 1 .. k - 1 :
              streamList_[e].enabled => streamList_[e].next = "goto_next"}

\* The frames of all streams that are transmitted build.
AllBuild == \A k \in Scheduled : streamList_[k].unbuilt = {}

\* However a stream's frames are cut into repeated sets, tails and packet
\* sequences, one pass over the finished list sends exactly the frames the
\* streams are configured for, stream after stream (streams whose frames all
\* build).
EveryFrameSentOnce ==
    pc = "done" /\ AllBuild =>
        Guids(order) =
            FlattenSeq([k \in 1 .. Len(streamList_) |->
                IF k \in Scheduled
                THEN [f \in 1 .. TotalFrames(streamList_[k]) |-> streamList_[k].guid]
                ELSE <<>>])

\* run() steps through the finished list by i += repeatSize_ and reads at(i + k):
\* the sets tile the list, so that no step runs past its end.
SetsTileList == pc = "done" => Tiled(list.seqs)

\* Wherever the list is cut, nothing is sent slower than asked: the pause after a
\* packet is at most the gap of its stream, rounded up to a microsecond.  (A set one
\* frame of which does not build is closed by the packets of the stream behind it, and
\* the last of them is paused as the stream in front is rated.)
NeverSlowerThanRated ==
    pc = "done" /\ AllBuild =>
        \A m \in 1 .. Len(order) : \E k \in Scheduled :
            /\ streamList_[k].guid = order[m].guid
            /\ order[m].gap \in 0 .. (CeilGap(streamList_[k].gap) \div 1000) + 1

\* updateStreamStats() attributes each packet that was sent to the stream that sent it,
\* up to two passes and any part of a third, as long as its counts fit an int.  Where a
\* repeated set takes several sequences, packetListSize_ is too small for a pass: from the
\* second pass on it tells more packets than were sent, but never fewer of any stream.
StreamStatsExact ==
    pc = "done" =>
        \A t \in 0 .. 3 * Len(order) : CountsFit(list.seqs, list.listSize, t) =>
            \A k \in 1 .. Len(streamList_) :
                LET g    == streamList_[k].guid
                    told == StreamTxPkts(list.seqs, list.listSize, t, g)
                    sent == CountOf(g, [m \in 1 .. t |-> order[((m - 1) % Len(order)) + 1].guid])
                IN  /\ told >= sent
                    /\ \/ t < list.listSize
                       \/ \A q \in 1 .. Len(list.seqs) : list.seqs[q].repeatSize = 1
                       => told = sent

=============================================================================
