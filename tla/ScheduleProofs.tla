---------------------------- MODULE ScheduleProofs ----------------------------
(***************************************************************************)
(* Proofs about SequentialSchedule and the choice between the schedulers    *)
(* in InterleavedSchedule: whatever streams a port has, of any number, and  *)
(* whatever fits a packet sequence, the sets tile the finished list, one    *)
(* pass over it sends each frame of each stream that is transmitted as      *)
(* often as the stream asks, stream after stream, updateStreamStats()       *)
(* attributes what was sent to the streams that sent it, and no packet is   *)
(* paused for longer than its stream's rate allows; interleaved, packets    *)
(* are in the list when they are due, and none is forgotten.                *)
(*                                                                         *)
(* The inductive invariant is about the list under construction: there are  *)
(* a part X of it that is finished and tiled, and the sequences Y to which  *)
(* packets are added, so that X and Y, sent as they will be once Y is       *)
(* closed, are what is due so far.  For the pauses (Rated) it adds that     *)
(* each sequence sends packets paused as a stream asks, that the last       *)
(* packet's pause, still to be computed, lasts until now, and that all      *)
(* packets of an open set are the current stream's.                         *)
(*                                                                         *)
(* Of the interleaved scheduler SlotInv says, for each steady stream, that  *)
(* its turns so far, as many as bursts says, were on time and that it is    *)
(* due as many gaps after the beginning, which is less than the smallest    *)
(* gap before the clock, or behind the clock if it had its turn (Planned).  *)
(***************************************************************************)
EXTENDS InterleavedSchedule, PacketListProofs

-----------------------------------------------------------------------------
(* The numbers a stream is made of.                                         *)

\* The common divisor of the code is one of the numbers up to the first.
LEMMA GcdRange ==
    ASSUME NEW u \in Nat \ {0}, NEW v \in Nat
    PROVE  Gcd(u, v) \in 1 .. u
  <1> DEFINE Divides(g) == u % g = 0 /\ v % g = 0
             T == {u - g : g \in {h \in 1 .. u : Divides(h)}}
  <1>1. u % 1 = 0 /\ v % 1 = 0
    OBVIOUS
  <1>2. u - 1 \in T /\ T \in SUBSET Nat
    BY <1>1
  <1>3. PICK n \in T : \A m \in T : n <= m
    BY <1>2, LeastNumber
  <1>4. PICK g \in 1 .. u : n = u - g /\ Divides(g)
    BY <1>3
  <1>5. \A h \in 1 .. u : u % h = 0 /\ v % h = 0 => h <= g
    <2> SUFFICES ASSUME NEW h \in 1 .. u, Divides(h) PROVE h <= g
      OBVIOUS
    <2>1. u - h \in T
      OBVIOUS
    <2>2. u - g <= u - h
      BY <1>3, <1>4, <2>1
    <2> QED
      BY <2>2
  <1>6. \E e \in 1 .. u : /\ u % e = 0 /\ v % e = 0
                          /\ \A h \in 1 .. u : u % h = 0 /\ v % h = 0 => h <= e
    BY <1>4, <1>5
  <1> QED
    BY <1>6 DEF Gcd

\* So is the common multiple positive,
LEMMA LcmPositive ==
    ASSUME NEW u \in Nat, NEW v \in Nat
    PROVE  Lcm(u, v) \in Nat \ {0}
  <1> DEFINE a == IF u = 0 THEN 1 ELSE u
             b == IF v = 0 THEN 1 ELSE v
             g == Gcd(a, b)
             p == a * b
  <1>1. a \in Nat \ {0} /\ b \in Nat \ {0}
    OBVIOUS
  <1>2. Lcm(u, v) = p \div g
    BY DEF Lcm
  <1> HIDE DEF a, b
  <1>3. g \in 1 .. a
    BY <1>1, GcdRange
  <1>4. p \in Nat /\ a <= p
    BY <1>1, ProductPositive
  <1> HIDE DEF g, p
  <1>5. g \in Nat \ {0} /\ g <= p
    BY <1>1, <1>3, <1>4
  <1> QED
    BY <1>2, <1>4, <1>5, DividePositive

\* and the size of a set.
LEMMA SetSizePositive ==
    ASSUME NEW s \in StreamType
    PROVE  SetSize(s) \in Nat \ {0}
  <1>1. s.frames \in Nat \ {0} /\ s.burst \in Nat /\ MinPacketSetSize \in Nat
    BY ScheduleAssumption DEF StreamType
  <1>2. CASE s.unit = "bursts"
    BY <1>1, <1>2, LcmPositive DEF SetSize
  <1>3. CASE s.unit # "bursts" /\ s.frames >= MinPacketSetSize
    BY <1>1, <1>3 DEF SetSize
  <1>4. CASE s.unit # "bursts" /\ ~ (s.frames >= MinPacketSetSize)
    <2> DEFINE a == MinPacketSetSize + s.frames - 1
               q == a \div s.frames
    <2>1. a \in Nat /\ s.frames <= a
      BY <1>1, <1>4
    <2> HIDE DEF a
    <2>2. q \in Nat \ {0}
      BY <1>1, <2>1, DividePositive
    <2>3. SetSize(s) = s.frames * q
      BY <1>4 DEF SetSize, a
    <2> HIDE DEF q
    <2> QED
      BY <1>1, <2>2, <2>3, ProductPositive
  <1> QED
    BY <1>2, <1>3, <1>4

\* A stream's frames are its sets and their tail.
LEMMA FramesOfStream ==
    ASSUME NEW s \in StreamType
    PROVE  /\ SetSize(s) \in Nat \ {0} /\ SetRepeats(s) \in Nat
           /\ TailSize(s) \in 0 .. SetSize(s) - 1
           /\ TotalFrames(s) \in Nat /\ TotalFrames(s) = SetSize(s) * SetRepeats(s) + TailSize(s)
           /\ FramesInSet(s) = IF SetRepeats(s) = 0 THEN 0 ELSE SetSize(s)
           /\ FramesInSet(s) \in Nat
  <1>1. s.packets \in Nat /\ s.burst \in Nat /\ s.bursts \in Nat
    BY DEF StreamType
  <1>2. TotalFrames(s) \in Nat
    BY <1>1 DEF TotalFrames
  <1>3. SetSize(s) \in Nat \ {0}
    BY SetSizePositive
  <1>4. /\ SetRepeats(s) \in Nat /\ TailSize(s) \in 0 .. SetSize(s) - 1
        /\ TotalFrames(s) = SetSize(s) * SetRepeats(s) + TailSize(s)
    <2> DEFINE t == TotalFrames(s)
               x == SetSize(s)
    <2> HIDE DEF t, x
    <2>1. t \in Nat /\ x \in Nat \ {0}
      BY <1>2, <1>3 DEF t, x
    <2>2. t \div x \in Nat /\ t % x \in 0 .. x - 1 /\ t = x * (t \div x) + (t % x)
      BY <2>1, DividePositive
    <2>3. SetRepeats(s) = t \div x /\ TailSize(s) = t % x
      BY DEF SetRepeats, TailSize, t, x
    <2> QED
      BY <2>2, <2>3 DEF t, x
  <1> QED
    BY <1>2, <1>3, <1>4 DEF FramesInSet

\* A pause is a time.
LEMMA PauseBounded ==
    ASSUME NEW s \in StreamType, NEW f \in Nat
    PROVE  CeilGap(s.gap) \in Nat /\ PauseAfter(s, f) \in 0 .. CeilGap(s.gap)
           /\ s.gap.whole \in 0 .. CeilGap(s.gap)
  <1>1. s.gap.whole \in Nat /\ s.gap.num \in Nat
    BY DEF StreamType
  <1>2. CeilGap(s.gap) \in Nat /\ s.gap.whole \in 0 .. CeilGap(s.gap)
    BY <1>1 DEF CeilGap
  <1>3. PauseAfter(s, f) \in {0, CeilGap(s.gap), s.gap.whole}
    BY DEF PauseAfter
  <1> QED
    BY <1>1, <1>2, <1>3

-----------------------------------------------------------------------------
(* Type correctness.                                                        *)

\* Every enabled stream in front of the one that is scheduled goes on to the next.
Passed == \A e \in 1 .. i - 1 : streamList_[e].enabled => streamList_[e].next = "goto_next"

\* The type of the scheduler's variables, and where it is.
TypeOK ==
    /\ streamList_ \in Seq(StreamType)
    /\ i \in Nat \ {0} /\ j \in Nat /\ now \in Nat
    /\ pc \in {"stream", "frame", "next", "done"}
    /\ i <= Len(streamList_) + 1
    /\ pc \in {"frame", "next"} => i <= Len(streamList_) /\ stream.enabled
    /\ pc # "done" => Passed
    /\ pc = "frame" => j <= FramesInSet(stream) + TailSize(stream)
    /\ RepeatsFit(streamList_)

\* The stream that is looked at is one of the port's.
LEMMA StreamTyped ==
    ASSUME TypeOK, i <= Len(streamList_)
    PROVE  stream \in StreamType /\ stream = streamList_[i]
  BY DEF TypeOK, stream

\* The scheduler begins with the type.
LEMMA InitTyped == Init => TypeOK
  BY StreamListsAssumption, RepeatsAssumption DEF Init, InitWith, TypeOK, Passed

\* The stream that is left behind goes on to the next.
LEMMA PassedNext ==
    ASSUME TypeOK, Passed, i <= Len(streamList_),
           streamList_[i].enabled => streamList_[i].next = "goto_next",
           i' = i + 1, streamList_' = streamList_
    PROVE  Passed'
  <1> SUFFICES ASSUME NEW e \in 1 .. i' - 1, streamList_[e].enabled
               PROVE  streamList_[e].next = "goto_next"
    BY DEF Passed
  <1>1. e \in 1 .. i - 1 \/ e = i
    BY DEF TypeOK
  <1> QED
    BY <1>1 DEF Passed

\* Every step keeps the type.
LEMMA NextTyped == TypeOK /\ [Next]_vars => TypeOK'
  <1> SUFFICES ASSUME TypeOK, [Next]_vars PROVE TypeOK'
    OBVIOUS
  <1> USE DEF TypeOK
  <1>1. CASE StreamStart
    <2>1. stream \in StreamType
      BY <1>1, StreamTyped DEF StreamStart
    <2>2. FramesInSet(stream) \in Nat /\ TailSize(stream) \in Nat
      BY <2>1, FramesOfStream
    <2> QED
      BY <1>1, <2>2 DEF StreamStart, stream, Passed
  <1>2. CASE StreamSkip
    <2>1. Passed'
      BY <1>2, PassedNext DEF StreamSkip, stream
    <2> QED
      BY <1>2, <2>1 DEF StreamSkip
  <1>3. CASE FrameAppend
    <2>1. stream \in StreamType
      BY <1>3, StreamTyped DEF FrameAppend
    <2>2. FramesInSet(stream) \in Nat /\ TailSize(stream) \in Nat
      BY <2>1, FramesOfStream
    <2>3. PauseAfter(stream, j) \in Nat
      <3>1. j \in Nat
        OBVIOUS
      <3> HIDE DEF TypeOK
      <3> DEFINE s == stream
      <3>2. s \in StreamType
        BY <2>1
      <3> HIDE DEF s
      <3>3. PauseAfter(s, j) \in Nat
        BY <3>1, <3>2, PauseBounded
      <3> QED
        BY <3>3 DEF s
    <2> HIDE DEF stream
    <2>4. stream' = stream
      BY <1>3 DEF FrameAppend, stream
    <2> QED
      BY <1>3, <2>2, <2>3, <2>4 DEF FrameAppend, Passed
  <1>4. CASE FrameSkip
    <2>1. stream \in StreamType
      BY <1>4, StreamTyped DEF FrameSkip
    <2>2. FramesInSet(stream) \in Nat /\ TailSize(stream) \in Nat
      BY <2>1, FramesOfStream
    <2>4. stream' = stream
      BY <1>4 DEF FrameSkip, stream
    <2> QED
      BY <1>4, <2>2, <2>4 DEF FrameSkip, Passed
  <1>5. CASE FramesDone
    BY <1>5 DEF FramesDone, Passed, stream
  <1>6. CASE NextStop
    BY <1>6 DEF NextStop
  <1>7. CASE NextGotoId
    BY <1>7 DEF NextGotoId
  <1>8. CASE NextGotoNext
    <2>1. Passed'
      BY <1>8, PassedNext DEF NextGotoNext, stream
    <2> QED
      BY <1>8, <2>1 DEF NextGotoNext
  <1>9. CASE StreamsDone
    BY <1>9 DEF StreamsDone
  <1>10. CASE UNCHANGED vars
    BY <1>10 DEF vars, Passed, stream
  <1> QED
    BY <1>1, <1>2, <1>3, <1>4, <1>5, <1>6, <1>7, <1>8, <1>9, <1>10 DEF Next, Done

-----------------------------------------------------------------------------
(* The list under construction.                                             *)

\* As long as no set takes several sequences, packetListSize_ is what one pass sends.
Counted == AllSingle(list.seqs) => Len(TransmitOrder(list.seqs)) = list.listSize

\* A cleared list sends nothing.
LEMMA EmptyList ==
    /\ Built(ClearedPacketList, <<>>, <<>>) /\ SentGuids(<<>>) = <<>>
    /\ Len(TransmitOrder(<<>>)) = 0
  <1>1. <<>> \in Seq(SequenceType) /\ Len(<<>>) = 0 /\ <<>> \o <<>> = <<>>
    BY Lists!EmptySeq, Lists!ConcatEmptySeq
  <1>2. Tiled(<<>>)
    <2> DEFINE h == {1}
    <2>1. h \in SUBSET (1 .. Len(<<>>) + 1) /\ TiledBy(<<>>, h)
      BY <1>1 DEF TiledBy
    <2> QED
      BY <2>1 DEF Tiled
  <1>3. Singles(<<>>)
    BY <1>1 DEF Singles
  <1> DEFINE c == ClearedPacketList
  <1>4. /\ c \in BuilderType /\ c.seqs = <<>> /\ c.cur = 0 /\ c.repeatSize = 0
    <2>1. <<>> \in Seq(SequenceType)
      BY <1>1
    <2> DEFINE e == <<>>
               z == 0
    <2>2. c = [seqs |-> e, cur |-> z, repeatStart |-> -1, repeatSize |-> z,
               packetCount |-> z, listSize |-> z, returnTo |-> -1, loopDelay |-> z]
      BY DEF ClearedPacketList
    <2>3. e \in Seq(SequenceType) /\ z \in Nat /\ z = 0 /\ e = <<>>
      BY <2>1
    <2> HIDE DEF e, z, c
    <2>4. c.seqs = e /\ c.cur = z /\ c.repeatSize = z
      BY <2>2
    <2> QED
      BY <2>2, <2>3, <2>4 DEF BuilderType
  <1>5. Built(c, <<>>, <<>>)
    <2> HIDE DEF c
    <2> QED
      BY <1>1, <1>2, <1>3, <1>4 DEF Built
  <1>6. TransmitOrder(<<>>) = <<>>
    <2>1. Enclosed(<<>>)
      BY <1>1, <1>2, TiledEnclosed
    <2>2. TransmitFrom(<<>>)[Len(<<>>) + 1] = <<>>
      BY <2>1, TransmitStep
    <2>3. Len(<<>>) + 1 = 1
      BY <1>1
    <2> QED
      BY <2>2, <2>3 DEF TransmitOrder
  <1>7. SentGuids(<<>>) = <<>>
    BY <1>6 DEF SentGuids, Guids
  <1> QED
    BY <1>1, <1>5, <1>6, <1>7

-----------------------------------------------------------------------------
(* What is due.                                                             *)

\* The streams of list l that are transmitted.
ScheduledIn(l) ==
    {k \in 1 .. Len(l) :
        l[k].enabled /\ \A e \in 1 .. k - 1 : l[e].enabled => l[e].next = "goto_next"}

\* The packets the k-th stream is configured for.
Wanted(l, k) == IF k \in ScheduledIn(l) THEN Copies(l[k].guid, TotalFrames(l[k])) ELSE <<>>

\* Those of the first n streams.
Due(l, n) == FlattenSeq([k \in 1 .. n |-> Wanted(l, k)])

\* They are packets of streams.
LEMMA WantedType ==
    ASSUME NEW l \in Seq(StreamType), NEW k \in 1 .. Len(l)
    PROVE  Wanted(l, k) \in Seq(Nat) /\ l[k].guid \in Nat
  <1>1. l[k] \in StreamType
    OBVIOUS
  <1>2. l[k].guid \in Nat
    BY <1>1 DEF StreamType
  <1>3. TotalFrames(l[k]) \in Nat
    BY <1>1, FramesOfStream
  <1>4. Copies(l[k].guid, TotalFrames(l[k])) \in Seq(Nat)
    BY <1>2, <1>3, CopiesType
  <1>5. <<>> \in Seq(Nat)
    BY Lists!EmptySeq
  <1> QED
    BY <1>2, <1>4, <1>5 DEF Wanted

\* There are none of no stream.
LEMMA DueNone ==
    ASSUME NEW l
    PROVE  Due(l, 0) = <<>>
  <1>1. [k \in 1 .. 0 |-> Wanted(l, k)] = <<>>
    OBVIOUS
  <1> QED
    BY <1>1, FlattenNone DEF Due

\* One stream more.
LEMMA DueNext ==
    ASSUME NEW l \in Seq(StreamType), NEW n \in Nat, n < Len(l)
    PROVE  /\ Due(l, n) \in Seq(Nat) /\ Due(l, n + 1) \in Seq(Nat)
           /\ Due(l, n + 1) = Due(l, n) \o Wanted(l, n + 1)
  <1> DEFINE L == Len(l)
             s == [k \in 1 .. n |-> Wanted(l, k)]
             e == Wanted(l, n + 1)
             t == [k \in 1 .. n + 1 |-> Wanted(l, k)]
  <1>1. L \in Nat
    OBVIOUS
  <1>2. n + 1 \in 1 .. L /\ \A k \in 1 .. n : k \in 1 .. L
    BY <1>1
  <1>3. e \in Seq(Nat) /\ \A k \in 1 .. n : Wanted(l, k) \in Seq(Nat)
    BY <1>2, WantedType
  <1>4. s \in Seq(Seq(Nat)) /\ Len(s) = n
    BY <1>3
  <1>5. /\ \A k \in 1 .. n : Append(s, e)[k] = Wanted(l, k)
        /\ Append(s, e)[n + 1] = e
        /\ Append(s, e) \in Seq(Seq(Nat)) /\ Len(Append(s, e)) = n + 1
    <2>1. \A k \in 1 .. n : s[k] = Wanted(l, k)
      OBVIOUS
    <2> HIDE DEF s, e
    <2>2. /\ \A k \in 1 .. n : Append(s, e)[k] = s[k]
          /\ Append(s, e)[n + 1] = e
          /\ Append(s, e) \in Seq(Seq(Nat)) /\ Len(Append(s, e)) = n + 1
      BY <1>3, <1>4, Lists!AppendProperties
    <2> QED
      BY <2>1, <2>2
  <1>6. t = Append(s, e)
    <2> DEFINE a == Append(s, e)
    <2>1. \A k \in 1 .. n + 1 : a[k] = Wanted(l, k)
      <3> SUFFICES ASSUME NEW k \in 1 .. n + 1 PROVE a[k] = Wanted(l, k)
        OBVIOUS
      <3>1. CASE k \in 1 .. n
        BY <1>5, <3>1
      <3>2. CASE k = n + 1
        BY <1>5, <3>2
      <3> QED
        BY <3>1, <3>2
    <2>2. a \in Seq(Seq(Nat)) /\ Len(a) = n + 1
      BY <1>5
    <2> HIDE DEF a
    <2>3. a = [k \in 1 .. n + 1 |-> a[k]]
      BY <2>2
    <2>4. a = t
      BY <2>1, <2>3
    <2> QED
      BY <2>4 DEF a
  <1>7. FlattenSeq(Append(s, e)) = FlattenSeq(s) \o e /\ FlattenSeq(s) \in Seq(Nat)
    <2> HIDE DEF s, e
    <2> QED
      BY <1>3, <1>4, FlattenAppend, FlattenType
  <1>8. FlattenSeq(s) \o e \in Seq(Nat)
    BY <1>3, <1>7, Lists!ConcatProperties
  <1> QED
    BY <1>6, <1>7, <1>8 DEF Due

\* Streams that are not scheduled add nothing.
LEMMA DueRest ==
    ASSUME NEW l \in Seq(StreamType), NEW a \in Nat, a <= Len(l),
           \A k \in a + 1 .. Len(l) : k \notin ScheduledIn(l)
    PROVE  Due(l, Len(l)) = Due(l, a)
  <1> DEFINE L == Len(l)
             S == {m \in Nat : a + m <= L => Due(l, a + m) = Due(l, a)}
  <1>1. L \in Nat
    OBVIOUS
  <1> HIDE DEF L
  <1>2. 0 \in S
    OBVIOUS
  <1>3. ASSUME NEW m \in S PROVE m + 1 \in S
    <2> SUFFICES ASSUME a + (m + 1) <= L PROVE Due(l, a + (m + 1)) = Due(l, a)
      OBVIOUS
    <2> DEFINE n == a + m
    <2>1. n \in Nat /\ n < L /\ n + 1 = a + (m + 1) /\ Due(l, n) = Due(l, a) /\ n + 1 \in a + 1 .. L
      BY <1>1
    <2> HIDE DEF n, S
    <2>2. Due(l, n) \in Seq(Nat) /\ Due(l, n + 1) = Due(l, n) \o Wanted(l, n + 1)
      BY <2>1, DueNext DEF L
    <2>3. Wanted(l, n + 1) = <<>>
      BY <2>1 DEF Wanted, L
    <2>4. Due(l, n) \o <<>> = Due(l, n)
      BY <2>2, Lists!ConcatEmptySeq
    <2> QED
      BY <2>1, <2>2, <2>3, <2>4
  <1>4. S = Nat
    <2> HIDE DEF S
    <2>1. S \in SUBSET Nat
      BY DEF S
    <2> QED
      BY <1>2, <1>3, <2>1, Induction
  <1>5. L - a \in Nat /\ a + (L - a) = L
    BY <1>1 DEF L
  <1>6. L - a \in S
    BY <1>4, <1>5
  <1> QED
    BY <1>1, <1>5, <1>6 DEF L

\* A set of packets of one stream, repeated.
LEMMA RepeatCopies ==
    ASSUME NEW g \in Nat, NEW m \in Nat, NEW n \in Nat
    PROVE  Repeat(Copies(g, m), n) = Copies(g, n * m)
  <1>1. Copies(g, m) \in Seq(Nat) /\ Len(Copies(g, m)) = m
    BY CopiesType
  <1>2. n * m \in Nat
    OBVIOUS
  <1>3. ASSUME NEW p \in 1 .. n * m PROVE Copies(g, m)[((p - 1) % m) + 1] = g
    <2>1. m # 0
      BY <1>2
    <2>2. (p - 1) % m \in 0 .. m - 1
      BY <1>2, <2>1
    <2>3. ((p - 1) % m) + 1 \in 1 .. m
      BY <2>2
    <2> QED
      BY <2>3 DEF Copies
  <1>4. Repeat(Copies(g, m), n) = [p \in 1 .. n * m |-> Copies(g, m)[((p - 1) % m) + 1]]
    BY <1>1 DEF Repeat
  <1> QED
    BY <1>3, <1>4 DEF Copies

\* The stream whose frames are appended is scheduled.
LEMMA ScheduledNow ==
    ASSUME TypeOK, pc \in {"frame", "next"}
    PROVE  i \in Scheduled /\ i \in 1 .. Len(streamList_)
  BY DEF TypeOK, Scheduled, Passed, stream

-----------------------------------------------------------------------------
(* One stream.                                                              *)

\* How often the packets of a stream are sent when f of its frames were appended and no
\* set is open.
FramesUpTo(s, f) == (IF SetRepeats(s) > 1 THEN (SetRepeats(s) - 1) * SetSize(s) ELSE 0) + f

\* The set of stream s is announced, and f frames do not fill it.
SetOpen(s, f) == SetRepeats(s) > 1 /\ f < SetSize(s)

\* Streams in front of the n-th are in list b, and nothing is open.
Ready(l, b, n) == b.repeatSize = 0 /\ SentGuids(b.seqs) = Due(l, n - 1)

\* So are f frames of the n-th: in the set that is open, Y, behind what is finished, X,
\* or in the list.
Held(l, b, n, f, X, Y) ==
    /\ SetOpen(l[n], f) =>
          /\ b.repeatSize = SetSize(l[n]) /\ b.packetCount = f
          /\ SentGuids(X) = Due(l, n - 1)
          /\ OpenGuids(Y) = Copies(l[n].guid, f)
          /\ Y[1].repeatCount = SetRepeats(l[n])
    /\ ~ SetOpen(l[n], f) =>
          /\ b.repeatSize = 0
          /\ SentGuids(b.seqs) = Due(l, n - 1) \o Copies(l[n].guid, FramesUpTo(l[n], f))

\* Unless a set takes several sequences, packetListSize_ grows as what is sent does.
Grew(b, c) ==
    AllSingle(c.seqs) =>
        /\ AllSingle(b.seqs)
        /\ \E m \in Nat : /\ c.listSize = b.listSize + m
                          /\ Len(TransmitOrder(c.seqs)) = Len(TransmitOrder(b.seqs)) + m

\* What there is to know of the n-th stream.
LEMMA StreamFacts ==
    ASSUME NEW l \in Seq(StreamType), NEW n \in 1 .. Len(l)
    PROVE  /\ n - 1 \in Nat /\ n - 1 < Len(l) /\ n - 1 + 1 = n /\ Len(l) \in Nat
           /\ l[n] \in StreamType /\ l[n].guid \in Nat /\ l[n].gap.whole \in Nat
           /\ SetSize(l[n]) \in Nat \ {0} /\ SetRepeats(l[n]) \in Nat
           /\ TailSize(l[n]) \in Nat
           /\ Due(l, n - 1) \in Seq(Nat)
  <1>1. n - 1 \in Nat /\ n - 1 < Len(l) /\ n - 1 + 1 = n /\ Len(l) \in Nat
    OBVIOUS
  <1>2. l[n] \in StreamType
    OBVIOUS
  <1>3. l[n].guid \in Nat /\ l[n].gap.whole \in Nat
    BY <1>2 DEF StreamType
  <1>4. SetSize(l[n]) \in Nat \ {0} /\ SetRepeats(l[n]) \in Nat /\ TailSize(l[n]) \in Nat
    <2> DEFINE s == l[n]
    <2>1. s \in StreamType
      BY <1>2
    <2> HIDE DEF s
    <2>2. /\ SetSize(s) \in Nat \ {0} /\ SetRepeats(s) \in Nat
          /\ TailSize(s) \in 0 .. SetSize(s) - 1
      BY <2>1, FramesOfStream
    <2>3. TailSize(s) \in Nat
      BY <2>2
    <2> QED
      BY <2>2, <2>3 DEF s
  <1>5. Due(l, n - 1) \in Seq(Nat)
    BY <1>1, DueNext
  <1> QED
    BY <1>1, <1>2, <1>3, <1>4, <1>5

\* No packets.
LEMMA CopiesNone ==
    ASSUME NEW g
    PROVE  Copies(g, 0) = <<>>
  BY DEF Copies

\* A set that is announced has no packets yet.
LEMMA OpenNew ==
    ASSUME NEW n \in Nat, NEW d \in Int, NEW Y, Y = Append(<<>>, NewSequence(n, d))
    PROVE  OpenGuids(Y) = <<>> /\ Y[1].repeatCount = n
  <1> DEFINE y == NewSequence(n, d)
  <1>1. y \in SequenceType /\ y.pkts = <<>> /\ y.repeatCount = n
    BY NewSequenceType
  <1>2. Y = Append(<<>>, y)
    OBVIOUS
  <1> HIDE DEF y
  <1>3. Y = <<y>> /\ Y[1] = y
    BY <1>1, <1>2
  <1>4. OpenGuids(Y) = OpenGuids(<<>>) \o Guids(SequencePackets(y))
    BY <1>1, <1>2, OpenAppend, Lists!EmptySeq
  <1>5. Len(SequencePackets(y)) = 0
    BY <1>1, SequencePacketsType, Lists!EmptySeq
  <1>6. PacketsOf(<<>>, 1, Len(<<>>)) = <<>>
    <2>1. [m \in 1 .. 0 |-> SequencePackets(<<>>[1 + m - 1])] = <<>> /\ Len(<<>>) = 0
      BY Lists!EmptySeq
    <2> QED
      BY <2>1, FlattenNone DEF PacketsOf
  <1>7. Guids(<<>>) = <<>>
    BY Lists!EmptySeq DEF Guids
  <1>8. SequencePackets(y) = <<>>
    BY <1>1, <1>5, SequencePacketsType, Lists!EmptySeq
  <1>9. <<>> \o <<>> = <<>>
    OBVIOUS
  <1> QED
    BY <1>1, <1>3, <1>4, <1>6, <1>7, <1>8, <1>9 DEF OpenGuids

\* What is sent and what is counted are numbers.
LEMMA ListCounts ==
    ASSUME NEW b, NEW X, NEW Y, Built(b, X, Y)
    PROVE  Len(TransmitOrder(b.seqs)) \in Nat /\ b.listSize \in Nat
  <1>1. TransmitOrder(b.seqs) \in Seq(Entry)
    BY BuiltTiled, TiledEnclosed, TransmitType
  <1> QED
    BY <1>1 DEF Built, BuilderType

\* A set is announced: nothing is added to what is sent, and the packets to come are the
\* set's.
Announced(b, x, r, c, X1, Y1) ==
    /\ Built(c, X1, Y1) /\ Grew(b, c)
    /\ b.listSize <= Len(TransmitOrder(b.seqs)) => CountedWithin(c, X1, Y1)
    /\ SentGuids(X1) = SentGuids(b.seqs) /\ OpenGuids(Y1) = <<>> /\ Y1[1].repeatCount = r
    /\ c.repeatSize = x /\ c.packetCount = 0

\* That is what LoopNextPacketSet() leaves.
LEMMA AnnounceSet ==
    ASSUME NEW b, NEW X, NEW Y, Built(b, X, Y), NEW x \in Nat \ {0}, NEW r \in 1 .. MaxInt,
           NEW d \in Int, NEW c, c = LoopNextPacketSet(b, x, r, d)
    PROVE  \E X1, Y1 : Announced(b, x, r, c, X1, Y1)
  <1>1. NewSet(b, x, r, d, c)
    BY LoopBuilt
  <1> DEFINE Y1 == Append(<<>>, NewSequence(r, d))
  <1>2. OpenGuids(Y1) = <<>> /\ Y1[1].repeatCount = r /\ r \in Nat \ {0}
    <2>1. r \in Nat \ {0}
      BY WidthAssumption
    <2> QED
      BY <2>1, OpenNew
  <1>3. Built(c, b.seqs, Y1)
    BY <1>1 DEF NewSet
  <1>6. Len(Y1) = 1
    OBVIOUS
  <1> HIDE DEF Y1
  <1>4. Grew(b, c)
    <2>1. Len(TransmitOrder(b.seqs)) \in Nat /\ b.listSize \in Nat
      BY ListCounts
    <2>2. c.listSize = b.listSize + 0
          /\ Len(TransmitOrder(c.seqs)) = Len(TransmitOrder(b.seqs)) + 0
      BY <1>1, <2>1 DEF NewSet
    <2> QED
      BY <1>1, <2>2 DEF Grew, NewSet
  <1>7. b.listSize <= Len(TransmitOrder(b.seqs)) => CountedWithin(c, b.seqs, Y1)
    <2>1. Len(TransmitOrder(b.seqs)) \in Nat /\ b.listSize \in Nat
      BY ListCounts
    <2>2. r * 0 = 0 /\ Len(OpenGuids(Y1)) = 0
      BY <1>2
    <2>3. /\ Y1[1].repeatCount = r /\ Y1[Len(Y1)].repeatCount = r
          /\ Y1[1].repeatCount * Len(OpenGuids(Y1)) = 0
      BY <1>2, <1>6, <2>2
    <2>4. c.listSize = b.listSize /\ Len(TransmitOrder(c.seqs)) = Len(TransmitOrder(b.seqs))
      BY <1>1 DEF NewSet
    <2> QED
      BY <1>2, <2>1, <2>3, <2>4 DEF CountedWithin
  <1>5. Announced(b, x, r, c, b.seqs, Y1)
    BY <1>1, <1>2, <1>3, <1>4, <1>7 DEF Announced, NewSet
  <1> QED
    BY <1>5

\* The list as StreamStart leaves it.
Begun(b, s) ==
    IF SetRepeats(s) > 1
    THEN LoopNextPacketSet(b, SetSize(s), SetRepeats(s), s.gap.whole \div 1000)
    ELSE b

\* A stream begins: its set is announced, if it is sent more than once.
LEMMA BeginHeld ==
    ASSUME NEW l \in Seq(StreamType), NEW n \in 1 .. Len(l), NEW b, NEW X, NEW Y,
           Built(b, X, Y), RepeatsFit(l), NEW c, c = Begun(b, l[n])
    PROVE  \E X1, Y1 : /\ Built(c, X1, Y1) /\ Grew(b, c)
                       /\ CountedWithin(b, X, Y) => CountedWithin(c, X1, Y1)
                       /\ Ready(l, b, n) => Held(l, c, n, 0, X1, Y1)
  <1> DEFINE g == l[n].guid
             x == SetSize(l[n])
             r == SetRepeats(l[n])
             d == l[n].gap.whole \div 1000
  <1>1. /\ g \in Nat /\ x \in Nat \ {0} /\ r \in Nat /\ d \in Int /\ Due(l, n - 1) \in Seq(Nat)
    BY StreamFacts
  <1>2. Copies(g, 0) = <<>>
    BY CopiesNone
  <1>3. Len(TransmitOrder(b.seqs)) \in Nat /\ b.listSize \in Nat
    BY ListCounts
  <1>4. CASE r > 1
    <2>1. c = LoopNextPacketSet(b, x, r, d)
      BY <1>4 DEF Begun
    <2>2. SetOpen(l[n], 0)
      BY <1>1, <1>4 DEF SetOpen
    <2>6. r <= MaxInt
      BY DEF RepeatsFit
    <2> HIDE DEF x, r, d
    <2>3. PICK X1, Y1 : Announced(b, x, r, c, X1, Y1)
      <3>1. r \in 1 .. MaxInt
        BY <1>1, <1>4, <2>6, WidthAssumption
      <3> QED
        BY <1>1, <2>1, <3>1, AnnounceSet
    <2>4. Ready(l, b, n) => Held(l, c, n, 0, X1, Y1)
      BY <1>2, <2>2, <2>3 DEF Announced, Ready, Held, x, r
    <2>5. Built(c, X1, Y1) /\ Grew(b, c) /\ (CountedWithin(b, X, Y) => CountedWithin(c, X1, Y1))
      BY <2>3 DEF Announced, CountedWithin
    <2> QED
      BY <2>4, <2>5
  <1>5. CASE ~ (r > 1)
    <2>1. c = b /\ ~ SetOpen(l[n], 0)
      BY <1>5 DEF Begun, SetOpen
    <2>2. FramesUpTo(l[n], 0) = 0
      BY <1>5 DEF FramesUpTo
    <2>3. Grew(b, c)
      <3>1. c.listSize = b.listSize + 0
            /\ Len(TransmitOrder(c.seqs)) = Len(TransmitOrder(b.seqs)) + 0
        BY <1>3, <2>1
      <3> QED
        BY <2>1, <3>1 DEF Grew
    <2>4. Due(l, n - 1) \o <<>> = Due(l, n - 1)
      BY <1>1, Lists!ConcatEmptySeq
    <2>5. Ready(l, b, n) => Held(l, c, n, 0, X, Y)
      BY <1>2, <2>1, <2>2, <2>4 DEF Ready, Held
    <2> QED
      BY <2>1, <2>3, <2>5
  <1> QED
    BY <1>4, <1>5

\* A frame is appended.
LEMMA AppendHeld ==
    ASSUME NEW l \in Seq(StreamType), NEW n \in 1 .. Len(l), NEW f \in Nat,
           NEW b, NEW X, NEW Y, Built(b, X, Y),
           NEW pkt \in PacketType, pkt.guid = l[n].guid,
           NEW c, c = AppendToPacketList(b, pkt)
    PROVE  \E X1, Y1 : /\ Built(c, X1, Y1) /\ Grew(b, c)
                       /\ CountedWithin(b, X, Y) => CountedWithin(c, X1, Y1)
                       /\ Held(l, b, n, f, X, Y) => Held(l, c, n, f + 1, X1, Y1)
  <1> DEFINE g == l[n].guid
             x == SetSize(l[n])
             r == SetRepeats(l[n])
             a == Due(l, n - 1)
  <1>1. /\ g \in Nat /\ x \in Nat \ {0} /\ r \in Nat /\ a \in Seq(Nat)
    BY StreamFacts
  <1>2. PICK X1, Y1 : Appended(b, X, Y, pkt, c, X1, Y1)
    BY AppendBuilt
  <1>3. Built(c, X1, Y1) /\ Grew(b, c) /\ (CountedWithin(b, X, Y) => CountedWithin(c, X1, Y1))
    BY <1>2 DEF Appended, Grew
  <1>4. Append(Copies(g, f), g) = Copies(g, f + 1)
    BY <1>1, CopiesAppend
  <1> SUFFICES ASSUME Held(l, b, n, f, X, Y) PROVE Held(l, c, n, f + 1, X1, Y1)
    BY <1>3
  <1>5. CASE SetOpen(l[n], f)
    <2>1. /\ b.repeatSize = x /\ b.packetCount = f /\ SentGuids(X) = a
          /\ OpenGuids(Y) = Copies(g, f) /\ Y[1].repeatCount = r /\ r > 1 /\ f < x
      BY <1>5 DEF Held, SetOpen
    <2>2. b.repeatSize # 0
      BY <1>1, <2>1
    <2>3. CASE f + 1 # x
      <3>1. SetOpen(l[n], f + 1)
        BY <1>1, <2>1, <2>3 DEF SetOpen
      <3>2. /\ c.repeatSize = b.repeatSize /\ c.packetCount = b.packetCount + 1
            /\ X1 = X /\ OpenGuids(Y1) = Append(OpenGuids(Y), pkt.guid)
            /\ Y1[1].repeatCount = Y[1].repeatCount
        BY <1>2, <2>1, <2>2, <2>3 DEF Appended
      <3> QED
        BY <1>4, <2>1, <3>1, <3>2 DEF Held
    <2>4. CASE f + 1 = x
      <3>1. ~ SetOpen(l[n], f + 1)
        BY <2>4 DEF SetOpen
      <3>2. /\ c.repeatSize = 0
            /\ SentGuids(c.seqs) =
                  SentGuids(X) \o Repeat(Append(OpenGuids(Y), pkt.guid), Y[1].repeatCount)
        BY <1>2, <2>1, <2>2, <2>4 DEF Appended
      <3>3. Repeat(Append(OpenGuids(Y), pkt.guid), Y[1].repeatCount) = Copies(g, r * x)
        <4>1. Repeat(Copies(g, x), r) = Copies(g, r * x)
          BY <1>1, RepeatCopies
        <4> QED
          BY <1>4, <2>1, <2>4, <4>1
      <3>4. FramesUpTo(l[n], f + 1) = r * x
        <4>1. FramesUpTo(l[n], f + 1) = (r - 1) * x + x
          BY <2>1, <2>4 DEF FramesUpTo
        <4> HIDE DEF r, x
        <4> QED
          BY <1>1, <4>1
      <3> QED
        BY <2>1, <3>1, <3>2, <3>3, <3>4 DEF Held
    <2> QED
      BY <2>3, <2>4
  <1>6. CASE ~ SetOpen(l[n], f)
    <2> DEFINE k == FramesUpTo(l[n], f)
    <2>1. b.repeatSize = 0 /\ SentGuids(b.seqs) = a \o Copies(g, k)
      BY <1>6 DEF Held
    <2>2. c.repeatSize = 0 /\ SentGuids(c.seqs) = Append(SentGuids(b.seqs), pkt.guid)
      BY <1>2, <2>1 DEF Appended
    <2>3. ~ SetOpen(l[n], f + 1)
      BY <1>1, <1>6 DEF SetOpen
    <2>4. k \in Nat /\ FramesUpTo(l[n], f + 1) = k + 1
      <3> DEFINE e == IF r > 1 THEN (r - 1) * x ELSE 0
      <3>1. k = e + f /\ FramesUpTo(l[n], f + 1) = e + (f + 1)
        BY DEF FramesUpTo
      <3>2. e \in Nat
        <4> HIDE DEF r, x
        <4>1. r > 1 => r - 1 \in Nat
          BY <1>1
        <4>2. r > 1 => (r - 1) * x \in Nat
          BY <1>1, <4>1
        <4> QED
          BY <4>2
      <3> HIDE DEF e, k
      <3> QED
        BY <3>1, <3>2
    <2>5. Append(a \o Copies(g, k), g) = a \o Copies(g, k + 1)
      <3> HIDE DEF a, k, g
      <3> DEFINE u == Copies(g, k)
      <3>1. u \in Seq(Nat) /\ Append(u, g) = Copies(g, k + 1)
        BY <1>1, <2>4, CopiesType, CopiesAppend
      <3> HIDE DEF u
      <3>2. a \o Append(u, g) = Append(a \o u, g)
        BY <1>1, <3>1, AppendCat
      <3> QED
        BY <3>1, <3>2 DEF u
    <2>6. SentGuids(c.seqs) = a \o Copies(g, FramesUpTo(l[n], f + 1))
      BY <2>1, <2>2, <2>4, <2>5
    <2> QED
      BY <2>2, <2>3, <2>6 DEF Held
  <1> QED
    BY <1>5, <1>6

\* All frames of a stream are appended.
LEMMA EndHeld ==
    ASSUME NEW l \in Seq(StreamType), NEW n \in 1 .. Len(l), n \in ScheduledIn(l),
           NEW b, NEW X, NEW Y, NEW f, f = FramesInSet(l[n]) + TailSize(l[n]),
           Held(l, b, n, f, X, Y)
    PROVE  b.repeatSize = 0 /\ SentGuids(b.seqs) = Due(l, n)
  <1> DEFINE g == l[n].guid
             x == SetSize(l[n])
             r == SetRepeats(l[n])
             t == TailSize(l[n])
  <1>1. /\ g \in Nat /\ x \in Nat \ {0} /\ r \in Nat /\ t \in Nat /\ n - 1 \in Nat
        /\ n - 1 < Len(l) /\ n - 1 + 1 = n
    BY StreamFacts
  <1>2. TotalFrames(l[n]) = x * r + t /\ FramesInSet(l[n]) = IF r = 0 THEN 0 ELSE x
    BY StreamFacts, FramesOfStream
  <1>3. ~ SetOpen(l[n], f)
    BY <1>1, <1>2 DEF SetOpen
  <1>4. FramesUpTo(l[n], f) = TotalFrames(l[n])
    <2>1. FramesUpTo(l[n], f) = (IF r > 1 THEN (r - 1) * x ELSE 0) + (IF r = 0 THEN 0 ELSE x) + t
      BY <1>1, <1>2 DEF FramesUpTo
    <2> HIDE DEF r, x, t
    <2>2. CASE r = 0
      BY <1>1, <1>2, <2>1, <2>2
    <2>3. CASE r = 1
      BY <1>1, <1>2, <2>1, <2>3
    <2>4. CASE r > 1
      <3>1. (r - 1) * x + x = x * r
        BY <1>1
      <3>2. (r - 1) * x \in Int
        BY <1>1
      <3> QED
        BY <1>1, <1>2, <2>1, <2>4, <3>1, <3>2
    <2> QED
      BY <1>1, <2>2, <2>3, <2>4
  <1>5. Due(l, n) = Due(l, n - 1) \o Wanted(l, n)
    <2> DEFINE m == n - 1
    <2>1. m \in Nat /\ m < Len(l) /\ m + 1 = n
      BY <1>1
    <2> HIDE DEF m
    <2>2. Due(l, m + 1) = Due(l, m) \o Wanted(l, m + 1)
      BY <2>1, DueNext
    <2> QED
      BY <2>1, <2>2 DEF m
  <1>6. Wanted(l, n) = Copies(g, TotalFrames(l[n]))
    BY DEF Wanted
  <1> QED
    BY <1>3, <1>4, <1>5, <1>6 DEF Held

-----------------------------------------------------------------------------
(* The invariant.                                                           *)

\* How far the scheduler is, X being what is finished and Y what is open.
Placed(X, Y) ==
    /\ pc = "stream" => Ready(streamList_, list, i)
    /\ pc = "frame" => Held(streamList_, list, i, j, X, Y)
    /\ pc = "next" => list.repeatSize = 0 /\ SentGuids(list.seqs) = Due(streamList_, i)
    /\ pc = "done" => SentGuids(list.seqs) = Due(streamList_, Len(streamList_))

\* The inductive invariant: the list is well built, and holds what is due.
ListInv ==
    /\ TypeOK
    /\ Counted
    /\ \E X, Y : Built(list, X, Y) /\ CountedWithin(list, X, Y) /\ (AllBuild => Placed(X, Y))

\* A builder of these members.
BuilderOf(s, p, q, n, k, m, z, u) ==
    [seqs |-> s, cur |-> p, repeatStart |-> q, repeatSize |-> n, packetCount |-> k,
     listSize |-> m, returnTo |-> z, loopDelay |-> u]

\* And its members.
Fields(c, s, p, q, n, k, m, z, u) ==
    /\ c \in BuilderType
    /\ c.seqs = s /\ c.cur = p /\ c.repeatStart = q /\ c.repeatSize = n /\ c.packetCount = k
    /\ c.listSize = m /\ c.returnTo = z /\ c.loopDelay = u

\* It has them.
LEMMA BuilderFields ==
    ASSUME NEW s \in Seq(SequenceType), NEW p \in Nat, NEW q \in Int, NEW n \in Nat,
           NEW k \in Nat, NEW m \in Nat, NEW z \in {-1, 0}, NEW u \in Int
    PROVE  Fields(BuilderOf(s, p, q, n, k, m, z, u), s, p, q, n, k, m, z, u)
  BY DEF BuilderType, BuilderOf, Fields

\* The loop mode is set, and nothing else of the list changes.
Moded(b, X, Y, c) ==
    /\ Built(c, X, Y)
    /\ c.seqs = b.seqs /\ c.repeatSize = b.repeatSize /\ c.listSize = b.listSize
    /\ c.returnTo = 0

\* That is what SetPacketListLoopMode() leaves.
LEMMA LoopModeBuilt ==
    ASSUME NEW b, NEW X, NEW Y, Built(b, X, Y), NEW u \in Int,
           NEW c, c = SetPacketListLoopMode(b, TRUE, u)
    PROVE  Moded(b, X, Y, c)
  <1>1. b \in BuilderType
    BY DEF Built
  <1> DEFINE z == 0
             s == b.seqs
             p == b.cur
             q == b.repeatStart
             n == b.repeatSize
             k == b.packetCount
             m == b.listSize
  <1>2. c = [b EXCEPT !.returnTo = z, !.loopDelay = u]
    BY DEF SetPacketListLoopMode
  <1>3. z \in {-1, 0}
    OBVIOUS
  <1>4. c = BuilderOf(s, p, q, n, k, m, z, u)
    <2> HIDE DEF z
    <2> QED
      BY <1>1, <1>2 DEF BuilderType, BuilderOf
  <1>5. s \in Seq(SequenceType) /\ p \in Nat /\ q \in Int /\ n \in Nat /\ k \in Nat /\ m \in Nat
    BY <1>1 DEF BuilderType
  <1>6. c \in BuilderType /\ c.seqs = s /\ c.cur = p /\ c.repeatStart = q
        /\ c.repeatSize = n /\ c.listSize = m /\ c.returnTo = z
    <2> HIDE DEF z, s, p, q, n, k, m
    <2>1. Fields(BuilderOf(s, p, q, n, k, m, z, u), s, p, q, n, k, m, z, u)
      BY <1>3, <1>5, BuilderFields
    <2>2. Fields(c, s, p, q, n, k, m, z, u)
      BY <1>4, <2>1
    <2> QED
      BY <2>2 DEF Fields
  <1>7. Built(c, X, Y)
    BY <1>6 DEF Built
  <1> QED
    BY <1>6, <1>7 DEF Moded

\* The count stays right as the list grows.
LEMMA CountedNext ==
    ASSUME Counted, Grew(list, list')
    PROVE  Counted'
  BY DEF Counted, Grew

\* Which frames build depends on the streams alone.
LEMMA AllBuildSame ==
    ASSUME streamList_' = streamList_
    PROVE  AllBuild' = AllBuild
  BY DEF AllBuild, Scheduled

\* So does which streams are scheduled.
LEMMA ScheduledSame == Scheduled = ScheduledIn(streamList_)
  BY DEF Scheduled, ScheduledIn

\* The scheduler begins with the invariant.
LEMMA InitList == Init => ListInv
  <1> SUFFICES ASSUME Init PROVE ListInv
    OBVIOUS
  <1>1. TypeOK
    BY InitTyped
  <1>2. list = ClearedPacketList /\ pc = "stream" /\ i = 1
    BY DEF Init, InitWith
  <1>3. list.seqs = <<>> /\ list.repeatSize = 0 /\ list.listSize = 0
    BY <1>2 DEF ClearedPacketList
  <1>4. Built(list, <<>>, <<>>) /\ SentGuids(list.seqs) = <<>> /\ Len(TransmitOrder(list.seqs)) = 0
    BY <1>2, <1>3, EmptyList
  <1>5. SentGuids(list.seqs) = Due(streamList_, i - 1)
    <2>1. i - 1 = 0
      BY <1>2
    <2> QED
      BY <1>4, <2>1, DueNone
  <1>6. Placed(<<>>, <<>>)
    BY <1>2, <1>3, <1>5 DEF Placed, Ready
  <1> QED
    BY <1>1, <1>3, <1>4, <1>6 DEF ListInv, Counted, CountedWithin

\* Every step keeps it.
LEMMA NextList == ListInv /\ [Next]_vars => ListInv'
  <1> SUFFICES ASSUME ListInv, [Next]_vars PROVE ListInv'
    OBVIOUS
  <1>1. TypeOK /\ TypeOK' /\ Counted
    BY NextTyped DEF ListInv
  <1>2. PICK X, Y : Built(list, X, Y) /\ CountedWithin(list, X, Y) /\ (AllBuild => Placed(X, Y))
    BY DEF ListInv
  <1>3. streamList_' = streamList_
    BY DEF Next, vars, StreamStart, StreamSkip, FrameAppend, FrameSkip, FramesDone, NextStop,
           NextGotoId, NextGotoNext, StreamsDone, Done
  <1>4. AllBuild' = AllBuild /\ streamList_ \in Seq(StreamType) /\ i \in Nat \ {0} /\ j \in Nat
        /\ now \in Nat /\ RepeatsFit(streamList_)
    BY <1>1, <1>3, AllBuildSame DEF TypeOK
  <1> DEFINE l == streamList_
  <1>5. CASE StreamStart
    <2>1. i \in 1 .. Len(l) /\ list' = Begun(list, l[i])
      BY <1>4, <1>5 DEF StreamStart, Begun, stream
    <2>2. PICK X1, Y1 : /\ Built(list', X1, Y1) /\ Grew(list, list')
                        /\ CountedWithin(list, X, Y) => CountedWithin(list', X1, Y1)
                        /\ Ready(l, list, i) => Held(l, list', i, 0, X1, Y1)
      BY <1>2, <1>4, <2>1, BeginHeld
    <2>3. AllBuild => Placed(X1, Y1)'
      BY <1>2, <1>3, <1>5, <2>2 DEF StreamStart, Placed
    <2> QED
      BY <1>1, <1>2, <1>4, <2>2, <2>3, CountedNext DEF ListInv
  <1>6. CASE StreamSkip
    <2>1. /\ list' = list /\ i' = i + 1 /\ pc = "stream" /\ pc' = "stream" /\ i \in 1 .. Len(l)
          /\ ~ l[i].enabled
      BY <1>4, <1>6 DEF StreamSkip, stream
    <2>2. Due(l, i) = Due(l, i - 1)
      <3>1. i - 1 \in Nat /\ i - 1 < Len(l) /\ (i - 1) + 1 = i
        BY <2>1
      <3>2. Due(l, i - 1) \in Seq(Nat) /\ Due(l, (i - 1) + 1) = Due(l, i - 1) \o Wanted(l, (i - 1) + 1)
        <4> DEFINE n == i - 1
        <4>1. n \in Nat /\ n < Len(l)
          BY <3>1
        <4> HIDE DEF n
        <4>2. Due(l, n) \in Seq(Nat) /\ Due(l, n + 1) = Due(l, n) \o Wanted(l, n + 1)
          BY <1>4, <4>1, DueNext
        <4> QED
          BY <4>2 DEF n
      <3>3. Wanted(l, i) = <<>>
        BY <2>1 DEF Wanted, ScheduledIn
      <3>4. Due(l, i - 1) \o <<>> = Due(l, i - 1)
        BY <3>2, Lists!ConcatEmptySeq
      <3> QED
        BY <3>1, <3>2, <3>3, <3>4
    <2>3. i' - 1 = i
      BY <1>4, <2>1
    <2>4. AllBuild => Placed(X, Y)'
      BY <1>2, <1>3, <2>1, <2>2, <2>3 DEF Placed, Ready
    <2> QED
      BY <1>1, <1>2, <1>4, <2>1, <2>4 DEF ListInv, Counted
  <1>7. CASE FrameAppend
    <2> DEFINE pkt == [guid |-> stream.guid, ts |-> now \div 1000]
    <2>1. /\ list' = AppendToPacketList(list, pkt) /\ j' = j + 1 /\ i' = i
          /\ pc = "frame" /\ pc' = "frame"
      BY <1>7 DEF FrameAppend
    <2>2. i \in 1 .. Len(l) /\ stream \in StreamType /\ stream = l[i]
      BY <1>1, <1>4, <2>1, StreamTyped DEF TypeOK
    <2>3. pkt \in PacketType /\ pkt.guid = l[i].guid
      <3>1. stream.guid \in Nat
        BY <2>2 DEF StreamType
      <3>2. now \div 1000 \in Int
        BY <1>4
      <3> QED
        BY <2>2, <3>1, <3>2 DEF PacketType
    <2> HIDE DEF pkt
    <2>4. PICK X1, Y1 : /\ Built(list', X1, Y1) /\ Grew(list, list')
                        /\ CountedWithin(list, X, Y) => CountedWithin(list', X1, Y1)
                        /\ Held(l, list, i, j, X, Y) => Held(l, list', i, j + 1, X1, Y1)
      BY <1>2, <1>4, <2>1, <2>2, <2>3, AppendHeld
    <2>5. AllBuild => Placed(X1, Y1)'
      BY <1>2, <1>3, <2>1, <2>4 DEF Placed
    <2> QED
      BY <1>1, <1>2, <1>4, <2>4, <2>5, CountedNext DEF ListInv
  <1>8. CASE FrameSkip
    <2>1. i \in Scheduled /\ stream.unbuilt # {} /\ list' = list
      BY <1>1, <1>8, ScheduledNow DEF FrameSkip, FrameBuilds
    <2>2. ~ AllBuild
      BY <2>1 DEF AllBuild, stream
    <2> QED
      BY <1>1, <1>2, <1>4, <2>1, <2>2 DEF ListInv, Counted
  <1>9. CASE FramesDone
    <2>1. /\ list' = list /\ i' = i /\ pc = "frame" /\ pc' = "next"
          /\ j >= FramesInSet(stream) + TailSize(stream)
      BY <1>9 DEF FramesDone
    <2>2. /\ i \in 1 .. Len(l) /\ stream \in StreamType /\ stream = l[i] /\ i \in ScheduledIn(l)
          /\ j <= FramesInSet(stream) + TailSize(stream)
      BY <1>1, <1>4, <2>1, StreamTyped, ScheduledNow, ScheduledSame DEF TypeOK
    <2>3. j = FramesInSet(l[i]) + TailSize(l[i])
      <3>1. FramesInSet(stream) \in Nat /\ TailSize(stream) \in Int
        BY <2>2, FramesOfStream
      <3> QED
        BY <1>4, <2>1, <2>2, <3>1
    <2>4. Held(l, list, i, j, X, Y) => list.repeatSize = 0 /\ SentGuids(list.seqs) = Due(l, i)
      BY <1>4, <2>2, <2>3, EndHeld
    <2>5. AllBuild => Placed(X, Y)'
      BY <1>2, <1>3, <2>1, <2>4 DEF Placed
    <2> QED
      BY <1>1, <1>2, <1>4, <2>1, <2>5 DEF ListInv, Counted
  <1>10. ASSUME pc = "next", stream.next # "goto_next"
         PROVE  Due(l, Len(l)) = Due(l, i)
    <2>1. i \in 1 .. Len(l) /\ i \in ScheduledIn(l) /\ stream = l[i]
      BY <1>1, <1>10, ScheduledNow, ScheduledSame DEF stream
    <2>2. \A k \in i + 1 .. Len(l) : k \notin ScheduledIn(l)
      <3> SUFFICES ASSUME NEW k \in i + 1 .. Len(l), k \in ScheduledIn(l) PROVE FALSE
        OBVIOUS
      <3>1. i \in 1 .. k - 1
        BY <2>1
      <3>2. l[i].enabled /\ l[i].next # "goto_next"
        BY <1>10, <2>1 DEF ScheduledIn
      <3> QED
        BY <3>1, <3>2 DEF ScheduledIn
    <2>3. i \in Nat /\ i <= Len(l)
      BY <2>1
    <2> QED
      BY <1>4, <2>2, <2>3, DueRest
  <1>11. CASE NextStop
    <2>1. list' = list /\ pc = "next" /\ pc' = "done" /\ stream.next # "goto_next"
      BY <1>11 DEF NextStop
    <2>2. AllBuild => Placed(X, Y)'
      BY <1>2, <1>3, <1>10, <2>1 DEF Placed
    <2> QED
      BY <1>1, <1>2, <1>4, <2>1, <2>2 DEF ListInv, Counted
  <1>12. CASE NextGotoId
    <2> DEFINE u == CeilGap(stream.gap) \div 1000
    <2>1. /\ list' = SetPacketListLoopMode(list, TRUE, u)
          /\ pc = "next" /\ pc' = "done" /\ stream.next # "goto_next"
      BY <1>12 DEF NextGotoId
    <2>2. u \in Int
      <3>1. stream \in StreamType
        BY <1>1, <2>1, StreamTyped DEF TypeOK
      <3>2. CeilGap(stream.gap) \in Nat
        BY <3>1, PauseBounded
      <3> QED
        BY <3>2
    <2> HIDE DEF u
    <2>3. /\ Built(list', X, Y) /\ list'.seqs = list.seqs /\ list'.listSize = list.listSize
          /\ list'.repeatSize = list.repeatSize
      <3>1. Moded(list, X, Y, list')
        BY <1>2, <2>1, <2>2, LoopModeBuilt
      <3> QED
        BY <3>1 DEF Moded
    <2>4. AllBuild => Placed(X, Y)'
      BY <1>2, <1>3, <1>10, <2>1, <2>3 DEF Placed
    <2>5. Counted'
      BY <1>1, <2>3 DEF Counted
    <2>6. CountedWithin(list', X, Y)
      BY <1>2, <2>3 DEF CountedWithin
    <2> QED
      BY <1>1, <1>4, <2>3, <2>4, <2>5, <2>6 DEF ListInv
  <1>13. CASE NextGotoNext
    <2>1. list' = list /\ i' = i + 1 /\ pc = "next" /\ pc' = "stream"
      BY <1>13 DEF NextGotoNext
    <2>2. i' - 1 = i
      BY <1>4, <2>1
    <2>3. AllBuild => Placed(X, Y)'
      BY <1>2, <1>3, <2>1, <2>2 DEF Placed, Ready
    <2> QED
      BY <1>1, <1>2, <1>4, <2>1, <2>3 DEF ListInv, Counted
  <1>14. CASE StreamsDone
    <2>1. list' = list /\ pc = "stream" /\ pc' = "done" /\ i > Len(l)
      BY <1>14 DEF StreamsDone
    <2>2. i - 1 = Len(l)
      BY <1>1, <1>4, <2>1 DEF TypeOK
    <2>3. AllBuild => Placed(X, Y)'
      BY <1>2, <1>3, <2>1, <2>2 DEF Placed, Ready
    <2> QED
      BY <1>1, <1>2, <1>4, <2>1, <2>3 DEF ListInv, Counted
  <1>15. CASE UNCHANGED vars
    <2>1. list' = list /\ pc' = pc /\ i' = i /\ j' = j
      BY <1>15 DEF vars
    <2>2. AllBuild => Placed(X, Y)'
      BY <1>2, <1>3, <2>1 DEF Placed
    <2> QED
      BY <1>1, <1>2, <1>4, <2>1, <2>2 DEF ListInv, Counted
  <1> QED
    BY <1>5, <1>6, <1>7, <1>8, <1>9, <1>11, <1>12, <1>13, <1>14, <1>15 DEF Next, Done

\* The sets tile every list the streams are made into.
LEMMA TilesList == ListInv => Tiled(list.seqs) /\ list.seqs \in Seq(SequenceType)
  BY BuiltTiled DEF ListInv

\* What EveryFrameSentOnce says of a finished list.
LEMMA SendsDue == ListInv => EveryFrameSentOnce
  <1> SUFFICES ASSUME ListInv, pc = "done", AllBuild
               PROVE  Guids(order) =
                        FlattenSeq([k \in 1 .. Len(streamList_) |->
                            IF k \in Scheduled
                            THEN [f \in 1 .. TotalFrames(streamList_[k]) |-> streamList_[k].guid]
                            ELSE <<>>])
    BY DEF EveryFrameSentOnce
  <1>1. SentGuids(list.seqs) = Due(streamList_, Len(streamList_))
    BY DEF ListInv, Placed
  <1>2. Due(streamList_, Len(streamList_)) =
            FlattenSeq([k \in 1 .. Len(streamList_) |->
                IF k \in Scheduled
                THEN [f \in 1 .. TotalFrames(streamList_[k]) |-> streamList_[k].guid]
                ELSE <<>>])
    BY ScheduledSame DEF Due, Wanted, Copies
  <1> QED
    BY <1>1, <1>2 DEF SentGuids, order

\* What StreamStatsExact says of a finished list.
LEMMA StatsTrue == ListInv => StreamStatsExact
  <1> DEFINE l == Len(order)
             size == list.listSize
             Sent(g, t) == CountOf(g, [m \in 1 .. t |-> order[((m - 1) % l) + 1].guid])
             Told(g, t) == StreamTxPkts(list.seqs, size, t, g)
  <1> SUFFICES ASSUME ListInv, pc = "done", NEW t \in 0 .. 3 * l,
                      CountsFit(list.seqs, size, t), NEW k \in 1 .. Len(streamList_)
               PROVE  LET g == streamList_[k].guid
                      IN  /\ Told(g, t) >= Sent(g, t)
                          /\ \/ t < size
                             \/ \A q \in 1 .. Len(list.seqs) : list.seqs[q].repeatSize = 1
                             => Told(g, t) = Sent(g, t)
    BY DEF StreamStatsExact
  <1> DEFINE g == streamList_[k].guid
             a == [m \in 1 .. t |-> order[((m - 1) % l) + 1].guid]
  <1>1. AllSingle(list.seqs) => size = l
    BY DEF ListInv, Counted, order
  <1>2. order \in Seq(Entry) /\ Enclosed(list.seqs)
    BY TilesList, TiledEnclosed, TransmitType DEF order
  <1>3. l \in Nat /\ t \in Nat
    <2>1. l \in Nat
      BY <1>2
    <2> HIDE DEF l
    <2> QED
      BY <2>1
  <1>4. size \in Nat \ {0} /\ size <= l
    <2>1. PICK X, Y : Built(list, X, Y) /\ CountedWithin(list, X, Y)
      BY DEF ListInv
    <2>2. size \in Nat /\ size <= l
      BY <2>1 DEF Built, BuilderType, CountedWithin, order
    <2> QED
      BY <2>2 DEF CountsFit
  <1>5. l # 0
    <2> HIDE DEF l, size
    <2> QED
      BY <1>3, <1>4
  <1>6. a = Around(Guids(order), t)
    <2>1. Len(Guids(order)) = l /\ \A m \in 1 .. l : Guids(order)[m] = order[m].guid
      BY <1>2, GuidsType DEF Guids
    <2> HIDE DEF l
    <2>2. \A m \in 1 .. t : ((m - 1) % l) + 1 \in 1 .. l
      BY <1>3, <1>5
    <2> QED
      BY <2>1, <2>2 DEF Around
  <1>7. Sent(g, t) = CountOf(g, Around(Guids(order), t))
    BY <1>6
  <1>8. /\ Sent(g, t) <= Told(g, t) /\ Sent(g, t) \in Nat /\ Told(g, t) \in Nat
        /\ size = l \/ t < size => Told(g, t) = Sent(g, t)
    <2> DEFINE told == Told(g, t)
               sent == Sent(g, t)
    <2>1. told = StreamTxPkts(list.seqs, size, t, g)
      OBVIOUS
    <2>2. sent = CountOf(g, Around(Guids(TransmitOrder(list.seqs)), t))
      BY <1>7 DEF order
    <2>3. size <= Len(TransmitOrder(list.seqs)) /\ l = Len(TransmitOrder(list.seqs))
      BY <1>4 DEF order
    <2> HIDE DEF told, sent, size, l, g
    <2>4. CountsFit(list.seqs, size, t)
      BY DEF size
    <2>5. /\ sent <= told /\ sent \in Nat /\ told \in Nat
          /\ size = Len(TransmitOrder(list.seqs)) \/ t < size => told = sent
      BY <1>2, <1>3, <1>4, <2>1, <2>2, <2>3, <2>4, StatsNoFewer
    <2> QED
      BY <2>3, <2>5 DEF told, sent
  <1> HIDE DEF Sent, Told, size, l
  <1> QED
    BY <1>1, <1>8 DEF AllSingle, g

-----------------------------------------------------------------------------
(* How slowly packets are sent.                                             *)

\* The entries of T are all there is in the sequences from index i on ...
LEMMA PacketsOfIn ==
    ASSUME NEW T, NEW seqs, NEW x \in Nat \ {0}, NEW k \in Nat, x + k <= Len(seqs) + 1,
           Len(seqs) \in Nat,
           \A q \in 1 .. Len(seqs) : SequencePackets(seqs[q]) \in Seq(T)
    PROVE  PacketsOf(seqs, x, k) \in Seq(T)
  <1>1. ASSUME NEW m \in 1 .. k PROVE SequencePackets(seqs[x + m - 1]) \in Seq(T)
    <2>1. x + m - 1 \in 1 .. Len(seqs)
      OBVIOUS
    <2> QED
      BY <2>1
  <1>2. SequencesOf(seqs, x, k) \in [1 .. k -> Seq(T)]
    BY <1>1 DEF SequencesOf
  <1>3. SequencesOf(seqs, x, k) \in Seq(Seq(T))
    BY <1>2
  <1>4. FlattenSeq(SequencesOf(seqs, x, k)) \in Seq(T)
    BY <1>3, FlattenType
  <1> QED
    BY <1>4 DEF PacketsOf, SequencesOf

\* ... and in what is sent.
LEMMA OrderIn ==
    ASSUME NEW T, NEW seqs, Enclosed(seqs),
           \A q \in 1 .. Len(seqs) : SequencePackets(seqs[q]) \in Seq(T)
    PROVE  TransmitOrder(seqs) \in Seq(T)
  <1> DEFINE L == Len(seqs)
             t == TransmitFrom(seqs)
             Good(n) == \A x \in L + 1 - n .. L + 1 : x \in 1 .. L + 1 => t[x] \in Seq(T)
             S == {n \in Nat : Good(n)}
  <1>1. L \in Nat /\ <<>> \in Seq(T)
    BY DEF Enclosed
  <1>2. 0 \in S
    <2>1. ASSUME NEW x \in L + 1 - 0 .. L + 1 PROVE t[x] \in Seq(T)
      <3>1. x = Len(seqs) + 1
        BY <1>1
      <3> HIDE DEF t
      <3> QED
        BY <1>1, <3>1, TransmitStep DEF t
    <2> QED
      BY <2>1
  <1>3. ASSUME NEW n \in S PROVE n + 1 \in S
    <2> SUFFICES ASSUME NEW x \in L + 1 - (n + 1) .. L + 1, x \in 1 .. L + 1
                 PROVE  t[x] \in Seq(T)
      OBVIOUS
    <2>1. CASE x \in L + 1 - n .. L + 1
      BY <2>1
    <2>2. CASE x \notin L + 1 - n .. L + 1
      <3>1. n \in Nat /\ x \in 1 .. Len(seqs) /\ x = L - n
        BY <1>1, <2>2
      <3> DEFINE next == x + seqs[x].repeatSize
                 rs == Repeat(SetPackets(seqs, x), seqs[x].repeatCount)
      <3>2. /\ next \in x + 1 .. L + 1 /\ seqs[x].repeatCount \in Nat
            /\ seqs[x].repeatSize \in Nat
        BY <3>1, SequenceAt
      <3>3. SetPackets(seqs, x) \in Seq(T)
        <4>1. x \in Nat \ {0} /\ x + seqs[x].repeatSize <= Len(seqs) + 1
          BY <3>1, <3>2, <1>1
        <4> QED
          BY <1>1, <3>2, <4>1, PacketsOfIn DEF SetPackets
      <3>4. rs \in Seq(T)
        BY <3>2, <3>3, RepeatType
      <3>5. t[x] = rs \o t[next]
        BY <3>1, TransmitStep
      <3>6. t[next] \in Seq(T)
        <4>1. next \in L + 1 - n .. L + 1 /\ next \in 1 .. L + 1
          BY <3>1, <3>2, <1>1
        <4> HIDE DEF next, t
        <4> QED
          BY <4>1
      <3> HIDE DEF next, rs, t
      <3> QED
        BY <3>4, <3>5, <3>6, Lists!ConcatProperties
    <2> QED
      BY <2>1, <2>2
  <1>4. S = Nat
    <2> HIDE DEF Good
    <2>1. S \in SUBSET Nat
      OBVIOUS
    <2> HIDE DEF S
    <2> QED
      BY <1>2, <1>3, <2>1, Induction
  <1>5. Good(L)
    BY <1>1, <1>4
  <1>6. 1 \in L + 1 - L .. L + 1 /\ 1 \in 1 .. L + 1
    BY <1>1
  <1> HIDE DEF t
  <1>7. t[1] \in Seq(T)
    BY <1>5, <1>6
  <1> QED
    BY <1>7 DEF t, TransmitOrder

\* The longest pause a stream asks for, in microseconds, rounded up.
Bound(s) == (CeilGap(s.gap) \div 1000) + 1

\* The packets that are not sent slower than a stream of theirs asks for.
RatedPackets(l) ==
    {e \in Entry : \E k \in ScheduledIn(l) : l[k].guid = e.guid /\ e.gap \in 0 .. Bound(l[k])}

RatedSequence(l, y) == SequencePackets(y) \in Seq(RatedPackets(l))

\* The packet's time is that of a packet of the k-th stream, the pause of which ends at t.
StampedFor(l, k, pkt, t) ==
    /\ pkt.guid = l[k].guid
    /\ \E u \in Nat : pkt.ts = u \div 1000 /\ t - u \in 0 .. CeilGap(l[k].gap)

\* A sequence of the n-th stream's set.
OfStreamAlone(s, y) ==
    /\ y.usecDelay \in 0 .. Bound(s)
    /\ \A p \in 1 .. Len(y.pkts) : y.pkts[p].guid = s.guid

\* The list is not slower than its streams; the pause of the last packet ends at t, and
\* what is open of a set is the n-th stream's.
Rated(l, n, b, t) ==
    /\ \A q \in 1 .. Len(b.seqs) : RatedSequence(l, b.seqs[q])
    /\ b.cur # 0 /\ b.seqs[b.cur].pkts # <<>> =>
          \E k \in ScheduledIn(l) :
              /\ b.repeatSize # 0 => k = n
              /\ StampedFor(l, k, Last(b.seqs[b.cur].pkts), t)
    /\ b.cur # 0 /\ b.repeatSize = 0 => b.seqs[b.cur].usecDelay = 0
    /\ b.repeatSize # 0 =>
          \A q \in b.repeatStart + 1 .. Len(b.seqs) : OfStreamAlone(l[n], b.seqs[q])

\* Times that are rounded down are at most one further apart.
LEMMA RoundedApart ==
    ASSUME NEW u \in Nat, NEW t \in Nat, NEW c \in Nat, t - u \in 0 .. c
    PROVE  (t \div 1000) - (u \div 1000) \in 0 .. (c \div 1000) + 1
  OBVIOUS

\* The longest pause is a time.
LEMMA BoundTime ==
    ASSUME NEW s \in StreamType
    PROVE  /\ Bound(s) \in Nat \ {0} /\ CeilGap(s.gap) \in Nat
           /\ s.gap.whole \div 1000 \in 0 .. Bound(s)
           /\ Bound(s) = (CeilGap(s.gap) \div 1000) + 1
  <1>1. CeilGap(s.gap) \in Nat /\ s.gap.whole \in 0 .. CeilGap(s.gap)
    <2>1. 0 \in Nat
      OBVIOUS
    <2> QED
      BY <2>1, PauseBounded
  <1> DEFINE c == CeilGap(s.gap)
             w == s.gap.whole
  <1>2. c \in Nat /\ w \in 0 .. c
    BY <1>1
  <1>3. Bound(s) = (c \div 1000) + 1
    BY DEF Bound
  <1> HIDE DEF c, w
  <1>4. c \div 1000 \in Nat /\ w \div 1000 \in 0 .. (c \div 1000) + 1
    BY <1>2
  <1> QED
    BY <1>2, <1>3, <1>4 DEF c, w

\* A sequence of entries of T.
LEMMA SequenceOver ==
    ASSUME NEW T, NEW U, NEW e \in Seq(U), NEW m \in Nat, Len(e) = m,
           \A p \in 1 .. m : e[p] \in T
    PROVE  e \in Seq(T)
  BY Lists!SeqDef

\* What a sequence sends, one packet at a time.
LEMMA SequencePacketsAt ==
    ASSUME NEW y \in SequenceType
    PROVE  /\ y.pkts \in Seq(PacketType) /\ Len(y.pkts) \in Nat /\ y.usecDelay \in Int
           /\ Len(SequencePackets(y)) = Len(y.pkts)
           /\ \A p \in 1 .. Len(y.pkts) :
                 SequencePackets(y)[p] =
                    [guid |-> y.pkts[p].guid,
                     gap  |-> IF p = Len(y.pkts) THEN y.usecDelay
                              ELSE y.pkts[p + 1].ts - y.pkts[p].ts]
           /\ y.pkts # <<>> => Len(y.pkts) \in 1 .. Len(y.pkts)
                               /\ Last(y.pkts) = y.pkts[Len(y.pkts)]
                               /\ Last(y.pkts) \in PacketType
  <1>1. y.pkts \in Seq(PacketType) /\ Len(y.pkts) \in Nat /\ y.usecDelay \in Int
    BY DEF SequenceType
  <1> DEFINE s == y.pkts
  <1>2. s \in Seq(PacketType)
    BY <1>1
  <1>3. y.pkts # <<>> => Len(y.pkts) \in 1 .. Len(y.pkts) /\ Last(y.pkts) = y.pkts[Len(y.pkts)]
                         /\ Last(y.pkts) \in PacketType
    <2> HIDE DEF s
    <2>1. s # <<>> => Len(s) \in 1 .. Len(s) /\ Last(s) = s[Len(s)] /\ Last(s) \in PacketType
      BY <1>2 DEF Last
    <2> QED
      BY <2>1 DEF s
  <1>4. SequencePackets(y) = [p \in 1 .. Len(y.pkts) |->
            [guid |-> y.pkts[p].guid,
             gap  |-> IF p = Len(y.pkts) THEN y.usecDelay
                      ELSE y.pkts[p + 1].ts - y.pkts[p].ts]]
    BY DEF SequencePackets
  <1>5. Len(SequencePackets(y)) = Len(y.pkts)
    BY SequencePacketsType
  <1> QED
    BY <1>1, <1>3, <1>4, <1>5

\* Nothing is sent slower if only the pause behind the sequence changes, and is right.
LEMMA DelayRated ==
    ASSUME NEW T, NEW y \in SequenceType, NEW z \in SequenceType, z.pkts = y.pkts,
           SequencePackets(y) \in Seq(T),
           y.pkts # <<>> => [guid |-> Last(y.pkts).guid, gap |-> z.usecDelay] \in T
    PROVE  SequencePackets(z) \in Seq(T)
  <1> DEFINE a == SequencePackets(y)
             e == SequencePackets(z)
             m == Len(y.pkts)
  <1>1. /\ m \in Nat /\ Len(a) = m /\ Len(e) = m
        /\ e \in Seq(Entry)
    BY SequencePacketsAt, SequencePacketsType
  <1>2. ASSUME NEW p \in 1 .. m PROVE e[p] \in T
    <2>1. CASE p = m
      <3>1. y.pkts # <<>> /\ Last(y.pkts) = y.pkts[m]
        <4>1. m # 0
          BY <1>1, <2>1
        <4>2. y.pkts # <<>>
          BY <4>1, Lists!EmptySeq
        <4> QED
          BY <4>2, SequencePacketsAt
      <3>2. e[p] = [guid |-> y.pkts[m].guid, gap |-> z.usecDelay]
        BY <2>1, SequencePacketsAt
      <3> QED
        BY <3>1, <3>2
    <2>2. CASE p # m
      <3>1. e[p] = [guid |-> y.pkts[p].guid, gap |-> y.pkts[p + 1].ts - y.pkts[p].ts]
        BY <2>2, SequencePacketsAt
      <3>2. a[p] = [guid |-> y.pkts[p].guid, gap |-> y.pkts[p + 1].ts - y.pkts[p].ts]
        BY <2>2, SequencePacketsAt
      <3>3. a[p] \in T
        BY <1>1
      <3> QED
        BY <3>1, <3>2, <3>3
    <2> QED
      BY <2>1, <2>2
  <1>3. e \in Seq(T)
    <2> HIDE DEF e, m
    <2> QED
      BY <1>1, <1>2, SequenceOver
  <1> QED
    BY <1>3

\* Nor if a packet is added after the right pause.
LEMMA WithRated ==
    ASSUME NEW T, NEW y \in SequenceType, NEW pkt \in PacketType,
           SequencePackets(y) \in Seq(T),
           y.pkts # <<>> => [guid |-> Last(y.pkts).guid, gap |-> pkt.ts - Last(y.pkts).ts] \in T,
           [guid |-> pkt.guid, gap |-> y.usecDelay] \in T
    PROVE  SequencePackets(WithPacket(y, pkt)) \in Seq(T)
  <1> DEFINE z == WithPacket(y, pkt)
             a == SequencePackets(y)
             e == SequencePackets(z)
             m == Len(y.pkts)
  <1>1. /\ z \in SequenceType /\ z.pkts = Append(y.pkts, pkt) /\ z.usecDelay = y.usecDelay
    BY WithPacketType
  <1>2. /\ m \in Nat /\ Len(a) = m /\ y.pkts \in Seq(PacketType)
    BY SequencePacketsAt
  <1>3. /\ Len(z.pkts) = m + 1 /\ z.pkts[m + 1] = pkt
        /\ \A p \in 1 .. m : z.pkts[p] = y.pkts[p]
    <2> DEFINE s == y.pkts
    <2>1. s \in Seq(PacketType) /\ z.pkts = Append(s, pkt) /\ m = Len(s)
      BY <1>1, <1>2
    <2> HIDE DEF s, m
    <2>2. /\ Len(Append(s, pkt)) = Len(s) + 1 /\ Append(s, pkt)[Len(s) + 1] = pkt
          /\ \A p \in 1 .. Len(s) : Append(s, pkt)[p] = s[p]
      BY <2>1
    <2> QED
      BY <2>1, <2>2 DEF s
  <1>4. Len(e) = m + 1 /\ e \in Seq(Entry)
    BY <1>1, <1>3, SequencePacketsAt, SequencePacketsType
  <1>5. ASSUME NEW p \in 1 .. m + 1 PROVE e[p] \in T
    <2>1. CASE p = m + 1
      <3>1. e[p] = [guid |-> z.pkts[p].guid, gap |-> z.usecDelay]
        BY <1>1, <1>3, <2>1, SequencePacketsAt
      <3> QED
        BY <1>1, <1>3, <2>1, <3>1
    <2>2. CASE p \in 1 .. m
      <3>1. p \in 1 .. Len(z.pkts) /\ p # Len(z.pkts)
        BY <1>2, <1>3, <2>2
      <3>2. e[p] = [guid |-> z.pkts[p].guid, gap |-> z.pkts[p + 1].ts - z.pkts[p].ts]
        BY <1>1, <3>1, SequencePacketsAt
      <3>3. CASE p = m
        <4>1. y.pkts # <<>> /\ Last(y.pkts) = y.pkts[m]
          <5>1. m # 0
            BY <1>2, <2>2
          <5>2. y.pkts # <<>>
            BY <5>1, Lists!EmptySeq
          <5> QED
            BY <5>2, SequencePacketsAt
        <4> QED
          BY <1>3, <2>2, <3>2, <3>3, <4>1
      <3>4. CASE p # m
        <4>1. p + 1 \in 1 .. m
          BY <1>2, <2>2, <3>4
        <4>2. a[p] = [guid |-> y.pkts[p].guid, gap |-> y.pkts[p + 1].ts - y.pkts[p].ts]
          BY <2>2, <3>4, SequencePacketsAt
        <4>3. a[p] \in T
          BY <1>2, <2>2
        <4> QED
          BY <1>3, <2>2, <3>2, <4>1, <4>2, <4>3
      <3> QED
        BY <3>3, <3>4
    <2> QED
      BY <1>2, <2>1, <2>2
  <1>6. e \in Seq(T)
    <2> HIDE DEF e, m
    <2> QED
      BY <1>2, <1>4, <1>5, SequenceOver
  <1> QED
    BY <1>6

\* A new sequence sends nothing.
LEMMA NewRated ==
    ASSUME NEW T, NEW n \in Nat, NEW d \in Int
    PROVE  SequencePackets(NewSequence(n, d)) \in Seq(T)
  <1> DEFINE y == NewSequence(n, d)
  <1>1. y \in SequenceType /\ y.pkts = <<>>
    BY NewSequenceType
  <1> HIDE DEF y
  <1>2. Len(SequencePackets(y)) = 0 /\ SequencePackets(y) \in Seq(Entry)
    BY <1>1, SequencePacketsType, Lists!EmptySeq
  <1>3. SequencePackets(y) = <<>>
    BY <1>2, Lists!EmptySeq
  <1> QED
    BY <1>3, Lists!EmptySeq DEF y

\* A stream is rated by its own pauses.
LEMMA PauseRated ==
    ASSUME NEW l \in Seq(StreamType), NEW k \in ScheduledIn(l), NEW d \in 0 .. Bound(l[k])
    PROVE  [guid |-> l[k].guid, gap |-> d] \in RatedPackets(l)
  <1>1. k \in 1 .. Len(l)
    BY DEF ScheduledIn
  <1>2. l[k] \in StreamType
    BY <1>1
  <1>3. l[k].guid \in Nat /\ d \in Int
    BY <1>2, BoundTime DEF StreamType
  <1> DEFINE e == [guid |-> l[k].guid, gap |-> d]
  <1>4. e \in Entry /\ e.guid = l[k].guid /\ e.gap = d
    BY <1>3 DEF Entry
  <1> HIDE DEF e
  <1>5. e \in RatedPackets(l)
    BY <1>4 DEF RatedPackets
  <1> QED
    BY <1>5 DEF e

\* So is the time between a packet and the next.
LEMMA GapRated ==
    ASSUME NEW l \in Seq(StreamType), NEW k \in ScheduledIn(l), NEW t \in Nat,
           NEW last \in PacketType, StampedFor(l, k, last, t)
    PROVE  /\ (t \div 1000) - last.ts \in 0 .. Bound(l[k])
           /\ [guid |-> last.guid, gap |-> (t \div 1000) - last.ts] \in RatedPackets(l)
  <1>1. k \in 1 .. Len(l)
    BY DEF ScheduledIn
  <1>2. l[k] \in StreamType
    BY <1>1
  <1> DEFINE c == CeilGap(l[k].gap)
             d == (t \div 1000) - last.ts
  <1>3. c \in Nat /\ Bound(l[k]) = (c \div 1000) + 1
    <2> DEFINE s == l[k]
    <2>1. s \in StreamType
      BY <1>2
    <2> HIDE DEF s
    <2>2. CeilGap(s.gap) \in Nat /\ Bound(s) = (CeilGap(s.gap) \div 1000) + 1
      BY <2>1, BoundTime
    <2> QED
      BY <2>2 DEF s
  <1>4. PICK u \in Nat : last.ts = u \div 1000 /\ t - u \in 0 .. c
    BY DEF StampedFor
  <1>5. d \in 0 .. Bound(l[k])
    <2> HIDE DEF c
    <2> QED
      BY <1>3, <1>4, RoundedApart
  <1>6. last.guid = l[k].guid
    BY DEF StampedFor
  <1> HIDE DEF d
  <1>7. [guid |-> last.guid, gap |-> d] \in RatedPackets(l)
    BY <1>5, <1>6, PauseRated
  <1> QED
    BY <1>5, <1>7 DEF d

\* What there is to know of a builder whose current sequence is the last.
Indexed(b) ==
    /\ b \in BuilderType
    /\ b.cur # 0 => b.cur = Len(b.seqs) /\ b.cur \in 1 .. Len(b.seqs)
    /\ b.repeatSize # 0 => b.repeatStart \in Nat /\ b.cur # 0 /\ b.repeatStart < Len(b.seqs)

\* It is that.
LEMMA BuiltIndexed ==
    ASSUME NEW b, NEW X, NEW Y, Built(b, X, Y)
    PROVE  Indexed(b) /\ Len(b.seqs) \in Nat
  <1>1. /\ b \in BuilderType /\ X \in Seq(SequenceType) /\ Y \in Seq(SequenceType)
        /\ b.seqs = X \o Y /\ b.cur = (IF Y = <<>> THEN 0 ELSE Len(b.seqs))
        /\ b.repeatSize # 0 => Y # <<>> /\ b.repeatStart = Len(X)
    BY DEF Built, Singles
  <1>2. Len(b.seqs) = Len(X) + Len(Y) /\ Len(X) \in Nat /\ Len(Y) \in Nat
    BY <1>1, CatAt
  <1>3. Y # <<>> => Len(Y) # 0
    BY <1>1, Lists!EmptySeq
  <1> QED
    BY <1>1, <1>2, <1>3 DEF Indexed

\* A sequence is opened behind others that are right.
LEMMA OpenRated ==
    ASSUME NEW l, NEW n, Bound(l[n]) \in Nat, NEW t, NEW b, Indexed(b),
           NEW s \in Seq(SequenceType), Len(s) = Len(b.seqs),
           \A q \in 1 .. Len(s) : RatedSequence(l, s[q]),
           b.repeatSize # 0 =>
              \A q \in b.repeatStart + 1 .. Len(s) : OfStreamAlone(l[n], s[q]),
           NEW r, r = Opened(b, Append(s, Fresh))
    PROVE  Rated(l, n, r, t)
  <1> DEFINE m == Len(s)
             z == Append(s, Fresh)
  <1>1. /\ m \in Nat /\ z \in Seq(SequenceType) /\ Len(z) = m + 1 /\ z[m + 1] = Fresh
        /\ \A q \in 1 .. m : z[q] = s[q]
    BY FreshType, Lists!AppendProperties
  <1>2. /\ r \in BuilderType /\ r.seqs = z /\ r.cur = m + 1
        /\ r.repeatStart = b.repeatStart /\ r.repeatSize = b.repeatSize
    <2>1. b \in BuilderType /\ r = Opened(b, z)
      BY DEF Indexed
    <2> HIDE DEF z
    <2>2. /\ r \in BuilderType /\ r.seqs = z /\ r.cur = Len(b.seqs) + 1
          /\ r.repeatStart = b.repeatStart /\ r.repeatSize = b.repeatSize
      BY <1>1, <2>1, OpenedType
    <2> QED
      BY <2>2
  <1>3. Fresh.pkts = <<>> /\ Fresh.usecDelay = 0 /\ Len(Fresh.pkts) = 0
    <2>1. Fresh.pkts = <<>> /\ Fresh.usecDelay = 0
      BY DEF Fresh, NewSequence
    <2> QED
      BY <2>1
  <1>4. RatedSequence(l, Fresh)
    BY NewRated DEF RatedSequence, Fresh
  <1>5. OfStreamAlone(l[n], Fresh)
    BY <1>3 DEF OfStreamAlone
  <1> HIDE DEF z, m
  <1>6. \A q \in 1 .. Len(r.seqs) : RatedSequence(l, r.seqs[q])
    <2> SUFFICES ASSUME NEW q \in 1 .. m + 1 PROVE RatedSequence(l, z[q])
      BY <1>1, <1>2
    <2>1. q \in 1 .. m \/ q = m + 1
      BY <1>1
    <2> QED
      BY <1>1, <1>4, <2>1 DEF m
  <1>7. ASSUME r.repeatSize # 0, NEW q \in r.repeatStart + 1 .. Len(r.seqs)
        PROVE  OfStreamAlone(l[n], r.seqs[q])
    <2>1. b.repeatStart \in Nat
      BY <1>2, <1>7 DEF Indexed
    <2>2. (q \in 1 .. m /\ q \in b.repeatStart + 1 .. m) \/ q = m + 1
      BY <1>1, <1>2, <1>7, <2>1
    <2> QED
      BY <1>1, <1>2, <1>5, <1>7, <2>2 DEF m
  <1>8. r.seqs[r.cur].pkts = <<>> /\ r.seqs[r.cur].usecDelay = 0
    BY <1>1, <1>2, <1>3
  <1> QED
    BY <1>6, <1>7, <1>8 DEF Rated

\* A sequence whose pause is as long as the n-th stream's may be stays of that stream alone.
LEMMA AloneDelayed ==
    ASSUME NEW s, NEW y, NEW z, OfStreamAlone(s, y), z.pkts = y.pkts,
           z.usecDelay \in 0 .. Bound(s)
    PROVE  OfStreamAlone(s, z)
  BY DEF OfStreamAlone

\* Nothing is sent slower if the pause behind a sequence is set to one that is right.
LEMMA ClosedRated ==
    ASSUME NEW l, NEW y \in SequenceType, NEW d \in Int, RatedSequence(l, y),
           y.pkts # <<>> => [guid |-> Last(y.pkts).guid, gap |-> d] \in RatedPackets(l)
    PROVE  /\ Delayed(y, d) \in SequenceType /\ Delayed(y, d).pkts = y.pkts
           /\ Delayed(y, d).usecDelay = d
           /\ RatedSequence(l, Delayed(y, d))
  <1>1. /\ Delayed(y, d) \in SequenceType /\ Delayed(y, d).pkts = y.pkts
        /\ Delayed(y, d).usecDelay = d
    BY DelayedType
  <1>2. SequencePackets(Delayed(y, d)) \in Seq(RatedPackets(l))
    BY <1>1, DelayRated DEF RatedSequence
  <1> QED
    BY <1>1, <1>2 DEF RatedSequence

\* A full sequence is left with the pause to the packet that did not fit.
LEMMA RoomRated ==
    ASSUME NEW l \in Seq(StreamType), NEW n \in 1 .. Len(l), NEW t \in Nat,
           NEW b, NEW X, NEW Y, Built(b, X, Y), Rated(l, n, b, t),
           NEW pkt \in PacketType, pkt.ts = t \div 1000,
           NEW r, r = RoomForPacket(b, pkt)
    PROVE  Rated(l, n, r, t)
  <1>1. Indexed(b) /\ b.seqs \in Seq(SequenceType) /\ Len(b.seqs) \in Nat
    BY BuiltIndexed, BuiltTiled
  <1>2. Bound(l[n]) \in Nat /\ l[n] \in StreamType
    <2> DEFINE s == l[n]
    <2>1. s \in StreamType
      OBVIOUS
    <2> HIDE DEF s
    <2>2. Bound(s) \in Nat
      BY <2>1, BoundTime
    <2> QED
      BY <2>1, <2>2 DEF s
  <1>3. CASE b.cur = 0
    <2>1. r = Opened(b, Append(b.seqs, Fresh))
      BY <1>3 DEF RoomForPacket, Fresh, Opened
    <2>2. b.repeatSize = 0
      BY <1>1, <1>3 DEF Indexed
    <2>3. \A q \in 1 .. Len(b.seqs) : RatedSequence(l, b.seqs[q])
      BY DEF Rated
    <2> QED
      BY <1>1, <1>2, <2>1, <2>2, <2>3, OpenRated
  <1>4. CASE b.cur # 0 /\ HasFreeSpace(b.seqs[b.cur])
    BY <1>4 DEF RoomForPacket
  <1>5. CASE b.cur # 0 /\ ~ HasFreeSpace(b.seqs[b.cur])
    <2> DEFINE c == b.cur
               y == b.seqs[c]
               d == pkt.ts - Last(y.pkts).ts
               z == Delayed(y, d)
               s == [b.seqs EXCEPT ![c] = z]
    <2>1. c = Len(b.seqs) /\ c \in 1 .. Len(b.seqs) /\ y \in SequenceType
      BY <1>1, <1>5 DEF Indexed
    <2>2. y.pkts # <<>> /\ Last(y.pkts) \in PacketType /\ d \in Int
      BY <1>5, <2>1, GapType
    <2>3. r = Opened(b, Append(s, Fresh))
      <3>1. r = [b EXCEPT !.seqs = Append([b.seqs EXCEPT ![b.cur].usecDelay = d], NewSequence(1, 0)),
                          !.cur = Len(b.seqs) + 1]
        BY <1>5 DEF RoomForPacket
      <3>2. [b.seqs EXCEPT ![b.cur].usecDelay = d] = s
        BY DEF Delayed
      <3> HIDE DEF s, d
      <3> QED
        BY <3>1, <3>2 DEF Fresh, Opened
    <2>5. PICK k \in ScheduledIn(l) :
             (b.repeatSize # 0 => k = n) /\ StampedFor(l, k, Last(y.pkts), t)
      BY <1>5, <2>2 DEF Rated
    <2>6. /\ d \in 0 .. Bound(l[k])
          /\ [guid |-> Last(y.pkts).guid, gap |-> d] \in RatedPackets(l)
      <3> DEFINE last == Last(y.pkts)
      <3>1. last \in PacketType /\ StampedFor(l, k, last, t) /\ d = (t \div 1000) - last.ts
        BY <2>2, <2>5
      <3> HIDE DEF last, d
      <3>2. /\ (t \div 1000) - last.ts \in 0 .. Bound(l[k])
            /\ [guid |-> last.guid, gap |-> (t \div 1000) - last.ts] \in RatedPackets(l)
        BY <3>1, GapRated
      <3> QED
        BY <3>1, <3>2 DEF last
    <2>7. RatedSequence(l, y)
      BY <2>1 DEF Rated
    <2>8. /\ z \in SequenceType /\ z.pkts = y.pkts /\ z.usecDelay = d
          /\ RatedSequence(l, z)
      <3> HIDE DEF y, d
      <3> QED
        BY <2>1, <2>2, <2>6, <2>7, ClosedRated
    <2> HIDE DEF z, d
    <2>9. /\ s \in Seq(SequenceType) /\ Len(s) = Len(b.seqs) /\ s[c] = z
          /\ \A q \in 1 .. Len(b.seqs) : q # c => s[q] = b.seqs[q]
      <3> DEFINE w == b.seqs
      <3>1. w \in Seq(SequenceType) /\ c \in 1 .. Len(w) /\ z \in SequenceType
        BY <1>1, <2>1, <2>8
      <3> HIDE DEF c, w
      <3>2. /\ [w EXCEPT ![c] = z] \in Seq(SequenceType) /\ Len([w EXCEPT ![c] = z]) = Len(w)
            /\ [w EXCEPT ![c] = z][c] = z
            /\ \A q \in 1 .. Len(w) : q # c => [w EXCEPT ![c] = z][q] = w[q]
        BY <3>1
      <3> QED
        BY <3>2 DEF w
    <2> HIDE DEF s
    <2>10. \A q \in 1 .. Len(s) : RatedSequence(l, s[q])
      BY <2>8, <2>9 DEF Rated
    <2>11. ASSUME b.repeatSize # 0, NEW q \in b.repeatStart + 1 .. Len(s)
           PROVE  OfStreamAlone(l[n], s[q])
      <3>1. q \in 1 .. Len(b.seqs) /\ q \in b.repeatStart + 1 .. Len(b.seqs)
        BY <1>1, <2>9, <2>11 DEF Indexed
      <3>2. OfStreamAlone(l[n], b.seqs[q])
        BY <2>11, <3>1 DEF Rated
      <3>3. CASE q # c
        BY <2>9, <3>1, <3>2, <3>3
      <3>4. CASE q = c
        <4>1. OfStreamAlone(l[n], z)
          BY <2>8, <2>5, <2>6, <2>11, <3>2, <3>4, AloneDelayed
        <4> QED
          BY <2>9, <3>4, <4>1
      <3> QED
        BY <3>3, <3>4
    <2> QED
      BY <1>1, <1>2, <2>3, <2>9, <2>10, <2>11, OpenRated
  <1> QED
    BY <1>3, <1>4, <1>5

\* The packet of stream s is sent at t, and its pause ends at e.
SentBetween(s, pkt, t, e) ==
    pkt.guid = s.guid /\ pkt.ts = t \div 1000 /\ e - t \in 0 .. CeilGap(s.gap)

\* A packet is put into the last sequence: its pause ends at e.
LEMMA PutRated ==
    ASSUME NEW l \in Seq(StreamType), NEW n \in ScheduledIn(l), NEW t \in Nat, NEW e \in Nat,
           NEW r \in BuilderType, NEW W \in Seq(SequenceType), NEW y \in SequenceType,
           r.seqs = Append(W, y), r.cur = Len(W) + 1,
           r.repeatSize # 0 => r.repeatStart \in Nat /\ r.repeatStart < Len(r.seqs),
           Rated(l, n, r, t),
           NEW pkt \in PacketType, SentBetween(l[n], pkt, t, e),
           NEW a, a = Put(r, pkt)
    PROVE  Rated(l, n, a, e)
  <1> DEFINE m == Len(W)
             z == WithPacket(y, pkt)
             g == l[n].guid
             bound == Bound(l[n])
  <1>1. /\ m \in Nat /\ Len(r.seqs) = m + 1 /\ r.seqs[m + 1] = y
        /\ \A q \in 1 .. m : r.seqs[q] = W[q]
    BY Lists!AppendProperties
  <1>2. /\ z \in SequenceType /\ z.pkts = Append(y.pkts, pkt) /\ z.usecDelay = y.usecDelay
    BY WithPacketType
  <1>3. /\ a.seqs = Append(W, z) /\ a.cur = m + 1 /\ a.repeatStart = r.repeatStart
        /\ a.repeatSize = r.repeatSize
    BY PutType
  <1>4. /\ Len(a.seqs) = m + 1 /\ a.seqs[m + 1] = z
        /\ \A q \in 1 .. m : a.seqs[q] = r.seqs[q]
    <2> HIDE DEF z, m
    <2> QED
      BY <1>1, <1>2, <1>3, Lists!AppendProperties DEF m
  <1>5. bound \in Nat
    <2> DEFINE s == l[n]
    <2>1. s \in StreamType
      BY DEF ScheduledIn
    <2> HIDE DEF s
    <2>2. Bound(s) \in Nat
      BY <2>1, BoundTime
    <2> QED
      BY <2>2 DEF s
  <1>6. y.usecDelay \in 0 .. bound
    <2>1. CASE r.repeatSize = 0
      <3>1. r.cur # 0 /\ r.seqs[r.cur] = y
        BY <1>1
      <3>2. y.usecDelay = 0
        BY <2>1, <3>1 DEF Rated
      <3> QED
        BY <1>5, <3>2
    <2>2. CASE r.repeatSize # 0
      <3>1. m + 1 \in r.repeatStart + 1 .. Len(r.seqs)
        BY <1>1, <2>2
      <3>2. OfStreamAlone(l[n], y)
        BY <1>1, <2>2, <3>1 DEF Rated
      <3> QED
        BY <3>2 DEF OfStreamAlone
    <2> QED
      BY <2>1, <2>2
  <1>0. pkt.guid = g /\ pkt.ts = t \div 1000 /\ e - t \in 0 .. CeilGap(l[n].gap)
    BY DEF SentBetween
  <1>7. [guid |-> pkt.guid, gap |-> y.usecDelay] \in RatedPackets(l)
    <2> DEFINE d == y.usecDelay
    <2>1. d \in 0 .. Bound(l[n])
      BY <1>6
    <2> HIDE DEF d
    <2>2. [guid |-> l[n].guid, gap |-> d] \in RatedPackets(l)
      BY <2>1, PauseRated
    <2> QED
      BY <1>0, <2>2 DEF d
  <1>8. y.pkts # <<>> =>
           [guid |-> Last(y.pkts).guid, gap |-> pkt.ts - Last(y.pkts).ts] \in RatedPackets(l)
    <2> SUFFICES ASSUME y.pkts # <<>>
                 PROVE  [guid |-> Last(y.pkts).guid, gap |-> pkt.ts - Last(y.pkts).ts]
                            \in RatedPackets(l)
      OBVIOUS
    <2> DEFINE last == Last(y.pkts)
    <2>1. r.cur # 0 /\ r.seqs[r.cur] = y
      BY <1>1
    <2>2. PICK k \in ScheduledIn(l) : StampedFor(l, k, last, t)
      BY <2>1 DEF Rated
    <2>3. last \in PacketType
      BY SequencePacketsAt
    <2> HIDE DEF last
    <2>4. [guid |-> last.guid, gap |-> (t \div 1000) - last.ts] \in RatedPackets(l)
      BY <2>2, <2>3, GapRated
    <2> QED
      BY <1>0, <2>4 DEF last
  <1>9. RatedSequence(l, z)
    <2>1. SequencePackets(y) \in Seq(RatedPackets(l))
      <3>1. m + 1 \in 1 .. Len(r.seqs)
        BY <1>1
      <3>2. RatedSequence(l, r.seqs[m + 1])
        BY <3>1 DEF Rated
      <3> QED
        BY <1>1, <3>2 DEF RatedSequence
    <2> QED
      BY <1>7, <1>8, <2>1, WithRated DEF RatedSequence
  <1> HIDE DEF z
  <1>10. \A q \in 1 .. Len(a.seqs) : RatedSequence(l, a.seqs[q])
    <2> SUFFICES ASSUME NEW q \in 1 .. m + 1 PROVE RatedSequence(l, a.seqs[q])
      BY <1>4
    <2>1. q \in 1 .. m \/ q = m + 1
      BY <1>1
    <2>2. q \in 1 .. m => RatedSequence(l, r.seqs[q])
      BY <1>1 DEF Rated
    <2> QED
      BY <1>4, <1>9, <2>1, <2>2
  <1>11. Last(z.pkts) = pkt /\ z.pkts # <<>> /\ Len(z.pkts) = Len(y.pkts) + 1
         /\ Len(y.pkts) \in Nat /\ z.pkts[Len(y.pkts) + 1] = pkt
         /\ \A p \in 1 .. Len(y.pkts) : z.pkts[p] = y.pkts[p]
    <2> DEFINE s == y.pkts
    <2>1. s \in Seq(PacketType) /\ z.pkts = Append(s, pkt)
      BY <1>2, SequencePacketsAt
    <2> HIDE DEF s
    <2>2. Len(Append(s, pkt)) = Len(s) + 1
          /\ Len(s) \in Nat /\ Append(s, pkt)[Len(s) + 1] = pkt
          /\ \A p \in 1 .. Len(s) : Append(s, pkt)[p] = s[p]
      BY <2>1
    <2>3. Append(s, pkt) # <<>>
      BY <2>2, Lists!EmptySeq
    <2>4. Last(Append(s, pkt)) = pkt
      BY <2>2 DEF Last
    <2> QED
      BY <2>1, <2>2, <2>3, <2>4 DEF s
  <1>12. StampedFor(l, n, pkt, e)
    BY <1>0 DEF StampedFor
  <1>13. ASSUME a.repeatSize # 0, NEW q \in a.repeatStart + 1 .. Len(a.seqs)
         PROVE  OfStreamAlone(l[n], a.seqs[q])
    <2>1. /\ r.repeatSize # 0 /\ r.repeatStart \in Nat
          /\ q \in r.repeatStart + 1 .. Len(r.seqs) /\ (q \in 1 .. m \/ q = m + 1)
      BY <1>1, <1>3, <1>4, <1>13
    <2>2. OfStreamAlone(l[n], r.seqs[q])
      BY <2>1 DEF Rated
    <2>3. CASE q \in 1 .. m
      BY <1>4, <2>2, <2>3
    <2>4. CASE q = m + 1
      <3>1. OfStreamAlone(l[n], y)
        BY <1>1, <2>2, <2>4
      <3>2. \A p \in 1 .. Len(z.pkts) : p \in 1 .. Len(y.pkts) \/ p = Len(y.pkts) + 1
        BY <1>11
      <3>3. OfStreamAlone(l[n], z)
        BY <1>0, <1>2, <1>11, <3>1, <3>2 DEF OfStreamAlone
      <3> QED
        BY <1>4, <2>4, <3>3
    <2> QED
      BY <2>1, <2>3, <2>4
  <1>14. a.repeatSize = 0 => a.seqs[a.cur].usecDelay = 0
    <2>1. r.cur # 0 /\ r.seqs[r.cur] = y
      BY <1>1
    <2> QED
      BY <1>2, <1>3, <1>4, <2>1 DEF Rated
  <1>15. a.seqs[a.cur] = z
    BY <1>3, <1>4
  <1> QED
    BY <1>10, <1>11, <1>12, <1>13, <1>14, <1>15 DEF Rated

\* The pause between repetitions moves from the first sequence of the set to the last.
LEMMA CloseRated ==
    ASSUME NEW l \in Seq(StreamType), NEW n \in ScheduledIn(l), NEW t,
           NEW b, NEW X, NEW Y, Built(b, X, Y), b.repeatSize # 0, Rated(l, n, b, t),
           NEW c, c = ClosePacketSet(b)
    PROVE  Rated(l, n, c, t)
  <1> DEFINE a == Len(X)
             m == Len(Y)
             Z == ClosedOf(Y)
             bound == Bound(l[n])
  <1>1. /\ b \in BuilderType /\ X \in Seq(SequenceType) /\ Y \in Seq(SequenceType)
        /\ b.seqs = X \o Y /\ Y # <<>> /\ b.repeatStart = a /\ Singles(Y)
    BY DEF Built, Singles
  <1>2. /\ a \in Nat /\ m \in Nat \ {0} /\ Len(b.seqs) = a + m
        /\ \A q \in 1 .. a : b.seqs[q] = X[q]
        /\ \A q \in 1 .. m : b.seqs[a + q] = Y[q] /\ Y[q] \in SequenceType
    BY <1>1, CatAt, Lists!EmptySeq
  <1>3. Z \in Seq(SequenceType) /\ Len(Z) = m
    BY <1>1, ClosedOfSet DEF ClosedSet
  <1>4. /\ Len(X \o Z) = a + m
        /\ \A q \in 1 .. a : (X \o Z)[q] = X[q]
        /\ \A q \in 1 .. m : (X \o Z)[a + q] = Z[q]
    <2>1. PICK V \in Seq(SequenceType) : V = Z
      BY <1>3
    <2>2. /\ Len(X \o V) = Len(X) + Len(V)
          /\ \A q \in 1 .. Len(X) : (X \o V)[q] = X[q]
          /\ \A q \in 1 .. Len(V) : (X \o V)[Len(X) + q] = V[q]
      BY <1>1, CatAt
    <2> QED
      BY <1>3, <2>1, <2>2
  <1>5. c.seqs = X \o Z
    BY CloseSeqs
  <1>6. c.cur = 0 /\ c.repeatSize = 0
    <2> DEFINE s == c.seqs
    <2>1. s \in Seq(SequenceType)
      BY <1>1, <1>3, <1>5, Lists!ConcatProperties
    <2> HIDE DEF s
    <2>2. c.seqs = s
      BY DEF s
    <2> QED
      BY <1>1, <2>1, <2>2, CloseType
  <1>7. \A q \in 1 .. m : OfStreamAlone(l[n], Y[q]) /\ RatedSequence(l, Y[q])
    <2> SUFFICES ASSUME NEW q \in 1 .. m
                 PROVE  OfStreamAlone(l[n], Y[q]) /\ RatedSequence(l, Y[q])
      OBVIOUS
    <2>1. a + q \in b.repeatStart + 1 .. Len(b.seqs) /\ a + q \in 1 .. Len(b.seqs)
      BY <1>1, <1>2
    <2>2. OfStreamAlone(l[n], b.seqs[a + q]) /\ RatedSequence(l, b.seqs[a + q])
      BY <2>1 DEF Rated
    <2> QED
      BY <1>2, <2>2
  <1>8. \A q \in 1 .. m : /\ Z[q] \in SequenceType /\ Z[q].pkts = Y[q].pkts
                          /\ Z[q].usecDelay \in 0 .. bound
    <2> SUFFICES ASSUME NEW q \in 1 .. m
                 PROVE  Z[q].pkts = Y[q].pkts /\ Z[q].usecDelay \in 0 .. bound
      BY <1>3
    <2>1. \A p \in 1 .. m : Y[p].usecDelay \in 0 .. bound
      BY <1>7 DEF OfStreamAlone
    <2>2. 1 \in 1 .. m /\ 0 \in 0 .. bound
      <3> DEFINE s == l[n]
      <3>1. s \in StreamType
        BY DEF ScheduledIn
      <3> HIDE DEF s
      <3>2. Bound(s) \in Nat
        BY <3>1, BoundTime
      <3>3. bound \in Nat
        BY <3>2 DEF s
      <3> HIDE DEF bound
      <3> QED
        BY <1>2, <3>3
    <2>3. CASE m = 1
      BY <2>1, <2>3 DEF ClosedOf
    <2>4. CASE m # 1 /\ q = 1
      <3>1. Z[q] = Headed(Y[1], m)
        BY <2>4 DEF ClosedOf
      <3>2. Headed(Y[1], m).pkts = Y[1].pkts /\ Headed(Y[1], m).usecDelay = 0
        BY <1>2, <2>2, HeadedType
      <3> QED
        BY <2>2, <2>4, <3>1, <3>2
    <2>5. CASE m # 1 /\ q # 1 /\ q = m
      <3> DEFINE d == Y[1].usecDelay
      <3>1. Z[q] = Delayed(Y[q], d)
        BY <2>5 DEF ClosedOf
      <3>2. d \in Int /\ d \in 0 .. bound /\ Y[q] \in SequenceType
        BY <1>2, <2>1, <2>2
      <3> HIDE DEF d
      <3>3. Delayed(Y[q], d).pkts = Y[q].pkts /\ Delayed(Y[q], d).usecDelay = d
        BY <3>2, DelayedType
      <3> QED
        BY <3>1, <3>2, <3>3
    <2>6. CASE m # 1 /\ q # 1 /\ q # m
      <3>1. Z[q] = Y[q]
        BY <2>6 DEF ClosedOf
      <3> QED
        BY <2>1, <3>1
    <2> QED
      BY <2>3, <2>4, <2>5, <2>6
  <1> HIDE DEF Z, bound
  <1>9. \A q \in 1 .. m : RatedSequence(l, Z[q])
    <2> SUFFICES ASSUME NEW q \in 1 .. m PROVE RatedSequence(l, Z[q])
      OBVIOUS
    <2>1. PICK y : y = Y[q]
      OBVIOUS
    <2>2. PICK z : z = Z[q]
      OBVIOUS
    <2>3. /\ y \in SequenceType /\ z \in SequenceType /\ z.pkts = y.pkts
          /\ z.usecDelay \in 0 .. Bound(l[n])
          /\ OfStreamAlone(l[n], y) /\ SequencePackets(y) \in Seq(RatedPackets(l))
      BY <1>2, <1>7, <1>8, <2>1, <2>2 DEF bound, RatedSequence
    <2>4. y.pkts # <<>> => [guid |-> Last(y.pkts).guid, gap |-> z.usecDelay] \in RatedPackets(l)
      <3> SUFFICES ASSUME y.pkts # <<>>
                   PROVE  [guid |-> Last(y.pkts).guid, gap |-> z.usecDelay] \in RatedPackets(l)
        OBVIOUS
      <3>1. Last(y.pkts) = y.pkts[Len(y.pkts)] /\ Len(y.pkts) \in 1 .. Len(y.pkts)
        BY <2>3, SequencePacketsAt
      <3>2. Last(y.pkts).guid = l[n].guid
        BY <2>3, <3>1 DEF OfStreamAlone
      <3>3. [guid |-> l[n].guid, gap |-> z.usecDelay] \in RatedPackets(l)
        BY <2>3, PauseRated
      <3> QED
        BY <3>2, <3>3
    <2>5. SequencePackets(z) \in Seq(RatedPackets(l))
      BY <2>3, <2>4, DelayRated
    <2> QED
      BY <2>2, <2>5 DEF RatedSequence
  <1>10. \A q \in 1 .. Len(c.seqs) : RatedSequence(l, c.seqs[q])
    <2> SUFFICES ASSUME NEW q \in 1 .. a + m PROVE RatedSequence(l, c.seqs[q])
      BY <1>4, <1>5
    <2>1. CASE q <= a
      <3>1. q \in 1 .. a /\ q \in 1 .. Len(b.seqs)
        BY <1>2, <2>1
      <3>2. c.seqs[q] = b.seqs[q]
        BY <1>2, <1>4, <1>5, <3>1
      <3>3. RatedSequence(l, b.seqs[q])
        BY <3>1 DEF Rated
      <3> QED
        BY <3>2, <3>3
    <2>2. CASE ~ (q <= a)
      <3>1. q - a \in 1 .. m /\ a + (q - a) = q
        BY <1>2, <2>2
      <3>2. c.seqs[a + (q - a)] = Z[q - a]
        BY <1>4, <1>5, <3>1
      <3> QED
        BY <1>9, <3>1, <3>2
    <2> QED
      BY <2>1, <2>2
  <1> QED
    BY <1>6, <1>10 DEF Rated

\* The steps of AppendToPacketList(): r has room, a has the packet.
AppendSteps(b, pkt, c, r, a, W, y, X, Y) ==
    /\ W \in Seq(SequenceType) /\ y \in SequenceType
    /\ r = RoomForPacket(b, pkt) /\ a = Put(r, pkt)
    /\ r \in BuilderType /\ r.seqs = Append(W, y) /\ r.cur = Len(W) + 1
    /\ r.repeatSize # 0 => r.repeatStart \in Nat /\ r.repeatStart < Len(r.seqs)
    /\ Built(a, X, Y)
    /\ c = a \/ (c = ClosePacketSet(a) /\ a.repeatSize # 0)

\* The last sequence has the room.
LEMMA RoomLast ==
    ASSUME NEW r, NEW X, NEW V \in Seq(SequenceType), NEW y \in SequenceType,
           Built(r, X, Append(V, y))
    PROVE  /\ X \o V \in Seq(SequenceType)
           /\ r.seqs = Append(X \o V, y) /\ r.cur = Len(X \o V) + 1
           /\ r \in BuilderType
           /\ r.repeatSize # 0 => r.repeatStart \in Nat /\ r.repeatStart < Len(r.seqs)
  <1>1. /\ X \in Seq(SequenceType) /\ Singles(V) /\ y.repeatSize = 1
        /\ X \o V \in Seq(SequenceType) /\ Tiled(X \o V)
        /\ r.seqs = Append(X \o V, y)
        /\ r.cur = Len(X \o V) + 1 /\ Len(X \o V) \in Nat
        /\ r.seqs[r.cur] = y /\ r.cur \in 1 .. Len(r.seqs) /\ r.cur = Len(r.seqs)
        /\ r.repeatSize = 0 => V = <<>> /\ y.repeatCount = 1
    BY BuiltLast
  <1>2. /\ r \in BuilderType
        /\ r.repeatSize # 0 => r.repeatStart \in Nat /\ r.repeatStart < Len(r.seqs)
    BY BuiltIndexed DEF Indexed
  <1> QED
    BY <1>1, <1>2

\* A set that has its packets is closed.
LEMMA AppendCloses ==
    ASSUME NEW r, NEW X, NEW V \in Seq(SequenceType), NEW y \in SequenceType,
           Built(r, X, Append(V, y)), HasFreeSpace(y), NEW pkt \in PacketType,
           NEW a, a = Put(r, pkt),
           NEW c, c = IF a.repeatSize > 0 /\ a.packetCount = a.repeatSize
                      THEN ClosePacketSet(a) ELSE a
    PROVE  /\ Built(a, X, Append(V, WithPacket(y, pkt)))
           /\ c = a \/ (c = ClosePacketSet(a) /\ a.repeatSize # 0)
  <1>1. Built(a, X, Append(V, WithPacket(y, pkt)))
    BY PutBuilt
  <1>2. a.repeatSize \in Nat
    BY <1>1 DEF Built, BuilderType
  <1> QED
    BY <1>1, <1>2

\* It takes them.
LEMMA AppendTakes ==
    ASSUME NEW b, NEW X, NEW Y, Built(b, X, Y), NEW pkt \in PacketType,
           NEW c, c = AppendToPacketList(b, pkt)
    PROVE  \E r, a, W, y, X1, Y1 :
              AppendSteps(b, pkt, c, r, a, W, y, X1, Y1)
  <1>1. PICK r : r = RoomForPacket(b, pkt)
    OBVIOUS
  <1>2. PICK a : a = Put(r, pkt)
    OBVIOUS
  <1>3. c = IF a.repeatSize > 0 /\ a.packetCount = a.repeatSize THEN ClosePacketSet(a) ELSE a
    BY <1>1, <1>2 DEF AppendToPacketList, Put
  <1>4. PICK X1 \in Seq(SequenceType), V1 \in Seq(SequenceType), y1 \in SequenceType :
             Roomy(b, X, Y, r, X1, V1, y1)
    BY <1>1, RoomBuilt
  <1>5. Built(r, X1, Append(V1, y1)) /\ HasFreeSpace(y1)
    BY <1>4 DEF Roomy
  <1>6. PICK W : W = X1 \o V1
    OBVIOUS
  <1>7. PICK Y1 : Y1 = Append(V1, WithPacket(y1, pkt))
    OBVIOUS
  <1>8. /\ W \in Seq(SequenceType) /\ r.seqs = Append(W, y1) /\ r.cur = Len(W) + 1
        /\ r \in BuilderType
        /\ r.repeatSize # 0 => r.repeatStart \in Nat /\ r.repeatStart < Len(r.seqs)
    BY <1>5, <1>6, RoomLast
  <1>9. Built(a, X1, Y1) /\ (c = a \/ (c = ClosePacketSet(a) /\ a.repeatSize # 0))
    BY <1>2, <1>3, <1>5, <1>7, AppendCloses
  <1>10. AppendSteps(b, pkt, c, r, a, W, y1, X1, Y1)
    BY <1>1, <1>2, <1>8, <1>9 DEF AppendSteps
  <1> QED
    BY <1>10

\* So an appended packet is rated by its stream.
LEMMA AppendRated ==
    ASSUME NEW l \in Seq(StreamType), NEW n \in ScheduledIn(l), NEW t \in Nat, NEW e \in Nat,
           NEW b, NEW X, NEW Y, Built(b, X, Y), Rated(l, n, b, t),
           NEW pkt \in PacketType, SentBetween(l[n], pkt, t, e),
           NEW c, c = AppendToPacketList(b, pkt)
    PROVE  Rated(l, n, c, e)
  <1>1. PICK r, a, W, y, X1, Y1 :
             AppendSteps(b, pkt, c, r, a, W, y, X1, Y1)
    BY AppendTakes
  <1>2. n \in 1 .. Len(l)
    BY DEF ScheduledIn
  <1>3. pkt.ts = t \div 1000
    BY DEF SentBetween
  <1>4. Rated(l, n, r, t)
    BY <1>1, <1>2, <1>3, RoomRated DEF AppendSteps
  <1>5. /\ W \in Seq(SequenceType) /\ y \in SequenceType
        /\ r \in BuilderType /\ r.seqs = Append(W, y) /\ r.cur = Len(W) + 1 /\ a = Put(r, pkt)
        /\ r.repeatSize # 0 => r.repeatStart \in Nat /\ r.repeatStart < Len(r.seqs)
    BY <1>1 DEF AppendSteps
  <1>6. Rated(l, n, a, e)
    BY <1>4, <1>5, PutRated
  <1>7. Built(a, X1, Y1) /\ (c = a \/ (c = ClosePacketSet(a) /\ a.repeatSize # 0))
    BY <1>1 DEF AppendSteps
  <1> QED
    BY <1>6, <1>7, CloseRated

\* The pause between repetitions of a set is one of the stream's.
LEMMA LoopRated ==
    ASSUME NEW l, NEW n, NEW t, NEW b, NEW X, NEW Y, Built(b, X, Y), Rated(l, n, b, t),
           NEW size \in Nat \ {0}, NEW repeats \in 0 .. MaxInt, NEW d \in 0 .. Bound(l[n]),
           NEW c, c = LoopNextPacketSet(b, size, repeats, d)
    PROVE  Rated(l, n, c, t)
  <1> DEFINE y == NewSequence(repeats, d)
             m == Len(b.seqs)
             s == Append(b.seqs, y)
  <1>1. b \in BuilderType /\ b.seqs \in Seq(SequenceType) /\ m \in Nat
    BY BuiltIndexed, BuiltTiled DEF Indexed
  <1>2. y \in SequenceType /\ y.pkts = <<>> /\ y.usecDelay = d /\ Len(y.pkts) = 0
    <2>1. d \in Int /\ repeats \in Nat
      BY WidthAssumption
    <2>2. y \in SequenceType /\ y.pkts = <<>> /\ y.usecDelay = d
      BY <2>1, NewSequenceType
    <2> HIDE DEF y
    <2> QED
      BY <2>2
  <1>3. RatedSequence(l, y)
    BY NewRated DEF RatedSequence
  <1> HIDE DEF y
  <1>4. /\ s \in Seq(SequenceType) /\ Len(s) = m + 1 /\ s[m + 1] = y
        /\ \A q \in 1 .. m : s[q] = b.seqs[q]
    <2> DEFINE w == b.seqs
    <2>1. w \in Seq(SequenceType)
      BY <1>1
    <2> HIDE DEF w
    <2>2. /\ Append(w, y) \in Seq(SequenceType) /\ Len(Append(w, y)) = Len(w) + 1
          /\ Append(w, y)[Len(w) + 1] = y
          /\ \A q \in 1 .. Len(w) : Append(w, y)[q] = w[q]
      BY <1>2, <2>1, Lists!AppendProperties
    <2> QED
      BY <2>2 DEF w
  <1>5. c.seqs = s /\ c.cur = m + 1 /\ c.repeatStart = m /\ c.repeatSize = size
    <2>1. Append(b.seqs, NewSequence(repeats, d)) \in Seq(SequenceType)
      BY <1>4 DEF y
    <2>2. LoopAnnounced(b, size, repeats, d, c)
      BY <1>1, <2>1, LoopType
    <2> QED
      BY <2>2 DEF LoopAnnounced, y
  <1> HIDE DEF s
  <1>6. \A q \in 1 .. Len(c.seqs) : RatedSequence(l, c.seqs[q])
    <2> SUFFICES ASSUME NEW q \in 1 .. m + 1 PROVE RatedSequence(l, s[q])
      BY <1>4, <1>5
    <2>1. q \in 1 .. m \/ q = m + 1
      BY <1>1
    <2>2. q \in 1 .. m => RatedSequence(l, b.seqs[q])
      BY DEF Rated
    <2> QED
      BY <1>3, <1>4, <2>1, <2>2
  <1>7. \A q \in c.repeatStart + 1 .. Len(c.seqs) : OfStreamAlone(l[n], c.seqs[q])
    <2>1. OfStreamAlone(l[n], y)
      BY <1>2 DEF OfStreamAlone
    <2>2. \A q \in c.repeatStart + 1 .. Len(c.seqs) : q = m + 1
      BY <1>1, <1>4, <1>5
    <2> QED
      BY <1>4, <1>5, <2>1, <2>2
  <1>8. c.seqs[c.cur].pkts = <<>> /\ c.repeatSize # 0
    BY <1>2, <1>4, <1>5
  <1> QED
    BY <1>6, <1>7, <1>8 DEF Rated

\* Where no set is open it does not matter which stream is next.
LEMMA NextRated ==
    ASSUME NEW l, NEW n, NEW m, NEW b, NEW t, b.repeatSize = 0, Rated(l, n, b, t)
    PROVE  Rated(l, m, b, t)
  BY DEF Rated

\* Nor how the list is to loop.
LEMMA SameRated ==
    ASSUME NEW l, NEW n, NEW b, NEW c, NEW t, Rated(l, n, b, t),
           c.seqs = b.seqs, c.cur = b.cur, c.repeatStart = b.repeatStart,
           c.repeatSize = b.repeatSize
    PROVE  Rated(l, n, c, t)
  BY DEF Rated

\* The inductive invariant with the pauses.
RateInv == ListInv /\ (AllBuild => Rated(streamList_, i, list, now))

\* The scheduler begins with it.
LEMMA InitRate == Init => RateInv
  <1> SUFFICES ASSUME Init PROVE RateInv
    OBVIOUS
  <1>1. ListInv
    BY InitList
  <1>2. list.seqs = <<>> /\ list.cur = 0 /\ list.repeatSize = 0
    BY DEF Init, InitWith, ClearedPacketList
  <1>3. Len(list.seqs) = 0
    BY <1>2
  <1>4. Rated(streamList_, i, list, now)
    BY <1>2, <1>3 DEF Rated
  <1> QED
    BY <1>1, <1>4 DEF RateInv

\* Every step keeps it.
LEMMA NextRate == RateInv /\ [Next]_vars => RateInv'
  <1> SUFFICES ASSUME RateInv, [Next]_vars PROVE RateInv'
    OBVIOUS
  <1>1. ListInv /\ ListInv' /\ TypeOK
    BY NextList DEF RateInv, ListInv
  <1>2. streamList_' = streamList_
    BY DEF Next, vars, StreamStart, StreamSkip, FrameAppend, FrameSkip, FramesDone, NextStop,
           NextGotoId, NextGotoNext, StreamsDone, Done
  <1>3. AllBuild' = AllBuild /\ streamList_ \in Seq(StreamType) /\ i \in Nat \ {0} /\ j \in Nat
        /\ now \in Nat
    BY <1>1, <1>2, AllBuildSame DEF TypeOK
  <1> SUFFICES ASSUME AllBuild PROVE Rated(streamList_, i', list', now')
    BY <1>1, <1>2, <1>3 DEF RateInv
  <1>4. PICK X, Y : Built(list, X, Y) /\ Placed(X, Y)
    BY <1>1 DEF ListInv
  <1>5. Rated(streamList_, i, list, now)
    BY DEF RateInv
  <1> DEFINE l == streamList_
  <1>6. CASE StreamStart
    <2>1. i \in 1 .. Len(l) /\ list' = Begun(list, l[i]) /\ i' = i /\ now' = now
      BY <1>3, <1>6 DEF StreamStart, Begun, stream
    <2>2. SetSize(l[i]) \in Nat \ {0} /\ SetRepeats(l[i]) \in 0 .. MaxInt
      <3>1. SetSize(l[i]) \in Nat \ {0} /\ SetRepeats(l[i]) \in Nat
        BY <1>3, <2>1, StreamFacts
      <3>2. SetRepeats(l[i]) <= MaxInt
        BY <1>1, <2>1 DEF TypeOK, RepeatsFit
      <3> QED
        BY <3>1, <3>2, WidthAssumption
    <2>3. l[i].gap.whole \div 1000 \in 0 .. Bound(l[i])
      <3> DEFINE s == l[i]
      <3>1. s \in StreamType
        BY <1>3, <2>1
      <3> HIDE DEF s
      <3>2. s.gap.whole \div 1000 \in 0 .. Bound(s)
        BY <3>1, BoundTime
      <3> QED
        BY <3>2 DEF s
    <2>4. CASE SetRepeats(l[i]) > 1
      <3> DEFINE d == l[i].gap.whole \div 1000
      <3>1. list' = LoopNextPacketSet(list, SetSize(l[i]), SetRepeats(l[i]), d)
        BY <2>1, <2>4 DEF Begun
      <3> HIDE DEF d
      <3>2. Rated(l, i, list', now)
        BY <1>4, <1>5, <2>2, <2>3, <3>1, LoopRated DEF d
      <3> QED
        BY <2>1, <3>2
    <2>5. CASE ~ (SetRepeats(l[i]) > 1)
      BY <1>5, <2>1, <2>5 DEF Begun
    <2> QED
      BY <2>4, <2>5
  <1>7. CASE StreamSkip
    <2>1. list' = list /\ now' = now /\ pc = "stream"
      BY <1>7 DEF StreamSkip
    <2>2. list.repeatSize = 0
      BY <1>4, <2>1 DEF Placed, Ready
    <2> QED
      BY <1>5, <2>1, <2>2, NextRated
  <1>8. CASE FrameAppend
    <2> DEFINE pkt == [guid |-> stream.guid, ts |-> now \div 1000]
               e == now + PauseAfter(stream, j)
    <2>1. list' = AppendToPacketList(list, pkt) /\ i' = i /\ now' = e /\ pc = "frame"
      BY <1>8 DEF FrameAppend
    <2>2. i \in ScheduledIn(l) /\ stream \in StreamType /\ stream = l[i]
      BY <1>1, <2>1, ScheduledNow, ScheduledSame, StreamTyped DEF TypeOK
    <2>3. pkt \in PacketType /\ pkt.guid = l[i].guid /\ pkt.ts = now \div 1000
      <3>1. stream.guid \in Nat /\ now \div 1000 \in Int
        BY <1>3, <2>2 DEF StreamType
      <3> QED
        BY <2>2, <3>1 DEF PacketType
    <2>4. e \in Nat /\ e - now \in 0 .. CeilGap(l[i].gap)
      <3> DEFINE s == stream
                 p == PauseAfter(s, j)
      <3>1. s \in StreamType /\ s = l[i]
        BY <2>2
      <3> HIDE DEF s
      <3>2. CeilGap(s.gap) \in Nat /\ p \in 0 .. CeilGap(s.gap)
        BY <1>3, <3>1, PauseBounded
      <3>3. e = now + p
        BY DEF s
      <3> HIDE DEF e, p
      <3> QED
        BY <1>3, <3>1, <3>2, <3>3
    <2> HIDE DEF pkt, e
    <2>5. SentBetween(l[i], pkt, now, e)
      BY <2>3, <2>4 DEF SentBetween
    <2>6. Rated(l, i, list', e)
      BY <1>3, <1>4, <1>5, <2>1, <2>2, <2>3, <2>4, <2>5, AppendRated
    <2> QED
      BY <2>1, <2>6
  <1>9. CASE FrameSkip
    <2>1. i \in Scheduled /\ stream.unbuilt # {}
      BY <1>1, <1>9, ScheduledNow DEF FrameSkip, FrameBuilds
    <2>2. ~ AllBuild
      BY <2>1 DEF AllBuild, stream
    <2> QED
      BY <2>2
  <1>10. CASE FramesDone \/ NextStop \/ StreamsDone
    BY <1>5, <1>10 DEF FramesDone, NextStop, StreamsDone
  <1>11. CASE NextGotoId
    <2>1. /\ list' = SetPacketListLoopMode(list, TRUE, CeilGap(stream.gap) \div 1000)
          /\ i' = i /\ now' = now
      BY <1>11 DEF NextGotoId
    <2>2. list \in BuilderType
      BY <1>4 DEF Built
    <2>3. /\ list'.seqs = list.seqs /\ list'.cur = list.cur
          /\ list'.repeatStart = list.repeatStart /\ list'.repeatSize = list.repeatSize
      BY <2>1, <2>2 DEF SetPacketListLoopMode, BuilderType
    <2>4. Rated(l, i, list', now)
      BY <1>5, <2>3, SameRated
    <2> QED
      BY <2>1, <2>4
  <1>12. CASE NextGotoNext
    <2>1. list' = list /\ now' = now /\ pc = "next"
      BY <1>12 DEF NextGotoNext
    <2>2. list.repeatSize = 0
      BY <1>4, <2>1 DEF Placed
    <2> QED
      BY <1>5, <2>1, <2>2, NextRated
  <1>13. CASE UNCHANGED vars
    BY <1>5, <1>13 DEF vars
  <1> QED
    BY <1>6, <1>7, <1>8, <1>9, <1>10, <1>11, <1>12, <1>13 DEF Next, Done

\* What NeverSlowerThanRated says of a finished list.
LEMMA SentRated == RateInv => NeverSlowerThanRated
  <1> SUFFICES ASSUME RateInv, AllBuild, NEW m \in 1 .. Len(order)
               PROVE  \E k \in Scheduled :
                        /\ streamList_[k].guid = order[m].guid
                        /\ order[m].gap \in 0 .. (CeilGap(streamList_[k].gap) \div 1000) + 1
    BY DEF NeverSlowerThanRated
  <1>1. Rated(streamList_, i, list, now) /\ Enclosed(list.seqs)
    BY TilesList, TiledEnclosed DEF RateInv
  <1>2. \A q \in 1 .. Len(list.seqs) : SequencePackets(list.seqs[q]) \in Seq(RatedPackets(streamList_))
    BY <1>1 DEF Rated, RatedSequence
  <1>3. order \in Seq(RatedPackets(streamList_))
    BY <1>1, <1>2, OrderIn DEF order
  <1>4. order[m] \in RatedPackets(streamList_)
    BY <1>3
  <1> QED
    BY <1>4, ScheduledSame DEF RatedPackets, Bound

\* A multiple is no smaller.
LEMMA Multiple ==
    ASSUME NEW n \in Nat \ {0}, NEW d \in Nat
    PROVE  n * d >= d
  <1>1. (n - 1) * d \in Nat
    OBVIOUS
  <1>2. n * d = (n - 1) * d + d
    OBVIOUS
  <1> QED
    BY <1>1, <1>2

\* One more time.
LEMMA OnceMore ==
    ASSUME NEW n \in Nat, NEW d \in Nat
    PROVE  n * d \in Nat /\ (n + 1) * d = n * d + d
  OBVIOUS

-----------------------------------------------------------------------------
(* The clock of the interleaved scheduler.                                  *)

TimeType == [s : Nat, n : 0 .. Second - 1]

\* Seconds and nanoseconds make up the time.
LEMMA TimeParts ==
    ASSUME NEW t \in Nat
    PROVE  /\ Time(t) \in TimeType /\ Nsec(Time(t)) = t
           /\ Time(t).s = 0 <=> t < Second
  <1> DEFINE q == t \div Second
             r == t % Second
  <1>1. q \in Nat /\ r \in 0 .. Second - 1 /\ t = Second * q + r
    BY SecondAssumption, DividePositive
  <1>2. Time(t) = [s |-> q, n |-> r]
    BY DEF Time
  <1> HIDE DEF q, r
  <1>3. Second * q = q * Second /\ q * Second \in Nat
    BY <1>1, SecondAssumption
  <1>4. q = 0 => q * Second = 0
    BY <1>1, SecondAssumption
  <1>5. q # 0 => q * Second >= Second
    BY <1>1, SecondAssumption, Multiple
  <1> QED
    BY <1>1, <1>2, <1>3, <1>4, <1>5, SecondAssumption DEF TimeType, Nsec

\* A time is a number of nanoseconds.
LEMMA NsecType ==
    ASSUME NEW t \in TimeType
    PROVE  /\ Nsec(t) \in Nat /\ t.s \in Nat /\ t.n \in 0 .. Second - 1
           /\ t.s = 0 => Nsec(t) = t.n /\ Nsec(t) < Second
           /\ t.s # 0 => Nsec(t) >= Second
  <1>1. t.s \in Nat /\ t.n \in 0 .. Second - 1
    BY DEF TimeType
  <1>2. t.s * Second \in Nat
    BY <1>1, SecondAssumption
  <1>3. t.s = 0 => t.s * Second = 0
    BY <1>1, SecondAssumption
  <1>4. t.s # 0 => t.s * Second >= Second
    BY <1>1, SecondAssumption, Multiple
  <1> QED
    BY <1>1, <1>2, <1>3, <1>4, SecondAssumption DEF Nsec

\* Adding to it.
LEMMA LaterTime ==
    ASSUME NEW t \in TimeType, NEW d \in Nat
    PROVE  /\ Later(t, d) \in TimeType /\ Nsec(Later(t, d)) = Nsec(t) + d
           /\ Later(t, d).s = 0 <=> Nsec(t) + d < Second
  <1>1. Nsec(t) + d \in Nat
    BY NsecType
  <1> QED
    BY <1>1, TimeParts DEF Later

\* Within the first second seconds and nanoseconds, each compared alone, say what is due.
LEMMA DueWithinSecond ==
    ASSUME NEW p, p.due \in TimeType, clock \in TimeType, clock.s = 0
    PROVE  IsDue(p) <=> Nsec(p.due) <= Nsec(clock)
  <1> DEFINE d == p.due
  <1>1. d \in TimeType
    OBVIOUS
  <1>2. /\ d.s \in Nat /\ d.n \in 0 .. Second - 1 /\ Nsec(d) \in Nat
        /\ d.s = 0 => Nsec(d) = d.n /\ Nsec(d) < Second
        /\ d.s # 0 => Nsec(d) >= Second
    <2> HIDE DEF d
    <2> QED
      BY <1>1, NsecType
  <1>3. clock.n \in 0 .. Second - 1 /\ Nsec(clock) = clock.n
    BY NsecType
  <1>4. IsDue(p) <=> ~ (d.s > 0 \/ d.n > clock.n)
    BY DEF IsDue
  <1> HIDE DEF d
  <1> QED
    BY <1>2, <1>3, <1>4, SecondAssumption DEF d

-----------------------------------------------------------------------------
(* The enabled streams.                                                     *)

\* The function EnabledOf(l) takes its value from.
Enabling(f, l) ==
    f = [n \in 0 .. Len(l) |->
            IF n = 0 THEN <<>> ELSE IF l[n].enabled THEN Append(f[n - 1], l[n]) ELSE f[n - 1]]

\* There is one.
LEMMA EnablingExists ==
    ASSUME NEW l \in Seq(StreamType)
    PROVE  \E f : Enabling(f, l)
  <1> DEFINE Step(x, n) == IF l[n].enabled THEN Append(x, l[n]) ELSE x
             Up(k) == \E f : f = [n \in 0 .. k |-> IF n = 0 THEN <<>> ELSE Step(f[n - 1], n)]
             S == {k \in Nat : Up(k)}
  <1> HIDE DEF Step
  <1>1. 0 \in S
    <2>1. Up(0)
      <3> DEFINE f == [n \in 0 .. 0 |-> <<>>]
      <3>1. f = [n \in 0 .. 0 |-> IF n = 0 THEN <<>> ELSE Step(f[n - 1], n)]
        OBVIOUS
      <3> QED
        BY <3>1
    <2> QED
      BY <2>1
  <1>2. ASSUME NEW k \in S PROVE k + 1 \in S
    <2>1. k \in Nat
      OBVIOUS
    <2>2. PICK f : f = [n \in 0 .. k |-> IF n = 0 THEN <<>> ELSE Step(f[n - 1], n)]
      OBVIOUS
    <2> DEFINE g == [n \in 0 .. k + 1 |-> IF n <= k THEN f[n] ELSE Step(f[n - 1], n)]
    <2>3. g = [n \in 0 .. k + 1 |-> IF n = 0 THEN <<>> ELSE Step(g[n - 1], n)]
      <3>1. ASSUME NEW n \in 0 .. k + 1
            PROVE  g[n] = IF n = 0 THEN <<>> ELSE Step(g[n - 1], n)
        <4>1. CASE n <= k
          <5>1. n \in 0 .. k /\ g[n] = f[n]
            BY <2>1, <4>1
          <5>2. f[n] = IF n = 0 THEN <<>> ELSE Step(f[n - 1], n)
            BY <2>2, <5>1
          <5>3. n # 0 => n - 1 \in 0 .. k + 1 /\ n - 1 <= k /\ g[n - 1] = f[n - 1]
            BY <2>1, <5>1
          <5> QED
            BY <5>1, <5>2, <5>3
        <4>2. CASE n = k + 1
          <5>1. g[n] = Step(f[n - 1], n) /\ n # 0
            BY <2>1, <4>2
          <5>2. n - 1 \in 0 .. k + 1 /\ n - 1 <= k /\ g[n - 1] = f[n - 1]
            BY <2>1, <4>2
          <5> QED
            BY <5>1, <5>2
        <4> QED
          BY <2>1, <4>1, <4>2
      <3> QED
        BY <3>1
    <2>4. Up(k + 1)
      <3> HIDE DEF g
      <3> QED
        BY <2>3
    <2> HIDE DEF Up
    <2> QED
      BY <2>1, <2>4
  <1>3. S = Nat
    <2>1. S \in SUBSET Nat
      OBVIOUS
    <2> HIDE DEF S
    <2> QED
      BY <1>1, <1>2, <2>1, Induction
  <1>4. Up(Len(l))
    <2>1. Len(l) \in Nat
      OBVIOUS
    <2> HIDE DEF Up
    <2> QED
      BY <1>3, <2>1
  <1> QED
    BY <1>4 DEF Enabling, Step

\* All guids differ.
Differ(l) == \A m, n \in 1 .. Len(l) : l[m].guid = l[n].guid => m = n

\* e has streams of the first k of l.
Among(l, k, e) ==
    /\ e \in Seq(StreamType) /\ Len(e) <= k
    /\ \A n \in 1 .. Len(e) : \E m \in 1 .. k : e[n] = l[m]
    /\ Differ(e)

\* The next of l may be appended.
LEMMA AmongNext ==
    ASSUME NEW l \in Seq(StreamType), Differ(l), NEW k \in Nat, k + 1 <= Len(l),
           NEW e, Among(l, k, e)
    PROVE  Among(l, k + 1, e) /\ Among(l, k + 1, Append(e, l[k + 1]))
  <1>1. /\ e \in Seq(StreamType) /\ Len(e) <= k /\ Len(e) \in Nat /\ Len(l) \in Nat
        /\ \A n \in 1 .. Len(e) : \E m \in 1 .. k : e[n] = l[m]
        /\ Differ(e)
    BY DEF Among
  <1> DEFINE y == l[k + 1]
             a == Append(e, y)
  <1>2. k + 1 \in 1 .. Len(l) /\ y \in StreamType
    BY <1>1
  <1>3. /\ a \in Seq(StreamType) /\ Len(a) = Len(e) + 1 /\ a[Len(e) + 1] = y
        /\ \A n \in 1 .. Len(e) : a[n] = e[n]
    <2> HIDE DEF y
    <2> QED
      BY <1>1, <1>2, Lists!AppendProperties
  <1> HIDE DEF a, y
  <1>4. \A n \in 1 .. Len(e) : \E m \in 1 .. k : e[n] = l[m] /\ e[n].guid # y.guid
    <2> SUFFICES ASSUME NEW n \in 1 .. Len(e)
                 PROVE  \E m \in 1 .. k : e[n] = l[m] /\ e[n].guid # y.guid
      OBVIOUS
    <2>1. PICK m \in 1 .. k : e[n] = l[m]
      BY <1>1
    <2>2. m \in 1 .. Len(l) /\ m # k + 1
      BY <1>1, <1>2
    <2>3. l[m].guid # l[k + 1].guid
      BY <1>2, <2>2 DEF Differ
    <2> QED
      BY <2>1, <2>3 DEF y
  <1>5. \A n \in 1 .. Len(a) : n \in 1 .. Len(e) \/ n = Len(e) + 1
    BY <1>1, <1>3
  <1>6. \A n \in 1 .. Len(a) : \E m \in 1 .. k + 1 : a[n] = l[m]
    <2> SUFFICES ASSUME NEW n \in 1 .. Len(a) PROVE \E m \in 1 .. k + 1 : a[n] = l[m]
      OBVIOUS
    <2>1. CASE n \in 1 .. Len(e)
      <3>1. PICK m \in 1 .. k : e[n] = l[m]
        BY <1>1, <2>1
      <3>2. m \in 1 .. k + 1 /\ a[n] = e[n]
        BY <1>3, <2>1
      <3> QED
        BY <3>1, <3>2
    <2>2. CASE n = Len(e) + 1
      <3>1. k + 1 \in 1 .. k + 1 /\ a[n] = l[k + 1]
        BY <1>3, <2>2 DEF y
      <3> QED
        BY <3>1
    <2> QED
      BY <1>5, <2>1, <2>2
  <1>7. Differ(a)
    <2> SUFFICES ASSUME NEW m \in 1 .. Len(a), NEW n \in 1 .. Len(a), a[m].guid = a[n].guid
                 PROVE  m = n
      BY DEF Differ
    <2>1. CASE m \in 1 .. Len(e) /\ n \in 1 .. Len(e)
      BY <1>1, <1>3, <2>1 DEF Differ
    <2>2. CASE m = Len(e) + 1 /\ n = Len(e) + 1
      BY <2>2
    <2>3. CASE m \in 1 .. Len(e) /\ n = Len(e) + 1
      BY <1>3, <1>4, <2>3
    <2>4. CASE n \in 1 .. Len(e) /\ m = Len(e) + 1
      BY <1>3, <1>4, <2>4
    <2> QED
      BY <1>5, <2>1, <2>2, <2>3, <2>4
  <1>8. \A n \in 1 .. Len(e) : \E m \in 1 .. k + 1 : e[n] = l[m]
    <2> SUFFICES ASSUME NEW n \in 1 .. Len(e) PROVE \E m \in 1 .. k + 1 : e[n] = l[m]
      OBVIOUS
    <2>1. PICK m \in 1 .. k : e[n] = l[m]
      BY <1>1
    <2>2. m \in 1 .. k + 1
      OBVIOUS
    <2> QED
      BY <2>1, <2>2
  <1>9. Among(l, k + 1, e)
    BY <1>1, <1>8 DEF Among
  <1>10. Among(l, k + 1, a)
    BY <1>1, <1>3, <1>6, <1>7 DEF Among
  <1>11. a = Append(e, l[k + 1])
    BY DEF a, y
  <1> QED
    BY <1>9, <1>10, <1>11

\* The enabled streams are streams of the list, each once.
LEMMA EnabledAmong ==
    ASSUME NEW l \in Seq(StreamType), Differ(l)
    PROVE  Among(l, Len(l), EnabledOf(l))
  <1> DEFINE f == CHOOSE f : f = [n \in 0 .. Len(l) |->
            IF n = 0 THEN <<>> ELSE IF l[n].enabled THEN Append(f[n - 1], l[n]) ELSE f[n - 1]]
  <1>1. f = [n \in 0 .. Len(l) |->
            IF n = 0 THEN <<>> ELSE IF l[n].enabled THEN Append(f[n - 1], l[n]) ELSE f[n - 1]]
    BY EnablingExists DEF Enabling
  <1>2. EnabledOf(l) = f[Len(l)]
    BY DEF EnabledOf
  <1> HIDE DEF f
  <1>3. Len(l) \in Nat
    OBVIOUS
  <1> DEFINE S == {k \in Nat : k <= Len(l) => Among(l, k, f[k])}
  <1>4. 0 \in S
    <2>1. f[0] = <<>>
      BY <1>1, <1>3
    <2>2. <<>> \in Seq(StreamType) /\ Len(<<>>) = 0
      BY Lists!EmptySeq
    <2>3. Among(l, 0, <<>>)
      BY <2>2 DEF Among, Differ
    <2> QED
      BY <2>1, <2>3
  <1>5. ASSUME NEW k \in S PROVE k + 1 \in S
    <2>1. k \in Nat
      OBVIOUS
    <2> SUFFICES ASSUME k + 1 <= Len(l) PROVE Among(l, k + 1, f[k + 1])
      BY <2>1
    <2>2. Among(l, k, f[k])
      BY <1>3, <2>1
    <2>3. Among(l, k + 1, f[k]) /\ Among(l, k + 1, Append(f[k], l[k + 1]))
      BY <2>1, <2>2, AmongNext
    <2>4. f[k + 1] = f[k] \/ f[k + 1] = Append(f[k], l[k + 1])
      <3>1. k + 1 \in 0 .. Len(l) /\ k + 1 # 0 /\ (k + 1) - 1 = k
        BY <1>3, <2>1
      <3>2. f[k + 1] = IF l[k + 1].enabled THEN Append(f[(k + 1) - 1], l[k + 1]) ELSE f[(k + 1) - 1]
        BY <1>1, <3>1
      <3> QED
        BY <3>1, <3>2
    <2> QED
      BY <2>3, <2>4
  <1>6. S = Nat
    <2>1. S \in SUBSET Nat
      OBVIOUS
    <2> HIDE DEF S
    <2> QED
      BY <1>4, <1>5, <2>1, Induction
  <1>7. Among(l, Len(l), f[Len(l)])
    BY <1>3, <1>6
  <1> QED
    BY <1>2, <1>7

-----------------------------------------------------------------------------
(* The smallest gap and the duration of a pass.                             *)

\* A bounded set has its greatest number.
LEMMA GreatestNumber ==
    ASSUME NEW T \in SUBSET Nat, T # {}, NEW b \in Nat, \A x \in T : x <= b
    PROVE  Max(T) \in T /\ \A x \in T : Max(T) >= x
  <1> DEFINE U == {b - x : x \in T}
  <1>1. U \in SUBSET Nat /\ U # {}
    <2>1. \A x \in T : b - x \in Nat
      OBVIOUS
    <2>2. PICK x \in T : TRUE
      OBVIOUS
    <2>3. b - x \in U
      OBVIOUS
    <2> QED
      BY <2>1, <2>3
  <1>2. PICK u \in U : \A v \in U : u <= v
    BY <1>1, LeastNumber
  <1>3. PICK y \in T : u = b - y
    BY <1>2
  <1>4. \A x \in T : y >= x
    <2> SUFFICES ASSUME NEW x \in T PROVE y >= x
      OBVIOUS
    <2>1. b - y <= b - x
      BY <1>2, <1>3
    <2> QED
      BY <2>1
  <1> QED
    BY <1>4 DEF Max

\* Finitely many numbers are bounded.
LEMMA NumbersBounded ==
    ASSUME NEW k \in Nat, NEW v \in [1 .. k -> Nat]
    PROVE  \E b \in Nat : \A n \in 1 .. k : v[n] <= b
  <1> DEFINE Up(m) == m <= k => \E b \in Nat : \A n \in 1 .. m : v[n] <= b
             S == {m \in Nat : Up(m)}
  <1>1. 0 \in S
    <2>1. 0 \in Nat /\ \A n \in 1 .. 0 : v[n] <= 0
      OBVIOUS
    <2> QED
      BY <2>1
  <1>2. ASSUME NEW m \in S PROVE m + 1 \in S
    <2>1. m \in Nat
      OBVIOUS
    <2> SUFFICES ASSUME m + 1 <= k PROVE \E b \in Nat : \A n \in 1 .. m + 1 : v[n] <= b
      BY <2>1
    <2>2. PICK b \in Nat : \A n \in 1 .. m : v[n] <= b
      BY <2>1
    <2>3. v[m + 1] \in Nat
      BY <2>1
    <2>4. b + v[m + 1] \in Nat /\ \A n \in 1 .. m + 1 : v[n] <= b + v[m + 1]
      BY <2>1, <2>2, <2>3
    <2> QED
      BY <2>4
  <1>3. S = Nat
    <2>1. S \in SUBSET Nat
      OBVIOUS
    <2> HIDE DEF S
    <2> QED
      BY <1>1, <1>2, <2>1, Induction
  <1>4. Up(k)
    <2> HIDE DEF Up
    <2> QED
      BY <1>3
  <1> QED
    BY <1>4

\* A stream's gap rounded up.
LEMMA CeilAtLeast ==
    ASSUME NEW s \in StreamType
    PROVE  /\ s.gap.whole \in Nat /\ CeilGap(s.gap) \in Nat
           /\ s.gap.whole <= CeilGap(s.gap)
  BY DEF StreamType, CeilGap

\* A pass takes a number of nanoseconds.
LEMMA DurationType ==
    ASSUME NEW e \in Seq(StreamType), NEW r
    PROVE  Duration(e, r) \in Nat
  <1> DEFINE long(n) == IF e[n].unit = "bursts" \/ r[n] > 0
                        THEN CeilGap(e[n].gap) ELSE e[n].gap.whole
             v == [n \in 1 .. Len(e) |-> long(n)]
             T == {Second} \cup {long(n) : n \in DOMAIN e}
  <1>1. Len(e) \in Nat /\ DOMAIN e = 1 .. Len(e)
    OBVIOUS
  <1>2. ASSUME NEW n \in 1 .. Len(e) PROVE long(n) \in Nat
    <2>1. e[n] \in StreamType
      OBVIOUS
    <2> QED
      BY <2>1, CeilAtLeast
  <1> HIDE DEF long
  <1>3. v \in [1 .. Len(e) -> Nat]
    BY <1>2
  <1>4. PICK b \in Nat : \A n \in 1 .. Len(e) : v[n] <= b
    <2> HIDE DEF v
    <2> QED
      BY <1>1, <1>3, NumbersBounded
  <1>5. \A n \in 1 .. Len(e) : long(n) <= b
    BY <1>4
  <1>6. T \in SUBSET Nat /\ T # {}
    BY <1>1, <1>2, SecondAssumption
  <1>7. b + Second \in Nat /\ \A x \in T : x <= b + Second
    BY <1>1, <1>2, <1>5, SecondAssumption
  <1>8. Max(T) \in T
    <2> HIDE DEF T
    <2> QED
      BY <1>6, <1>7, GreatestNumber
  <1>9. Duration(e, r) = Max(T)
    BY DEF Duration, long
  <1> HIDE DEF T
  <1> QED
    BY <1>6, <1>8, <1>9

\* No stream's gap is smaller than the smallest.
LEMMA MinGapLeast ==
    ASSUME NEW e \in Seq(StreamType), NEW d \in Nat
    PROVE  /\ MinGap(e, d) \in Nat
           /\ \A n \in 1 .. Len(e) :
                 e[n].gap.whole > 0 => MinGap(e, d) > 0 /\ MinGap(e, d) <= e[n].gap.whole
  <1> DEFINE T == {e[n].gap.whole : n \in DOMAIN e} \ {0}
  <1>1. DOMAIN e = 1 .. Len(e)
    OBVIOUS
  <1>2. ASSUME NEW n \in 1 .. Len(e) PROVE e[n].gap.whole \in Nat
    <2>1. e[n] \in StreamType
      OBVIOUS
    <2> QED
      BY <2>1, CeilAtLeast
  <1>3. T \in SUBSET (Nat \ {0}) /\ \A n \in 1 .. Len(e) : e[n].gap.whole > 0 => e[n].gap.whole \in T
    BY <1>1, <1>2
  <1>4. MinGap(e, d) = IF T = {} THEN d ELSE Min(T)
    BY DEF MinGap
  <1> HIDE DEF T
  <1>5. CASE T = {}
    BY <1>3, <1>4, <1>5
  <1>6. CASE T # {}
    <2>1. PICK x \in T : \A y \in T : x <= y
      <3>1. T \in SUBSET Nat
        BY <1>3
      <3> QED
        BY <1>6, <3>1, LeastNumber
    <2>2. Min(T) \in T /\ \A y \in T : Min(T) <= y
      BY <2>1 DEF Min
    <2>3. MinGap(e, d) \in T /\ \A y \in T : MinGap(e, d) <= y
      BY <1>4, <1>6, <2>2
    <2>4. MinGap(e, d) \in Nat \ {0}
      BY <1>3, <2>3
    <2>5. ASSUME NEW n \in 1 .. Len(e), e[n].gap.whole > 0
          PROVE  MinGap(e, d) <= e[n].gap.whole
      BY <1>3, <2>3, <2>5
    <2> QED
      BY <2>4, <2>5
  <1> QED
    BY <1>5, <1>6

-----------------------------------------------------------------------------
(* The packets of a list, in the order in which they were appended.         *)

PacketsIn(seqs) == [q \in DOMAIN seqs |-> seqs[q].pkts]
Stamps(seqs) == FlattenSeq(PacketsIn(seqs))

\* They are packets.
LEMMA PacketsInType ==
    ASSUME NEW seqs \in Seq(SequenceType)
    PROVE  /\ PacketsIn(seqs) \in Seq(Seq(PacketType)) /\ Stamps(seqs) \in Seq(PacketType)
           /\ Len(PacketsIn(seqs)) = Len(seqs)
           /\ \A q \in 1 .. Len(seqs) : PacketsIn(seqs)[q] = seqs[q].pkts
  <1>1. DOMAIN seqs = 1 .. Len(seqs) /\ Len(seqs) \in Nat
    OBVIOUS
  <1>2. ASSUME NEW q \in 1 .. Len(seqs) PROVE seqs[q].pkts \in Seq(PacketType)
    <2>1. seqs[q] \in SequenceType
      OBVIOUS
    <2> QED
      BY <2>1 DEF SequenceType
  <1>3. PacketsIn(seqs) \in [1 .. Len(seqs) -> Seq(PacketType)]
    BY <1>1, <1>2 DEF PacketsIn
  <1>4. PacketsIn(seqs) \in Seq(Seq(PacketType)) /\ Len(PacketsIn(seqs)) = Len(seqs)
    BY <1>1, <1>3
  <1>5. \A q \in 1 .. Len(seqs) : PacketsIn(seqs)[q] = seqs[q].pkts
    BY <1>1 DEF PacketsIn
  <1>6. FlattenSeq(PacketsIn(seqs)) \in Seq(PacketType)
    BY <1>4, FlattenType
  <1> QED
    BY <1>4, <1>5, <1>6 DEF Stamps

\* One more sequence brings its packets.
LEMMA StampsAppend ==
    ASSUME NEW seqs \in Seq(SequenceType), NEW y \in SequenceType
    PROVE  Stamps(Append(seqs, y)) = Stamps(seqs) \o y.pkts
  <1> DEFINE a == Append(seqs, y)
             p == PacketsIn(seqs)
             e == y.pkts
  <1>1. /\ a \in Seq(SequenceType) /\ Len(a) = Len(seqs) + 1 /\ a[Len(seqs) + 1] = y
        /\ \A q \in 1 .. Len(seqs) : a[q] = seqs[q]
    BY Lists!AppendProperties
  <1> HIDE DEF a
  <1>2. e \in Seq(PacketType)
    BY DEF SequenceType
  <1>3. /\ p \in Seq(Seq(PacketType)) /\ Len(p) = Len(seqs) /\ Len(seqs) \in Nat
        /\ \A q \in 1 .. Len(seqs) : p[q] = seqs[q].pkts
    BY PacketsInType
  <1>4. /\ PacketsIn(a) \in Seq(Seq(PacketType)) /\ Len(PacketsIn(a)) = Len(a)
        /\ \A q \in 1 .. Len(a) : PacketsIn(a)[q] = a[q].pkts
    BY <1>1, PacketsInType
  <1> HIDE DEF p, e
  <1>5. /\ Append(p, e) \in Seq(Seq(PacketType)) /\ Len(Append(p, e)) = Len(p) + 1
        /\ Append(p, e)[Len(p) + 1] = e
        /\ \A q \in 1 .. Len(p) : Append(p, e)[q] = p[q]
    BY <1>2, <1>3, Lists!AppendProperties
  <1>6. ASSUME NEW q \in 1 .. Len(a) PROVE PacketsIn(a)[q] = Append(p, e)[q]
    <2>1. q \in 1 .. Len(seqs) \/ q = Len(seqs) + 1
      BY <1>1, <1>3
    <2>2. CASE q \in 1 .. Len(seqs)
      BY <1>1, <1>3, <1>4, <1>5, <2>2
    <2>3. CASE q = Len(seqs) + 1
      BY <1>1, <1>3, <1>4, <1>5, <2>3 DEF e
    <2> QED
      BY <2>1, <2>2, <2>3
  <1>7. PacketsIn(a) = Append(p, e)
    <2> DEFINE u == PacketsIn(a)
               v == Append(p, e)
    <2>1. u \in Seq(Seq(PacketType)) /\ v \in Seq(Seq(PacketType)) /\ Len(u) = Len(v)
          /\ \A q \in 1 .. Len(u) : u[q] = v[q]
      BY <1>1, <1>3, <1>4, <1>5, <1>6
    <2> HIDE DEF u, v
    <2>2. u = v
      BY <2>1, Lists!SeqEqual
    <2> QED
      BY <2>2 DEF u, v
  <1>8. FlattenSeq(Append(p, e)) = FlattenSeq(p) \o e
    BY <1>2, <1>3, FlattenAppend
  <1> QED
    BY <1>7, <1>8 DEF Stamps, a, p, e

\* Only the packets count.
LEMMA StampsSame ==
    ASSUME NEW s \in Seq(SequenceType), NEW t \in Seq(SequenceType), Len(s) = Len(t),
           \A q \in 1 .. Len(s) : s[q].pkts = t[q].pkts
    PROVE  Stamps(s) = Stamps(t)
  <1>1. PacketsIn(s) = PacketsIn(t)
    BY DEF PacketsIn
  <1> QED
    BY <1>1 DEF Stamps

\* Making room adds none.
LEMMA RoomStamps ==
    ASSUME NEW b, NEW X, NEW Y, Built(b, X, Y), NEW pkt \in PacketType,
           NEW r, r = RoomForPacket(b, pkt)
    PROVE  Stamps(r.seqs) = Stamps(b.seqs)
  <1>1. Indexed(b) /\ b.seqs \in Seq(SequenceType) /\ Len(b.seqs) \in Nat /\ b \in BuilderType
    BY BuiltIndexed, BuiltTiled DEF Indexed
  <1>2. ASSUME NEW s \in Seq(SequenceType), r = Opened(b, Append(s, Fresh))
        PROVE  Stamps(r.seqs) = Stamps(s)
    <2>1. Append(s, Fresh) \in Seq(SequenceType)
      BY FreshType, Lists!AppendProperties
    <2>2. r.seqs = Append(s, Fresh)
      BY <1>1, <1>2, <2>1, OpenedType
    <2>3. Stamps(Append(s, Fresh)) = Stamps(s) \o Fresh.pkts
      BY FreshType, StampsAppend
    <2>4. Stamps(s) \o <<>> = Stamps(s)
      BY PacketsInType, Lists!ConcatEmptySeq
    <2> QED
      BY <2>2, <2>3, <2>4, FreshType
  <1>3. CASE b.cur = 0
    <2>1. r = Opened(b, Append(b.seqs, Fresh))
      BY <1>3 DEF RoomForPacket, Fresh, Opened
    <2> QED
      BY <1>1, <1>2, <2>1
  <1>4. CASE b.cur # 0 /\ HasFreeSpace(b.seqs[b.cur])
    BY <1>4 DEF RoomForPacket
  <1>5. CASE b.cur # 0 /\ ~ HasFreeSpace(b.seqs[b.cur])
    <2> DEFINE c == b.cur
               y == b.seqs[c]
               d == pkt.ts - Last(y.pkts).ts
               z == Delayed(y, d)
               s == [b.seqs EXCEPT ![c] = z]
    <2>1. c = Len(b.seqs) /\ c \in 1 .. Len(b.seqs) /\ y \in SequenceType
      BY <1>1, <1>5 DEF Indexed
    <2>2. d \in Int
      BY <1>5, <2>1, GapType
    <2>3. r = Opened(b, Append(s, Fresh))
      <3>1. r = [b EXCEPT !.seqs = Append([b.seqs EXCEPT ![b.cur].usecDelay = d], NewSequence(1, 0)),
                          !.cur = Len(b.seqs) + 1]
        BY <1>5 DEF RoomForPacket
      <3>2. [b.seqs EXCEPT ![b.cur].usecDelay = d] = s
        BY DEF Delayed
      <3> HIDE DEF s, d
      <3> QED
        BY <3>1, <3>2 DEF Fresh, Opened
    <2>4. z \in SequenceType /\ z.pkts = y.pkts
      <3> HIDE DEF y, d
      <3> QED
        BY <2>1, <2>2, DelayedType
    <2> HIDE DEF z, d
    <2>5. /\ s \in Seq(SequenceType) /\ Len(s) = Len(b.seqs) /\ s[c] = z
          /\ \A q \in 1 .. Len(b.seqs) : q # c => s[q] = b.seqs[q]
      <3> DEFINE w == b.seqs
      <3>1. w \in Seq(SequenceType) /\ c \in 1 .. Len(w) /\ z \in SequenceType
        BY <1>1, <2>1, <2>4
      <3> HIDE DEF c, w
      <3>2. /\ [w EXCEPT ![c] = z] \in Seq(SequenceType) /\ Len([w EXCEPT ![c] = z]) = Len(w)
            /\ [w EXCEPT ![c] = z][c] = z
            /\ \A q \in 1 .. Len(w) : q # c => [w EXCEPT ![c] = z][q] = w[q]
        BY <3>1
      <3> QED
        BY <3>2 DEF w
    <2> HIDE DEF s
    <2>6. \A q \in 1 .. Len(s) : s[q].pkts = b.seqs[q].pkts
      BY <2>4, <2>5
    <2>7. Stamps(s) = Stamps(b.seqs)
      BY <1>1, <2>5, <2>6, StampsSame
    <2> QED
      BY <1>2, <2>3, <2>5, <2>7
  <1> QED
    BY <1>3, <1>4, <1>5

\* Where no set is open the builder has the packets S.
Holding(b, S) ==
    /\ \E X, Y : Built(b, X, Y)
    /\ b.repeatSize = 0 /\ Stamps(b.seqs) = S /\ S \in Seq(PacketType)

\* A packet that is appended is behind all others.
LEMMA AppendHolding ==
    ASSUME NEW b, NEW S, Holding(b, S), NEW pkt \in PacketType,
           NEW c, c = AppendToPacketList(b, pkt)
    PROVE  Holding(c, Append(S, pkt))
  <1>1. PICK X, Y : Built(b, X, Y)
    BY DEF Holding
  <1>2. b.repeatSize = 0 /\ Stamps(b.seqs) = S /\ S \in Seq(PacketType)
    BY DEF Holding
  <1>3. PICK X1, Y1 : Appended(b, X, Y, pkt, c, X1, Y1)
    BY <1>1, AppendBuilt
  <1>4. Built(c, X1, Y1) /\ c.repeatSize = 0
    BY <1>2, <1>3 DEF Appended
  <1>5. PICK r, a, W, y, X2, Y2 : AppendSteps(b, pkt, c, r, a, W, y, X2, Y2)
    BY <1>1, AppendTakes
  <1>6. /\ W \in Seq(SequenceType) /\ y \in SequenceType
        /\ r = RoomForPacket(b, pkt) /\ a = Put(r, pkt)
        /\ r \in BuilderType /\ r.seqs = Append(W, y) /\ r.cur = Len(W) + 1
        /\ c = a \/ (c = ClosePacketSet(a) /\ a.repeatSize # 0)
    BY <1>5 DEF AppendSteps
  <1>7. a.seqs = Append(W, WithPacket(y, pkt)) /\ a.repeatSize = r.repeatSize
    BY <1>6, PutType
  <1>8. r.repeatSize = b.repeatSize
    <2>1. PICK Xr, Vr, yr : Roomy(b, X, Y, r, Xr, Vr, yr)
      BY <1>1, <1>6, RoomBuilt
    <2> QED
      BY <2>1 DEF Roomy
  <1>9. c = a
    BY <1>2, <1>6, <1>7, <1>8
  <1>10. Stamps(r.seqs) = S
    BY <1>1, <1>2, <1>6, RoomStamps
  <1>11. Stamps(Append(W, y)) = Stamps(W) \o y.pkts
    BY <1>6, StampsAppend
  <1>12. Stamps(Append(W, WithPacket(y, pkt))) = Stamps(W) \o Append(y.pkts, pkt)
    <2>1. WithPacket(y, pkt) \in SequenceType /\ WithPacket(y, pkt).pkts = Append(y.pkts, pkt)
      BY <1>6, WithPacketType
    <2> QED
      BY <1>6, <2>1, StampsAppend
  <1>13. Stamps(W) \o Append(y.pkts, pkt) = Append(Stamps(W) \o y.pkts, pkt)
    <2> DEFINE u == Stamps(W)
               v == y.pkts
    <2>1. u \in Seq(PacketType) /\ v \in Seq(PacketType)
      BY <1>6, PacketsInType DEF SequenceType
    <2> HIDE DEF u, v
    <2>2. u \o Append(v, pkt) = Append(u \o v, pkt)
      BY <2>1
    <2> QED
      BY <2>2 DEF u, v
  <1>14. Stamps(c.seqs) = Append(S, pkt)
    BY <1>6, <1>7, <1>9, <1>10, <1>11, <1>12, <1>13
  <1>15. Append(S, pkt) \in Seq(PacketType)
    BY <1>2, Lists!AppendProperties
  <1> QED
    BY <1>4, <1>14, <1>15 DEF Holding

-----------------------------------------------------------------------------
(* The packets of one stream.                                               *)

\* How many of the first m packets have guid g.
CountIn(S, g, m) == Cardinality({q \in 1 .. m : S[q].guid = g})

\* It is a number.
LEMMA CountInType ==
    ASSUME NEW S, NEW g, NEW m \in Nat
    PROVE  CountIn(S, g, m) \in Nat
  <1>1. IsFiniteSet(1 .. m)
    BY FS_Interval
  <1>2. IsFiniteSet({q \in 1 .. m : S[q].guid = g})
    BY <1>1, FS_Subset
  <1> QED
    BY <1>2, FS_CardinalityType DEF CountIn

\* At first there is none.
LEMMA CountInNone ==
    ASSUME NEW S, NEW g
    PROVE  CountIn(S, g, 0) = 0
  <1>1. {q \in 1 .. 0 : S[q].guid = g} = {}
    OBVIOUS
  <1> QED
    BY <1>1, FS_EmptySet DEF CountIn

\* A packet appended counts if it is of the stream, and only behind the others.
LEMMA CountInAppend ==
    ASSUME NEW S \in Seq(PacketType), NEW pkt \in PacketType, NEW g
    PROVE  /\ \A m \in 0 .. Len(S) : CountIn(Append(S, pkt), g, m) = CountIn(S, g, m)
           /\ CountIn(Append(S, pkt), g, Len(S) + 1) =
                 CountIn(S, g, Len(S)) + (IF pkt.guid = g THEN 1 ELSE 0)
  <1> DEFINE A == Append(S, pkt)
             L == Len(S)
             Q(T, m) == {q \in 1 .. m : T[q].guid = g}
  <1>1. /\ L \in Nat /\ Len(A) = L + 1 /\ A[L + 1] = pkt
        /\ \A q \in 1 .. L : A[q] = S[q]
    BY Lists!AppendProperties
  <1> HIDE DEF A
  <1>2. \A m \in 0 .. L : Q(A, m) = Q(S, m)
    BY <1>1
  <1>3. Q(A, L + 1) = IF pkt.guid = g THEN Q(S, L) \cup {L + 1} ELSE Q(S, L)
    BY <1>1
  <1>4. IsFiniteSet(Q(S, L)) /\ L + 1 \notin Q(S, L)
    <2>1. IsFiniteSet(1 .. L)
      BY <1>1, FS_Interval
    <2> QED
      BY <1>1, <2>1, FS_Subset
  <1>5. Cardinality(Q(S, L) \cup {L + 1}) = Cardinality(Q(S, L)) + 1
    <2> HIDE DEF Q
    <2> QED
      BY <1>4, FS_AddElement
  <1>6. Cardinality(Q(S, L)) \in Nat
    <2> HIDE DEF Q
    <2> QED
      BY <1>4, FS_CardinalityType
  <1>7. \A T, m : CountIn(T, g, m) = Cardinality(Q(T, m))
    BY DEF CountIn
  <1> HIDE DEF Q
  <1> QED
    BY <1>1, <1>2, <1>3, <1>5, <1>6, <1>7 DEF A

\* The packet after nth gaps of stream s is in the list at t, when it is due or less than
\* the smallest gap after.
OnTime(s, least, nth, t) ==
    /\ t >= (nth * s.gap.whole) \div 1000
    /\ t <= (nth * CeilGap(s.gap) + least) \div 1000

\* The q packets of stream s are on time.
Timely(S, s, least, q) ==
    /\ CountIn(S, s.guid, Len(S)) = q
    /\ \A m \in 1 .. Len(S) :
          S[m].guid = s.guid =>
             OnTime(s, least, CountIn(S, s.guid, m - 1) \div AtOnce(s), S[m].ts)

\* Without packets they are.
LEMMA TimelyNone ==
    ASSUME NEW s, NEW least
    PROVE  Timely(<<>>, s, least, 0)
  <1>1. Len(<<>>) = 0
    BY Lists!EmptySeq
  <1> QED
    BY <1>1, CountInNone DEF Timely

\* Packets of other streams do not matter,
LEMMA TimelyOther ==
    ASSUME NEW S \in Seq(PacketType), NEW pkt \in PacketType, NEW s, NEW least, NEW q,
           pkt.guid # s.guid, Timely(S, s, least, q)
    PROVE  Timely(Append(S, pkt), s, least, q)
  <1> DEFINE A == Append(S, pkt)
             g == s.guid
             L == Len(S)
  <1>1. /\ L \in Nat /\ Len(A) = L + 1 /\ A[L + 1] = pkt
        /\ \A m \in 1 .. L : A[m] = S[m]
    BY Lists!AppendProperties
  <1>2. /\ \A m \in 0 .. L : CountIn(A, g, m) = CountIn(S, g, m)
        /\ CountIn(A, g, L + 1) = CountIn(S, g, L) + 0
    <2> HIDE DEF g
    <2> QED
      BY CountInAppend DEF g
  <1>3. CountIn(S, g, L) \in Nat /\ CountIn(S, g, L) = q
    BY <1>1, CountInType DEF Timely
  <1>4. \A m \in 1 .. L : S[m].guid = g => OnTime(s, least, CountIn(S, g, m - 1) \div AtOnce(s), S[m].ts)
    BY DEF Timely
  <1> HIDE DEF A, L
  <1>5. ASSUME NEW m \in 1 .. L + 1, A[m].guid = g
        PROVE  OnTime(s, least, CountIn(A, g, m - 1) \div AtOnce(s), A[m].ts)
    <2>1. m \in 1 .. L /\ m - 1 \in 0 .. L
      BY <1>1, <1>5
    <2> QED
      BY <1>1, <1>2, <1>4, <1>5, <2>1
  <1> QED
    BY <1>1, <1>2, <1>3, <1>5 DEF Timely, A

\* and one of its own may follow if it is on time.
LEMMA TimelyOwn ==
    ASSUME NEW S \in Seq(PacketType), NEW pkt \in PacketType, NEW s, NEW least, NEW q,
           pkt.guid = s.guid, Timely(S, s, least, q),
           OnTime(s, least, q \div AtOnce(s), pkt.ts)
    PROVE  Timely(Append(S, pkt), s, least, q + 1)
  <1> DEFINE A == Append(S, pkt)
             g == s.guid
             L == Len(S)
  <1>1. /\ L \in Nat /\ Len(A) = L + 1 /\ A[L + 1] = pkt
        /\ \A m \in 1 .. L : A[m] = S[m]
    BY Lists!AppendProperties
  <1>2. /\ \A m \in 0 .. L : CountIn(A, g, m) = CountIn(S, g, m)
        /\ CountIn(A, g, L + 1) = CountIn(S, g, L) + 1
    <2> HIDE DEF g
    <2> QED
      BY CountInAppend DEF g
  <1>3. CountIn(S, g, L) \in Nat /\ CountIn(S, g, L) = q
    BY <1>1, CountInType DEF Timely
  <1>4. \A m \in 1 .. L : S[m].guid = g => OnTime(s, least, CountIn(S, g, m - 1) \div AtOnce(s), S[m].ts)
    BY DEF Timely
  <1> HIDE DEF A, L
  <1>5. ASSUME NEW m \in 1 .. L + 1, A[m].guid = g
        PROVE  OnTime(s, least, CountIn(A, g, m - 1) \div AtOnce(s), A[m].ts)
    <2>1. CASE m = L + 1
      <3>1. m - 1 = L /\ L \in 0 .. L
        BY <1>1, <2>1
      <3>2. CountIn(A, g, m - 1) = q
        BY <1>2, <1>3, <3>1
      <3> QED
        BY <1>1, <2>1, <3>2
    <2>2. CASE m # L + 1
      <3>1. m \in 1 .. L /\ m - 1 \in 0 .. L
        BY <1>1, <2>2
      <3> QED
        BY <1>1, <1>2, <1>4, <1>5, <3>1
    <2> QED
      BY <2>1, <2>2
  <1> QED
    BY <1>1, <1>2, <1>3, <1>5 DEF Timely, A

-----------------------------------------------------------------------------
(* What is known of a stream, and when it is due.                           *)

PlanType == [up : Int, due : TimeType, count : Nat, bursts : Nat]

\* How many gaps are rounded up is a number.
LEMMA RoundedUpType ==
    ASSUME NEW s \in StreamType
    PROVE  RoundedUp(s) \subseteq Int
  <1> DEFINE a == s.gap.num * Second
             d == s.gap.whole * s.gap.den + s.gap.num
             exact == a \div d
  <1>1. s.gap.num \in Nat /\ s.gap.whole \in Nat /\ s.gap.den \in Nat \ {0}
    BY DEF StreamType
  <1>2. CASE s.gap.num = 0
    BY <1>2 DEF RoundedUp
  <1>3. CASE s.gap.num # 0
    <2>1. a \in Nat /\ d \in Nat \ {0}
      <3>1. s.gap.whole * s.gap.den \in Nat
        BY <1>1
      <3>2. a \in Nat
        BY <1>1, SecondAssumption
      <3> QED
        BY <1>1, <1>3, <3>1, <3>2
    <2>2. exact \in Nat
      <3> HIDE DEF a, d
      <3> QED
        BY <2>1, DividePositive
    <2>3. RoundedUp(s) = {r \in {exact - 1, exact} : r >= 0}
      BY <1>3 DEF RoundedUp
    <2> HIDE DEF exact
    <2> QED
      BY <2>2, <2>3
  <1> QED
    BY <1>2, <1>3

\* A steady stream is sent by its plan p: after as many gaps as it had turns, it is due
\* less than the smallest gap before C, and behind C if it had its turn.
Planned(S, s, p, C, least, had) ==
    /\ p \in PlanType /\ 0 < least /\ least <= s.gap.whole
    /\ p.bursts * s.gap.whole <= Nsec(p.due) /\ Nsec(p.due) <= p.bursts * CeilGap(s.gap)
    /\ (p.bursts - 1) * s.gap.whole < Second
    /\ Nsec(p.due) > C - least
    /\ had => Nsec(p.due) > C
    /\ Timely(S, s, least, p.bursts * AtOnce(s))

\* As the list has them.
Microseconds(t) == t \div 1000

\* What is due at C is on time.
LEMMA PlannedOnTime ==
    ASSUME NEW s \in StreamType, NEW S, NEW p, NEW C \in Nat, NEW least \in Nat,
           Planned(S, s, p, C, least, FALSE), Nsec(p.due) <= C
    PROVE  OnTime(s, least, p.bursts, Microseconds(C))
  <1> DEFINE w == p.bursts * s.gap.whole
             u == p.bursts * CeilGap(s.gap)
             x == Nsec(p.due)
  <1>1. p \in PlanType /\ w <= x /\ x <= u /\ x > C - least
    BY DEF Planned
  <1>2. p.bursts \in Nat /\ p.due \in TimeType
    BY <1>1 DEF PlanType
  <1>3. w \in Nat /\ u \in Nat
    <2>1. s.gap.whole \in Nat /\ CeilGap(s.gap) \in Nat
      BY CeilAtLeast
    <2> QED
      BY <1>2, <2>1
  <1>4. x \in Nat
    BY <1>2, NsecType
  <1> HIDE DEF w, u
  <1>5. w <= C /\ C <= u + least
    BY <1>1, <1>3, <1>4
  <1>6. C \div 1000 >= w \div 1000 /\ C \div 1000 <= (u + least) \div 1000
    BY <1>3, <1>5
  <1> QED
    BY <1>6 DEF OnTime, Microseconds, w, u

\* Its turn makes it due a gap later.
LEMMA PlannedSend ==
    ASSUME NEW s \in StreamType, NEW S, NEW T, NEW p, NEW q \in PlanType,
           NEW C \in Nat, NEW least \in Nat,
           Planned(S, s, p, C, least, FALSE), Nsec(p.due) <= C, C < Second,
           NEW g \in {s.gap.whole, CeilGap(s.gap)},
           q.bursts = p.bursts + 1, Nsec(q.due) = Nsec(p.due) + g,
           Timely(T, s, least, p.bursts * AtOnce(s) + AtOnce(s))
    PROVE  Planned(T, s, q, C, least, TRUE)
  <1> DEFINE k == p.bursts
             w == s.gap.whole
             u == CeilGap(s.gap)
             x == Nsec(p.due)
             a == AtOnce(s)
  <1>1. /\ p \in PlanType /\ 0 < least /\ least <= w
        /\ k * w <= x /\ x <= k * u /\ x > C - least
    BY DEF Planned
  <1>2. k \in Nat /\ p.due \in TimeType
    BY <1>1 DEF PlanType
  <1>3. w \in Nat /\ u \in Nat /\ w <= u
    BY CeilAtLeast
  <1>4. x \in Nat
    BY <1>2, NsecType
  <1>5. a \in Nat
    BY DEF AtOnce, StreamType
  <1> HIDE DEF k, w, u, x, a
  <1>6. /\ k * w \in Nat /\ (k + 1) * w = k * w + w
        /\ k * u \in Nat /\ (k + 1) * u = k * u + u
        /\ (k + 1) * a = k * a + a
    BY <1>2, <1>3, <1>5, OnceMore
  <1>7. q.bursts = k + 1 /\ Nsec(q.due) = x + g /\ (g = w \/ g = u) /\ x <= C
    BY DEF k, x, w, u
  <1>8. (k + 1) * w <= x + g /\ x + g <= (k + 1) * u
    BY <1>1, <1>3, <1>4, <1>6, <1>7
  <1>9. x + g > C
    BY <1>1, <1>3, <1>4, <1>7
  <1>10. ((k + 1) - 1) * w < Second
    <2>1. (k + 1) - 1 = k
      BY <1>2
    <2> QED
      BY <1>1, <1>4, <1>6, <1>7, <2>1, SecondAssumption
  <1>11. Timely(T, s, least, (k + 1) * a)
    BY <1>6 DEF k, a
  <1>12. x + g > C - least
    BY <1>1, <1>3, <1>4, <1>7
  <1> QED
    BY <1>1, <1>7, <1>8, <1>9, <1>10, <1>11, <1>12 DEF Planned, w, u, a

\* The clock goes on when all had their turns.
LEMMA PlannedTick ==
    ASSUME NEW S, NEW s, NEW p, NEW C \in Nat, NEW least \in Nat,
           Planned(S, s, p, C, least, TRUE)
    PROVE  Planned(S, s, p, C + least, least, FALSE)
  <1> DEFINE x == Nsec(p.due)
  <1>1. p \in PlanType /\ x > C
    BY DEF Planned
  <1>2. x \in Nat
    BY <1>1, NsecType DEF PlanType
  <1>3. x > (C + least) - least
    BY <1>1, <1>2
  <1> QED
    BY <1>3 DEF Planned

-----------------------------------------------------------------------------
(* A turn of a stream.                                                      *)

\* The enabled streams are streams, in the places of streams.
LEMMA ActiveFacts ==
    ASSUME streamList_ \in PacedLists
    PROVE  /\ Active \in Seq(StreamType) /\ streamList_ \in Seq(StreamType)
           /\ Len(Active) \in Nat /\ Len(Active) <= Len(streamList_) /\ Differ(Active)
  <1>1. streamList_ \in Seq(StreamType)
    BY PacedListsAssumption
  <1>2. Differ(streamList_)
    <2>1. \A m, n \in DOMAIN streamList_ : streamList_[m].guid = streamList_[n].guid => m = n
      BY PacedListsAssumption
    <2>2. DOMAIN streamList_ = 1 .. Len(streamList_)
      BY <1>1
    <2> QED
      BY <2>1, <2>2 DEF Differ
  <1>3. Among(streamList_, Len(streamList_), Active)
    BY <1>1, <1>2, EnabledAmong DEF Active
  <1> QED
    BY <1>1, <1>3 DEF Among

\* What a frame does to the stream's plan, and to the time of the last packet.
FrameSent(s, st, o, S, T) ==
    \E pkt \in PacketType, g \in {s.gap.whole, CeilGap(s.gap)} :
       /\ T = Append(S, pkt) /\ Holding(o.list, T)
       /\ pkt.ts = Nsec(clock) \div 1000
       /\ NumbersAgree => pkt.guid = s.guid
       /\ o.p \in PlanType /\ o.p.bursts = st.p.bursts /\ o.last = clock
       /\ o.p.due = IF s.unit = "packets" THEN Later(st.p.due, g) ELSE st.p.due

\* One frame is sent, unless it does not build.
LEMMA SendOne ==
    ASSUME streamList_ \in PacedLists, slot \in 1 .. Len(Active), clock \in TimeType,
           NEW s, s = Active[slot], NEW S, NEW st, Holding(st.list, S), st.p \in PlanType,
           NEW o, o = SendFrame(st, s)
    PROVE  \/ o = st /\ (NumbersAgree => s.unbuilt # {})
           \/ \E T : FrameSent(s, st, o, S, T)
  <1> DEFINE varies == s.frames > 1
             from == IF varies THEN streamList_[slot] ELSE s
             f == IF varies THEN st.p.count ELSE 0
             pkt == [guid |-> from.guid, ts |-> Nsec(clock) \div 1000]
             g == Gap(s, st.p.count + 1, st.p.up)
             p == [st.p EXCEPT !.count = @ + 1,
                      !.due = IF s.unit = "packets" THEN Later(@, g) ELSE @]
  <1>1. s \in StreamType /\ from \in StreamType
    <2>1. Active \in Seq(StreamType) /\ slot \in 1 .. Len(streamList_)
          /\ streamList_ \in Seq(StreamType)
      BY ActiveFacts
    <2> QED
      BY <2>1
  <1>2. NumbersAgree => from = s
    <2>1. DOMAIN Active = 1 .. Len(Active)
      BY ActiveFacts
    <2> QED
      BY <2>1 DEF NumbersAgree
  <1>3. o = IF ~ FrameBuilds(from, f) THEN st
            ELSE [p |-> p, last |-> clock, list |-> AppendToPacketList(st.list, pkt)]
    BY DEF SendFrame
  <1> HIDE DEF from, f, g
  <1>4. CASE ~ FrameBuilds(from, f)
    <2>1. from.unbuilt # {}
      BY <1>4 DEF FrameBuilds
    <2> QED
      BY <1>2, <1>3, <1>4, <2>1
  <1>5. CASE FrameBuilds(from, f)
    <2>1. /\ o.p = p /\ o.last = clock /\ o.list = AppendToPacketList(st.list, pkt)
      BY <1>3, <1>5
    <2>2. pkt \in PacketType
      <3>1. from.guid \in Nat
        BY <1>1 DEF StreamType
      <3>2. Nsec(clock) \in Nat
        BY NsecType
      <3>3. Nsec(clock) \div 1000 \in Int
        BY <3>2
      <3> QED
        BY <3>1, <3>3 DEF PacketType
    <2>3. g \in {s.gap.whole, CeilGap(s.gap)} /\ g \in Nat
      BY <1>1, CeilAtLeast DEF g, Gap
    <2>4. /\ st.p.due \in TimeType /\ st.p.count \in Nat /\ st.p.bursts \in Nat /\ st.p.up \in Int
      BY DEF PlanType
    <2> DEFINE due == IF s.unit = "packets" THEN Later(st.p.due, g) ELSE st.p.due
    <2>5. due \in TimeType
      <3>1. Later(st.p.due, g) \in TimeType
        BY <2>3, <2>4, LaterTime
      <3> QED
        BY <2>4, <3>1
    <2>6. p = [up |-> st.p.up, due |-> due, count |-> st.p.count + 1, bursts |-> st.p.bursts]
      <3> DEFINE x == st.p
      <3>1. x \in PlanType
        OBVIOUS
      <3> HIDE DEF x
      <3> DEFINE e == IF s.unit = "packets" THEN Later(x.due, g) ELSE x.due
                 y == [x EXCEPT !.count = @ + 1,
                          !.due = IF s.unit = "packets" THEN Later(@, g) ELSE @]
      <3>2. y = [x EXCEPT !.count = x.count + 1, !.due = e]
        OBVIOUS
      <3> HIDE DEF e, y
      <3>3. y = [up |-> x.up, due |-> e, count |-> x.count + 1, bursts |-> x.bursts]
        BY <3>1, <3>2 DEF PlanType
      <3> QED
        BY <3>3 DEF e, x, y
    <2> HIDE DEF p, due
    <2>7. p \in PlanType /\ p.bursts = st.p.bursts /\ p.due = due
      <3>1. st.p.count + 1 \in Nat
        BY <2>4
      <3> QED
        BY <2>4, <2>5, <2>6, <3>1 DEF PlanType
    <2> HIDE DEF pkt
    <2>8. Holding(o.list, Append(S, pkt))
      BY <2>1, <2>2, AppendHolding
    <2>9. pkt.ts = Nsec(clock) \div 1000 /\ (NumbersAgree => pkt.guid = s.guid)
      BY <1>2 DEF pkt
    <2>10. FrameSent(s, st, o, S, Append(S, pkt))
      BY <2>1, <2>2, <2>3, <2>7, <2>8, <2>9 DEF FrameSent, due
    <2> QED
      BY <2>10
  <1> QED
    BY <1>4, <1>5

\* r frames later the list has T, the times of the others stand as they stood in S, and a
\* steady stream's frames are all there, as due as the first.
FramesSent(s, st, S, r) ==
    /\ st.p \in PlanType /\ st.p.bursts = plan[slot].bursts /\ st.last \in TimeType
    /\ s.unit = "bursts" \/ r = 0 => st.p.due = plan[slot].due
    /\ NumbersAgree /\ s.unbuilt = {} /\ s.unit = "packets" /\ r = 1 =>
          \E g \in {s.gap.whole, CeilGap(s.gap)} : st.p.due = Later(plan[slot].due, g)
    /\ \E T : /\ Holding(st.list, T)
              /\ T # <<>> => Last(T).ts = Nsec(st.last) \div 1000
              /\ NumbersAgree => \A z, q : /\ z.guid # s.guid
                                           /\ Timely(S, z, minGap, q)
                                           => Timely(T, z, minGap, q)
              /\ /\ NumbersAgree /\ s.unbuilt = {}
                 /\ Timely(S, s, minGap, plan[slot].bursts * AtOnce(s))
                 /\ OnTime(s, minGap, plan[slot].bursts, Nsec(clock) \div 1000)
                 => Timely(T, s, minGap, plan[slot].bursts * AtOnce(s) + r)

\* Before the first frame.
LEMMA NoneSent ==
    ASSUME plan[slot] \in PlanType, lastTx \in TimeType, NEW S, Holding(list, S),
           S # <<>> => Last(S).ts = Nsec(lastTx) \div 1000, NEW s \in StreamType,
           NEW st, st = [p |-> plan[slot], last |-> lastTx, list |-> list]
    PROVE  FramesSent(s, st, S, 0)
  <1>1. st.p = plan[slot] /\ st.last = lastTx /\ st.list = list
    OBVIOUS
  <1>2. plan[slot].bursts * AtOnce(s) + 0 = plan[slot].bursts * AtOnce(s)
    <2>1. plan[slot].bursts \in Nat /\ AtOnce(s) \in Nat
      BY DEF PlanType, AtOnce, StreamType
    <2> QED
      BY <2>1
  <1>3. \E T : /\ Holding(st.list, T)
               /\ T # <<>> => Last(T).ts = Nsec(st.last) \div 1000
               /\ NumbersAgree => \A z, q : /\ z.guid # s.guid
                                            /\ Timely(S, z, minGap, q)
                                            => Timely(T, z, minGap, q)
               /\ /\ NumbersAgree /\ s.unbuilt = {}
                  /\ Timely(S, s, minGap, plan[slot].bursts * AtOnce(s))
                  /\ OnTime(s, minGap, plan[slot].bursts, Nsec(clock) \div 1000)
                  => Timely(T, s, minGap, plan[slot].bursts * AtOnce(s) + 0)
    BY <1>1, <1>2
  <1> QED
    BY <1>1, <1>3 DEF FramesSent

\* Each frame of a slot.
LEMMA OneMoreSent ==
    ASSUME streamList_ \in PacedLists, slot \in 1 .. Len(Active), clock \in TimeType,
           plan[slot] \in PlanType, NEW s, s = Active[slot], NEW S, NEW st,
           NEW r \in Nat, r < AtOnce(s), FramesSent(s, st, S, r),
           NEW o, o = SendFrame(st, s)
    PROVE  FramesSent(s, o, S, r + 1)
  <1>1. /\ st.p \in PlanType /\ st.p.bursts = plan[slot].bursts /\ st.last \in TimeType
        /\ s.unit = "bursts" \/ r = 0 => st.p.due = plan[slot].due
    BY DEF FramesSent
  <1> DEFINE k == plan[slot].bursts
             a == AtOnce(s)
             C == Nsec(clock) \div 1000
  <1>2. PICK T : /\ Holding(st.list, T)
                 /\ T # <<>> => Last(T).ts = Nsec(st.last) \div 1000
                 /\ NumbersAgree => \A z, q : /\ z.guid # s.guid
                                              /\ Timely(S, z, minGap, q)
                                              => Timely(T, z, minGap, q)
                 /\ /\ NumbersAgree /\ s.unbuilt = {}
                    /\ Timely(S, s, minGap, k * a)
                    /\ OnTime(s, minGap, k, C)
                    => Timely(T, s, minGap, k * a + r)
    BY DEF FramesSent
  <1>3. \/ o = st /\ (NumbersAgree => s.unbuilt # {})
        \/ \E U : FrameSent(s, st, o, T, U)
    <2>1. Holding(st.list, T)
      BY <1>2
    <2>2. st.p \in PlanType
      BY <1>1
    <2> QED
      BY <2>1, <2>2, SendOne
  <1>4. s \in StreamType /\ k \in Nat /\ a \in Nat /\ r + 1 # 0
    <2>1. Active \in Seq(StreamType)
      BY ActiveFacts
    <2>2. s \in StreamType
      BY <2>1
    <2>3. k \in Nat
      BY DEF PlanType
    <2>4. a \in Nat
      BY <2>2 DEF AtOnce, StreamType
    <2> QED
      BY <2>2, <2>3, <2>4
  <1>5. s.unit \in {"packets", "bursts"} /\ (s.unit = "packets" => r = 0)
    BY <1>4 DEF AtOnce, StreamType
  <1>6. CASE o = st /\ (NumbersAgree => s.unbuilt # {})
    <2> HIDE DEF k, a, C
    <2>1. ~ (NumbersAgree /\ s.unbuilt = {})
      BY <1>6
    <2>2. \E W : /\ Holding(o.list, W)
                 /\ W # <<>> => Last(W).ts = Nsec(o.last) \div 1000
                 /\ NumbersAgree => \A z, q : /\ z.guid # s.guid
                                              /\ Timely(S, z, minGap, q)
                                              => Timely(W, z, minGap, q)
                 /\ /\ NumbersAgree /\ s.unbuilt = {}
                    /\ Timely(S, s, minGap, k * a)
                    /\ OnTime(s, minGap, k, C)
                    => Timely(W, s, minGap, k * a + (r + 1))
      BY <1>2, <1>6, <2>1
    <2> QED
      BY <1>1, <1>4, <1>6, <2>1, <2>2 DEF FramesSent, k, a, C
  <1>7. CASE \E U : FrameSent(s, st, o, T, U)
    <2>0. PICK U : FrameSent(s, st, o, T, U)
      BY <1>7
    <2>1. PICK pkt \in PacketType, g \in {s.gap.whole, CeilGap(s.gap)} :
             /\ U = Append(T, pkt) /\ Holding(o.list, U) /\ pkt.ts = C
             /\ NumbersAgree => pkt.guid = s.guid
             /\ o.p \in PlanType /\ o.p.bursts = st.p.bursts /\ o.last = clock
             /\ o.p.due = IF s.unit = "packets" THEN Later(st.p.due, g) ELSE st.p.due
      BY <2>0 DEF FrameSent
    <2>2. T \in Seq(PacketType)
      BY <1>2 DEF Holding
    <2>3. U # <<>> => Last(U).ts = Nsec(o.last) \div 1000
      <3>1. Len(U) = Len(T) + 1 /\ U[Len(T) + 1] = pkt
        BY <2>1, <2>2, Lists!AppendProperties
      <3>2. Last(U) = pkt
        BY <3>1 DEF Last
      <3> QED
        BY <2>1, <3>2
    <2>4. ASSUME NumbersAgree, NEW z, NEW q, z.guid # s.guid, Timely(S, z, minGap, q)
          PROVE  Timely(U, z, minGap, q)
      <3>1. Timely(T, z, minGap, q) /\ pkt.guid # z.guid
        BY <1>2, <2>1, <2>4
      <3> QED
        BY <2>1, <2>2, <3>1, TimelyOther
    <2>5. ASSUME NumbersAgree, s.unbuilt = {}, Timely(S, s, minGap, k * a),
                 OnTime(s, minGap, k, C)
          PROVE  Timely(U, s, minGap, k * a + (r + 1))
      <3> HIDE DEF k, a, C
      <3>1. Timely(T, s, minGap, k * a + r) /\ pkt.guid = s.guid /\ pkt.ts = C
        BY <1>2, <2>1, <2>5
      <3>2. (k * a + r) \div a = k
        <4>1. a \in Nat \ {0} /\ r \in 0 .. a - 1
          BY <1>4 DEF a
        <4> QED
          BY <1>4, <4>1, DivideMultiple
      <3>3. OnTime(s, minGap, (k * a + r) \div AtOnce(s), pkt.ts)
        BY <2>5, <3>1, <3>2 DEF a
      <3>4. Timely(Append(T, pkt), s, minGap, (k * a + r) + 1)
        BY <2>2, <3>1, <3>3, TimelyOwn
      <3>5. (k * a + r) + 1 = k * a + (r + 1)
        BY <1>4
      <3> QED
        BY <2>1, <3>4, <3>5
    <2>6. s.unit = "bursts" \/ r + 1 = 0 => o.p.due = plan[slot].due
      BY <1>1, <1>4, <2>1
    <2>7. s.unit = "packets" => o.p.due = Later(plan[slot].due, g)
      BY <1>1, <1>5, <2>1
    <2> HIDE DEF k, a, C
    <2>8. \E W : /\ Holding(o.list, W)
                 /\ W # <<>> => Last(W).ts = Nsec(o.last) \div 1000
                 /\ NumbersAgree => \A z, q : /\ z.guid # s.guid
                                              /\ Timely(S, z, minGap, q)
                                              => Timely(W, z, minGap, q)
                 /\ /\ NumbersAgree /\ s.unbuilt = {}
                    /\ Timely(S, s, minGap, k * a)
                    /\ OnTime(s, minGap, k, C)
                    => Timely(W, s, minGap, k * a + (r + 1))
      <3>1. NumbersAgree => \A z, q : /\ z.guid # s.guid
                                      /\ Timely(S, z, minGap, q)
                                      => Timely(U, z, minGap, q)
        BY <2>4
      <3> QED
        BY <2>1, <2>3, <2>5, <3>1
    <2> QED
      BY <1>1, <2>1, <2>6, <2>7, <2>8 DEF FramesSent, k, a, C
  <1> QED
    BY <1>3, <1>6, <1>7

\* The function SendFrames(s) takes its value from, for n frames.
Sending(f, s, n) ==
    f = [r \in 0 .. n |-> IF r = 0 THEN [p |-> plan[slot], last |-> lastTx, list |-> list]
                          ELSE SendFrame(f[r - 1], s)]

\* There is one.
LEMMA SendingExists ==
    ASSUME NEW s, NEW n \in Nat
    PROVE  \E f : Sending(f, s, n)
  <1> DEFINE init == [p |-> plan[slot], last |-> lastTx, list |-> list]
             Up(k) == \E f : f = [r \in 0 .. k |-> IF r = 0 THEN init ELSE SendFrame(f[r - 1], s)]
             S == {k \in Nat : Up(k)}
  <1> HIDE DEF init
  <1>1. 0 \in S
    <2>1. Up(0)
      <3> DEFINE f == [r \in 0 .. 0 |-> init]
      <3>1. f = [r \in 0 .. 0 |-> IF r = 0 THEN init ELSE SendFrame(f[r - 1], s)]
        OBVIOUS
      <3> QED
        BY <3>1
    <2> QED
      BY <2>1
  <1>2. ASSUME NEW k \in S PROVE k + 1 \in S
    <2>1. k \in Nat
      OBVIOUS
    <2>2. PICK f : f = [r \in 0 .. k |-> IF r = 0 THEN init ELSE SendFrame(f[r - 1], s)]
      OBVIOUS
    <2> DEFINE g == [r \in 0 .. k + 1 |-> IF r <= k THEN f[r] ELSE SendFrame(f[r - 1], s)]
    <2>3. g = [r \in 0 .. k + 1 |-> IF r = 0 THEN init ELSE SendFrame(g[r - 1], s)]
      <3>1. ASSUME NEW r \in 0 .. k + 1
            PROVE  g[r] = IF r = 0 THEN init ELSE SendFrame(g[r - 1], s)
        <4>1. CASE r <= k
          <5>1. r \in 0 .. k /\ g[r] = f[r]
            BY <2>1, <4>1
          <5>2. f[r] = IF r = 0 THEN init ELSE SendFrame(f[r - 1], s)
            BY <2>2, <5>1
          <5>3. r # 0 => r - 1 \in 0 .. k + 1 /\ r - 1 <= k /\ g[r - 1] = f[r - 1]
            BY <2>1, <5>1
          <5> QED
            BY <5>1, <5>2, <5>3
        <4>2. CASE r = k + 1
          <5>1. g[r] = SendFrame(f[r - 1], s) /\ r # 0
            BY <2>1, <4>2
          <5>2. r - 1 \in 0 .. k + 1 /\ r - 1 <= k /\ g[r - 1] = f[r - 1]
            BY <2>1, <4>2
          <5> QED
            BY <5>1, <5>2
        <4> QED
          BY <2>1, <4>1, <4>2
      <3> QED
        BY <3>1
    <2>4. Up(k + 1)
      <3> HIDE DEF g
      <3> QED
        BY <2>3
    <2> HIDE DEF Up
    <2> QED
      BY <2>1, <2>4
  <1>3. S = Nat
    <2>1. S \in SUBSET Nat
      OBVIOUS
    <2> HIDE DEF S
    <2> QED
      BY <1>1, <1>2, <2>1, Induction
  <1>4. Up(n)
    <2> HIDE DEF Up
    <2> QED
      BY <1>3
  <1> QED
    BY <1>4 DEF Sending, init

\* The frames of a slot.
LEMMA AllSent ==
    ASSUME streamList_ \in PacedLists, slot \in 1 .. Len(Active), clock \in TimeType,
           plan[slot] \in PlanType, lastTx \in TimeType, NEW S, Holding(list, S),
           S # <<>> => Last(S).ts = Nsec(lastTx) \div 1000, NEW s, s = Active[slot]
    PROVE  FramesSent(s, SendFrames(s), S, IF HasRate(s) THEN AtOnce(s) ELSE 0)
  <1> DEFINE size == IF HasRate(s) THEN AtOnce(s) ELSE 0
             init == [p |-> plan[slot], last |-> lastTx, list |-> list]
             f == CHOOSE f : f = [n \in 0 .. size |-> IF n = 0 THEN init ELSE SendFrame(f[n - 1], s)]
  <1>1. s \in StreamType
    <2>1. Active \in Seq(StreamType)
      BY ActiveFacts
    <2> QED
      BY <2>1
  <1>2. size \in Nat /\ size <= AtOnce(s)
    <2>1. AtOnce(s) \in Nat
      BY <1>1 DEF AtOnce, StreamType
    <2> QED
      BY <2>1
  <1>3. SendFrames(s) = f[size]
    <2>1. size = IF ~HasRate(s) THEN 0 ELSE IF s.unit = "bursts" THEN s.burst ELSE 1
      BY DEF AtOnce
    <2> HIDE DEF size
    <2> QED
      BY <2>1 DEF SendFrames
  <1> HIDE DEF size
  <1>4. f = [n \in 0 .. size |-> IF n = 0 THEN init ELSE SendFrame(f[n - 1], s)]
    <2>1. \E g : g = [n \in 0 .. size |-> IF n = 0 THEN init ELSE SendFrame(g[n - 1], s)]
      <3> HIDE DEF f
      <3>1. PICK g : Sending(g, s, size)
        BY <1>2, SendingExists
      <3>2. g = [n \in 0 .. size |-> IF n = 0 THEN init ELSE SendFrame(g[n - 1], s)]
        BY <3>1 DEF Sending
      <3> HIDE DEF init
      <3> QED
        BY <3>2
    <2> QED
      BY <2>1
  <1> HIDE DEF f
  <1> DEFINE W == {r \in Nat : r <= size => FramesSent(s, f[r], S, r)}
  <1>5. 0 \in W
    <2>1. f[0] = init
      BY <1>2, <1>4
    <2>2. FramesSent(s, init, S, 0)
      BY <1>1, NoneSent
    <2> HIDE DEF init
    <2> QED
      BY <2>1, <2>2
  <1>6. ASSUME NEW r \in W PROVE r + 1 \in W
    <2>1. r \in Nat
      OBVIOUS
    <2> SUFFICES ASSUME r + 1 <= size PROVE FramesSent(s, f[r + 1], S, r + 1)
      BY <2>1
    <2>2. FramesSent(s, f[r], S, r) /\ r < AtOnce(s)
      <3>1. r <= size
        BY <1>2, <2>1
      <3>2. AtOnce(s) \in Nat
        BY <1>1 DEF AtOnce, StreamType
      <3> QED
        BY <1>2, <2>1, <3>1, <3>2
    <2>3. f[r + 1] = SendFrame(f[r], s)
      <3>1. r + 1 \in 0 .. size /\ r + 1 # 0 /\ (r + 1) - 1 = r
        BY <1>2, <2>1
      <3>2. f[r + 1] = IF r + 1 = 0 THEN init ELSE SendFrame(f[(r + 1) - 1], s)
        <4> HIDE DEF init
        <4> QED
          BY <1>4, <3>1
      <3> QED
        BY <3>1, <3>2
    <2> QED
      BY <2>1, <2>2, <2>3, OneMoreSent
  <1>7. W = Nat
    <2>1. W \in SUBSET Nat
      OBVIOUS
    <2> HIDE DEF W
    <2> QED
      BY <1>5, <1>6, <2>1, Induction
  <1>8. FramesSent(s, f[size], S, size)
    BY <1>2, <1>7
  <1> QED
    BY <1>3, <1>8 DEF size

-----------------------------------------------------------------------------
(* What the interleaved scheduler keeps.                                    *)

\* What is known of the enabled streams; of each steady one all packets are on time, and
\* it has had its turn at this time if the slot is behind it.
Planning ==
    /\ plan \in Seq(PlanType) /\ Len(plan) = Len(Active)
    /\ \A n \in 1 .. Len(Active) :
          Steady(Active[n]) =>
             Planned(Stamped, Active[n], plan[n], Nsec(clock), minGap, pc = "slot" /\ slot > n)

\* The inductive invariant.  A pass of one second does not look at a slot when the second
\* is over, and the list loops after what is left of the pass.
SlotInv ==
    /\ streamList_ \in PacedLists /\ pc \in {"stream", "slot", "looped"}
    /\ clock \in TimeType /\ lastTx \in TimeType /\ minGap \in Nat /\ duration \in Nat
    /\ Holding(list, Stamped)
    /\ Stamped # <<>> => Last(Stamped).ts = Nsec(lastTx) \div 1000
    /\ pc = "stream" => Stamped = <<>> /\ clock = Time(0) /\ plan = <<>>
    /\ pc # "stream" => Planning
    /\ pc = "slot" => slot \in 1 .. Len(Active) + 1 /\ (duration = Second => clock.s = 0)
    /\ pc = "looped" /\ Stamped # <<>> =>
          list.returnTo = 0 /\ list.loopDelay = (duration - Nsec(lastTx)) \div 1000

\* The packets are those of the list's sequences.
LEMMA StampedIs == Stamped = Stamps(list.seqs)
  BY DEF Stamped, Stamps, PacketsIn

\* The scheduler begins with it.
LEMMA InitSlots ==
    ASSUME mode = "interleaved", InitMode
    PROVE  SlotInv
  <1>1. /\ streamList_ \in PacedLists /\ list = ClearedPacketList /\ pc = "stream"
        /\ plan = <<>> /\ clock = Time(0) /\ minGap = 0 /\ duration = 0 /\ lastTx = Time(0)
    BY DEF InitMode, InitWith
  <1>2. list.seqs = <<>> /\ list.repeatSize = 0
    BY <1>1 DEF ClearedPacketList
  <1>3. Built(list, <<>>, <<>>)
    BY <1>1, EmptyList
  <1>4. Stamped = <<>>
    <2>1. PacketsIn(<<>>) = <<>>
      BY DEF PacketsIn
    <2> QED
      BY <1>2, <2>1, StampedIs, FlattenNone DEF Stamps
  <1>5. Holding(list, Stamped)
    <2>1. <<>> \in Seq(PacketType)
      OBVIOUS
    <2> QED
      BY <1>2, <1>3, <1>4, <2>1, StampedIs DEF Holding
  <1>6. Time(0) \in TimeType
    BY TimeParts
  <1> QED
    BY <1>1, <1>4, <1>5, <1>6 DEF SlotInv

\* The streams stay, and with them what depends on them alone.
LEMMA StreamsSame ==
    ASSUME streamList_' = streamList_
    PROVE  /\ Active' = Active /\ (NumbersAgree' <=> NumbersAgree)
           /\ duration' = duration => \A s : Steady(s)' <=> Steady(s)
  <1>1. Active' = Active
    BY DEF Active
  <1>2. NumbersAgree' <=> NumbersAgree
    BY <1>1 DEF NumbersAgree
  <1> QED
    BY <1>1, <1>2 DEF Steady

\* A list that stays keeps its packets.
LEMMA ListSame ==
    ASSUME list'.seqs = list.seqs
    PROVE  Stamped' = Stamped
  BY DEF Stamped

\* The plans are made.
LEMMA StartSlots == SlotInv /\ InterleaveStart => SlotInv'
  <1> SUFFICES ASSUME SlotInv, InterleaveStart PROVE SlotInv'
    OBVIOUS
  <1>1. /\ streamList_ \in PacedLists /\ lastTx \in TimeType
        /\ Holding(list, Stamped) /\ pc = "stream" /\ Stamped = <<>> /\ clock = Time(0)
    BY DEF SlotInv, InterleaveStart
  <1>2. /\ slot' = 1 /\ pc' = "slot" /\ streamList_' = streamList_ /\ list' = list
        /\ clock' = clock /\ lastTx' = lastTx
    BY DEF InterleaveStart
  <1>3. PICK rounded : /\ \A n \in DOMAIN Active : rounded[n] \in RoundedUp(Active[n])
                       /\ plan' = [n \in DOMAIN Active |->
                             [up |-> rounded[n], due |-> Time(0), count |-> 0, bursts |-> 0]]
                       /\ duration' = Duration(Active, rounded)
                       /\ minGap' = MinGap(Active, duration')
    BY DEF InterleaveStart
  <1>4. /\ Active \in Seq(StreamType) /\ Len(Active) \in Nat /\ DOMAIN Active = 1 .. Len(Active)
        /\ \A n \in 1 .. Len(Active) : Active[n] \in StreamType
    BY <1>1, ActiveFacts
  <1>5. Active' = Active /\ Stamped' = Stamped
    BY <1>2, StreamsSame, ListSame
  <1>6. duration' \in Nat
    BY <1>3, <1>4, DurationType
  <1>7. /\ minGap' \in Nat
        /\ \A n \in 1 .. Len(Active) :
              Active[n].gap.whole > 0 => minGap' > 0 /\ minGap' <= Active[n].gap.whole
    BY <1>3, <1>4, <1>6, MinGapLeast
  <1>8. Time(0) \in TimeType /\ Nsec(Time(0)) = 0 /\ Time(0).s = 0
    <2>1. 0 < Second
      BY SecondAssumption
    <2> QED
      BY <2>1, TimeParts
  <1>9. /\ plan' \in Seq(PlanType) /\ Len(plan') = Len(Active)
        /\ \A n \in 1 .. Len(Active) :
              plan'[n] \in PlanType /\ plan'[n].due = Time(0) /\ plan'[n].bursts = 0
    <2>1. ASSUME NEW n \in 1 .. Len(Active)
          PROVE  [up |-> rounded[n], due |-> Time(0), count |-> 0, bursts |-> 0] \in PlanType
      <3>1. rounded[n] \in Int
        BY <1>3, <1>4, RoundedUpType
      <3> QED
        BY <1>8, <3>1 DEF PlanType
    <2>2. plan' \in [1 .. Len(Active) -> PlanType]
      BY <1>3, <1>4, <2>1
    <2>3. plan' \in Seq(PlanType) /\ Len(plan') = Len(Active)
      BY <1>4, <2>2
    <2> QED
      BY <1>3, <1>4, <2>2, <2>3
  <1>10. ASSUME NEW n \in 1 .. Len(Active), Steady(Active[n])'
         PROVE  Planned(<<>>, Active[n], plan'[n], 0, minGap', FALSE)
    <2> DEFINE s == Active[n]
    <2>1. s.gap.whole \in Nat /\ CeilGap(s.gap) \in Nat /\ AtOnce(s) \in Nat
      BY <1>4, CeilAtLeast DEF AtOnce, StreamType
    <2>2. s.gap.whole > 0
      BY <1>5, <1>10 DEF Steady
    <2>3. Timely(<<>>, s, minGap', 0)
      BY TimelyNone
    <2>4. plan'[n] \in PlanType /\ Nsec(plan'[n].due) = 0 /\ plan'[n].bursts = 0
      BY <1>8, <1>9
    <2>5. minGap' \in Nat /\ 0 < minGap' /\ minGap' <= s.gap.whole
      BY <1>7, <2>2
    <2> HIDE DEF s
    <2>6. /\ 0 * s.gap.whole = 0 /\ 0 * CeilGap(s.gap) = 0 /\ 0 * AtOnce(s) = 0
          /\ (0 - 1) * s.gap.whole < Second
      BY <2>1, SecondAssumption
    <2> QED
      BY <2>3, <2>4, <2>5, <2>6 DEF Planned, s
  <1>11. Planning'
    <2> SUFFICES ASSUME NEW n \in 1 .. Len(Active), Steady(Active[n])'
                 PROVE  Planned(Stamped', Active[n], plan'[n], Nsec(clock)', minGap', (pc = "slot" /\ slot > n)')
      BY <1>5, <1>9 DEF Planning
    <2>1. Planned(<<>>, Active[n], plan'[n], 0, minGap', FALSE)
      BY <1>10
    <2>2. Nsec(clock)' = 0
      BY <1>1, <1>2, <1>8
    <2>3. ~ (pc = "slot" /\ slot > n)'
      BY <1>2, <1>4
    <2> QED
      BY <1>1, <1>5, <2>1, <2>2, <2>3 DEF Planned
  <1>12. slot' \in 1 .. Len(Active) + 1
    BY <1>2, <1>4
  <1> QED
    BY <1>1, <1>2, <1>5, <1>6, <1>7, <1>8, <1>11, <1>12 DEF SlotInv

\* Those before the slot had their turns.
LEMMA NothingSlots == SlotInv /\ InterleaveNothing => SlotInv'
  <1> SUFFICES ASSUME SlotInv, InterleaveNothing PROVE SlotInv'
    OBVIOUS
  <1>1. /\ streamList_ \in PacedLists /\ clock \in TimeType /\ lastTx \in TimeType
        /\ minGap \in Nat /\ duration \in Nat
        /\ Holding(list, Stamped) /\ pc = "stream" /\ Stamped = <<>> /\ plan = <<>>
    BY DEF SlotInv, InterleaveNothing
  <1>2. /\ streamList_' = streamList_ /\ list' = list /\ pc' = "looped" /\ Active = <<>>
        /\ clock' = clock /\ lastTx' = lastTx /\ minGap' = minGap /\ duration' = duration
        /\ plan' = plan
    BY DEF InterleaveNothing, ivars
  <1>3. Active' = Active /\ Stamped' = Stamped
    BY <1>2, StreamsSame, ListSame
  <1>4. Planning'
    <2>1. Len(<<>>) = 0 /\ <<>> \in Seq(PlanType)
      BY Lists!EmptySeq
    <2> QED
      BY <1>1, <1>2, <1>3, <2>1 DEF Planning
  <1> QED
    BY <1>1, <1>2, <1>3, <1>4 DEF SlotInv

\* Who is not due waits.
LEMMA WaitSlots == SlotInv /\ SlotWait => SlotInv'
  <1> SUFFICES ASSUME SlotInv, SlotWait PROVE SlotInv'
    OBVIOUS
  <1>1. /\ streamList_ \in PacedLists /\ clock \in TimeType /\ lastTx \in TimeType
        /\ minGap \in Nat /\ duration \in Nat
        /\ Holding(list, Stamped) /\ pc = "slot" /\ slot \in 1 .. Len(Active) + 1 /\ Planning
        /\ Stamped # <<>> => Last(Stamped).ts = Nsec(lastTx) \div 1000
        /\ duration = Second => clock.s = 0
    BY DEF SlotInv, SlotWait
  <1>2. /\ streamList_' = streamList_ /\ list' = list /\ pc' = pc /\ slot' = slot + 1
        /\ clock' = clock /\ lastTx' = lastTx /\ minGap' = minGap /\ duration' = duration
        /\ plan' = plan /\ slot <= Len(plan) /\ ~IsDue(plan[slot])
    BY DEF SlotWait
  <1>3. Active' = Active /\ Stamped' = Stamped /\ \A s : Steady(s)' <=> Steady(s)
    BY <1>2, StreamsSame, ListSame
  <1>4. Len(Active) \in Nat /\ Len(plan) = Len(Active) /\ slot \in 1 .. Len(Active)
    BY <1>1, <1>2, ActiveFacts DEF Planning
  <1>5. ASSUME NEW n \in 1 .. Len(Active), Steady(Active[n])
        PROVE  Planned(Stamped, Active[n], plan[n], Nsec(clock), minGap, slot + 1 > n)
    <2>1. Planned(Stamped, Active[n], plan[n], Nsec(clock), minGap, slot > n)
      BY <1>1, <1>5 DEF Planning
    <2>2. slot + 1 > n => slot > n \/ n = slot
      BY <1>4
    <2>3. n = slot => Nsec(plan[n].due) > Nsec(clock)
      <3> SUFFICES ASSUME n = slot PROVE Nsec(plan[n].due) > Nsec(clock)
        OBVIOUS
      <3>1. plan[n].due \in TimeType
        BY <2>1 DEF Planned, PlanType
      <3>2. clock.s = 0
        BY <1>1, <1>5 DEF Steady
      <3>3. ~ (Nsec(plan[n].due) <= Nsec(clock))
        BY <1>1, <1>2, <3>1, <3>2, DueWithinSecond
      <3>4. Nsec(plan[n].due) \in Nat /\ Nsec(clock) \in Nat
        BY <1>1, <3>1, NsecType
      <3> QED
        BY <3>3, <3>4
    <2> QED
      BY <2>1, <2>2, <2>3 DEF Planned
  <1>6. Planning'
    <2>1. ASSUME NEW n \in 1 .. Len(Active), Steady(Active[n])
          PROVE  Planned(Stamped', Active[n], plan'[n], Nsec(clock)', minGap', (pc = "slot" /\ slot > n)')
      <3>1. Nsec(clock)' = Nsec(clock)
        BY <1>2 DEF Nsec
      <3>2. (pc = "slot" /\ slot > n)' <=> slot + 1 > n
        BY <1>1, <1>2
      <3> QED
        BY <1>2, <1>3, <1>5, <2>1, <3>1, <3>2 DEF Planned
    <2> QED
      BY <1>1, <1>2, <1>3, <2>1 DEF Planning
  <1>7. slot' \in 1 .. Len(Active) + 1
    BY <1>2, <1>4
  <1> QED
    BY <1>1, <1>2, <1>3, <1>6, <1>7 DEF SlotInv

\* The clock goes on, or the pass is over.
LEMMA TickSlots == SlotInv /\ Tick => SlotInv'
  <1> SUFFICES ASSUME SlotInv, Tick PROVE SlotInv'
    OBVIOUS
  <1>1. /\ streamList_ \in PacedLists /\ clock \in TimeType /\ lastTx \in TimeType
        /\ minGap \in Nat /\ duration \in Nat
        /\ Holding(list, Stamped) /\ pc = "slot" /\ slot \in 1 .. Len(Active) + 1 /\ Planning
        /\ Stamped # <<>> => Last(Stamped).ts = Nsec(lastTx) \div 1000
        /\ duration = Second => clock.s = 0
    BY DEF SlotInv, Tick
  <1>2. /\ streamList_' = streamList_ /\ lastTx' = lastTx /\ minGap' = minGap
        /\ duration' = duration /\ plan' = plan /\ slot > Len(plan) /\ clock' = Later(clock, minGap)
        /\ pc' \in {"slot", "looped"} /\ (pc' = "slot" => slot' = 1)
    BY <1>1 DEF Tick
  <1>3. \/ /\ slot' = 1 /\ list' = list /\ pc' = pc
           /\ clock'.s < Time(duration).s \/ clock'.n < Time(duration).n
        \/ /\ list' = SetPacketListLoopMode(list, TRUE, (duration - Nsec(lastTx)) \div 1000)
           /\ pc' = "looped"
    BY DEF Tick
  <1>4. Active' = Active /\ \A s : Steady(s)' <=> Steady(s)
    BY <1>2, StreamsSame
  <1>5. Len(Active) \in Nat /\ Len(plan) = Len(Active)
    BY <1>1, ActiveFacts DEF Planning
  <1>6. clock' \in TimeType /\ Nsec(clock)' = Nsec(clock) + minGap
    <2>1. Nsec(clock)' = Nsec(clock')
      BY DEF Nsec
    <2> QED
      BY <1>1, <1>2, <2>1, LaterTime
  <1>7. /\ list'.seqs = list.seqs /\ Holding(list', Stamped)
        /\ pc' = "looped" => list'.returnTo = 0
                             /\ list'.loopDelay = (duration - Nsec(lastTx)) \div 1000
    <2>1. CASE list' = list /\ pc' = pc
      BY <1>1, <2>1
    <2>2. CASE list' = SetPacketListLoopMode(list, TRUE, (duration - Nsec(lastTx)) \div 1000)
      <3> DEFINE u == (duration - Nsec(lastTx)) \div 1000
      <3>1. u \in Int
        <4>1. duration - Nsec(lastTx) \in Int
          BY <1>1, NsecType
        <4> QED
          BY <4>1
      <3> HIDE DEF u
      <3>2. PICK X, Y : Built(list, X, Y)
        BY <1>1 DEF Holding
      <3>3. Moded(list, X, Y, list')
        <4>1. list' = SetPacketListLoopMode(list, TRUE, u)
          BY <2>2 DEF u
        <4> QED
          BY <3>1, <3>2, <4>1, LoopModeBuilt
      <3>4. list'.loopDelay = u
        BY <2>2, <3>2 DEF SetPacketListLoopMode, Built, BuilderType, u
      <3>5. Holding(list', Stamped)
        BY <1>1, <3>3 DEF Moded, Holding
      <3> QED
        BY <3>3, <3>4, <3>5 DEF Moded, u
    <2> QED
      BY <1>3, <2>1, <2>2
  <1>8. Stamped' = Stamped
    BY <1>7, ListSame
  <1>9. ASSUME NEW n \in 1 .. Len(Active), Steady(Active[n])
        PROVE  Planned(Stamped, Active[n], plan[n], Nsec(clock) + minGap, minGap, FALSE)
    <2>1. Planned(Stamped, Active[n], plan[n], Nsec(clock), minGap, pc = "slot" /\ slot > n)
      BY <1>1, <1>9 DEF Planning
    <2>2. pc = "slot" /\ slot > n
      BY <1>1, <1>2, <1>5
    <2>3. Planned(Stamped, Active[n], plan[n], Nsec(clock), minGap, TRUE)
      BY <2>1, <2>2 DEF Planned
    <2>4. Nsec(clock) \in Nat
      BY <1>1, NsecType
    <2> QED
      BY <1>1, <2>3, <2>4, PlannedTick
  <1>10. Planning'
    <2>1. ASSUME NEW n \in 1 .. Len(Active), Steady(Active[n])
          PROVE  Planned(Stamped', Active[n], plan'[n], Nsec(clock)', minGap', (pc = "slot" /\ slot > n)')
      <3>1. ~ (pc = "slot" /\ slot > n)'
        BY <1>1, <1>2, <1>5
      <3>2. Planned(Stamped, Active[n], plan[n], Nsec(clock)', minGap, FALSE)
        BY <1>6, <1>9, <2>1
      <3> QED
        BY <1>2, <1>8, <3>1, <3>2 DEF Planned
    <2> QED
      BY <1>1, <1>2, <1>4, <2>1 DEF Planning
  <1>11. pc' = "slot" => slot' \in 1 .. Len(Active) + 1 /\ (duration = Second => clock'.s = 0)
    <2> SUFFICES ASSUME pc' = "slot" PROVE slot' \in 1 .. Len(Active) + 1 /\ (duration = Second => clock'.s = 0)
      OBVIOUS
    <2>1. slot' = 1 /\ (clock'.s < Time(duration).s \/ clock'.n < Time(duration).n)
      BY <1>2, <1>3
    <2>2. clock'.s \in Nat /\ clock'.n \in 0 .. Second - 1
      BY <1>6, NsecType
    <2>3. Time(Second).s = 1 /\ Time(Second).n = 0
      <3>1. 0 \in 0 .. Second - 1 /\ 1 * Second + 0 = Second
        BY SecondAssumption
      <3>2. Second \div Second = 1 /\ Second % Second = 0
        BY SecondAssumption, <3>1, DivideMultiple
      <3> QED
        BY <3>2 DEF Time
    <2>4. duration = Second => clock'.s < 1
      BY <2>1, <2>2, <2>3, SecondAssumption
    <2> QED
      BY <1>5, <2>1, <2>2, <2>4
  <1> QED
    BY <1>1, <1>2, <1>4, <1>6, <1>7, <1>8, <1>10, <1>11 DEF SlotInv

\* Who is due has its turn.
LEMMA SendSlots == SlotInv /\ SlotSend => SlotInv'
  <1> SUFFICES ASSUME SlotInv, SlotSend PROVE SlotInv'
    OBVIOUS
  <1>1. /\ streamList_ \in PacedLists /\ clock \in TimeType /\ lastTx \in TimeType
        /\ minGap \in Nat /\ duration \in Nat
        /\ Holding(list, Stamped) /\ pc = "slot" /\ slot \in 1 .. Len(Active) + 1 /\ Planning
        /\ Stamped # <<>> => Last(Stamped).ts = Nsec(lastTx) \div 1000
        /\ duration = Second => clock.s = 0
    BY DEF SlotInv, SlotSend
  <1> DEFINE s == Active[slot]
             st == SendFrames(s)
             q == [st.p EXCEPT !.bursts = @ + 1,
                      !.due = IF s.unit = "bursts"
                              THEN Later(@, Gap(s, st.p.bursts + 1, st.p.up)) ELSE @]
             size == IF HasRate(s) THEN AtOnce(s) ELSE 0
             k == plan[slot].bursts
  <1>2. /\ streamList_' = streamList_ /\ pc' = pc /\ slot' = slot + 1 /\ clock' = clock
        /\ minGap' = minGap /\ duration' = duration
        /\ slot <= Len(plan) /\ IsDue(plan[slot])
        /\ list' = st.list /\ lastTx' = st.last
    BY DEF SlotSend
  <1>3. plan' = [plan EXCEPT ![slot] = q]
    BY DEF SlotSend
  <1>4. Active' = Active /\ \A z : Steady(z)' <=> Steady(z)
    BY <1>2, StreamsSame
  <1>5. /\ Len(Active) \in Nat /\ Len(plan) = Len(Active) /\ slot \in 1 .. Len(Active)
        /\ Active \in Seq(StreamType) /\ Differ(Active) /\ plan \in Seq(PlanType)
    BY <1>1, <1>2, ActiveFacts DEF Planning
  <1>6. s \in StreamType /\ plan[slot] \in PlanType /\ k \in Nat
    <2>1. s \in StreamType /\ plan[slot] \in PlanType
      BY <1>5
    <2> QED
      BY <2>1 DEF PlanType
  <1>7. FramesSent(s, st, Stamped, size)
    <2> HIDE DEF st
    <2> QED
      BY <1>1, <1>5, <1>6, AllSent DEF st
  <1> HIDE DEF st
  <1>8. /\ st.p \in PlanType /\ st.p.bursts = k /\ st.last \in TimeType
        /\ s.unit = "bursts" \/ size = 0 => st.p.due = plan[slot].due
        /\ NumbersAgree /\ s.unbuilt = {} /\ s.unit = "packets" /\ size = 1 =>
              \E g \in {s.gap.whole, CeilGap(s.gap)} : st.p.due = Later(plan[slot].due, g)
    BY <1>7 DEF FramesSent
  <1>9. PICK T : /\ Holding(st.list, T)
                 /\ T # <<>> => Last(T).ts = Nsec(st.last) \div 1000
                 /\ NumbersAgree => \A z, m : /\ z.guid # s.guid
                                              /\ Timely(Stamped, z, minGap, m)
                                              => Timely(T, z, minGap, m)
                 /\ /\ NumbersAgree /\ s.unbuilt = {}
                    /\ Timely(Stamped, s, minGap, k * AtOnce(s))
                    /\ OnTime(s, minGap, k, Nsec(clock) \div 1000)
                    => Timely(T, s, minGap, k * AtOnce(s) + size)
    BY <1>7 DEF FramesSent
  <1>10. Stamped' = T
    <2>1. Stamps(list'.seqs) = T
      BY <1>2, <1>9 DEF Holding
    <2> QED
      BY <2>1 DEF Stamped, Stamps, PacketsIn
  <1> DEFINE g == Gap(s, st.p.bursts + 1, st.p.up)
             due == IF s.unit = "bursts" THEN Later(st.p.due, g) ELSE st.p.due
  <1>11. g \in {s.gap.whole, CeilGap(s.gap)} /\ g \in Nat
    BY <1>6, CeilAtLeast DEF Gap
  <1>12. q \in PlanType /\ q.bursts = k + 1 /\ q.due = due
    <2>1. st.p.due \in TimeType /\ st.p.up \in Int /\ st.p.count \in Nat
      BY <1>8 DEF PlanType
    <2> HIDE DEF k, g
    <2>2. due \in TimeType
      <3>1. Later(st.p.due, g) \in TimeType
        BY <1>11, <2>1, LaterTime
      <3> QED
        BY <2>1, <3>1
    <2> DEFINE x == st.p
    <2>3. q = [x EXCEPT !.bursts = x.bursts + 1, !.due = due]
      BY DEF g
    <2>4. x \in PlanType /\ x.bursts = k
      BY <1>8
    <2> HIDE DEF q, due, x
    <2>5. q = [up |-> x.up, due |-> due, count |-> x.count, bursts |-> x.bursts + 1]
      BY <2>3, <2>4 DEF PlanType
    <2>6. k + 1 \in Nat
      BY <1>6
    <2> QED
      BY <2>1, <2>2, <2>4, <2>5, <2>6 DEF PlanType, x
  <1> HIDE DEF q, s
  <1>13. /\ plan' \in Seq(PlanType) /\ Len(plan') = Len(plan) /\ plan'[slot] = q
         /\ \A n \in 1 .. Len(plan) : n # slot => plan'[n] = plan[n]
    BY <1>3, <1>5, <1>12
  <1>14. Nsec(clock) \in Nat
    BY <1>1, NsecType
  <1>15. ASSUME Steady(s)
         PROVE  Planned(T, s, q, Nsec(clock), minGap, TRUE)
    <2>1. /\ duration = Second /\ NumbersAgree /\ s.unbuilt = {} /\ s.gap.whole > 0
          /\ AtOnce(s) > 0
      BY <1>15 DEF Steady
    <2>2. Planned(Stamped, s, plan[slot], Nsec(clock), minGap, FALSE)
      <3>1. Planned(Stamped, s, plan[slot], Nsec(clock), minGap, pc = "slot" /\ slot > slot)
        BY <1>1, <1>5, <1>15 DEF Planning, s
      <3> QED
        BY <3>1 DEF Planned
    <2>3. plan[slot].due \in TimeType /\ clock.s = 0
      BY <1>1, <1>6, <2>1 DEF PlanType
    <2>4. Nsec(plan[slot].due) <= Nsec(clock) /\ Nsec(clock) < Second
      BY <1>1, <1>2, <2>3, DueWithinSecond, NsecType
    <2>5. OnTime(s, minGap, k, Nsec(clock) \div 1000)
      <3>1. s \in StreamType /\ minGap \in Nat /\ Nsec(plan[slot].due) <= Nsec(clock)
        BY <1>1, <1>6, <2>4
      <3>2. OnTime(s, minGap, plan[slot].bursts, Microseconds(Nsec(clock)))
        BY <1>14, <2>2, <3>1, PlannedOnTime
      <3> QED
        BY <3>2 DEF Microseconds
    <2>6. size = AtOnce(s)
      <3>1. s.gap.whole \in Nat /\ CeilGap(s.gap) \in Nat /\ s.gap.whole <= CeilGap(s.gap)
        BY <1>6, CeilAtLeast
      <3> QED
        BY <2>1, <3>1 DEF HasRate
    <2>7. Timely(T, s, minGap, k * AtOnce(s) + AtOnce(s))
      <3>1. Timely(Stamped, s, minGap, k * AtOnce(s))
        BY <2>2 DEF Planned
      <3> QED
        BY <1>9, <2>1, <2>5, <2>6, <3>1
    <2>8. \E h \in {s.gap.whole, CeilGap(s.gap)} : q.due = Later(plan[slot].due, h)
      <3>1. CASE s.unit = "bursts"
        BY <1>8, <1>11, <1>12, <3>1
      <3>2. CASE s.unit = "packets"
        <4>1. size = 1 /\ s.unit # "bursts"
          BY <2>6, <3>2 DEF AtOnce
        <4> QED
          BY <1>8, <1>12, <2>1, <3>2, <4>1
      <3> QED
        BY <1>6, <3>1, <3>2 DEF StreamType
    <2>9. PICK h \in {s.gap.whole, CeilGap(s.gap)} : q.due = Later(plan[slot].due, h)
      BY <2>8
    <2>10. Nsec(q.due) = Nsec(plan[slot].due) + h
      <3>1. h \in Nat
        BY <1>6, CeilAtLeast
      <3> QED
        BY <2>3, <2>9, <3>1, LaterTime
    <2> QED
      <3>1. /\ s \in StreamType /\ minGap \in Nat /\ q \in PlanType
            /\ q.bursts = plan[slot].bursts + 1
        BY <1>1, <1>6, <1>12
      <3>2. Timely(T, s, minGap, plan[slot].bursts * AtOnce(s) + AtOnce(s))
        BY <2>7
      <3> QED
        BY <1>14, <2>2, <2>4, <2>10, <3>1, <3>2, PlannedSend
  <1>16. ASSUME NEW n \in 1 .. Len(Active), n # slot, Steady(Active[n])
         PROVE  Planned(T, Active[n], plan[n], Nsec(clock), minGap, slot + 1 > n)
    <2>1. Planned(Stamped, Active[n], plan[n], Nsec(clock), minGap, pc = "slot" /\ slot > n)
      BY <1>1, <1>16 DEF Planning
    <2>2. Active[n].guid # s.guid
      BY <1>5, <1>16 DEF Differ, s
    <2>3. NumbersAgree
      BY <1>16 DEF Steady
    <2>4. \A m : Timely(Stamped, Active[n], minGap, m) => Timely(T, Active[n], minGap, m)
      BY <1>9, <2>2, <2>3
    <2>5. slot + 1 > n => pc = "slot" /\ slot > n
      BY <1>1, <1>5, <1>16
    <2> QED
      BY <2>1, <2>4, <2>5 DEF Planned
  <1>17. Planning'
    <2>1. ASSUME NEW n \in 1 .. Len(Active), Steady(Active[n])
          PROVE  Planned(Stamped', Active[n], plan'[n], Nsec(clock)', minGap', (pc = "slot" /\ slot > n)')
      <3>1. Nsec(clock)' = Nsec(clock)
        BY <1>2 DEF Nsec
      <3>2. (pc = "slot" /\ slot > n)' <=> slot + 1 > n
        BY <1>1, <1>2
      <3>3. Planned(T, Active[n], plan'[n], Nsec(clock), minGap, slot + 1 > n)
        <4>1. CASE n = slot
          <5>1. Planned(T, Active[n], plan'[n], Nsec(clock), minGap, TRUE)
            BY <1>13, <1>15, <2>1, <4>1 DEF s
          <5> QED
            BY <5>1 DEF Planned
        <4>2. CASE n # slot
          BY <1>5, <1>13, <1>16, <2>1, <4>2
        <4> QED
          BY <4>1, <4>2
      <3> QED
        BY <1>2, <1>10, <3>1, <3>2, <3>3 DEF Planned
    <2> QED
      BY <1>4, <1>5, <1>13, <2>1 DEF Planning
  <1>18. slot' \in 1 .. Len(Active) + 1
    BY <1>2, <1>5
  <1>19. Holding(list', Stamped') /\ lastTx' \in TimeType
         /\ (Stamped' # <<>> => Last(Stamped').ts = Nsec(lastTx') \div 1000)
    BY <1>2, <1>8, <1>9, <1>10
  <1> QED
    BY <1>1, <1>2, <1>4, <1>17, <1>18, <1>19 DEF SlotInv

\* What stays keeps it.
LEMMA StaySlots == SlotInv /\ UNCHANGED allVars => SlotInv'
  <1> SUFFICES ASSUME SlotInv, UNCHANGED allVars PROVE SlotInv'
    OBVIOUS
  <1>1. /\ streamList_' = streamList_ /\ list' = list /\ pc' = pc /\ slot' = slot
        /\ clock' = clock /\ lastTx' = lastTx /\ minGap' = minGap /\ duration' = duration
        /\ plan' = plan
    BY DEF allVars, vars, ivars
  <1>2. Active' = Active /\ Stamped' = Stamped /\ \A s : Steady(s)' <=> Steady(s)
    BY <1>1, StreamsSame, ListSame
  <1>3. Planning' <=> Planning
    BY <1>1, <1>2 DEF Planning, Nsec
  <1> QED
    BY <1>1, <1>2, <1>3 DEF SlotInv

\* What PacketsOnTime says of a list that loops.
LEMMA SlotsOnTime == SlotInv => PacketsOnTime
  <1> SUFFICES ASSUME SlotInv, Interleaved
               PROVE  /\ \A n \in DOMAIN Active, m \in DOMAIN Stamped :
                           Steady(Active[n]) /\ Stamped[m].guid = Active[n].guid =>
                             OnTime(Active[n], minGap,
                                    OfStream(Active[n], m - 1) \div AtOnce(Active[n]), Stamped[m].ts)
                      /\ Stamped # <<>> =>
                           /\ list.returnTo = 0
                           /\ Last(Stamped).ts + list.loopDelay
                                 \in {duration \div 1000 - 1, duration \div 1000}
    BY DEF PacketsOnTime, OnTime
  <1>1. /\ streamList_ \in PacedLists /\ lastTx \in TimeType /\ duration \in Nat
        /\ Holding(list, Stamped) /\ Planning
        /\ Stamped # <<>> => /\ Last(Stamped).ts = Nsec(lastTx) \div 1000
                             /\ list.returnTo = 0
                             /\ list.loopDelay = (duration - Nsec(lastTx)) \div 1000
    BY DEF SlotInv, Interleaved
  <1>2. DOMAIN Active = 1 .. Len(Active) /\ DOMAIN Stamped = 1 .. Len(Stamped)
    <2>1. Stamped \in Seq(PacketType)
      BY <1>1 DEF Holding
    <2>2. Active \in Seq(StreamType)
      BY <1>1, ActiveFacts
    <2> QED
      BY <2>1, <2>2
  <1>3. ASSUME NEW n \in 1 .. Len(Active), NEW m \in 1 .. Len(Stamped),
               Steady(Active[n]), Stamped[m].guid = Active[n].guid
        PROVE  OnTime(Active[n], minGap,
                      OfStream(Active[n], m - 1) \div AtOnce(Active[n]), Stamped[m].ts)
    <2>1. Timely(Stamped, Active[n], minGap, plan[n].bursts * AtOnce(Active[n]))
      BY <1>1, <1>3 DEF Planning, Planned
    <2>2. OfStream(Active[n], m - 1) = CountIn(Stamped, Active[n].guid, m - 1)
      BY DEF OfStream, CountIn
    <2> QED
      BY <1>3, <2>1, <2>2 DEF Timely
  <1>4. Stamped # <<>> => Last(Stamped).ts + list.loopDelay
                             \in {duration \div 1000 - 1, duration \div 1000}
    <2> DEFINE x == Nsec(lastTx)
    <2>1. x \in Nat
      BY <1>1, NsecType
    <2> HIDE DEF x
    <2>2. (x \div 1000) + ((duration - x) \div 1000) \in {duration \div 1000 - 1, duration \div 1000}
      BY <1>1, <2>1
    <2> QED
      BY <1>1, <2>2 DEF x
  <1> QED
    BY <1>1, <1>2, <1>3, <1>4

\* What NoneForgotten says of it.
LEMMA SlotsForgetNone == SlotInv => NoneForgotten
  <1> SUFFICES ASSUME SlotInv, Interleaved, NEW n \in DOMAIN Active, Steady(Active[n])
               PROVE  LET s == Active[n]
                          sent == OfStream(s, Len(Stamped))
                          turns == sent \div AtOnce(s)
                      IN  /\ sent % AtOnce(s) = 0
                          /\ turns * CeilGap(s.gap) > Nsec(clock) - minGap
                          /\ (turns - 1) * s.gap.whole < Second
    BY DEF NoneForgotten
  <1>1. /\ streamList_ \in PacedLists /\ clock \in TimeType /\ minGap \in Nat /\ Planning
    BY DEF SlotInv, Interleaved
  <1> DEFINE s == Active[n]
             k == plan[n].bursts
             a == AtOnce(s)
             x == Nsec(plan[n].due)
  <1>2. n \in 1 .. Len(Active) /\ s \in StreamType
    <2>1. Active \in Seq(StreamType)
      BY <1>1, ActiveFacts
    <2> QED
      BY <2>1
  <1>3. Planned(Stamped, s, plan[n], Nsec(clock), minGap, pc = "slot" /\ slot > n)
    BY <1>1, <1>2 DEF Planning
  <1>4. /\ plan[n] \in PlanType /\ x <= k * CeilGap(s.gap) /\ (k - 1) * s.gap.whole < Second
        /\ x > Nsec(clock) - minGap /\ Timely(Stamped, s, minGap, k * a)
    BY <1>3 DEF Planned
  <1>5. k \in Nat /\ x \in Nat
    BY <1>4, NsecType DEF PlanType
  <1>6. a \in Nat \ {0}
    <2>1. a > 0 /\ a \in Nat
      BY <1>2 DEF Steady, AtOnce, StreamType
    <2> QED
      BY <2>1
  <1>7. OfStream(s, Len(Stamped)) = k * a
    BY <1>4 DEF Timely, OfStream, CountIn
  <1>8. CeilGap(s.gap) \in Nat /\ Nsec(clock) \in Nat
    BY <1>1, <1>2, CeilAtLeast, NsecType
  <1> HIDE DEF k, a, x
  <1>9. (k * a) % a = 0 /\ (k * a) \div a = k
    <2>1. 0 \in 0 .. a - 1 /\ k * a + 0 = k * a
      BY <1>5, <1>6
    <2> QED
      BY <1>5, <1>6, <2>1, DivideMultiple
  <1>10. k * CeilGap(s.gap) > Nsec(clock) - minGap
    <2>1. k * CeilGap(s.gap) \in Nat
      BY <1>5, <1>8
    <2> QED
      BY <1>1, <1>4, <1>5, <1>8, <2>1
  <1> QED
    BY <1>4, <1>7, <1>9, <1>10 DEF a

-----------------------------------------------------------------------------
(* The theorems, for the schedulers of both modes.                          *)

\* Each scheduler keeps its invariant.
ModeInv ==
    \/ mode = "sequential" /\ RateInv
    \/ mode = "interleaved" /\ SlotInv

\* A port begins with it in either mode.
LEMMA InitModeInv == InitMode => ModeInv
  BY InitRate, InitSlots DEF InitMode, ModeInv

\* Every step of either scheduler keeps it.
LEMMA NextModeInv == ModeInv /\ [NextMode]_allVars => ModeInv'
  <1> SUFFICES ASSUME ModeInv, [NextMode]_allVars PROVE ModeInv'
    OBVIOUS
  <1>1. CASE mode = "sequential" /\ RateInv
    <2>1. pc \in {"stream", "frame", "next", "done"}
      BY <1>1 DEF RateInv, ListInv, TypeOK
    <2>2. [Next]_vars /\ mode' = mode
      BY <1>1, <2>1 DEF NextMode, Sequential, InterleavedNext, InterleaveStart, InterleaveNothing,
                        SlotSend, SlotWait, Tick, Looped, ivars, allVars
    <2>3. RateInv'
      BY <1>1, <2>2, NextRate
    <2> QED
      BY <1>1, <2>2, <2>3 DEF ModeInv
  <1>2. CASE mode = "interleaved" /\ SlotInv
    <2>1. mode' = mode
      BY <1>2 DEF NextMode, Sequential, InterleavedNext, InterleaveStart, InterleaveNothing,
                  SlotSend, SlotWait, Tick, Looped, ivars, allVars
    <2>2. InterleaveStart => SlotInv'
      BY <1>2, StartSlots
    <2>3. InterleaveNothing => SlotInv'
      BY <1>2, NothingSlots
    <2>4. SlotSend => SlotInv'
      BY <1>2, SendSlots
    <2>5. SlotWait => SlotInv'
      BY <1>2, WaitSlots
    <2>6. Tick => SlotInv'
      BY <1>2, TickSlots
    <2>7. UNCHANGED allVars => SlotInv'
      BY <1>2, StaySlots
    <2>8. SlotInv'
      BY <1>2, <2>2, <2>3, <2>4, <2>5, <2>6, <2>7
         DEF NextMode, InterleavedNext, Looped, Sequential
    <2> QED
      BY <1>2, <2>1, <2>8 DEF ModeInv
  <1> QED
    BY <1>1, <1>2 DEF ModeInv

\* So it always holds.
LEMMA ModeInvAlways == ModeSpec => []ModeInv
  BY InitModeInv, NextModeInv, PTL DEF ModeSpec

\* run() steps through the packet list by i += repeatSize_ and reads at(i + k): in the
\* finished list of any streams the sets follow one another from the first sequence to
\* the end, so that no step runs past it.
THEOREM SetsAlwaysTile == ModeSpec => []SetsTileList
  <1>1. ModeInv => SetsTileList
    <2>1. CASE mode = "sequential" /\ RateInv
      BY <2>1, TilesList DEF RateInv, SetsTileList
    <2>2. CASE pc # "done"
      BY <2>2 DEF SetsTileList
    <2> QED
      BY <2>1, <2>2 DEF ModeInv, SlotInv
  <1> QED
    BY <1>1, ModeInvAlways, PTL

\* One pass over the finished list sends, stream after stream, each as many packets as
\* numPackets() or burstSize() * numBursts() ask for, wherever sets, tails and full send
\* queues cut it.
THEOREM FramesAlwaysSentOnce == ModeSpec => []EveryFrameSentOnce
  <1>1. ModeInv => EveryFrameSentOnce
    <2>1. CASE mode = "sequential" /\ RateInv
      BY <2>1, SendsDue DEF RateInv
    <2>2. CASE pc # "done"
      BY <2>2 DEF EveryFrameSentOnce
    <2> QED
      BY <2>1, <2>2 DEF ModeInv, SlotInv
  <1> QED
    BY <1>1, ModeInvAlways, PTL

\* updateStreamStats(), which knows packetListSize_ and how many packets were sent,
\* attributes them to the streams that sent them, in part of a first pass always and
\* beyond it where no set takes several sequences; where one does it tells of no stream
\* fewer packets than it sent.  All for counts that fit an int.
THEOREM StatsAlwaysExact == ModeSpec => []StreamStatsExact
  <1>1. ModeInv => StreamStatsExact
    <2>1. CASE mode = "sequential" /\ RateInv
      BY <2>1, StatsTrue DEF RateInv
    <2>2. CASE pc # "done"
      BY <2>2 DEF StreamStatsExact
    <2> QED
      BY <2>1, <2>2 DEF ModeInv, SlotInv
  <1> QED
    BY <1>1, ModeInvAlways, PTL

\* NeverSlowerThanRated: the pauses of a stream's sequences, cut to whole microseconds
\* and put between sequences, sets and the packets within them, are never longer than the
\* gap the stream's packetRate() or burstRate() asks for, rounded up, and one microsecond.
THEOREM NeverSlowerHolds == ModeSpec => []NeverSlowerThanRated
  <1>1. ModeInv => NeverSlowerThanRated
    <2>1. CASE mode = "sequential" /\ RateInv
      BY <2>1, SentRated
    <2>2. CASE pc # "done"
      BY <2>2 DEF NeverSlowerThanRated
    <2> QED
      BY <2>1, <2>2 DEF ModeInv, SlotInv
  <1> QED
    BY <1>1, ModeInvAlways, PTL

\* PacketsOnTime: where streams are interleaved and a pass takes one second, each packet
\* (burst) of a stream that builds is in the list when it is due by packetRate() or
\* burstRate(), or less than the smallest gap later; and every pass takes its duration.
THEOREM PacketsOnTimeHolds == ModeSpec => []PacketsOnTime
  <1>1. ModeInv => PacketsOnTime
    <2>1. CASE mode = "sequential" /\ RateInv
      BY <2>1 DEF RateInv, ListInv, TypeOK, PacketsOnTime, Interleaved
    <2>2. CASE SlotInv
      BY <2>2, SlotsOnTime
    <2> QED
      BY <2>1, <2>2 DEF ModeInv
  <1> QED
    BY <1>1, ModeInvAlways, PTL

\* NoneForgotten: such a pass has every packet of such a stream that falls due before the
\* clock's last step, bursts whole, and none for which the second has no time.
THEOREM NoneForgottenHolds == ModeSpec => []NoneForgotten
  <1>1. ModeInv => NoneForgotten
    <2>1. CASE mode = "sequential" /\ RateInv
      BY <2>1 DEF RateInv, ListInv, TypeOK, NoneForgotten, Interleaved
    <2>2. CASE SlotInv
      BY <2>2, SlotsForgetNone
    <2> QED
      BY <2>1, <2>2 DEF ModeInv
  <1> QED
    BY <1>1, ModeInvAlways, PTL

\* PacketListsAssumption, which the proofs about the transmit thread start from, holds of
\* each list the sequential scheduler builds, at any time.
THEOREM ListsForTheThread ==
    Spec => [](/\ list.seqs \in Seq(SequenceType) /\ Tiled(list.seqs)
               /\ list.returnTo \in {-1, 0})
  <1>1. ListInv => /\ list.seqs \in Seq(SequenceType) /\ Tiled(list.seqs)
                   /\ list.returnTo \in {-1, 0}
    BY TilesList DEF ListInv, Built, BuilderType
  <1>2. Init => ListInv
    BY InitList
  <1>3. ListInv /\ [Next]_vars => ListInv'
    BY NextList
  <1> QED
    BY <1>1, <1>2, <1>3, PTL DEF Spec
=============================================================================
