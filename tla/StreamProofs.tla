----------------------------- MODULE StreamProofs -----------------------------
(***************************************************************************)
(* Proofs about what a stream sends and what is counted of it.              *)
(*                                                                         *)
(* StreamAccounting, for any streams, any list the scheduler builds and any *)
(* bounds below the wrap of a counter: what was sent is in the table, on    *)
(* its way there, or was cleared; and what was received is what other ports *)
(* sent, once the port's own packets are taken off.  The table's counts of  *)
(* received packets may be below zero for a while, that is near the wrap,   *)
(* when the slot takes packets off that the poller has not seen yet.  Their *)
(* invariant is an equation up to whole wraps.                              *)
(*                                                                         *)
(* FrameStack, for any streams, protocols and counts: the frames of a       *)
(* stream come again after FrameVariableCount of them, so that the ones in  *)
(* the packet list stand for all; every protocol's bytes are at the offset, *)
(* and as many as, the others take them to be; and the signature at the end *)
(* of a filled frame is found.                                              *)
(***************************************************************************)
EXTENDS StreamAccounting, FrameStack, PacketListProofs

-----------------------------------------------------------------------------
(* The invariant.                                                           *)

\* What the table has of a stream.
Counters == [tx : 0 .. Wrap - 1, rx : 0 .. Wrap - 1]

\* What the table has of each stream is a counter, and the poller's entry is in it.
Table ==
    /\ DOMAIN stats \subseteq Streams
    /\ \A g \in Streams : EntryOf(g) \in Counters
    /\ ref \in Streams => ref \in DOMAIN stats

\* The type invariant.
Types ==
    /\ tx \in {"idle", "sending", "update", "finish"} /\ slot \in {"idle", "added"}
    /\ threadStats \in [Streams -> Nat] /\ posted \in Nat
    /\ wire \in Seq(Streams) /\ ref \in Streams \cup {None, Gone}
    /\ total \in [Streams -> Nat] /\ dropped \in [Streams -> Nat] /\ others \in [Streams -> Nat]
    /\ excuse \in SUBSET {"raced", "cleared"}
    /\ runs \in 0 .. MaxRuns /\ clears \in Nat
    /\ Table

\* What was sent is the list, over and over.
Sent ==
    /\ sent = Around(Guids(Order), Len(sent))
    /\ sent \in Seq(Streams) /\ Len(sent) <= MaxPackets

\* Within the bounds no counter can wrap.
Bounded ==
    \A g \in Streams :
        /\ others[g] <= MaxOthers
        /\ total[g] <= runs * MaxPackets
        /\ tx = "sending" => total[g] + MaxPackets <= runs * MaxPackets + Len(sent)

\* What stats_ counts fits the bounds, and of no stream has the thread told of more packets
\* than it has sent.
Counting ==
    /\ lastPkts \in Nat /\ lastPkts + Len(sent) <= runs * MaxPackets
    /\ tx = "sending" => lastPkts + MaxPackets <= runs * MaxPackets
    /\ tx = "update" => sent # <<>>
    /\ \A g \in Streams : threadStats[g] + Underway(g) <= total[g]

\* Packets of g the poller has not counted yet.
InAir(g) == CountOf(g, wire) + (IF ref = g THEN 1 ELSE 0)

\* What of g was received and is not taken off.
Received(g) == others[g] + (IF Directional THEN 0 ELSE total[g] - EntryOf(g).tx - dropped[g])

\* The equation, as long as no race has lost counts.
RxConserved ==
    excuse = {} =>
        \A g \in Streams : \E k \in Int : EntryOf(g).rx + InAir(g) = Received(g) + k * Wrap

\* The inductive invariant.
CountsInv == Types /\ Sent /\ Bounded /\ Counting /\ TxConserved /\ RxConserved

\* The bounds leave room below the wrap.
LEMMA ConstantsTyped ==
    /\ Streams \subseteq Nat /\ Wrap \in Nat \ {0} /\ MaxRuns \in Nat /\ MaxPackets \in Nat
    /\ MaxOthers \in Nat /\ MaxOthers < Wrap /\ MaxRuns * MaxPackets < Wrap
    /\ None \notin Streams /\ Gone \notin Streams /\ None # Gone
    /\ Zero \in [Streams -> Nat]
  <1>1. MaxRuns * MaxPackets \in Nat
    BY AccountingAssumption
  <1> QED
    BY <1>1, AccountingAssumption, WidthAssumption DEF None, Gone, Zero, Wrap

\* The order of transmission is of the streams.
LEMMA OrderTyped ==
    /\ Order \in Seq([guid : Nat, gap : Int]) /\ Len(Order) = List.listSize
    /\ List.listSize \in Nat \ {0} /\ Guids(Order) \in Seq(Streams)
    /\ Len(Guids(Order)) = Len(Order)
    /\ \A m \in 1 .. Len(Order) : Guids(Order)[m] = Order[m].guid /\ Order[m].guid \in Streams
  <1>1. TransmitOrder(List.seqs) \in Seq(Entry)
    BY ListAssumption, TiledEnclosed, TransmitType
  <1>2. Len(Guids(Order)) = Len(Order) /\ \A m \in 1 .. Len(Order) : Guids(Order)[m] = Order[m].guid
    BY <1>1, GuidsType DEF Guids, Order
  <1>3. \A m \in 1 .. Len(Order) : Order[m].guid \in Streams
    BY ListAssumption DEF Order
  <1>4. Guids(Order) \in Seq(Streams)
    BY <1>1, <1>2, <1>3 DEF Guids, Order
  <1> QED
    BY <1>1, <1>2, <1>3, <1>4, ListAssumption, AccountingAssumption DEF Entry, Order

\* All counts are numbers.
LEMMA CountsTyped ==
    ASSUME Types, Sent, NEW g \in Streams
    PROVE  /\ EntryOf(g).tx \in 0 .. Wrap - 1 /\ EntryOf(g).rx \in 0 .. Wrap - 1
           /\ threadStats[g] \in Nat /\ total[g] \in Nat /\ dropped[g] \in Nat /\ others[g] \in Nat
           /\ Underway(g) \in Nat /\ CountOf(g, wire) \in Nat /\ InAir(g) \in Nat
           /\ Received(g) \in Int
  <1>1. EntryOf(g).tx \in 0 .. Wrap - 1 /\ EntryOf(g).rx \in 0 .. Wrap - 1
    <2>1. EntryOf(g) \in Counters
      BY DEF Types, Table
    <2> QED
      BY <2>1 DEF Counters
  <1>2. threadStats[g] \in Nat /\ total[g] \in Nat /\ dropped[g] \in Nat /\ others[g] \in Nat
    BY DEF Types
  <1>3. CountOf(g, sent) \in Nat /\ CountOf(g, wire) \in Nat
    BY CountHits DEF Sent, Types
  <1>4. Underway(g) \in Nat /\ InAir(g) \in Nat
    BY <1>3 DEF Underway, InAir
  <1>5. Received(g) \in Int
    BY <1>1, <1>2, ConstantsTyped DEF Received
  <1> QED
    BY <1>1, <1>2, <1>3, <1>4, <1>5

\* What is left below the wrap.
LEMMA SmallRest ==
    ASSUME NEW a \in 0 .. Wrap - 1
    PROVE  a % Wrap = a
  <1>1. 0 * Wrap + a = a
    BY ConstantsTyped
  <1> QED
    BY <1>1, ConstantsTyped, DivideMultiple

\* What a counter can hold it holds.
LEMMA CounterSame ==
    ASSUME NEW a \in Nat, a <= MaxRuns * MaxPackets
    PROVE  AsCounter(a) = a
  <1>1. a \in 0 .. Wrap - 1
    BY ConstantsTyped
  <1> QED
    BY <1>1, SmallRest DEF AsCounter, Wrap

\* So does what all transmissions so far can have sent.
LEMMA RunsBounded ==
    ASSUME Types
    PROVE  runs * MaxPackets \in Nat /\ runs * MaxPackets <= MaxRuns * MaxPackets
  BY ConstantsTyped DEF Types

\* What is left of any number differs from it by whole wraps.
LEMMA RestTyped ==
    ASSUME NEW a \in Int
    PROVE  a % Wrap \in 0 .. Wrap - 1 /\ \E k \in Int : a % Wrap = a + k * Wrap
  <1> DEFINE q == a \div Wrap
             w == Wrap
  <1>1. w \in Nat \ {0}
    BY ConstantsTyped
  <1> HIDE DEF w
  <1>2. a % w \in 0 .. w - 1 /\ a \div w \in Int /\ a = w * (a \div w) + (a % w)
    BY <1>1
  <1>3. a % Wrap \in 0 .. Wrap - 1 /\ q \in Int /\ a = Wrap * q + (a % Wrap)
    BY <1>2 DEF w
  <1> HIDE DEF q
  <1>4. a % Wrap = a + (-q) * Wrap /\ -q \in Int
    BY <1>3, ConstantsTyped
  <1> QED
    BY <1>3, <1>4

\* The statistics begin with the invariant.
LEMMA InitCounts == Init => CountsInv
  <1> SUFFICES ASSUME Init PROVE CountsInv
    OBVIOUS
  <1> USE DEF Init
  <1>1. \A g : EntryOf(g) = NoEntry
    BY DEF EntryOf
  <1>2. NoEntry \in Counters /\ NoEntry.tx = 0 /\ NoEntry.rx = 0
    BY ConstantsTyped DEF NoEntry, Counters
  <1>3. Types
    BY <1>1, <1>2, ConstantsTyped DEF Types, Table
  <1>4. Sent
    BY ConstantsTyped DEF Sent, Around
  <1>5. Bounded
    BY ConstantsTyped DEF Bounded, Zero
  <1>6. TxConserved
    BY <1>1, <1>2 DEF TxConserved, Underway, Zero
  <1>7. RxConserved
    <2> SUFFICES ASSUME NEW g \in Streams
                 PROVE  \E k \in Int : EntryOf(g).rx + InAir(g) = Received(g) + k * Wrap
      BY DEF RxConserved
    <2>1. InAir(g) = 0
      BY CountNone, ConstantsTyped DEF InAir
    <2>2. Received(g) = 0 /\ EntryOf(g).rx = 0
      BY <1>1, <1>2 DEF Received, Zero
    <2>3. 0 + 0 = 0 + 0 * Wrap
      BY ConstantsTyped
    <2> QED
      BY <2>1, <2>2, <2>3
  <1>8. Counting
    <2>1. runs * MaxPackets = 0
      <3>1. 0 * MaxPackets = 0
        BY ConstantsTyped
      <3> QED
        BY <3>1
    <2>2. Len(sent) = 0
      OBVIOUS
    <2> QED
      BY <2>1, <2>2, ConstantsTyped DEF Counting, Underway, Zero

  <1> QED
    BY <1>3, <1>4, <1>5, <1>6, <1>7, <1>8 DEF CountsInv

-----------------------------------------------------------------------------
(* The steps.                                                               *)

\* Without a change of the table no entry changes.
LEMMA StatsSame ==
    ASSUME stats' = stats, NEW g
    PROVE  EntryOf(g)' = EntryOf(g)
  BY DEF EntryOf

\* Nothing of what is received changes.
LEMMA RxSame ==
    ASSUME RxConserved, excuse' = {} => excuse = {}, stats' = stats, wire' = wire, ref' = ref,
           total' = total, dropped' = dropped, others' = others
    PROVE  RxConserved'
  <1> SUFFICES ASSUME excuse' = {}, NEW g \in Streams
               PROVE  \E k \in Int : EntryOf(g)'.rx + InAir(g)' = Received(g)' + k * Wrap
    BY DEF RxConserved
  <1>1. EntryOf(g)' = EntryOf(g) /\ InAir(g)' = InAir(g) /\ Received(g)' = Received(g)
    BY StatsSame DEF InAir, Received
  <1> QED
    BY <1>1 DEF RxConserved

\* What of g is accounted for, before the table.
OnTheWay(g) == IF slot = "added" THEN 0 ELSE threadStats[g]

\* TxConserved of one stream,
LEMMA TxEquation ==
    ASSUME TxConserved, "raced" \notin excuse, NEW g \in Streams
    PROVE  total[g] = EntryOf(g).tx + dropped[g] + Underway(g) + OnTheWay(g)
  BY DEF TxConserved, OnTheWay

\* and of all.
LEMMA TxEquations ==
    ASSUME "raced" \notin excuse' =>
              \A g \in Streams :
                 total'[g] = EntryOf(g)'.tx + dropped'[g] + Underway(g)' + OnTheWay(g)'
    PROVE  TxConserved'
  BY DEF TxConserved, OnTheWay

\* The thread's counts are as they were.
LEMMA CountingSame ==
    ASSUME Counting, lastPkts' = lastPkts, sent' = sent, runs' = runs, total' = total,
           threadStats' = threadStats,
           \/ tx' = tx
           \/ tx = "sending" /\ tx' = "update" /\ sent # <<>>
           \/ tx = "finish" /\ tx' = "idle"
    PROVE  Counting'
  <1>1. \A g : Underway(g)' = Underway(g)
    BY DEF Underway
  <1> QED
    BY <1>1 DEF Counting

\* A transmission starts.
LEMMA StartCounts == CountsInv /\ StartTransmit => CountsInv'
  <1> SUFFICES ASSUME CountsInv, StartTransmit PROVE CountsInv'
    OBVIOUS
  <1> USE DEF StartTransmit, counts, ghosts, CountsInv
  <1>1. Types'
    BY ConstantsTyped, StatsSame DEF Types, Table
  <1>2. Sent'
    BY ConstantsTyped DEF Sent, Around, Order
  <1>3. Bounded'
    <2> SUFFICES ASSUME NEW g \in Streams
                 PROVE  /\ others'[g] <= MaxOthers /\ total'[g] <= runs' * MaxPackets
                        /\ total'[g] + MaxPackets <= runs' * MaxPackets + Len(sent')
      BY DEF Bounded
    <2>1. Len(sent') = 0 /\ runs \in Nat
      BY DEF Types
    <2>2. (runs + 1) * MaxPackets = runs * MaxPackets + MaxPackets /\ runs * MaxPackets \in Nat
      BY <2>1, ConstantsTyped
    <2>3. total[g] <= runs * MaxPackets /\ others[g] <= MaxOthers /\ total[g] \in Nat
      BY DEF Bounded, Types
    <2> QED
      BY <2>1, <2>2, <2>3, ConstantsTyped
  <1>4. TxConserved'
    <2>1. ASSUME NEW g \in Streams, "raced" \notin excuse'
          PROVE  total'[g] = EntryOf(g)'.tx + dropped'[g] + Underway(g)' + OnTheWay(g)'
      <3>1. Underway(g) = 0 /\ Underway(g)' = 0
        BY CountNone DEF Underway
      <3>2. total[g] = EntryOf(g).tx + dropped[g] + Underway(g) + OnTheWay(g)
        BY <2>1, TxEquation
      <3>3. OnTheWay(g)' = OnTheWay(g)
        BY DEF OnTheWay
      <3> QED
        BY <3>1, <3>2, <3>3, StatsSame
    <2> QED
      BY <2>1, TxEquations
  <1>5. RxConserved'
    BY RxSame
  <1>6. Counting'
    <2>1. /\ lastPkts \in Nat /\ lastPkts + Len(sent) <= runs * MaxPackets /\ Len(sent) \in Nat
          /\ runs \in Nat
      BY DEF Counting, Sent, Types
    <2>2. lastPkts' = lastPkts + Len(sent)
      <3> DEFINE a == lastPkts + Len(sent)
      <3>1. a \in Nat /\ a <= MaxRuns * MaxPackets
        BY <2>1, RunsBounded, ConstantsTyped
      <3> HIDE DEF a
      <3>2. AsCounter(a) = a
        BY <3>1, CounterSame
      <3> QED
        BY <3>2 DEF a
    <2>3. (runs + 1) * MaxPackets = runs * MaxPackets + MaxPackets /\ runs * MaxPackets \in Nat
      BY <2>1, ConstantsTyped
    <2>4. lastPkts' \in Nat /\ lastPkts' + MaxPackets <= runs' * MaxPackets
      BY <2>1, <2>2, <2>3, ConstantsTyped
    <2>5. Len(sent') = 0 /\ lastPkts' + 0 <= runs' * MaxPackets
      BY <2>4, ConstantsTyped
    <2>6. ASSUME NEW g \in Streams PROVE threadStats'[g] + Underway(g)' <= total'[g]
      <3>1. Underway(g) = 0 /\ Underway(g)' = 0
        BY CountNone DEF Underway
      <3> QED
        BY <3>1 DEF Counting
    <2> QED
      BY <2>4, <2>5, <2>6 DEF Counting

  <1> QED
    BY <1>1, <1>2, <1>3, <1>4, <1>5, <1>6

\* A packet is sent, and seen by the poller or not.
LEMMA SendCounts == CountsInv /\ SendPacket => CountsInv'
  <1> SUFFICES ASSUME CountsInv, SendPacket PROVE CountsInv'
    OBVIOUS
  <1> USE DEF CountsInv
  <1> DEFINE s == Guids(Order)
             n == Len(sent)
             h == s[(n % Len(s)) + 1]
  <1>1. n \in Nat /\ n < MaxPackets /\ sent \in Seq(Streams) /\ tx = "sending"
    BY DEF Sent, SendPacket
  <1>2. h = Order[(n % Len(Order)) + 1].guid /\ h \in Streams
    <2> DEFINE l == Len(Order)
    <2>1. l \in Nat \ {0} /\ Len(s) = l
      BY OrderTyped
    <2> HIDE DEF l, n
    <2>2. n % l \in 0 .. l - 1
      BY <1>1, <2>1, DividePositive
    <2>3. (n % l) + 1 \in 1 .. l
      BY <2>1, <2>2
    <2> QED
      BY <2>1, <2>3, OrderTyped DEF l
  <1> HIDE DEF h
  <1>3. /\ sent' = Append(sent, h) /\ total' = [total EXCEPT ![h] = @ + 1]
        /\ wire' = IF Directional THEN wire ELSE Append(wire, h)
        /\ tx' = tx /\ stats' = stats /\ threadStats' = threadStats /\ posted' = posted
        /\ slot' = slot /\ ref' = ref /\ dropped' = dropped /\ others' = others
        /\ excuse' = excuse /\ runs' = runs /\ clears' = clears
    BY <1>2 DEF SendPacket, counts
  <1>4. Len(sent') = n + 1 /\ sent' \in Seq(Streams)
    BY <1>1, <1>2, <1>3
  <1>5. /\ total' \in [Streams -> Nat] /\ total \in [Streams -> Nat]
        /\ \A g \in Streams : total'[g] = total[g] + (IF g = h THEN 1 ELSE 0)
    <2>1. total \in [Streams -> Nat] /\ total' = [total EXCEPT ![h] = total[h] + 1]
      BY <1>3 DEF Types
    <2>2. total[h] + 1 \in Nat
      BY <1>2, <2>1
    <2>3. total' \in [Streams -> Nat]
      BY <2>1, <2>2
    <2>4. \A g \in Streams : total'[g] = IF g = h THEN total[g] + 1 ELSE total[g]
      BY <2>1
    <2>5. ASSUME NEW g \in Streams PROVE total'[g] = total[g] + (IF g = h THEN 1 ELSE 0)
      BY <2>1, <2>4
    <2> QED
      BY <2>1, <2>3, <2>5
  <1>6. Types'
    <2>1. wire' \in Seq(Streams)
      BY <1>2, <1>3 DEF Types
    <2> QED
      BY <1>3, <1>5, <2>1, StatsSame DEF Types, Table
  <1>7. Sent'
    <2>1. sent' = Around(s, n + 1)
      <3>1. Around(s, n + 1) = Append(Around(s, n), h)
        BY <1>1, AroundAppend DEF h
      <3>2. sent = Around(s, n)
        BY DEF Sent
      <3> QED
        BY <1>3, <3>1, <3>2
    <2>2. Order' = Order
      BY DEF Order
    <2>3. n + 1 <= MaxPackets
      BY <1>1, ConstantsTyped
    <2> QED
      BY <1>4, <2>1, <2>2, <2>3 DEF Sent
  <1>8. Bounded'
    <2> SUFFICES ASSUME NEW g \in Streams
                 PROVE  /\ others'[g] <= MaxOthers /\ total'[g] <= runs' * MaxPackets
                        /\ total'[g] + MaxPackets <= runs' * MaxPackets + Len(sent')
      BY DEF Bounded
    <2>1. runs * MaxPackets \in Nat
      BY ConstantsTyped DEF Types
    <2>2. total[g] + MaxPackets <= runs * MaxPackets + n /\ others[g] <= MaxOthers
      BY <1>1 DEF Bounded
    <2>3. total[g] \in Nat /\ total'[g] \in {total[g], total[g] + 1}
      BY <1>5
    <2> HIDE DEF n
    <2> QED
      BY <1>1, <1>3, <1>4, <2>1, <2>2, <2>3, ConstantsTyped
  <1>9. TxConserved'
    <2>1. ASSUME NEW g \in Streams, "raced" \notin excuse'
          PROVE  total'[g] = EntryOf(g)'.tx + dropped'[g] + Underway(g)' + OnTheWay(g)'
      <3>1. total[g] = EntryOf(g).tx + dropped[g] + Underway(g) + OnTheWay(g)
        BY <1>3, <2>1, TxEquation
      <3>2. Underway(g)' = Underway(g) + (IF h = g THEN 1 ELSE 0)
        BY <1>1, <1>2, <1>3, CountAppend DEF Underway
      <3>3. OnTheWay(g)' = OnTheWay(g) /\ EntryOf(g)' = EntryOf(g)
        BY <1>3, StatsSame DEF OnTheWay
      <3>4. EntryOf(g).tx \in Int /\ dropped[g] \in Int /\ Underway(g) \in Int /\ OnTheWay(g) \in Int
        BY CountsTyped DEF OnTheWay
      <3> QED
        BY <1>3, <1>5, <3>1, <3>2, <3>3, <3>4
    <2> QED
      BY <2>1, TxEquations
  <1>10. RxConserved'
    <2> SUFFICES ASSUME excuse' = {}, NEW g \in Streams
                 PROVE  \E k \in Int : EntryOf(g)'.rx + InAir(g)' = Received(g)' + k * Wrap
      BY DEF RxConserved
    <2> DEFINE e == IF h = g /\ ~ Directional THEN 1 ELSE 0
    <2>1. PICK k \in Int : EntryOf(g).rx + InAir(g) = Received(g) + k * Wrap
      BY <1>3 DEF RxConserved
    <2>2. EntryOf(g)' = EntryOf(g)
      BY <1>3, StatsSame
    <2>3. InAir(g)' = InAir(g) + e
      <3>1. CountOf(g, wire)' = CountOf(g, wire) + e /\ CountOf(g, wire) \in Nat
        <4>1. wire \in Seq(Streams) /\ CountOf(g, wire) \in Nat
          BY CountsTyped DEF Types
        <4>2. CASE Directional
          <5>1. CountOf(g, wire)' = CountOf(g, wire)
            BY <1>3, <4>2 DEF CountOf
          <5> QED
            BY <4>1, <4>2, <5>1
        <4>3. CASE ~ Directional
          <5>1. CountOf(g, Append(wire, h)) = CountOf(g, wire) + (IF h = g THEN 1 ELSE 0)
            BY <1>2, <4>1, CountAppend
          <5>2. CountOf(g, wire)' = CountOf(g, wire')
            BY DEF CountOf
          <5> QED
            BY <1>3, <4>1, <4>3, <5>1, <5>2
        <4> QED
          BY <4>2, <4>3
      <3> HIDE DEF e
      <3>2. e \in Nat
        BY DEF e
      <3> QED
        BY <1>3, <3>1, <3>2 DEF InAir
    <2>4. Received(g)' = Received(g) + e
      <3>1. total[g] \in Nat /\ others[g] \in Nat /\ dropped[g] \in Nat /\ EntryOf(g).tx \in Nat
        BY CountsTyped, ConstantsTyped
      <3>2. others'[g] = others[g] /\ dropped'[g] = dropped[g] /\ EntryOf(g)'.tx = EntryOf(g).tx
            /\ total'[g] = total[g] + (IF g = h THEN 1 ELSE 0)
        BY <1>3, <1>5, <2>2
      <3> QED
        BY <3>1, <3>2 DEF Received
    <2>5. EntryOf(g).rx \in Int /\ InAir(g) \in Int /\ Received(g) \in Int /\ k * Wrap \in Int /\ e \in Int
      BY CountsTyped, ConstantsTyped
    <2> HIDE DEF e
    <2>6. EntryOf(g)'.rx + InAir(g)' = Received(g)' + k * Wrap
      BY <2>1, <2>2, <2>3, <2>4, <2>5
    <2> QED
      BY <2>6
  <1>11. Counting'
    <2>1. ASSUME NEW g \in Streams PROVE threadStats'[g] + Underway(g)' <= total'[g]
      <3>1. Underway(g)' = Underway(g) + (IF h = g THEN 1 ELSE 0)
        BY <1>1, <1>2, <1>3, CountAppend DEF Underway
      <3>2. /\ threadStats[g] + Underway(g) <= total[g]
            /\ threadStats[g] \in Nat /\ Underway(g) \in Nat /\ total[g] \in Nat
        BY CountsTyped DEF Counting
      <3>3. threadStats'[g] = threadStats[g] /\ total'[g] = total[g] + (IF g = h THEN 1 ELSE 0)
        BY <1>3, <1>5
      <3> QED
        BY <3>1, <3>2, <3>3
    <2>2. lastPkts' = lastPkts /\ runs' = runs /\ tx' = "sending"
      BY <1>1, <1>3 DEF SendPacket
    <2>3. lastPkts \in Nat /\ lastPkts + MaxPackets <= runs * MaxPackets /\ runs * MaxPackets \in Nat
      BY <1>1, RunsBounded DEF Counting
    <2>4. n + 1 <= MaxPackets
      BY <1>1, ConstantsTyped
    <2> HIDE DEF n
    <2>5. lastPkts' + Len(sent') <= runs' * MaxPackets
      BY <1>1, <1>4, <2>2, <2>3, <2>4, ConstantsTyped
    <2> QED
      BY <2>1, <2>2, <2>3, <2>5 DEF Counting

  <1> QED
    BY <1>6, <1>7, <1>8, <1>9, <1>10, <1>11

\* It stops.
LEMMA StoppedCounts == CountsInv /\ Stopped => CountsInv'
  <1> SUFFICES ASSUME CountsInv, Stopped PROVE CountsInv'
    OBVIOUS
  <1> USE DEF Stopped, counts, ghosts, CountsInv
  <1>1. Types'
    BY StatsSame DEF Types, Table
  <1>2. Sent'
    BY DEF Sent, Order
  <1>3. Bounded'
    BY DEF Bounded
  <1>4. TxConserved'
    BY StatsSame DEF TxConserved, Underway
  <1>5. RxConserved'
    BY RxSame
  <1>6. Counting'
    BY CountingSame

  <1> QED
    BY <1>1, <1>2, <1>3, <1>4, <1>5, <1>6

\* Its end is posted.
LEMMA FinishedCounts == CountsInv /\ Finished => CountsInv'
  <1> SUFFICES ASSUME CountsInv, Finished PROVE CountsInv'
    OBVIOUS
  <1> USE DEF Finished, counts, ghosts, CountsInv
  <1>1. Types'
    BY StatsSame DEF Types, Table
  <1>2. Sent'
    BY DEF Sent, Order
  <1>3. Bounded'
    BY DEF Bounded
  <1>4. TxConserved'
    BY StatsSame DEF TxConserved, Underway
  <1>5. RxConserved'
    BY RxSame
  <1>6. Counting'
    BY CountingSame

  <1> QED
    BY <1>1, <1>2, <1>3, <1>4, <1>5, <1>6

\* The numbers in updateStreamStats() fit an int and a counter.
LEMMA SentFits ==
    ASSUME NEW n \in Nat, n <= MaxPackets, n <= MaxCounter
    PROVE  CountsFit(List.seqs, List.listSize, n)
  <1> DEFINE l == List.listSize
             c == n \div l
             d == n % l
  <1>1. l \in Nat \ {0} /\ l = Len(TransmitOrder(List.seqs)) /\ MaxPackets \in Nat
        /\ MaxPackets <= MaxInt /\ Enclosed(List.seqs)
    BY ListAssumption, AccountingAssumption, TiledEnclosed
  <1>2. c \in Nat /\ d \in 0 .. l - 1 /\ n = l * c + d
    BY <1>1, DividePositive
  <1> HIDE DEF l, c, d
  <1>3. c <= l * c /\ l * c \in Nat /\ l * c = c * l
    <2>1. CASE c = 0
      BY <1>1, <2>1
    <2>2. CASE c # 0
      BY <1>1, <1>2, <2>2, ProductPositive
    <2> QED
      BY <2>1, <2>2
  <1>4. c <= MaxPackets /\ c <= MaxInt /\ d <= MaxInt /\ c * l + d <= MaxCounter
    BY <1>1, <1>2, <1>3, WidthAssumption
  <1>5. ASSUME NEW q \in 1 .. Len(List.seqs) PROVE c * List.seqs[q].repeatCount <= MaxInt
    <2> DEFINE k == List.seqs[q].repeatCount
    <2>1. k \in Nat
      BY <1>1, SequenceAt
    <2>2. MaxPackets * k <= MaxInt
      BY ListAssumption
    <2> HIDE DEF k
    <2>3. c * k <= MaxPackets * k /\ c * k \in Nat /\ MaxPackets * k \in Nat
      BY <1>1, <1>2, <1>4, <2>1
    <2>4. c * k <= MaxInt
      BY <2>2, <2>3, WidthAssumption
    <2> QED
      BY <2>4 DEF k
  <1> QED
    BY <1>1, <1>4, <1>5 DEF CountsFit, l, c, d

\* What updateStreamStats() adds is what was sent.
LEMMA ToldIsSent ==
    ASSUME Types, Sent, Counting, tx = "update", NEW g \in Streams
    PROVE  StreamTxPkts(List.seqs, List.listSize, SentPkts(lastPkts, AsCounter(lastPkts + Len(sent))), g)
              = CountOf(g, sent)
  <1> DEFINE n == Len(sent)
             a == lastPkts + n
  <1>1. n \in Nat \ {0} /\ lastPkts \in Nat /\ a <= runs * MaxPackets /\ n <= MaxPackets
    <2>1. sent \in Seq(Streams) /\ sent # <<>>
      BY DEF Sent, Counting
    <2>2. n \in Nat /\ n # 0
      BY <2>1, Lists!EmptySeq
    <2> QED
      BY <2>2 DEF Sent, Counting
  <1>2. a \in Nat /\ a <= MaxRuns * MaxPackets /\ n <= a /\ a > lastPkts /\ a - lastPkts = n
    <2> HIDE DEF n
    <2> QED
      BY <1>1, RunsBounded, ConstantsTyped
  <1>3. AsCounter(a) = a
    <2> HIDE DEF a
    <2> QED
      BY <1>2, CounterSame
  <1>4. SentPkts(lastPkts, AsCounter(a)) = n
    <2> HIDE DEF a, n
    <2> QED
      BY <1>2, <1>3 DEF SentPkts
  <1>5. n <= MaxCounter
    <2> HIDE DEF a, n
    <2>1. MaxRuns * MaxPackets \in Nat /\ MaxRuns * MaxPackets <= MaxCounter /\ MaxCounter \in Nat
      BY ConstantsTyped, AccountingAssumption, WidthAssumption
    <2> QED
      BY <1>1, <1>2, <2>1
  <1>6. CountsFit(List.seqs, List.listSize, n)
    <2> HIDE DEF n
    <2> QED
      BY <1>1, <1>5, SentFits
  <1>7. Enclosed(List.seqs) /\ List.listSize \in Nat /\ List.listSize = Len(TransmitOrder(List.seqs))
    BY ListAssumption, AccountingAssumption, TiledEnclosed
  <1>8. sent = Around(Guids(TransmitOrder(List.seqs)), n)
    BY DEF Sent, Order
  <1>9. StreamTxPkts(List.seqs, List.listSize, n, g)
          = CountOf(g, Around(Guids(TransmitOrder(List.seqs)), n))
    <2> HIDE DEF n
    <2> DEFINE size == List.listSize
               told == StreamTxPkts(List.seqs, size, n, g)
               is == CountOf(g, Around(Guids(TransmitOrder(List.seqs)), n))
    <2>1. size \in Nat /\ size = Len(TransmitOrder(List.seqs)) /\ size <= Len(TransmitOrder(List.seqs))
      BY <1>7
    <2>2. CountsFit(List.seqs, size, n) /\ n \in Nat
      BY <1>1, <1>6
    <2>3. told = StreamTxPkts(List.seqs, size, n, g)
          /\ is = CountOf(g, Around(Guids(TransmitOrder(List.seqs)), n))
      OBVIOUS
    <2> HIDE DEF size, told, is
    <2>4. told = is
      BY <1>7, <2>1, <2>2, <2>3, StatsNoFewer
    <2> QED
      BY <2>4 DEF size, told, is
  <1>10. CountOf(g, Around(Guids(TransmitOrder(List.seqs)), n)) = CountOf(g, sent)
    BY <1>8
  <1> HIDE DEF n
  <1> QED
    BY <1>4, <1>9, <1>10 DEF a, n

\* What was sent is told by stream.
LEMMA UpdateCounts == CountsInv /\ UpdateStreamStats => CountsInv'
  <1> SUFFICES ASSUME CountsInv, UpdateStreamStats PROVE CountsInv'
    OBVIOUS
  <1> USE DEF CountsInv
  <1>1. /\ tx = "update" /\ tx' = "finish" /\ sent' = sent /\ posted' = posted /\ slot' = slot
        /\ stats' = stats /\ wire' = wire /\ ref' = ref /\ total' = total /\ dropped' = dropped
        /\ others' = others /\ runs' = runs /\ clears' = clears
        /\ excuse' = excuse \cup (IF slot = "added" THEN {"raced"} ELSE {})
    BY DEF UpdateStreamStats
  <1>2. threadStats' = [g \in Streams |-> threadStats[g] + CountOf(g, sent)]
    <2> DEFINE pkts == SentPkts(lastPkts, AsCounter(lastPkts + Len(sent)))
               told(g) == StreamTxPkts(List.seqs, List.listSize, pkts, g)
    <2>1. threadStats' = [g \in Streams |-> AsCounter(threadStats[g] + told(g))]
      BY DEF UpdateStreamStats
    <2>2. ASSUME NEW g \in Streams PROVE told(g) = CountOf(g, sent)
      BY <1>1, ToldIsSent
    <2> HIDE DEF told
    <2>3. ASSUME NEW g \in Streams
          PROVE  AsCounter(threadStats[g] + CountOf(g, sent)) = threadStats[g] + CountOf(g, sent)
      <3> DEFINE a == threadStats[g] + CountOf(g, sent)
      <3>1. CountOf(g, sent) \in Nat /\ threadStats[g] \in Nat
        BY CountHits DEF Sent, Types
      <3>2. a <= total[g]
        BY <1>1 DEF Counting, Underway
      <3>3. total[g] <= runs * MaxPackets /\ total[g] \in Nat
        BY DEF Bounded, Types
      <3>4. a \in Nat
        BY <3>1
      <3> HIDE DEF a
      <3>5. a <= MaxRuns * MaxPackets
        BY <3>2, <3>3, <3>4, RunsBounded, ConstantsTyped
      <3>6. AsCounter(a) = a
        BY <3>4, <3>5, CounterSame
      <3> QED
        BY <3>6 DEF a
    <2> QED
      BY <2>1, <2>2, <2>3
  <1>3. \A g \in Streams : CountOf(g, sent) \in Nat /\ threadStats[g] \in Nat
    BY CountHits DEF Sent, Types
  <1>4. threadStats' \in [Streams -> Nat]
    BY <1>2, <1>3
  <1>5. Types'
    BY <1>1, <1>4, StatsSame DEF Types, Table
  <1>6. Sent'
    BY <1>1 DEF Sent, Order
  <1>7. Bounded'
    BY <1>1 DEF Bounded
  <1>8. TxConserved'
    <2>1. ASSUME NEW g \in Streams, "raced" \notin excuse'
          PROVE  total'[g] = EntryOf(g)'.tx + dropped'[g] + Underway(g)' + OnTheWay(g)'
      <3>1. slot = "idle" /\ "raced" \notin excuse
        BY <1>1, <2>1 DEF Types
      <3>2. total[g] = EntryOf(g).tx + dropped[g] + Underway(g) + OnTheWay(g)
        BY <2>1, <3>1, TxEquation
      <3>3. Underway(g) = CountOf(g, sent) /\ Underway(g)' = 0
        BY <1>1 DEF Underway
      <3>4. OnTheWay(g) = threadStats[g] /\ OnTheWay(g)' = threadStats[g] + CountOf(g, sent)
        BY <1>1, <1>2, <3>1 DEF OnTheWay
      <3>5. EntryOf(g)' = EntryOf(g) /\ EntryOf(g).tx \in Int /\ dropped[g] \in Int
        BY <1>1, StatsSame, CountsTyped, ConstantsTyped
      <3>6. CountOf(g, sent) \in Int /\ threadStats[g] \in Int
        BY <1>3
      <3> QED
        BY <1>1, <3>2, <3>3, <3>4, <3>5, <3>6
    <2> QED
      BY <2>1, TxEquations
  <1>9. RxConserved'
    BY <1>1, RxSame
  <1>10. Counting'
    <2>1. lastPkts' = lastPkts
      BY DEF UpdateStreamStats
    <2>2. ASSUME NEW g \in Streams PROVE threadStats'[g] + Underway(g)' <= total'[g]
      <3>1. Underway(g) = CountOf(g, sent) /\ Underway(g)' = 0
        BY <1>1 DEF Underway
      <3>2. threadStats[g] + Underway(g) <= total[g]
        BY DEF Counting
      <3>3. threadStats'[g] = threadStats[g] + CountOf(g, sent)
        BY <1>2
      <3>4. threadStats[g] + CountOf(g, sent) \in Nat
        BY <1>3
      <3> QED
        BY <1>1, <3>1, <3>2, <3>3, <3>4
    <2> QED
      BY <1>1, <2>1, <2>2 DEF Counting

  <1> QED
    BY <1>5, <1>6, <1>7, <1>8, <1>9, <1>10

\* The slot clears what it has added.
LEMMA SlotClearCounts == CountsInv /\ SlotClear => CountsInv'
  <1> SUFFICES ASSUME CountsInv, SlotClear PROVE CountsInv'
    OBVIOUS
  <1> USE DEF SlotClear, ghosts, CountsInv
  <1>1. Types'
    BY StatsSame, ConstantsTyped DEF Types, Table
  <1>2. Sent'
    BY DEF Sent, Order
  <1>3. Bounded'
    BY DEF Bounded
  <1>4. TxConserved'
    BY StatsSame DEF TxConserved, Underway, Zero
  <1>5. RxConserved'
    BY RxSame
  <1>6. Counting'
    <2>1. ASSUME NEW g \in Streams PROVE threadStats'[g] + Underway(g)' <= total'[g]
      <3>1. threadStats[g] + Underway(g) <= total[g] /\ Underway(g)' = Underway(g)
        BY DEF Counting, Underway
      <3>2. threadStats[g] \in Nat /\ Underway(g) \in Nat /\ total[g] \in Nat /\ threadStats'[g] = 0
        BY CountsTyped DEF Zero
      <3> QED
        BY <3>1, <3>2
    <2> QED
      BY <2>1 DEF Counting

  <1> QED
    BY <1>1, <1>2, <1>3, <1>4, <1>5, <1>6

\* A packet of another port comes.
LEMMA OtherCounts == CountsInv /\ OtherPacket => CountsInv'
  <1> SUFFICES ASSUME CountsInv, OtherPacket PROVE CountsInv'
    OBVIOUS
  <1> USE DEF CountsInv
  <1>1. PICK h \in Streams :
          /\ others[h] < MaxOthers /\ others' = [others EXCEPT ![h] = @ + 1]
          /\ wire' = Append(wire, h)
          /\ tx' = tx /\ sent' = sent /\ stats' = stats /\ threadStats' = threadStats
          /\ posted' = posted /\ slot' = slot /\ ref' = ref /\ total' = total
          /\ dropped' = dropped /\ excuse' = excuse /\ runs' = runs /\ clears' = clears
    BY DEF OtherPacket, counts
  <1>2. /\ others' \in [Streams -> Nat] /\ others \in [Streams -> Nat]
        /\ \A g \in Streams : others'[g] = others[g] + (IF g = h THEN 1 ELSE 0)
    BY <1>1 DEF Types
  <1>3. wire \in Seq(Streams) /\ wire' \in Seq(Streams)
    BY <1>1 DEF Types
  <1>4. Types'
    BY <1>1, <1>2, <1>3, StatsSame DEF Types, Table
  <1>5. Sent'
    BY <1>1 DEF Sent, Order
  <1>6. Bounded'
    BY <1>1, <1>2, ConstantsTyped DEF Bounded
  <1>7. TxConserved'
    BY <1>1, StatsSame DEF TxConserved, Underway
  <1>8. RxConserved'
    <2> SUFFICES ASSUME excuse' = {}, NEW g \in Streams
                 PROVE  \E k \in Int : EntryOf(g)'.rx + InAir(g)' = Received(g)' + k * Wrap
      BY DEF RxConserved
    <2> DEFINE e == IF h = g THEN 1 ELSE 0
    <2>1. PICK k \in Int : EntryOf(g).rx + InAir(g) = Received(g) + k * Wrap
      BY <1>1 DEF RxConserved
    <2>2. EntryOf(g)' = EntryOf(g)
      BY <1>1, StatsSame
    <2>3. InAir(g)' = InAir(g) + e
      <3>1. CountOf(g, Append(wire, h)) = CountOf(g, wire) + e
        BY <1>3, CountAppend
      <3>2. CountOf(g, wire)' = CountOf(g, Append(wire, h)) /\ CountOf(g, wire) \in Nat
        BY <1>1, CountsTyped DEF CountOf
      <3> HIDE DEF e
      <3>3. e \in Nat
        BY DEF e
      <3> QED
        BY <1>1, <3>1, <3>2, <3>3 DEF InAir
    <2>4. Received(g)' = Received(g) + e
      <3>1. total[g] \in Nat /\ others[g] \in Nat /\ dropped[g] \in Nat /\ EntryOf(g).tx \in Nat
        BY CountsTyped, ConstantsTyped
      <3>2. total'[g] = total[g] /\ dropped'[g] = dropped[g] /\ EntryOf(g)'.tx = EntryOf(g).tx
            /\ others'[g] = others[g] + (IF g = h THEN 1 ELSE 0)
        BY <1>1, <1>2, <2>2
      <3> QED
        BY <3>1, <3>2 DEF Received
    <2>5. EntryOf(g).rx \in Int /\ InAir(g) \in Int /\ Received(g) \in Int /\ k * Wrap \in Int /\ e \in Int
      BY CountsTyped, ConstantsTyped
    <2> HIDE DEF e
    <2>6. EntryOf(g)'.rx + InAir(g)' = Received(g)' + k * Wrap
      BY <2>1, <2>2, <2>3, <2>4, <2>5
    <2> QED
      BY <2>6
  <1>9. Counting'
    <2>1. lastPkts' = lastPkts
      BY DEF OtherPacket
    <2> QED
      BY <1>1, <2>1, CountingSame

  <1> QED
    BY <1>4, <1>5, <1>6, <1>7, <1>8, <1>9

\* What the slot makes of an entry.
Adding(g) ==
    [tx |-> (EntryOf(g).tx + threadStats[g]) % Wrap,
     rx |-> IF Directional THEN EntryOf(g).rx ELSE (EntryOf(g).rx + Wrap - threadStats[g]) % Wrap]

\* It is one.
LEMMA AddingTyped ==
    ASSUME Types, Sent, NEW g \in Streams
    PROVE  Adding(g) \in Counters
  <1> DEFINE a == (EntryOf(g).tx + threadStats[g]) % Wrap
             b == IF Directional THEN EntryOf(g).rx
                  ELSE (EntryOf(g).rx + Wrap - threadStats[g]) % Wrap
  <1>1. /\ EntryOf(g).tx + threadStats[g] \in Int
        /\ EntryOf(g).rx + Wrap - threadStats[g] \in Int
        /\ EntryOf(g).rx \in 0 .. Wrap - 1
    BY CountsTyped, ConstantsTyped
  <1>2. a \in 0 .. Wrap - 1 /\ b \in 0 .. Wrap - 1
    BY <1>1, RestTyped
  <1>3. Adding(g) = [tx |-> a, rx |-> b]
    BY DEF Adding
  <1> HIDE DEF a, b
  <1> QED
    BY <1>2, <1>3 DEF Counters

\* The slot adds what was sent, and takes it off what was received.
LEMMA SlotAddCounts == CountsInv /\ SlotAdd => CountsInv'
  <1> SUFFICES ASSUME CountsInv, SlotAdd PROVE CountsInv'
    OBVIOUS
  <1> USE DEF CountsInv
  <1> DEFINE D == DOMAIN stats \cup {h \in Streams : threadStats[h] > 0}
  <1>1. /\ slot = "idle" /\ slot' = "added" /\ posted > 0 /\ posted' = posted - 1
        /\ tx' = tx /\ sent' = sent /\ threadStats' = threadStats /\ wire' = wire /\ ref' = ref
        /\ total' = total /\ dropped' = dropped /\ others' = others /\ excuse' = excuse
        /\ runs' = runs /\ clears' = clears
    BY DEF SlotAdd, ghosts
  <1>2. stats' = [g \in D |-> Adding(g)]
    BY DEF SlotAdd, Adding
  <1>3. D \subseteq Streams /\ DOMAIN stats \subseteq D
    BY DEF Types, Table
  <1>4. ASSUME NEW g \in Streams
        PROVE  EntryOf(g)' = IF g \in D THEN Adding(g) ELSE NoEntry
    BY <1>2 DEF EntryOf
  <1>5. ASSUME NEW g \in Streams, g \notin D
        PROVE  threadStats[g] = 0 /\ EntryOf(g) = NoEntry
    <2>1. g \notin DOMAIN stats /\ ~ (threadStats[g] > 0)
      BY <1>5
    <2> QED
      BY <2>1 DEF EntryOf, Types
  <1>6. NoEntry \in Counters /\ NoEntry.tx = 0 /\ NoEntry.rx = 0
    BY ConstantsTyped DEF NoEntry, Counters
  <1>7. Types'
    <2>1. \A g \in Streams : EntryOf(g)' \in Counters
      BY <1>4, <1>6, AddingTyped
    <2>2. DOMAIN stats' = D
      BY <1>2
    <2> HIDE DEF D
    <2>3. Table'
      BY <1>1, <1>3, <2>1, <2>2 DEF Types, Table
    <2>4. posted' \in Nat
      BY <1>1 DEF Types
    <2> QED
      BY <1>1, <2>3, <2>4 DEF Types
  <1>8. Sent'
    BY <1>1 DEF Sent, Order
  <1>9. Bounded'
    BY <1>1 DEF Bounded
  <1>10. ASSUME NEW g \in Streams, "raced" \notin excuse
         PROVE  /\ total[g] = EntryOf(g).tx + dropped[g] + Underway(g) + threadStats[g]
                /\ EntryOf(g)'.tx = EntryOf(g).tx + threadStats[g]
                /\ threadStats[g] < Wrap
    <2>1. total[g] = EntryOf(g).tx + dropped[g] + Underway(g) + threadStats[g]
      BY <1>1, <1>10, TxEquation DEF OnTheWay
    <2>2. total[g] < Wrap
      <3>1. total[g] <= runs * MaxPackets /\ total[g] \in Nat
        BY DEF Bounded, Types
      <3>2. runs * MaxPackets <= MaxRuns * MaxPackets /\ runs * MaxPackets \in Nat
        BY ConstantsTyped DEF Types
      <3> QED
        BY <3>1, <3>2, ConstantsTyped
    <2>3. /\ EntryOf(g).tx \in Nat /\ dropped[g] \in Nat /\ Underway(g) \in Nat
          /\ threadStats[g] \in Nat
      BY CountsTyped, ConstantsTyped
    <2>4. EntryOf(g).tx + threadStats[g] \in 0 .. Wrap - 1 /\ threadStats[g] < Wrap
      BY <2>1, <2>2, <2>3, ConstantsTyped
    <2>5. EntryOf(g)'.tx = EntryOf(g).tx + threadStats[g]
      <3>1. CASE g \in D
        <4>1. (EntryOf(g).tx + threadStats[g]) % Wrap = EntryOf(g).tx + threadStats[g]
          BY <2>4, SmallRest
        <4>2. Adding(g).tx = (EntryOf(g).tx + threadStats[g]) % Wrap
          BY DEF Adding
        <4> QED
          BY <1>4, <3>1, <4>1, <4>2
      <3>2. CASE g \notin D
        BY <1>4, <1>5, <1>6, <3>2
      <3> QED
        BY <3>1, <3>2
    <2> QED
      BY <2>1, <2>4, <2>5
  <1>11. TxConserved'
    <2>1. ASSUME NEW g \in Streams, "raced" \notin excuse'
          PROVE  total'[g] = EntryOf(g)'.tx + dropped'[g] + Underway(g)' + OnTheWay(g)'
      <3>1. Underway(g)' = Underway(g) /\ OnTheWay(g)' = 0
        BY <1>1 DEF Underway, OnTheWay
      <3>2. /\ EntryOf(g).tx \in Int /\ dropped[g] \in Int /\ Underway(g) \in Int
            /\ threadStats[g] \in Int
        BY CountsTyped, ConstantsTyped
      <3> QED
        BY <1>1, <1>10, <2>1, <3>1, <3>2
    <2> QED
      BY <2>1, TxEquations
  <1>12. RxConserved'
    <2> SUFFICES ASSUME excuse' = {}, NEW g \in Streams
                 PROVE  \E k \in Int : EntryOf(g)'.rx + InAir(g)' = Received(g)' + k * Wrap
      BY DEF RxConserved
    <2> DEFINE e == IF Directional THEN 0 ELSE threadStats[g]
    <2>1. PICK k \in Int : EntryOf(g).rx + InAir(g) = Received(g) + k * Wrap
      BY <1>1 DEF RxConserved
    <2>2. InAir(g)' = InAir(g)
      BY <1>1 DEF InAir
    <2>3. Received(g)' = Received(g) - e
      <3>1. /\ total[g] \in Int /\ others[g] \in Int /\ dropped[g] \in Int /\ EntryOf(g).tx \in Int
            /\ threadStats[g] \in Int
        BY CountsTyped, ConstantsTyped
      <3>2. EntryOf(g)'.tx = EntryOf(g).tx + threadStats[g]
        BY <1>1, <1>10
      <3>3. total'[g] = total[g] /\ others'[g] = others[g] /\ dropped'[g] = dropped[g]
        BY <1>1
      <3> QED
        BY <3>1, <3>2, <3>3 DEF Received
    <2>4. PICK n \in Int : EntryOf(g)'.rx = EntryOf(g).rx - e + n * Wrap
      <3>1. EntryOf(g).rx \in Int /\ threadStats[g] \in Int /\ Wrap \in Int
        BY CountsTyped, ConstantsTyped
      <3>2. CASE g \in D /\ Directional
        <4>1. EntryOf(g)'.rx = EntryOf(g).rx
          BY <1>4, <3>2 DEF Adding
        <4>2. EntryOf(g)'.rx = EntryOf(g).rx - e + 0 * Wrap
          BY <3>1, <3>2, <4>1
        <4> QED
          BY <4>2
      <3>3. CASE g \in D /\ ~ Directional
        <4> DEFINE a == EntryOf(g).rx + Wrap - threadStats[g]
        <4>1. EntryOf(g)'.rx = a % Wrap
          BY <1>4, <3>3 DEF Adding
        <4>2. a \in Int
          BY <3>1
        <4>3. PICK n \in Int : a % Wrap = a + n * Wrap
          <5> HIDE DEF a
          <5> QED
            BY <4>2, RestTyped
        <4>4. a + n * Wrap = EntryOf(g).rx - e + (n + 1) * Wrap
          <5>1. (n + 1) * Wrap = n * Wrap + Wrap /\ n * Wrap \in Int
            BY <3>1
          <5>2. e = threadStats[g]
            BY <3>3
          <5> QED
            BY <3>1, <5>1, <5>2
        <4> HIDE DEF a, e
        <4> QED
          BY <4>1, <4>3, <4>4
      <3>4. CASE g \notin D
        <4>1. EntryOf(g)'.rx = 0 /\ EntryOf(g).rx = 0 /\ e = 0
          BY <1>4, <1>5, <1>6, <3>4
        <4>2. 0 = 0 - 0 + 0 * Wrap
          BY <3>1
        <4> QED
          BY <4>1, <4>2
      <3> QED
        BY <3>2, <3>3, <3>4
    <2>5. /\ EntryOf(g).rx \in Int /\ InAir(g) \in Int /\ Received(g) \in Int /\ k * Wrap \in Int
          /\ n * Wrap \in Int /\ e \in Int /\ (k + n) * Wrap = k * Wrap + n * Wrap
      BY CountsTyped, ConstantsTyped
    <2> HIDE DEF e
    <2>6. EntryOf(g)'.rx + InAir(g)' = Received(g)' + (k + n) * Wrap
      BY <2>1, <2>2, <2>3, <2>4, <2>5
    <2> QED
      BY <2>6
  <1>13. Counting'
    <2>1. lastPkts' = lastPkts
      BY DEF SlotAdd
    <2> QED
      BY <1>1, <2>1, CountingSame

  <1> QED
    BY <1>7, <1>8, <1>9, <1>11, <1>12, <1>13

\* The poller finds the entry of a packet,
LEMMA FindCounts == CountsInv /\ RxFind => CountsInv'
  <1> SUFFICES ASSUME CountsInv, RxFind PROVE CountsInv'
    OBVIOUS
  <1> USE DEF CountsInv
  <1> DEFINE h == Head(wire)
             D == DOMAIN stats \cup {h}
  <1>1. /\ wire # <<>> /\ ref = None /\ ref' = h /\ wire' = Tail(wire)
        /\ stats' = [g \in D |-> EntryOf(g)]
        /\ tx' = tx /\ sent' = sent /\ threadStats' = threadStats /\ posted' = posted
        /\ slot' = slot /\ total' = total /\ dropped' = dropped /\ others' = others
        /\ excuse' = excuse /\ runs' = runs /\ clears' = clears
    BY DEF RxFind, ghosts
  <1>2. wire \in Seq(Streams) /\ h \in Streams /\ Tail(wire) \in Seq(Streams)
    BY <1>1 DEF Types
  <1> HIDE DEF h
  <1>3. ASSUME NEW g \in Streams PROVE EntryOf(g)' = EntryOf(g)
    <2>1. CASE g \in D
      BY <1>1, <2>1 DEF EntryOf
    <2>2. CASE g \notin D
      BY <1>1, <2>2 DEF EntryOf
    <2> QED
      BY <2>1, <2>2
  <1>4. Types'
    <2>1. DOMAIN stats' = D /\ D \subseteq Streams /\ h \in D
      BY <1>1, <1>2 DEF Types, Table
    <2>2. \A g \in Streams : EntryOf(g)' \in Counters
      BY <1>3 DEF Types, Table
    <2> HIDE DEF D
    <2>3. Table'
      BY <1>1, <2>1, <2>2 DEF Table
    <2> QED
      BY <1>1, <1>2, <2>3 DEF Types
  <1>5. Sent'
    BY <1>1 DEF Sent, Order
  <1>6. Bounded'
    BY <1>1 DEF Bounded
  <1>7. TxConserved'
    <2>1. ASSUME NEW g \in Streams, "raced" \notin excuse'
          PROVE  total'[g] = EntryOf(g)'.tx + dropped'[g] + Underway(g)' + OnTheWay(g)'
      <3>1. total[g] = EntryOf(g).tx + dropped[g] + Underway(g) + OnTheWay(g)
        BY <1>1, <2>1, TxEquation
      <3>2. Underway(g)' = Underway(g) /\ OnTheWay(g)' = OnTheWay(g)
        BY <1>1 DEF Underway, OnTheWay
      <3> QED
        BY <1>1, <1>3, <3>1, <3>2
    <2> QED
      BY <2>1, TxEquations
  <1>8. RxConserved'
    <2> SUFFICES ASSUME excuse' = {}, NEW g \in Streams
                 PROVE  \E k \in Int : EntryOf(g)'.rx + InAir(g)' = Received(g)' + k * Wrap
      BY DEF RxConserved
    <2>1. InAir(g)' = InAir(g)
      <3>1. CountOf(g, wire) = CountOf(g, Tail(wire)) + (IF h = g THEN 1 ELSE 0)
        BY <1>1, <1>2, CountTail DEF h
      <3>2. CountOf(g, wire)' = CountOf(g, Tail(wire)) /\ CountOf(g, Tail(wire)) \in Nat
        BY <1>1, <1>2, CountHits DEF CountOf
      <3>3. ref # g
        BY <1>1, ConstantsTyped
      <3> QED
        BY <1>1, <3>1, <3>2, <3>3 DEF InAir
    <2>2. EntryOf(g)' = EntryOf(g) /\ Received(g)' = Received(g)
      BY <1>1, <1>3 DEF Received
    <2> QED
      BY <1>1, <2>1, <2>2 DEF RxConserved
  <1>9. Counting'
    <2>1. lastPkts' = lastPkts
      BY DEF RxFind
    <2> QED
      BY <1>1, <2>1, CountingSame

  <1> QED
    BY <1>4, <1>5, <1>6, <1>7, <1>8, <1>9

\* and increments it.
LEMMA CountCounts == CountsInv /\ RxCount => CountsInv'
  <1> SUFFICES ASSUME CountsInv, RxCount PROVE CountsInv'
    OBVIOUS
  <1> USE DEF CountsInv
  <1>1. /\ ref # None /\ ref' = None
        /\ stats' = IF ref = Gone THEN stats ELSE [stats EXCEPT ![ref].rx = (@ + 1) % Wrap]
        /\ wire' = wire
        /\ tx' = tx /\ sent' = sent /\ threadStats' = threadStats /\ posted' = posted
        /\ slot' = slot /\ total' = total /\ dropped' = dropped /\ others' = others
        /\ excuse' = excuse /\ runs' = runs /\ clears' = clears
    BY DEF RxCount, ghosts
  <1>2. ref = Gone \/ (ref \in Streams /\ ref \in DOMAIN stats)
    BY <1>1 DEF Types, Table
  <1>3. ASSUME NEW g \in Streams
        PROVE  /\ EntryOf(g)'.tx = EntryOf(g).tx /\ EntryOf(g)' \in Counters
               /\ EntryOf(g)'.rx = IF g = ref THEN (EntryOf(g).rx + 1) % Wrap ELSE EntryOf(g).rx
    <2>1. EntryOf(g) \in Counters
      BY DEF Types, Table
    <2>2. CASE g # ref
      <3>1. EntryOf(g)' = EntryOf(g)
        BY <1>1, <2>2 DEF EntryOf
      <3> QED
        BY <2>1, <2>2, <3>1
    <2>3. CASE g = ref
      <3> DEFINE c == stats[g]
                 r == (c.rx + 1) % Wrap
      <3>1. ref # Gone /\ g \in DOMAIN stats
        BY <1>2, <2>3, ConstantsTyped
      <3>2. EntryOf(g) = c /\ EntryOf(g)' = [c EXCEPT !.rx = r]
        BY <1>1, <2>3, <3>1 DEF EntryOf
      <3>3. c.rx + 1 \in Int
        BY <2>1, <3>2 DEF Counters
      <3>4. r \in 0 .. Wrap - 1
        BY <3>3, RestTyped
      <3> HIDE DEF c, r
      <3>5. [c EXCEPT !.rx = r] \in Counters /\ [c EXCEPT !.rx = r].tx = c.tx
            /\ [c EXCEPT !.rx = r].rx = r
        BY <2>1, <3>2, <3>4 DEF Counters
      <3> QED
        BY <2>3, <3>2, <3>5 DEF r
    <2> QED
      BY <2>2, <2>3
  <1>4. Types'
    <2>1. DOMAIN stats' = DOMAIN stats
      BY <1>1
    <2>2. Table'
      BY <1>1, <1>3, <2>1, ConstantsTyped DEF Types, Table
    <2> QED
      BY <1>1, <2>2 DEF Types
  <1>5. Sent'
    BY <1>1 DEF Sent, Order
  <1>6. Bounded'
    BY <1>1 DEF Bounded
  <1>7. TxConserved'
    <2>1. ASSUME NEW g \in Streams, "raced" \notin excuse'
          PROVE  total'[g] = EntryOf(g)'.tx + dropped'[g] + Underway(g)' + OnTheWay(g)'
      <3>1. total[g] = EntryOf(g).tx + dropped[g] + Underway(g) + OnTheWay(g)
        BY <1>1, <2>1, TxEquation
      <3>2. Underway(g)' = Underway(g) /\ OnTheWay(g)' = OnTheWay(g)
        BY <1>1 DEF Underway, OnTheWay
      <3> QED
        BY <1>1, <1>3, <3>1, <3>2
    <2> QED
      BY <2>1, TxEquations
  <1>8. RxConserved'
    <2> SUFFICES ASSUME excuse' = {}, NEW g \in Streams
                 PROVE  \E k \in Int : EntryOf(g)'.rx + InAir(g)' = Received(g)' + k * Wrap
      BY DEF RxConserved
    <2> DEFINE e == IF g = ref THEN 1 ELSE 0
    <2>1. PICK k \in Int : EntryOf(g).rx + InAir(g) = Received(g) + k * Wrap
      BY <1>1 DEF RxConserved
    <2>2. Received(g)' = Received(g)
      BY <1>1, <1>3 DEF Received
    <2>3. InAir(g)' = InAir(g) - e
      <3>1. CountOf(g, wire)' = CountOf(g, wire) /\ CountOf(g, wire) \in Nat
        BY <1>1, CountsTyped DEF CountOf
      <3> QED
        BY <1>1, <3>1, ConstantsTyped DEF InAir
    <2>4. PICK n \in Int : EntryOf(g)'.rx = EntryOf(g).rx + e + n * Wrap
      <3>1. EntryOf(g).rx \in Int /\ EntryOf(g).rx + 1 \in Int /\ Wrap \in Int
        BY CountsTyped, ConstantsTyped
      <3>2. CASE g = ref
        <4>1. PICK n \in Int : (EntryOf(g).rx + 1) % Wrap = EntryOf(g).rx + 1 + n * Wrap
          BY <3>1, RestTyped
        <4> QED
          BY <1>3, <3>2, <4>1
      <3>3. CASE g # ref
        <4>1. EntryOf(g)'.rx = EntryOf(g).rx + e + 0 * Wrap
          BY <1>3, <3>1, <3>3
        <4> QED
          BY <4>1
      <3> QED
        BY <3>2, <3>3
    <2>5. /\ EntryOf(g).rx \in Int /\ InAir(g) \in Int /\ Received(g) \in Int /\ k * Wrap \in Int
          /\ n * Wrap \in Int /\ e \in Int /\ (k + n) * Wrap = k * Wrap + n * Wrap
      BY CountsTyped, ConstantsTyped
    <2> HIDE DEF e
    <2>6. EntryOf(g)'.rx + InAir(g)' = Received(g)' + (k + n) * Wrap
      BY <2>1, <2>2, <2>3, <2>4, <2>5
    <2> QED
      BY <2>6
  <1>9. Counting'
    <2>1. lastPkts' = lastPkts
      BY DEF RxCount
    <2> QED
      BY <1>1, <2>1, CountingSame

  <1> QED
    BY <1>4, <1>5, <1>6, <1>7, <1>8, <1>9

\* Some streams are cleared.
LEMMA ClearCounts == CountsInv /\ ClearStreamStats => CountsInv'
  <1> SUFFICES ASSUME CountsInv, ClearStreamStats PROVE CountsInv'
    OBVIOUS
  <1> USE DEF CountsInv
  <1>1. PICK gs \in SUBSET Streams \ {{}} :
          /\ stats' = Restrict(stats, DOMAIN stats \ gs)
          /\ dropped' = [g \in Streams |-> dropped[g] + (IF g \in gs THEN EntryOf(g).tx ELSE 0)]
          /\ others' = [g \in Streams |-> IF g \in gs THEN 0 ELSE others[g]]
          /\ ref' = IF ref \in gs THEN Gone ELSE ref
          /\ excuse' = excuse \cup (IF \A g \in gs : Quiet(g) THEN {} ELSE {"cleared"})
    BY DEF ClearStreamStats
  <1>2. /\ clears' = clears + 1 /\ tx' = tx /\ sent' = sent /\ threadStats' = threadStats
        /\ posted' = posted /\ slot' = slot /\ wire' = wire /\ total' = total /\ runs' = runs
    BY DEF ClearStreamStats
  <1>3. stats' = [g \in DOMAIN stats \ gs |-> stats[g]]
    BY <1>1 DEF Restrict
  <1>4. NoEntry \in Counters /\ NoEntry.tx = 0 /\ NoEntry.rx = 0
    BY ConstantsTyped DEF NoEntry, Counters
  <1>5. ASSUME NEW g \in Streams
        PROVE  EntryOf(g)' = IF g \in gs THEN NoEntry ELSE EntryOf(g)
    BY <1>3 DEF EntryOf
  <1>6. dropped' \in [Streams -> Nat] /\ others' \in [Streams -> Nat]
    <2>1. ASSUME NEW g \in Streams
          PROVE  dropped[g] + (IF g \in gs THEN EntryOf(g).tx ELSE 0) \in Nat /\ others[g] \in Nat
      BY CountsTyped, ConstantsTyped
    <2> QED
      BY <1>1, <2>1
  <1>7. Types'
    <2>1. DOMAIN stats' = DOMAIN stats \ gs
      BY <1>3
    <2>2. \A g \in Streams : EntryOf(g)' \in Counters
      BY <1>4, <1>5 DEF Types, Table
    <2>3. Table'
      <3>1. DOMAIN stats \subseteq Streams /\ (ref \in Streams => ref \in DOMAIN stats)
        BY DEF Types, Table
      <3>2. ref' \in Streams => ref' = ref /\ ref \notin gs
        BY <1>1, ConstantsTyped
      <3> QED
        BY <2>1, <2>2, <3>1, <3>2 DEF Table
    <2>4. excuse' \in SUBSET {"raced", "cleared"} /\ ref' \in Streams \cup {None, Gone}
      BY <1>1 DEF Types
    <2>5. clears' \in Nat
      BY <1>2 DEF Types
    <2> QED
      BY <1>2, <1>6, <2>3, <2>4, <2>5 DEF Types
  <1>8. Sent'
    BY <1>2 DEF Sent, Order
  <1>9. Bounded'
    <2>1. \A g \in Streams : others'[g] <= MaxOthers
      BY <1>1, ConstantsTyped DEF Bounded
    <2> QED
      BY <1>2, <2>1 DEF Bounded
  <1>10. TxConserved'
    <2>1. ASSUME NEW g \in Streams, "raced" \notin excuse'
          PROVE  total'[g] = EntryOf(g)'.tx + dropped'[g] + Underway(g)' + OnTheWay(g)'
      <3>1. total[g] = EntryOf(g).tx + dropped[g] + Underway(g) + OnTheWay(g)
        BY <1>1, <2>1, TxEquation
      <3>2. Underway(g)' = Underway(g) /\ OnTheWay(g)' = OnTheWay(g)
        BY <1>2 DEF Underway, OnTheWay
      <3>3. EntryOf(g).tx \in Nat /\ dropped[g] \in Nat /\ Underway(g) \in Nat /\ OnTheWay(g) \in Nat
        BY CountsTyped, ConstantsTyped DEF OnTheWay
      <3>4. dropped'[g] = dropped[g] + (IF g \in gs THEN EntryOf(g).tx ELSE 0)
        BY <1>1
      <3>5. EntryOf(g)'.tx = IF g \in gs THEN 0 ELSE EntryOf(g).tx
        BY <1>4, <1>5
      <3> QED
        BY <1>2, <3>1, <3>2, <3>3, <3>4, <3>5
    <2> QED
      BY <2>1, TxEquations
  <1>11. RxConserved'
    <2> SUFFICES ASSUME excuse' = {}, NEW g \in Streams
                 PROVE  \E k \in Int : EntryOf(g)'.rx + InAir(g)' = Received(g)' + k * Wrap
      BY DEF RxConserved
    <2>1. excuse = {} /\ \A h \in gs : Quiet(h)
      BY <1>1
    <2>2. CASE g \notin gs
      <3>1. EntryOf(g)' = EntryOf(g)
        BY <1>5, <2>2
      <3>2. InAir(g)' = InAir(g)
        <4>1. (ref' = g) <=> (ref = g)
          BY <1>1, <2>2, ConstantsTyped
        <4> QED
          BY <1>2, <4>1 DEF InAir
      <3>3. Received(g)' = Received(g)
        <4>1. others'[g] = others[g] /\ dropped'[g] = dropped[g] + 0 /\ dropped[g] \in Nat
          BY <1>1, <2>2, CountsTyped
        <4>2. dropped'[g] = dropped[g]
          BY <4>1
        <4> QED
          BY <1>2, <3>1, <4>1, <4>2 DEF Received
      <3> QED
        BY <2>1, <3>1, <3>2, <3>3 DEF RxConserved
    <2>3. CASE g \in gs
      <3>1. Quiet(g)
        BY <2>1, <2>3
      <3>2. InAir(g)' = 0
        <4>1. {m \in 1 .. Len(wire) : wire[m] = g} = {}
          BY <3>1 DEF Quiet
        <4>2. CountOf(g, wire) = 0
          BY <4>1, FS_EmptySet DEF CountOf
        <4>3. ref' # g
          BY <1>1, <2>3, ConstantsTyped
        <4> QED
          BY <1>2, <4>2, <4>3 DEF InAir
      <3>3. total[g] = EntryOf(g).tx + dropped[g] + 0 + 0
        <4>1. Underway(g) = 0 /\ OnTheWay(g) = 0
          BY <3>1 DEF Quiet, Underway, OnTheWay
        <4> QED
          BY <2>1, <4>1, TxEquation
      <3>4. dropped'[g] = dropped[g] + EntryOf(g).tx /\ others'[g] = 0
        BY <1>1, <2>3
      <3>5. EntryOf(g)'.tx = 0 /\ EntryOf(g)'.rx = 0
        BY <1>4, <1>5, <2>3
      <3>6. EntryOf(g).tx \in Nat /\ dropped[g] \in Nat
        BY CountsTyped, ConstantsTyped
      <3>7. Received(g)' = 0
        BY <1>2, <3>3, <3>4, <3>5, <3>6 DEF Received
      <3>8. 0 + 0 = 0 + 0 * Wrap
        BY ConstantsTyped
      <3> QED
        BY <3>2, <3>5, <3>7, <3>8
    <2> QED
      BY <2>2, <2>3
  <1>12. Counting'
    <2>1. lastPkts' = lastPkts
      BY DEF ClearStreamStats
    <2> QED
      BY <1>2, <2>1, CountingSame

  <1> QED
    BY <1>7, <1>8, <1>9, <1>10, <1>11, <1>12

-----------------------------------------------------------------------------
(* The theorems.                                                            *)

\* Nothing happens.
LEMMA SameCounts == CountsInv /\ UNCHANGED vars => CountsInv'
  <1> SUFFICES ASSUME CountsInv, UNCHANGED vars PROVE CountsInv'
    OBVIOUS
  <1> USE DEF CountsInv, vars, counts, ghosts
  <1>1. Types'
    BY StatsSame DEF Types, Table
  <1>2. Sent'
    BY DEF Sent, Order
  <1>3. Bounded'
    BY DEF Bounded
  <1>4. TxConserved'
    BY StatsSame DEF TxConserved, Underway
  <1>5. RxConserved'
    BY RxSame
  <1>6. Counting'
    BY CountingSame

  <1> QED
    BY <1>1, <1>2, <1>3, <1>4, <1>5, <1>6

\* Every step keeps the invariant.
LEMMA NextCounts == CountsInv /\ [Next]_vars => CountsInv'
  BY StartCounts, SendCounts, StoppedCounts, UpdateCounts, FinishedCounts, SlotAddCounts,
     SlotClearCounts, OtherCounts, FindCounts, CountCounts, ClearCounts, SameCounts
  DEF Next, Transmit, MainThread, Poller

\* The entries, the thread's counts and what is in the air always add up, for any
\* interleaving of the transmit thread, its slot, the poller and requests to clear.
THEOREM CountsHold == Spec => []CountsInv
  BY InitCounts, NextCounts, PTL DEF Spec

\* From the transmission over streamStats_ of the thread, updateTxThreadStreamStats() and
\* clearStreamStats() to the table no packet is lost or counted twice, but for those a
\* transmission adds while the slot is between adding and clearing.
THEOREM TxConservedHolds == Spec => []TxConserved
  <1>1. CountsInv => TxConserved
    BY DEF CountsInv
  <1> QED
    BY <1>1, CountsHold, PTL

\* Two counters that differ by whole wraps are one.
LEMMA WholeWraps ==
    ASSUME NEW a \in 0 .. Wrap - 1, NEW b \in 0 .. Wrap - 1, NEW k \in Int, a = b + k * Wrap
    PROVE  a = b
  <1>1. Wrap \in Nat \ {0}
    BY ConstantsTyped
  <1>2. k >= 1 => k * Wrap >= Wrap
    BY <1>1
  <1>3. k <= -1 => k * Wrap <= -Wrap
    BY <1>1
  <1>4. k * Wrap \in Int
    BY <1>1
  <1>5. k = 0 => k * Wrap = 0
    BY <1>1
  <1> QED
    BY <1>1, <1>2, <1>3, <1>4, <1>5

\* With everything counted, the rx count of a stream is what other ports have sent of it,
\* though the slot subtracts before the poller has counted, and may take it below zero.
THEOREM RxAdjustedHolds == Spec => []RxAdjusted
  <1>1. CountsInv => RxAdjusted
    <2> SUFFICES ASSUME CountsInv, excuse = {}, NEW g \in Streams, Quiet(g)
                 PROVE  EntryOf(g).rx = others[g]
      BY DEF RxAdjusted
    <2> USE DEF CountsInv
    <2>1. PICK k \in Int : EntryOf(g).rx + InAir(g) = Received(g) + k * Wrap
      BY DEF RxConserved
    <2>2. InAir(g) = 0
      <3>1. {m \in 1 .. Len(wire) : wire[m] = g} = {}
        BY DEF Quiet
      <3>2. CountOf(g, wire) = 0
        BY <3>1, FS_EmptySet DEF CountOf
      <3> QED
        BY <3>2 DEF InAir, Quiet
    <2>3. total[g] = EntryOf(g).tx + dropped[g] + 0 + 0
      <3>1. Underway(g) = 0 /\ OnTheWay(g) = 0
        BY DEF Quiet, Underway, OnTheWay
      <3> QED
        BY <3>1, TxEquation
    <2>4. EntryOf(g).tx \in Nat /\ dropped[g] \in Nat /\ others[g] \in Nat
          /\ EntryOf(g).rx \in 0 .. Wrap - 1
      BY CountsTyped, ConstantsTyped
    <2>5. Received(g) = others[g]
      BY <2>3, <2>4 DEF Received
    <2>6. others[g] \in 0 .. Wrap - 1
      BY <2>4, ConstantsTyped DEF Bounded
    <2>7. EntryOf(g).rx = others[g] + k * Wrap
      BY <2>1, <2>2, <2>4, <2>5
    <2> QED
      BY <2>4, <2>6, <2>7, WholeWraps
  <1> QED
    BY <1>1, CountsHold, PTL

-----------------------------------------------------------------------------
(* Counts and their multiples.                                              *)

\* f is a multiple of n.
Divides(n, f) == n \in Counts /\ f \in Counts /\ \E q \in Nat : f = q * n

LEMMA DividesItself ==
    ASSUME NEW n \in Counts
    PROVE  Divides(n, n)
  <1>1. n = 1 * n /\ 1 \in Nat
    BY DEF Counts
  <1> QED
    BY <1>1 DEF Divides

LEMMA DividesTrans ==
    ASSUME NEW l, NEW m, NEW n, Divides(l, m), Divides(m, n)
    PROVE  Divides(l, n)
  <1>1. l \in Nat /\ m \in Nat /\ n \in Nat
    BY DEF Divides, Counts
  <1>2. PICK p \in Nat : m = p * l
    BY DEF Divides
  <1>3. PICK q \in Nat : n = q * m
    BY DEF Divides
  <1>4. n = (q * p) * l /\ q * p \in Nat
    BY <1>1, <1>2, <1>3
  <1> QED
    BY <1>4 DEF Divides

LEMMA DivMod ==
    ASSUME NEW a \in Nat, NEW b \in Nat, b > 0
    PROVE  /\ a \div b \in Nat /\ a % b \in Nat /\ a % b < b
           /\ a = b * (a \div b) + (a % b)
  OBVIOUS

\* Frames a multiple of n apart are at the same place of a count of n.
LEMMA SameRemainder ==
    ASSUME NEW n, NEW f, Divides(n, f), NEW i \in Nat, NEW m \in Nat
    PROVE  (i + m * f) % n = i % n
  <1>1. n \in Nat /\ f \in Nat /\ n > 0
    BY DEF Divides, Counts
  <1>2. PICK q \in Nat : f = q * n
    BY DEF Divides
  <1> DEFINE k == m * q  j == i + k * n  d == i \div n  r == i % n
  <1>3. k \in Nat /\ m * f = k * n
    BY <1>1, <1>2
  <1>4. d \in Nat /\ r \in Nat /\ r < n /\ i = n * d + r
    BY <1>1
  <1>5. j = n * (d + k) + r /\ d + k \in Nat
    BY <1>1, <1>3, <1>4
  <1> HIDE DEF k, d, r
  <1>6. j % n = r
    <2> DEFINE e == j \div n  t == j % n  c == d + k
    <2>1. j \in Nat
      BY <1>1, <1>3
    <2>2. e \in Nat /\ t \in Nat /\ t < n /\ j = n * e + t
      <3> HIDE DEF j
      <3> QED
        BY <2>1, <1>1, DivMod
    <2>3. c \in Nat /\ j = n * c + r
      BY <1>5
    <2> HIDE DEF e, t, c, j
    <2>4. n * e - n * c = r - t
      BY <2>2, <2>3, <1>1, <1>4
    <2>5. n * e - n * c = n * (e - c)
      BY <2>2, <2>3, <1>1
    <2>6. e = c
      <3>1. CASE e - c >= 1
        <4>1. n * (e - c) >= n
          BY <3>1, <1>1, <2>2, <2>3
        <4> QED
          BY <4>1, <2>4, <2>5, <1>4, <2>2, <1>1, <2>3
      <3>2. CASE e - c <= -1
        <4>1. n * (e - c) <= -n
          BY <3>2, <1>1, <2>2, <2>3
        <4> QED
          BY <4>1, <2>4, <2>5, <1>4, <2>2, <1>1, <2>3
      <3> QED
        BY <3>1, <3>2, <2>2, <2>3
    <2>7. t = r
      BY <2>4, <2>6, <2>2, <1>4, <1>1, <2>3
    <2> QED
      BY <2>7 DEF t
  <1> QED
    BY <1>3, <1>6 DEF r

\* A greatest common divisor exists.
LEMMA GcdDivides ==
    ASSUME NEW u \in Counts, NEW v \in Counts
    PROVE  Gcd(u, v) \in 1 .. u /\ u % Gcd(u, v) = 0 /\ v % Gcd(u, v) = 0
  <1> DEFINE Common == {g \in 1 .. u : u % g = 0 /\ v % g = 0}
             Left == {u - g : g \in Common}
  <1>1. u \in Nat /\ v \in Nat /\ u > 0 /\ v > 0
    BY DEF Counts
  <1>2. 1 \in Common
    BY <1>1
  <1>3. Left \in SUBSET Nat /\ Left # {}
    BY <1>1, <1>2
  <1>4. PICK l \in Left : \A m \in Left : l <= m
    BY <1>3, LeastNumber
  <1>5. PICK g \in Common : l = u - g
    BY <1>4
  <1>6. \A h \in Common : h <= g
    <2> TAKE h \in Common
    <2>1. u - g <= u - h
      BY <1>4, <1>5
    <2> QED
      BY <2>1, <1>1
  <1>7. g \in 1 .. u /\ u % g = 0 /\ v % g = 0
        /\ \A h \in 1 .. u : u % h = 0 /\ v % h = 0 => h <= g
    BY <1>6
  <1> QED
    BY <1>7 DEF Gcd

\* The lcm of two counts is a count, and a multiple of both.
LEMMA LcmDivided ==
    ASSUME NEW u \in Counts, NEW v \in Counts
    PROVE  /\ Lcm(u, v) \in Counts
           /\ Divides(u, Lcm(u, v)) /\ Divides(v, Lcm(u, v))
  <1> DEFINE g == Gcd(u, v)  a == u \div g  b == v \div g
  <1>1. u \in Nat /\ v \in Nat /\ u > 0 /\ v > 0
    BY DEF Counts
  <1>2. g \in Nat /\ g > 0 /\ u % g = 0 /\ v % g = 0
    BY <1>1, GcdDivides
  <1>3. Lcm(u, v) = (u * v) \div g
    BY <1>1 DEF Lcm
  <1> HIDE DEF g
  <1>4. a \in Nat /\ b \in Nat /\ u = g * a /\ v = g * b
    BY <1>1, <1>2
  <1> HIDE DEF a, b
  <1>5. a > 0 /\ b > 0
    BY <1>1, <1>2, <1>4
  <1>6. a * b \in Nat /\ a * b * g \in Nat
    BY <1>2, <1>4
  <1>7. u * v = g * (a * b * g)
    BY <1>2, <1>4
  <1>8. \A n \in Nat : (g * n) \div g = n
    BY <1>2
  <1>9. Lcm(u, v) = a * b * g
    BY <1>3, <1>6, <1>7, <1>8
  <1>10. Lcm(u, v) = b * u /\ Lcm(u, v) = a * v
    BY <1>2, <1>4, <1>9
  <1>11. b * u > 0
    BY <1>1, <1>4, <1>5
  <1> QED
    BY <1>1, <1>4, <1>6, <1>9, <1>10, <1>11 DEF Divides, Counts

\* f has the first value a, and each of the others by a step from the one before it.
Steps(f, W, a, N, step) ==
    f \in [0 .. N -> W] /\ f[0] = a /\ \A n \in 1 .. N : f[n] = step[n][f[n - 1]]

\* There is such a function.
LEMMA Recursion ==
    ASSUME NEW W, NEW a \in W, NEW N \in Nat, NEW step \in [1 .. N -> [W -> W]]
    PROVE  \E f : Steps(f, W, a, N, step)
  <1> DEFINE Good(f, k) ==
                f \in [0 .. k -> W] /\ f[0] = a /\ \A n \in 1 .. k : f[n] = step[n][f[n - 1]]
             Up(k) == k <= N => \E f : Good(f, k)
             S == {k \in Nat : Up(k)}
  <1>1. 0 \in S
    <2> DEFINE f == [n \in 0 .. 0 |-> a]
    <2>1. f \in [0 .. 0 -> W] /\ f[0] = a
      OBVIOUS
    <2> HIDE DEF f
    <2>2. Good(f, 0)
      BY <2>1
    <2>3. Up(0)
      BY <2>2
    <2> QED
      BY <2>3
  <1>2. ASSUME NEW k \in S PROVE k + 1 \in S
    <2>1. k \in Nat /\ Up(k)
      OBVIOUS
    <2>2. ASSUME k + 1 <= N PROVE \E f : Good(f, k + 1)
      <3>1. PICK f : Good(f, k)
        BY <2>1, <2>2
      <3> DEFINE g == [n \in 0 .. k + 1 |-> IF n <= k THEN f[n] ELSE step[n][f[n - 1]]]
      <3>2. \A n \in 0 .. k : n \in 0 .. k + 1 /\ n <= k /\ g[n] = f[n] /\ f[n] \in W
        BY <2>1, <3>1
      <3>3. k + 1 \in 0 .. k + 1 /\ ~ (k + 1 <= k) /\ k + 1 - 1 = k /\ k \in 0 .. k
        BY <2>1
      <3>4. g[k + 1] = step[k + 1][f[k]]
        BY <3>3
      <3>5. step[k + 1] \in [W -> W] /\ f[k] \in W
        BY <2>1, <2>2, <3>1
      <3>6. g[k + 1] \in W
        BY <3>4, <3>5
      <3>7. \A n \in 0 .. k + 1 : n \in 0 .. k \/ n = k + 1
        BY <2>1
      <3>8. g \in [0 .. k + 1 -> W]
        <4>1. \A n \in 0 .. k + 1 : g[n] \in W
          BY <3>2, <3>6, <3>7
        <4> QED
          BY <4>1
      <3>9. g[0] = a
        BY <2>1, <3>1, <3>2
      <3>10. ASSUME NEW n \in 1 .. k + 1 PROVE g[n] = step[n][g[n - 1]]
        <4>0. n - 1 \in 0 .. k /\ g[n - 1] = f[n - 1]
          BY <2>1, <3>2
        <4>1. CASE n = k + 1
          BY <3>4, <3>3, <4>0, <4>1
        <4>2. CASE n # k + 1
          <5>1. n \in 1 .. k /\ n \in 0 .. k
            BY <2>1, <4>2
          <5>2. g[n] = f[n] /\ f[n] = step[n][f[n - 1]]
            BY <3>1, <3>2, <5>1
          <5> QED
            BY <4>0, <5>2
        <4> QED
          BY <4>1, <4>2
      <3> HIDE DEF g
      <3>11. Good(g, k + 1)
        BY <3>8, <3>9, <3>10
      <3> QED
        BY <3>11
    <2> HIDE DEF Good
    <2>3. Up(k + 1)
      BY <2>2
    <2> HIDE DEF Up
    <2> QED
      BY <2>1, <2>3
  <1>3. S = Nat
    <2>1. S \in SUBSET Nat
      OBVIOUS
    <2> HIDE DEF S
    <2> QED
      BY <1>1, <1>2, <2>1, Induction
  <1>4. \E f : Good(f, N)
    <2>1. Up(N)
      <3> HIDE DEF Up
      <3> QED
        BY <1>3
    <2> QED
      BY <2>1
  <1> QED
    BY <1>4 DEF Steps

\* The lcm of many counts is a count, and a multiple of each.
LEMMA LcmOfDivided ==
    ASSUME NEW counted, Len(counted) \in Nat,
           \A n \in 1 .. Len(counted) : counted[n] \in Counts
    PROVE  /\ LcmOf(counted) \in Counts
           /\ \A n \in 1 .. Len(counted) : Divides(counted[n], LcmOf(counted))
  <1> DEFINE N == Len(counted)
             Upward(f) == f = [n \in 0 .. N |-> IF n = 0 THEN 1 ELSE Lcm(f[n - 1], counted[n])]
             step == [n \in 1 .. N |-> [m \in Counts |-> Lcm(m, counted[n])]]
             upTo == CHOOSE f : Upward(f)
  <1>1. Upward(upTo)
    <2>1. \A n \in 1 .. N : \A m \in Counts : Lcm(m, counted[n]) \in Counts
      BY LcmDivided
    <2>2. step \in [1 .. N -> [Counts -> Counts]]
      BY <2>1
    <2>3. \A n \in 1 .. N : \A m \in Counts : step[n][m] = Lcm(m, counted[n])
      OBVIOUS
    <2> HIDE DEF step
    <2>4. 1 \in Counts
      BY DEF Counts
    <2>5. PICK f : Steps(f, Counts, 1, N, step)
      BY <2>2, <2>4, Recursion
    <2>6. ASSUME NEW n \in 0 .. N PROVE f[n] = IF n = 0 THEN 1 ELSE Lcm(f[n - 1], counted[n])
      <3>1. CASE n = 0
        BY <2>5, <3>1 DEF Steps
      <3>2. CASE n # 0
        <4>1. n \in 1 .. N /\ n - 1 \in 0 .. N
          BY <3>2
        <4>2. f[n - 1] \in Counts /\ f[n] = step[n][f[n - 1]]
          BY <2>5, <4>1 DEF Steps
        <4> QED
          BY <2>3, <3>2, <4>1, <4>2
      <3> QED
        BY <3>1, <3>2
    <2>7. f \in [0 .. N -> Counts]
      BY <2>5 DEF Steps
    <2>8. Upward(f)
      BY <2>6, <2>7
    <2> HIDE DEF Upward
    <2> QED
      BY <2>8
  <1>2. LcmOf(counted) = upTo[N]
    BY DEF LcmOf
  <1> HIDE DEF upTo
  <1> DEFINE P(n) == n <= N => /\ upTo[n] \in Counts
                                 /\ \A m \in 1 .. n : Divides(counted[m], upTo[n])
             S == {n \in Nat : P(n)}
  <1>3. 0 \in S
    BY <1>1 DEF Counts
  <1>4. ASSUME NEW n \in S PROVE n + 1 \in S
    <2> SUFFICES ASSUME n + 1 <= N PROVE P(n + 1)
      OBVIOUS
    <2>1. upTo[n] \in Counts /\ \A m \in 1 .. n : Divides(counted[m], upTo[n])
      OBVIOUS
    <2>2. n + 1 \in 0 .. N /\ n + 1 # 0 /\ (n + 1) - 1 = n /\ n + 1 \in 1 .. N
      OBVIOUS
    <2>3. upTo[n + 1] = Lcm(upTo[n], counted[n + 1])
      BY <1>1, <2>2
    <2>4. counted[n + 1] \in Counts
      BY <2>2
    <2>5. /\ upTo[n + 1] \in Counts
          /\ Divides(upTo[n], upTo[n + 1]) /\ Divides(counted[n + 1], upTo[n + 1])
      BY <2>1, <2>3, <2>4, LcmDivided
    <2>6. ASSUME NEW m \in 1 .. n + 1 PROVE Divides(counted[m], upTo[n + 1])
      <3>1. CASE m = n + 1
        BY <3>1, <2>5
      <3>2. CASE m # n + 1
        <4>1. m \in 1 .. n
          BY <3>2
        <4> QED
          BY <4>1, <2>1, <2>5, DividesTrans
      <3> QED
        BY <3>1, <3>2
    <2> QED
      BY <2>5, <2>6
  <1>5. S \in SUBSET Nat
    OBVIOUS
  <1>6. S = Nat
    <2> HIDE DEF S
    <2> QED
      BY <1>3, <1>4, <1>5, Induction
  <1>7. P(N)
    BY <1>6
  <1> QED
    BY <1>2, <1>7

-----------------------------------------------------------------------------
(* Frames that are the same.                                                *)

\* Every count of a protocol is at the same place in frames i and j.
SamePlace(a, i, j) == a.mode # "fixed" => i % a.count = j % a.count
SamePlaces(p, i, j) ==
    /\ \A n \in DOMAIN p.vary : i % p.vary[n].count = j % p.vary[n].count
    /\ p.proto \in {"mac", "ip4", "ip6"} => SamePlace(p.src, i, j) /\ SamePlace(p.dst, i, j)
    /\ p.proto = "arp" =>
           /\ SamePlace(p.senderHw, i, j) /\ SamePlace(p.senderProto, i, j)
           /\ SamePlace(p.targetHw, i, j) /\ SamePlace(p.targetProto, i, j)

\* And the frames have one length.
Alike(s, i, j) ==
    /\ FrameLen(s, i) = FrameLen(s, j)
    /\ \A k \in 1 .. Top(s) : SamePlaces(Proto(s, k), i, j)

\* Sizes are those of the length.
LEMMA SameFilling ==
    ASSUME NEW s, NEW k, NEW i, NEW j, Alike(s, i, j)
    PROVE  Filling(s, k, i) = Filling(s, k, j)
  BY DEF Filling, Alike

LEMMA SameSize ==
    ASSUME NEW s, NEW k, NEW i, NEW j, Alike(s, i, j)
    PROVE  ProtocolFrameSize(s, k, i) = ProtocolFrameSize(s, k, j)
  BY SameFilling DEF ProtocolFrameSize

LEMMA SameOffset ==
    ASSUME NEW s, NEW k, NEW i, NEW j, Alike(s, i, j)
    PROVE  ProtocolFrameOffset(s, k, i) = ProtocolFrameOffset(s, k, j)
  <1>1. [l \in 1 .. k - 1 |-> ProtocolFrameSize(s, l, i)]
          = [l \in 1 .. k - 1 |-> ProtocolFrameSize(s, l, j)]
    BY SameSize
  <1> QED
    BY <1>1 DEF ProtocolFrameOffset

LEMMA SamePayloadSize ==
    ASSUME NEW s, NEW k, NEW i, NEW j, Alike(s, i, j)
    PROVE  ProtocolFramePayloadSize(s, k, i) = ProtocolFramePayloadSize(s, k, j)
  <1>1. [l \in 1 .. Top(s) - k |-> ProtocolFrameSize(s, k + l, i)]
          = [l \in 1 .. Top(s) - k |-> ProtocolFrameSize(s, k + l, j)]
    BY SameSize
  <1> QED
    BY <1>1 DEF ProtocolFramePayloadSize

\* Addresses and counters are those of the place in their count.
LEMMA SameSteps ==
    ASSUME NEW v, NEW i, NEW j, i % v.count = j % v.count
    PROVE  OnesOf(v, i) = OnesOf(v, j) /\ StepsOf(v, i) = StepsOf(v, j)
  BY DEF OnesOf, StepsOf

LEMMA SameMacAddress ==
    ASSUME NEW a, NEW i, NEW j, SamePlace(a, i, j)
    PROVE  MacAddress(a, i) = MacAddress(a, j)
  BY SameSteps DEF MacAddress, SamePlace

LEMMA SameHostAddress ==
    ASSUME NEW a, NEW addr, NEW mask, NEW i, NEW j, SamePlace(a, i, j)
    PROVE  HostAddress(a, addr, mask, i) = HostAddress(a, addr, mask, j)
  BY SameSteps DEF HostAddress, SamePlace

LEMMA SameIp4Address ==
    ASSUME NEW a, NEW i, NEW j, SamePlace(a, i, j)
    PROVE  Ip4Address(a, i) = Ip4Address(a, j)
  BY SameHostAddress DEF Ip4Address

LEMMA SameIp6Address ==
    ASSUME NEW a, NEW i, NEW j, SamePlace(a, i, j)
    PROVE  Ip6Address(a, i) = Ip6Address(a, j)
  BY SameHostAddress DEF Ip6Address

LEMMA SameCounters ==
    ASSUME NEW p, NEW i, NEW j, SamePlaces(p, i, j)
    PROVE  [n \in DOMAIN p.vary |-> Counter(p.vary[n], i)]
             = [n \in DOMAIN p.vary |-> Counter(p.vary[n], j)]
  <1>1. ASSUME NEW n \in DOMAIN p.vary PROVE Counter(p.vary[n], i) = Counter(p.vary[n], j)
    <2>1. StepsOf(p.vary[n], i) = StepsOf(p.vary[n], j)
      BY SameSteps DEF SamePlaces
    <2> QED
      BY <2>1 DEF Counter
  <1> QED
    BY <1>1

\* The fields of each protocol.
LEMMA SameMacFields ==
    ASSUME NEW p, NEW i, NEW j, p.proto = "mac", SamePlaces(p, i, j)
    PROVE  MacFields(p, i) = MacFields(p, j)
  BY SameMacAddress DEF MacFields, SamePlaces

LEMMA SameArpFields ==
    ASSUME NEW p, NEW i, NEW j, p.proto = "arp", SamePlaces(p, i, j)
    PROVE  ArpFields(p, i) = ArpFields(p, j)
  <1>1. /\ MacAddress(p.senderHw, i) = MacAddress(p.senderHw, j)
        /\ MacAddress(p.targetHw, i) = MacAddress(p.targetHw, j)
        /\ Ip4Address(p.senderProto, i) = Ip4Address(p.senderProto, j)
        /\ Ip4Address(p.targetProto, i) = Ip4Address(p.targetProto, j)
    BY SameMacAddress, SameIp4Address DEF SamePlaces
  <1> QED
    BY <1>1 DEF ArpFields

LEMMA SameDot3Fields ==
    ASSUME NEW s, NEW k, NEW i, NEW j, Alike(s, i, j)
    PROVE  Dot3Fields(s, k, i) = Dot3Fields(s, k, j)
  BY SamePayloadSize DEF Dot3Fields

LEMMA SameIp4Fields ==
    ASSUME NEW s, NEW k, NEW i, NEW j, NEW sum, Alike(s, i, j),
           Proto(s, k).proto = "ip4", SamePlaces(Proto(s, k), i, j)
    PROVE  Ip4Fields(s, k, i, sum) = Ip4Fields(s, k, j, sum)
  <1>1. /\ Ip4Address(Proto(s, k).src, i) = Ip4Address(Proto(s, k).src, j)
        /\ Ip4Address(Proto(s, k).dst, i) = Ip4Address(Proto(s, k).dst, j)
    BY SameIp4Address DEF SamePlaces
  <1>2. ProtocolFramePayloadSize(s, k, i) = ProtocolFramePayloadSize(s, k, j)
    BY SamePayloadSize
  <1> QED
    BY <1>1, <1>2 DEF Ip4Fields

LEMMA SameIp6Fields ==
    ASSUME NEW s, NEW k, NEW i, NEW j, Alike(s, i, j),
           Proto(s, k).proto = "ip6", SamePlaces(Proto(s, k), i, j)
    PROVE  Ip6Fields(s, k, i) = Ip6Fields(s, k, j)
  <1>1. /\ Ip6Address(Proto(s, k).src, i) = Ip6Address(Proto(s, k).src, j)
        /\ Ip6Address(Proto(s, k).dst, i) = Ip6Address(Proto(s, k).dst, j)
    BY SameIp6Address DEF SamePlaces
  <1>2. ProtocolFramePayloadSize(s, k, i) = ProtocolFramePayloadSize(s, k, j)
    BY SamePayloadSize
  <1> QED
    BY <1>1, <1>2 DEF Ip6Fields

LEMMA SameUdpFields ==
    ASSUME NEW s, NEW k, NEW i, NEW j, NEW sum, Alike(s, i, j)
    PROVE  UdpFields(s, k, i, sum) = UdpFields(s, k, j, sum)
  BY SamePayloadSize DEF UdpFields

LEMMA SameTcpFields ==
    ASSUME NEW s, NEW k, NEW i, NEW j, NEW sum
    PROVE  TcpFields(s, k, i, sum) = TcpFields(s, k, j, sum)
  BY DEF TcpFields

LEMMA SameFieldValues ==
    ASSUME NEW s, NEW i, NEW j, NEW sum, Alike(s, i, j), NEW k \in 1 .. Top(s)
    PROVE  FieldValues(s, k, i, sum) = FieldValues(s, k, j, sum)
  <1>1. SamePlaces(Proto(s, k), i, j)
    BY DEF Alike
  <1>2. /\ Proto(s, k).proto = "mac" => MacFields(Proto(s, k), i) = MacFields(Proto(s, k), j)
        /\ Proto(s, k).proto = "arp" => ArpFields(Proto(s, k), i) = ArpFields(Proto(s, k), j)
    BY <1>1, SameMacFields, SameArpFields
  <1>3. /\ Proto(s, k).proto = "ip4" => Ip4Fields(s, k, i, sum) = Ip4Fields(s, k, j, sum)
        /\ Proto(s, k).proto = "ip6" => Ip6Fields(s, k, i) = Ip6Fields(s, k, j)
    BY <1>1, SameIp4Fields, SameIp6Fields
  <1>4. /\ Dot3Fields(s, k, i) = Dot3Fields(s, k, j)
        /\ UdpFields(s, k, i, sum) = UdpFields(s, k, j, sum)
        /\ TcpFields(s, k, i, sum) = TcpFields(s, k, j, sum)
    BY SameDot3Fields, SameUdpFields, SameTcpFields
  <1> QED
    BY <1>2, <1>3, <1>4 DEF FieldValues

\* The bytes of a protocol.
LEMMA SamePayloadBytes ==
    ASSUME NEW s, NEW k, NEW i, NEW j, Alike(s, i, j)
    PROVE  PayloadBytes(s, k, i) = PayloadBytes(s, k, j)
  BY SameSize DEF PayloadBytes

LEMMA SameHexDumpBytes ==
    ASSUME NEW s, NEW k, NEW i, NEW j, Alike(s, i, j)
    PROVE  HexDumpBytes(s, k, i) = HexDumpBytes(s, k, j)
  BY SameFilling DEF HexDumpBytes

LEMMA SameValueWith ==
    ASSUME NEW s, NEW i, NEW j, NEW sum, Alike(s, i, j), NEW k \in 1 .. Top(s)
    PROVE  ValueWith(s, k, i, sum) = ValueWith(s, k, j, sum)
  <1> DEFINE p == Proto(s, k)
             bytes(n) == CASE p.proto = "payload" -> PayloadBytes(s, k, n)
                           [] p.proto = "hexdump" -> HexDumpBytes(s, k, n)
                           [] OTHER -> Pack(FieldBits(p), FieldValues(s, k, n, sum))
             counters(n) == IF p.proto = "mac" THEN <<>>
                            ELSE [m \in DOMAIN p.vary |-> Counter(p.vary[m], n)]
  <1>1. counters(i) = counters(j)
    <2>1. SamePlaces(p, i, j)
      BY DEF Alike
    <2> HIDE DEF p
    <2> QED
      BY <2>1, SameCounters
  <1>2. bytes(i) = bytes(j)
    BY SamePayloadBytes, SameHexDumpBytes, SameFieldValues
  <1>3. \A n : ValueWith(s, k, n, sum) = Overwritten(bytes(n), counters(n))
    BY DEF ValueWith
  <1> HIDE DEF bytes, counters
  <1> QED
    BY <1>1, <1>2, <1>3

\* The checksums.
LEMMA SameOwnSum ==
    ASSUME NEW s, NEW i, NEW j, Alike(s, i, j), NEW k \in 1 .. Top(s)
    PROVE  OwnSum(s, k, i) = OwnSum(s, k, j)
  BY SameValueWith DEF OwnSum

LEMMA SamePayloadSum ==
    ASSUME NEW s, NEW i, NEW j, Alike(s, i, j), NEW k \in 1 .. Top(s), Top(s) \in Nat
    PROVE  PayloadSum(s, k, i) = PayloadSum(s, k, j)
  <1> DEFINE Turned(l, n) == IF l > k + 1 /\ ProtocolFrameOffset(s, l, n) % 2 = 1
                             THEN Swap16(OwnSum(s, l, n)) ELSE OwnSum(s, l, n)
             sums(n) == [l \in 1 .. Top(s) - k |-> Turned(k + l, n)]
  <1>1. \A l \in 1 .. Top(s) - k : k + l \in 1 .. Top(s)
    OBVIOUS
  <1>2. \A l \in 1 .. Top(s) - k : Turned(k + l, i) = Turned(k + l, j)
    BY <1>1, SameOwnSum, SameOffset
  <1>3. sums(i) = sums(j)
    <2> HIDE DEF Turned
    <2> QED
      BY <1>2
  <1>4. \A n : PayloadSum(s, k, n) = Folded(Total(sums(n)))
    BY DEF PayloadSum
  <1> HIDE DEF sums
  <1> QED
    BY <1>3, <1>4

\* The nearest IP header in front is one of the protocols.
LEMMA NearestIp ==
    ASSUME NEW s, NEW k \in Nat, IpsBefore(s, k) # {}
    PROVE  Max(IpsBefore(s, k)) \in 1 .. k - 1
  <1> DEFINE Before == IpsBefore(s, k)
             Away == {k - l : l \in Before}
  <1>1. Before \in SUBSET (1 .. k - 1)
    BY DEF IpsBefore
  <1> HIDE DEF Before
  <1>2. Away \in SUBSET Nat /\ Away # {}
    BY <1>1 DEF Before
  <1>3. PICK a \in Away : \A b \in Away : a <= b
    BY <1>2, LeastNumber
  <1>4. PICK ip \in Before : a = k - ip
    BY <1>3
  <1>5. \A l \in Before : ip >= l
    <2> TAKE l \in Before
    <2>1. k - ip <= k - l
      BY <1>3, <1>4
    <2> QED
      BY <2>1, <1>1
  <1>6. Max(Before) \in Before
    BY <1>4, <1>5 DEF Max
  <1> QED
    BY <1>1, <1>6 DEF Before

LEMMA SamePseudoSum ==
    ASSUME NEW s, NEW i, NEW j, Alike(s, i, j), NEW k \in 1 .. Top(s), Top(s) \in Nat
    PROVE  PseudoSum(s, k, i) = PseudoSum(s, k, j)
  <1> DEFINE ip == Max(IpsBefore(s, k))
  <1>1. /\ ProtocolFrameSize(s, k, i) = ProtocolFrameSize(s, k, j)
        /\ ProtocolFramePayloadSize(s, k, i) = ProtocolFramePayloadSize(s, k, j)
    BY SameSize, SamePayloadSize
  <1>2. CASE IpsBefore(s, k) = {}
    BY <1>2 DEF PseudoSum
  <1>3. CASE IpsBefore(s, k) # {}
    <2>1. ip \in 1 .. Top(s)
      BY <1>3, NearestIp
    <2> HIDE DEF ip
    <2>2. ValueWith(s, ip, i, 0) = ValueWith(s, ip, j, 0)
      BY <2>1, SameValueWith
    <2> QED
      BY <1>1, <2>2 DEF PseudoSum, ip
  <1> QED
    BY <1>2, <1>3

LEMMA SameChecksum ==
    ASSUME NEW s, NEW i, NEW j, Alike(s, i, j), NEW k \in 1 .. Top(s), Top(s) \in Nat
    PROVE  Checksum(s, k, i) = Checksum(s, k, j)
  BY SameOwnSum, SamePayloadSum, SamePseudoSum DEF Checksum

LEMMA SameProtocolFrameValue ==
    ASSUME NEW s, NEW i, NEW j, Alike(s, i, j), NEW k \in 1 .. Top(s), Top(s) \in Nat
    PROVE  ProtocolFrameValue(s, k, i) = ProtocolFrameValue(s, k, j)
  BY SameChecksum, SameValueWith DEF ProtocolFrameValue

\* Frames of one length with all counts at the same place are the same.
LEMMA SameFrame ==
    ASSUME NEW s, NEW i, NEW j, Alike(s, i, j), Top(s) \in Nat
    PROVE  FrameValue(s, i) = FrameValue(s, j)
  <1> DEFINE values(n) == [k \in 1 .. Top(s) |-> ProtocolFrameValue(s, k, n)]
             size(n) == Min({FrameLen(s, n) - FcsSize, MaxPktSize})
             Fitted(bytes, n) == [m \in 1 .. n |-> IF m <= Len(bytes) THEN bytes[m] ELSE 0]
  <1>1. values(i) = values(j)
    BY SameProtocolFrameValue
  <1>2. size(i) = size(j)
    BY DEF Alike
  <1>3. \A n : FrameValue(s, n) = Fitted(FlattenSeq(values(n)), size(n))
    BY DEF FrameValue
  <1> HIDE DEF values, size, Fitted
  <1> QED
    BY <1>1, <1>2, <1>3

-----------------------------------------------------------------------------
(* The number of different frames.                                           *)

\* A protocol's counts divide its number of values.
LEMMA ModesCounted ==
    ASSUME NEW p, Counted(p)
    PROVE  /\ Len(ModeCounts(p)) \in Nat
           /\ \A n \in 1 .. Len(ModeCounts(p)) : ModeCounts(p)[n] \in Counts
  <1>1. 1 \in Counts
    BY DEF Counts
  <1>2. CASE p.proto \in {"mac", "ip4", "ip6"}
    <2>1. ModeCounts(p) = <<CountOfMode(p.src), CountOfMode(p.dst)>>
      BY <1>2 DEF ModeCounts
    <2>2. CountOfMode(p.src) \in Counts /\ CountOfMode(p.dst) \in Counts
      BY <1>1, <1>2 DEF Counted, CountOfMode
    <2> QED
      BY <2>1, <2>2
  <1>3. CASE p.proto = "arp"
    <2>1. ModeCounts(p) = <<CountOfMode(p.senderHw), CountOfMode(p.senderProto),
                            CountOfMode(p.targetHw), CountOfMode(p.targetProto)>>
      BY <1>3 DEF ModeCounts
    <2>2. /\ CountOfMode(p.senderHw) \in Counts /\ CountOfMode(p.senderProto) \in Counts
          /\ CountOfMode(p.targetHw) \in Counts /\ CountOfMode(p.targetProto) \in Counts
      BY <1>1, <1>3 DEF Counted, CountOfMode
    <2> QED
      BY <2>1, <2>2
  <1>4. CASE p.proto \notin {"mac", "ip4", "ip6", "arp"}
    <2>1. ModeCounts(p) = <<>>
      BY <1>4 DEF ModeCounts
    <2> QED
      BY <2>1
  <1> QED
    BY <1>2, <1>3, <1>4

LEMMA FieldsCounted ==
    ASSUME NEW p, Counted(p)
    PROVE  LET counts_ == [n \in DOMAIN p.vary |-> p.vary[n].count]
           IN  /\ Len(counts_) \in Nat /\ DOMAIN p.vary = 1 .. Len(counts_)
               /\ \A n \in 1 .. Len(counts_) : counts_[n] \in Counts
  <1>1. p.vary \in Seq(Range(p.vary)) /\ \A n \in DOMAIN p.vary : p.vary[n].count \in Counts
    BY DEF Counted
  <1>2. Len(p.vary) \in Nat /\ DOMAIN p.vary = 1 .. Len(p.vary)
    BY <1>1
  <1>3. [n \in DOMAIN p.vary |-> p.vary[n].count] \in Seq(Counts)
    BY <1>1, <1>2
  <1> QED
    BY <1>1, <1>2, <1>3

\* So many lengths a frame has.
LEMMA LengthsCounted ==
    ASSUME NEW s \in FrameStreams
    PROVE  FrameLenCount(s) \in Counts
  BY FrameAssumption DEF FrameLenCount, Counts

LEMMA CountOfProtocol ==
    ASSUME NEW s \in FrameStreams, NEW k \in 1 .. Top(s)
    PROVE  LET p == Proto(s, k)
               fields == [n \in DOMAIN p.vary |-> p.vary[n].count]
               count == ProtocolFrameVariableCount(s, k)
           IN  /\ count \in Counts
               /\ \A n \in DOMAIN p.vary : Divides(p.vary[n].count, count)
               /\ \A n \in 1 .. Len(ModeCounts(p)) : Divides(ModeCounts(p)[n], count)
  <1> DEFINE p == Proto(s, k)
             fields == [n \in DOMAIN p.vary |-> p.vary[n].count]
             own == LcmOf(fields)
             modes == LcmOf(ModeCounts(p))
             count == ProtocolFrameVariableCount(s, k)
  <1>1. Counted(p)
    BY FrameAssumption DEF Top
  <1> HIDE DEF p
  <1>2. own \in Counts /\ \A n \in DOMAIN p.vary : Divides(p.vary[n].count, own)
    BY <1>1, FieldsCounted, LcmOfDivided
  <1>3. modes \in Counts /\ \A n \in 1 .. Len(ModeCounts(p)) : Divides(ModeCounts(p)[n], modes)
    BY <1>1, ModesCounted, LcmOfDivided
  <1>4. CASE p.proto = "payload"
    <2>1. count = Lcm(own, FrameLenCount(s))
      BY <1>4 DEF ProtocolFrameVariableCount, p
    <2>2. Len(ModeCounts(p)) = 0
      BY <1>4 DEF ModeCounts
    <2> HIDE DEF own, count
    <2>3. count \in Counts /\ Divides(own, count)
      BY <2>1, <1>2, LengthsCounted, LcmDivided
    <2> QED
      BY <2>2, <2>3, <1>2, DividesTrans DEF count, p
  <1>5. CASE p.proto # "payload"
    <2>1. count = Lcm(own, modes)
      BY <1>5 DEF ProtocolFrameVariableCount, p
    <2> HIDE DEF own, modes, count
    <2>2. count \in Counts /\ Divides(own, count) /\ Divides(modes, count)
      BY <2>1, <1>2, <1>3, LcmDivided
    <2> QED
      BY <2>2, <1>2, <1>3, DividesTrans DEF count, p
  <1> QED
    BY <1>4, <1>5

LEMMA CountOfStream ==
    ASSUME NEW s \in FrameStreams
    PROVE  LET count == FrameVariableCount(s)
           IN  /\ count \in Counts /\ Divides(FrameLenCount(s), count)
               /\ \A k \in 1 .. Top(s) : Divides(ProtocolFrameVariableCount(s, k), count)
  <1> DEFINE values == [k \in 1 .. Top(s) |-> ProtocolFrameVariableCount(s, k)]
             all == LcmOf(values)
  <1>1. Top(s) \in Nat
    BY FrameAssumption DEF Top
  <1>2. values \in Seq(Counts) /\ Len(values) = Top(s)
    BY <1>1, CountOfProtocol
  <1>3. all \in Counts /\ \A k \in 1 .. Top(s) : Divides(values[k], all)
    <2> HIDE DEF values
    <2> QED
      BY <1>1, <1>2, LcmOfDivided
  <1>4. FrameVariableCount(s) = Lcm(all, FrameLenCount(s))
    BY DEF FrameVariableCount, CountOfProtocols
  <1>5. \A k \in 1 .. Top(s) : Divides(ProtocolFrameVariableCount(s, k), all)
    BY <1>3
  <1> HIDE DEF values, all
  <1>6. /\ FrameVariableCount(s) \in Counts /\ Divides(all, FrameVariableCount(s))
        /\ Divides(FrameLenCount(s), FrameVariableCount(s))
    BY <1>3, <1>4, LengthsCounted, LcmDivided
  <1> QED
    BY <1>5, <1>6, DividesTrans

\* After so many frames every count is at the same place again.
LEMMA AlikeAgain ==
    ASSUME NEW s \in FrameStreams, NEW i \in Nat, NEW m \in Nat
    PROVE  Alike(s, i, i + m * FrameVariableCount(s))
  <1> DEFINE count == FrameVariableCount(s)
             j == i + m * count
  <1>1. count \in Counts /\ Divides(FrameLenCount(s), count)
        /\ \A k \in 1 .. Top(s) : Divides(ProtocolFrameVariableCount(s, k), count)
    BY CountOfStream
  <1>2. \A n : Divides(n, count) => i % n = j % n
    <2> HIDE DEF count
    <2> QED
      BY SameRemainder
  <1> HIDE DEF count, j
  <1>3. FrameLen(s, i) = FrameLen(s, j)
    BY <1>1, <1>2 DEF FrameLen
  <1>4. ASSUME NEW k \in 1 .. Top(s) PROVE SamePlaces(Proto(s, k), i, j)
    <2> DEFINE p == Proto(s, k)
               own == ProtocolFrameVariableCount(s, k)
    <2>1. /\ \A n \in DOMAIN p.vary : Divides(p.vary[n].count, own)
          /\ \A n \in 1 .. Len(ModeCounts(p)) : Divides(ModeCounts(p)[n], own)
      BY CountOfProtocol
    <2>2. Divides(own, count)
      BY <1>1
    <2> HIDE DEF p, own
    <2>3. /\ \A n \in DOMAIN p.vary : i % p.vary[n].count = j % p.vary[n].count
          /\ \A n \in 1 .. Len(ModeCounts(p)) : i % ModeCounts(p)[n] = j % ModeCounts(p)[n]
      BY <1>2, <2>1, <2>2, DividesTrans
    <2>4. ASSUME p.proto \in {"mac", "ip4", "ip6"}
          PROVE  SamePlace(p.src, i, j) /\ SamePlace(p.dst, i, j)
      <3>1. ModeCounts(p) = <<CountOfMode(p.src), CountOfMode(p.dst)>>
        BY <2>4 DEF ModeCounts
      <3>2. /\ i % CountOfMode(p.src) = j % CountOfMode(p.src)
            /\ i % CountOfMode(p.dst) = j % CountOfMode(p.dst)
        BY <2>3, <3>1
      <3> QED
        BY <3>2 DEF SamePlace, CountOfMode
    <2>5. ASSUME p.proto = "arp"
          PROVE  /\ SamePlace(p.senderHw, i, j) /\ SamePlace(p.senderProto, i, j)
                 /\ SamePlace(p.targetHw, i, j) /\ SamePlace(p.targetProto, i, j)
      <3>1. ModeCounts(p) = <<CountOfMode(p.senderHw), CountOfMode(p.senderProto),
                              CountOfMode(p.targetHw), CountOfMode(p.targetProto)>>
        BY <2>5 DEF ModeCounts
      <3>2. /\ i % CountOfMode(p.senderHw) = j % CountOfMode(p.senderHw)
            /\ i % CountOfMode(p.senderProto) = j % CountOfMode(p.senderProto)
            /\ i % CountOfMode(p.targetHw) = j % CountOfMode(p.targetHw)
            /\ i % CountOfMode(p.targetProto) = j % CountOfMode(p.targetProto)
        BY <2>3, <3>1
      <3> QED
        BY <3>2 DEF SamePlace, CountOfMode
    <2> QED
      BY <2>3, <2>4, <2>5 DEF SamePlaces, p
  <1>5. Alike(s, i, j)
    BY <1>3, <1>4 DEF Alike
  <1> QED
    BY <1>5 DEF j, count

\* So the frames repeat.
LEMMA FramesAgain ==
    ASSUME NEW s \in FrameStreams, NEW i \in Nat, NEW m \in Nat
    PROVE  FrameValue(s, i) = FrameValue(s, i + m * FrameVariableCount(s))
  <1>1. Top(s) \in Nat
    BY FrameAssumption DEF Top
  <1> QED
    BY <1>1, AlikeAgain, SameFrame

\* The inductive invariant: the buffer holds the stream's last frame, also when the code
\* has not built it because all are the same.
LastFrame ==
    /\ stream \in FrameStreams /\ built \in Nat
    /\ built > 0 => frame = FrameValue(stream, built - 1)

LEMMA LastFrameKept == LastFrame /\ [FrameNext]_frameVars => LastFrame'
  <1> SUFFICES ASSUME LastFrame, [FrameNext]_frameVars PROVE LastFrame'
    OBVIOUS
  <1>1. CASE BuildFrame
    <2>1. stream' = stream /\ built' = built + 1 /\ built' \in Nat /\ built' - 1 = built
      BY <1>1 DEF BuildFrame, LastFrame
    <2>2. CASE built = 0 \/ FrameVariableCount(stream) > 1
      BY <1>1, <2>1, <2>2 DEF BuildFrame, LastFrame
    <2>3. CASE ~(built = 0 \/ FrameVariableCount(stream) > 1)
      <3>1. FrameVariableCount(stream) = 1
        BY <2>3, CountOfStream DEF LastFrame, Counts
      <3>2. built - 1 \in Nat /\ built - 1 + 1 * 1 = built
        BY <2>3 DEF LastFrame
      <3>3. FrameValue(stream, built - 1) = FrameValue(stream, built)
        BY <3>1, <3>2, FramesAgain DEF LastFrame
      <3> QED
        BY <1>1, <2>1, <2>3, <3>3 DEF BuildFrame, LastFrame
    <2> QED
      BY <2>2, <2>3
  <1>2. CASE UNCHANGED frameVars
    BY <1>2 DEF frameVars, LastFrame
  <1> QED
    BY <1>1, <1>2 DEF FrameNext

\* The buffer holds the frame of the index the list is at, also where frameValue() was
\* called for the first one only because all of them are the same.
THEOREM LastFrameHolds == FrameSpec => []LastFrame
  <1>1. FrameInit => LastFrame
    BY DEF FrameInit, LastFrame
  <1> QED
    BY <1>1, LastFrameKept, PTL DEF FrameSpec

\* The frames that updatePacketListSequential() builds stand for all that are sent:
\* after frameVariableCount() of them the same bytes come again.
THEOREM FramesRepeatHolds == FrameSpec => []FramesRepeat
  <1>1. LastFrame => FramesRepeat
    <2> SUFFICES ASSUME LastFrame, built > 0, NEW m \in 1 .. 2
                 PROVE  frame = FrameValue(stream, index + m * FrameVariableCount(stream))
      BY DEF FramesRepeat
    <2>1. index \in Nat /\ m \in Nat /\ frame = FrameValue(stream, index)
      BY DEF LastFrame, index
    <2> QED
      BY <2>1, FramesAgain DEF LastFrame
  <1> QED
    BY <1>1, LastFrameHolds, PTL

-----------------------------------------------------------------------------
(* Sequences of any elements.                                                *)

IsSeq(x) == x \in Seq(Range(x))

LEMMA FunSeq ==
    ASSUME NEW f, NEW n \in Nat, f = [k \in 1 .. n |-> f[k]]
    PROVE  IsSeq(f) /\ Len(f) = n
  <1>1. DOMAIN f = 1 .. n
    OBVIOUS
  <1>2. \A k \in 1 .. n : f[k] \in Range(f)
    BY <1>1 DEF Range
  <1>3. f \in [1 .. n -> Range(f)]
    BY <1>2
  <1> QED
    BY <1>3 DEF IsSeq

LEMMA SeqFun ==
    ASSUME NEW x, IsSeq(x)
    PROVE  Len(x) \in Nat /\ DOMAIN x = 1 .. Len(x) /\ x = [k \in 1 .. Len(x) |-> x[k]]
  BY DEF IsSeq

\* A part is found behind the first n elements.
Has(whole, n, part) == \A k \in 1 .. Len(part) : whole[n + k] = part[k]

LEMMA ConcatSeq ==
    ASSUME NEW a, NEW b, IsSeq(a), IsSeq(b)
    PROVE  /\ IsSeq(a \o b) /\ Len(a \o b) = Len(a) + Len(b)
           /\ \A k \in 1 .. Len(a) : (a \o b)[k] = a[k]
           /\ Has(a \o b, Len(a), b)
  <1> DEFINE U == Range(a) \cup Range(b)
             c == a \o b
  <1>1. a \in Seq(U) /\ b \in Seq(U)
    BY DEF IsSeq
  <1> HIDE DEF U
  <1>2. c \in Seq(U) /\ Len(c) = Len(a) + Len(b)
    BY <1>1
  <1>3. /\ \A k \in 1 .. Len(a) : c[k] = a[k]
        /\ \A k \in 1 .. Len(b) : c[Len(a) + k] = b[k]
    BY <1>1
  <1> HIDE DEF c
  <1>4. Len(c) \in Nat /\ c = [k \in 1 .. Len(c) |-> c[k]]
    BY <1>2
  <1>5. IsSeq(c)
    BY <1>4, FunSeq
  <1>6. Has(c, Len(a), b)
    BY <1>3 DEF Has
  <1> QED
    BY <1>2, <1>3, <1>5, <1>6 DEF c

LEMMA EmptyIsSeq == IsSeq(<<>>) /\ Len(<<>>) = 0
  BY DEF IsSeq

LEMMA TypedSeq ==
    ASSUME NEW S, NEW x \in Seq(S)
    PROVE  IsSeq(x)
  <1>1. Len(x) \in Nat /\ x = [k \in 1 .. Len(x) |-> x[k]]
    OBVIOUS
  <1> QED
    BY <1>1, FunSeq

LEMMA PairMax ==
    ASSUME NEW a \in Int, NEW b \in Int
    PROVE  Max({a, b}) = IF a >= b THEN a ELSE b
  BY DEF Max

LEMMA PairMin ==
    ASSUME NEW a \in Int, NEW b \in Int
    PROVE  Min({a, b}) = IF a <= b THEN a ELSE b
  BY DEF Min

-----------------------------------------------------------------------------
(* Sums.                                                                     *)

\* The function Total takes its value from.
Totalling(f, numbers) ==
    f = [n \in 0 .. Len(numbers) |-> IF n = 0 THEN 0 ELSE f[n - 1] + numbers[n]]

LEMMA TotallingExists ==
    ASSUME NEW numbers, Len(numbers) \in Nat, \A n \in 1 .. Len(numbers) : numbers[n] \in Int
    PROVE  \E f : Totalling(f, numbers)
  <1> DEFINE N == Len(numbers)
             step == [n \in 1 .. N |-> [x \in Int |-> x + numbers[n]]]
  <1>1. step \in [1 .. N -> [Int -> Int]]
    OBVIOUS
  <1>2. \A n \in 1 .. N : \A x \in Int : step[n][x] = x + numbers[n]
    OBVIOUS
  <1>0. 0 \in Int /\ N \in Nat
    OBVIOUS
  <1> HIDE DEF step, N
  <1>3. PICK f : Steps(f, Int, 0, N, step)
    BY <1>0, <1>1, Recursion
  <1>4. ASSUME NEW n \in 0 .. N PROVE f[n] = IF n = 0 THEN 0 ELSE f[n - 1] + numbers[n]
    <2>1. CASE n = 0
      BY <1>3, <2>1 DEF Steps
    <2>2. CASE n # 0
      <3>1. n \in 1 .. N /\ n - 1 \in 0 .. N
        BY <1>0, <2>2
      <3>2. f[n - 1] \in Int /\ f[n] = step[n][f[n - 1]]
        BY <1>3, <3>1 DEF Steps
      <3> QED
        BY <1>2, <2>2, <3>1, <3>2
    <2> QED
      BY <2>1, <2>2
  <1>5. f \in [0 .. N -> Int]
    BY <1>3 DEF Steps
  <1>6. Totalling(f, numbers)
    BY <1>4, <1>5 DEF Totalling, N
  <1> QED
    BY <1>6

\* What adds up step by step is the total.
LEMMA TotalIs ==
    ASSUME NEW numbers, NEW N \in Nat, Len(numbers) = N,
           \A n \in 1 .. N : numbers[n] \in Int,
           NEW sums, sums[0] = 0, \A n \in 1 .. N : sums[n] = sums[n - 1] + numbers[n]
    PROVE  Total(numbers) = sums[N]
  <1> DEFINE f == CHOOSE f : Totalling(f, numbers)
  <1>1. Totalling(f, numbers)
    BY TotallingExists
  <1>2. Total(numbers) = f[N]
    BY DEF Total, Totalling
  <1> HIDE DEF f
  <1> DEFINE Same(n) == n <= N => f[n] = sums[n]
             S == {n \in Nat : Same(n)}
  <1>3. 0 \in S
    BY <1>1 DEF Totalling
  <1>4. ASSUME NEW n \in S PROVE n + 1 \in S
    <2> SUFFICES ASSUME n + 1 <= N PROVE f[n + 1] = sums[n + 1]
      OBVIOUS
    <2>1. n + 1 \in 0 .. N /\ n + 1 # 0 /\ (n + 1) - 1 = n /\ n + 1 \in 1 .. N /\ f[n] = sums[n]
      OBVIOUS
    <2> QED
      BY <1>1, <2>1 DEF Totalling
  <1>5. S = Nat
    <2>1. S \in SUBSET Nat
      OBVIOUS
    <2> HIDE DEF S
    <2> QED
      BY <1>3, <1>4, <2>1, Induction
  <1>6. Same(N)
    BY <1>5
  <1> QED
    BY <1>2, <1>6

\* The sums of the first n numbers.
LEMMA Totals ==
    ASSUME NEW g, NEW N \in Nat, \A n \in 1 .. N : g[n] \in Int
    PROVE  /\ Total([m \in 1 .. 0 |-> g[m]]) = 0
           /\ \A n \in 0 .. N : Total([m \in 1 .. n |-> g[m]]) \in Int
           /\ \A n \in 1 .. N :
                Total([m \in 1 .. n |-> g[m]]) = Total([m \in 1 .. n - 1 |-> g[m]]) + g[n]
  <1> DEFINE all == [m \in 1 .. N |-> g[m]]
  <1>1. all \in Seq(Int) /\ Len(all) = N /\ \A n \in 1 .. N : all[n] = g[n]
    OBVIOUS
  <1> HIDE DEF all
  <1>2. PICK f : Totalling(f, all)
    BY <1>1, TotallingExists
  <1>3. f[0] = 0 /\ \A n \in 1 .. N : f[n] = f[n - 1] + g[n]
    <2>1. \A n \in 1 .. N : n \in 0 .. N /\ n # 0
      OBVIOUS
    <2> QED
      BY <1>1, <1>2, <2>1 DEF Totalling
  <1>4. ASSUME NEW n \in 0 .. N PROVE Total([m \in 1 .. n |-> g[m]]) = f[n]
    <2> DEFINE part == [m \in 1 .. n |-> g[m]]
    <2>1. part \in Seq(Int) /\ Len(part) = n /\ \A m \in 1 .. n : part[m] = g[m] /\ part[m] \in Int
      OBVIOUS
    <2> HIDE DEF part
    <2>0. \A m \in 1 .. n : m \in 1 .. N
      OBVIOUS
    <2>3. f[0] = 0 /\ \A m \in 1 .. n : f[m] = f[m - 1] + part[m]
      BY <1>3, <2>0, <2>1
    <2>4. n \in Nat
      OBVIOUS
    <2>5. \A m \in 1 .. n : part[m] \in Int
      BY <2>1
    <2>6. f[0] = 0 /\ Len(part) = n
      BY <1>3, <2>1
    <2>2. Total(part) = f[n]
      BY <2>3, <2>4, <2>5, <2>6, TotalIs, Zenon
    <2> QED
      BY <2>2 DEF part
  <1> DEFINE Whole(n) == n <= N => f[n] \in Int
             S == {n \in Nat : Whole(n)}
  <1>5. 0 \in S
    BY <1>3
  <1>6. ASSUME NEW n \in S PROVE n + 1 \in S
    <2> SUFFICES ASSUME n + 1 <= N PROVE f[n + 1] \in Int
      OBVIOUS
    <2>1. n + 1 \in 1 .. N /\ (n + 1) - 1 = n /\ f[n] \in Int
      OBVIOUS
    <2> QED
      BY <1>3, <2>1
  <1>7. S = Nat
    <2>1. S \in SUBSET Nat
      OBVIOUS
    <2> HIDE DEF S
    <2> QED
      BY <1>5, <1>6, <2>1, Induction
  <1>8. \A n \in 0 .. N : f[n] \in Int
    BY <1>7
  <1> DEFINE T(n) == Total([m \in 1 .. n |-> g[m]])
  <1>9. \A n \in 0 .. N : T(n) = f[n] /\ T(n) \in Int
    BY <1>4, <1>8
  <1>10. \A n \in 1 .. N : n - 1 \in 0 .. N /\ n \in 0 .. N
    OBVIOUS
  <1>11. T(0) = 0 /\ \A n \in 1 .. N : T(n) = T(n - 1) + g[n]
    <2> HIDE DEF T
    <2>1. 0 \in 0 .. N
      OBVIOUS
    <2> QED
      BY <1>3, <1>9, <1>10, <2>1
  <1> QED
    BY <1>9, <1>11

\* A total changes by as much as one of the numbers does.
LEMMA TotalWithOne ==
    ASSUME NEW a, NEW b, NEW N \in Nat, NEW x \in Int, NEW f \in 1 .. N,
           IsSeq(a), IsSeq(b), Len(a) = N, Len(b) = N,
           \A n \in 1 .. N : a[n] \in Int /\ b[n] = a[n] + (IF n = f THEN x ELSE 0)
    PROVE  Total(b) = Total(a) + x
  <1> DEFINE A(n) == Total([m \in 1 .. n |-> a[m]])
             B(n) == Total([m \in 1 .. n |-> b[m]])
             Up(n) == n <= N => B(n) = A(n) + (IF n >= f THEN x ELSE 0)
             S == {n \in Nat : Up(n)}
  <1>1. \A n \in 1 .. N : a[n] \in Int /\ b[n] \in Int
    OBVIOUS
  <1>2. A(0) = 0 /\ \A n \in 1 .. N : A(n) = A(n - 1) + a[n]
    BY <1>1, Totals
  <1>3. \A n \in 0 .. N : A(n) \in Int
    BY <1>1, Totals
  <1>4. B(0) = 0 /\ \A n \in 1 .. N : B(n) = B(n - 1) + b[n]
    BY <1>1, Totals
  <1> HIDE DEF A, B
  <1>5. 0 \in S
    BY <1>2, <1>4
  <1>6. ASSUME NEW n \in S PROVE n + 1 \in S
    <2> SUFFICES ASSUME n + 1 <= N
                 PROVE  B(n + 1) = A(n + 1) + (IF n + 1 >= f THEN x ELSE 0)
      OBVIOUS
    <2>1. n + 1 \in 1 .. N /\ n \in 0 .. N /\ (n + 1) - 1 = n
          /\ B(n) = A(n) + (IF n >= f THEN x ELSE 0)
      OBVIOUS
    <2>2. A(n + 1) = A(n) + a[n + 1] /\ B(n + 1) = B(n) + b[n + 1]
      BY <1>2, <1>4, <2>1
    <2>3. b[n + 1] = a[n + 1] + (IF n + 1 = f THEN x ELSE 0) /\ a[n + 1] \in Int
      BY <2>1
    <2>4. A(n) \in Int
      BY <1>3, <2>1
    <2> QED
      BY <2>1, <2>2, <2>3, <2>4
  <1>7. S = Nat
    <2>1. S \in SUBSET Nat
      OBVIOUS
    <2> HIDE DEF S
    <2> QED
      BY <1>5, <1>6, <2>1, Induction
  <1>8. Up(N)
    BY <1>7
  <1>9. B(N) = A(N) + x
    BY <1>8
  <1>10. a = [n \in 1 .. N |-> a[n]] /\ b = [n \in 1 .. N |-> b[n]]
    BY SeqFun
  <1> QED
    BY <1>9, <1>10 DEF A, B

-----------------------------------------------------------------------------
(* The functions that put bytes together step by step.                       *)

OverwritingBy(f, buf, counters, N) ==
    f = [n \in 0 .. N |-> IF n = 0 THEN buf ELSE Overwrite(f[n - 1], counters[n])]

LEMMA OverwritingExists ==
    ASSUME NEW buf, NEW counters, NEW N \in Nat
    PROVE  \E f : OverwritingBy(f, buf, counters, N)
  <1> DEFINE Up(n) == \E f : OverwritingBy(f, buf, counters, n)
             S == {n \in Nat : Up(n)}
  <1>1. Up(0)
    <2> DEFINE f == [n \in 0 .. 0 |-> buf]
    <2>1. f = [n \in 0 .. 0 |-> IF n = 0 THEN buf ELSE Overwrite(f[n - 1], counters[n])]
      OBVIOUS
    <2> HIDE DEF f
    <2>2. OverwritingBy(f, buf, counters, 0)
      BY <2>1 DEF OverwritingBy
    <2> QED
      BY <2>2
  <1>2. ASSUME NEW n \in Nat, Up(n) PROVE Up(n + 1)
    <2>1. PICK f : OverwritingBy(f, buf, counters, n)
      BY <1>2
    <2> DEFINE g == [m \in 0 .. n + 1 |-> IF m <= n THEN f[m] ELSE Overwrite(f[n], counters[m])]
    <2>2. ASSUME NEW m \in 0 .. n + 1
          PROVE  g[m] = IF m = 0 THEN buf ELSE Overwrite(g[m - 1], counters[m])
      <3>1. CASE m = n + 1
        <4>1. m # 0 /\ ~ (m <= n) /\ m - 1 = n /\ n \in 0 .. n + 1 /\ n <= n
          BY <3>1
        <4>2. g[m] = Overwrite(f[n], counters[m]) /\ g[n] = f[n]
          BY <4>1
        <4> QED
          BY <4>1, <4>2
      <3>2. CASE m # n + 1 /\ m # 0
        <4>1. m <= n /\ m \in 0 .. n /\ m - 1 \in 0 .. n + 1 /\ m - 1 <= n
          BY <3>2
        <4>2. g[m] = f[m] /\ g[m - 1] = f[m - 1]
          BY <4>1
        <4>3. f[m] = Overwrite(f[m - 1], counters[m])
          BY <2>1, <3>2, <4>1 DEF OverwritingBy
        <4> QED
          BY <3>2, <4>2, <4>3
      <3>3. CASE m = 0
        <4>1. 0 <= n /\ 0 \in 0 .. n
          OBVIOUS
        <4>2. g[0] = f[0] /\ f[0] = buf
          BY <2>1, <4>1 DEF OverwritingBy
        <4> QED
          BY <3>3, <4>2
      <3> QED
        BY <3>1, <3>2, <3>3
    <2>3. g = [m \in 0 .. n + 1 |-> g[m]]
      OBVIOUS
    <2> HIDE DEF g
    <2>4. OverwritingBy(g, buf, counters, n + 1)
      BY <2>2, <2>3 DEF OverwritingBy
    <2> QED
      BY <2>4
  <1> HIDE DEF Up
  <1>3. S = Nat
    <2>1. S \in SUBSET Nat
      OBVIOUS
    <2>2. 0 \in S /\ \A n \in S : n + 1 \in S
      BY <1>1, <1>2
    <2> HIDE DEF S
    <2> QED
      BY <2>1, <2>2, Induction
  <1>4. Up(N)
    BY <1>3
  <1> QED
    BY <1>4 DEF Up

\* Variable fields change no size.
LEMMA OverwriteSize ==
    ASSUME NEW buf, IsSeq(buf), NEW c
    PROVE  IsSeq(Overwrite(buf, c)) /\ Len(Overwrite(buf, c)) = Len(buf)
  <1> DEFINE new == Overwrite(buf, c)
             at == [d \in DOMAIN c.mask |-> c.offset + d]
             field == Merge([d \in DOMAIN at |-> buf[at[d]]], c.value, c.mask)
  <1>1. Len(buf) \in Nat /\ DOMAIN buf = 1 .. Len(buf)
    BY SeqFun
  <1>2. CASE c.offset + Len(c.mask) > Len(buf)
    <2>1. new = buf
      BY <1>2 DEF Overwrite
    <2> QED
      BY <2>1
  <1>3. CASE ~(c.offset + Len(c.mask) > Len(buf))
    <2>1. new = [d \in DOMAIN buf |-> IF d \in c.offset + 1 .. c.offset + Len(c.mask)
                                     THEN field[d - c.offset] ELSE buf[d]]
      BY <1>3 DEF Overwrite
    <2> HIDE DEF field
    <2>2. new = [d \in 1 .. Len(buf) |-> new[d]]
      BY <1>1, <2>1
    <2> HIDE DEF new
    <2> QED
      BY <1>1, <2>2, FunSeq DEF new
  <1> QED
    BY <1>2, <1>3

LEMMA OverwrittenSize ==
    ASSUME NEW buf, IsSeq(buf), NEW counters, Len(counters) \in Nat
    PROVE  /\ IsSeq(Overwritten(buf, counters)) /\ Len(Overwritten(buf, counters)) = Len(buf)
           /\ Len(counters) = 0 => Overwritten(buf, counters) = buf
  <1> DEFINE N == Len(counters)
             f == CHOOSE f : OverwritingBy(f, buf, counters, N)
  <1>1. OverwritingBy(f, buf, counters, N)
    BY OverwritingExists
  <1>2. Overwritten(buf, counters) = f[N]
    BY DEF Overwritten, OverwritingBy
  <1>0. N \in Nat
    OBVIOUS
  <1> HIDE DEF f, N
  <1> DEFINE Kept(n) == n <= N => IsSeq(f[n]) /\ Len(f[n]) = Len(buf)
             S == {n \in Nat : Kept(n)}
  <1>3. f[0] = buf
    BY <1>0, <1>1 DEF OverwritingBy
  <1>4. 0 \in S
    BY <1>3
  <1>5. ASSUME NEW n \in S PROVE n + 1 \in S
    <2> SUFFICES ASSUME n + 1 <= N PROVE IsSeq(f[n + 1]) /\ Len(f[n + 1]) = Len(buf)
      OBVIOUS
    <2>1. n + 1 \in 0 .. N /\ n + 1 # 0 /\ (n + 1) - 1 = n /\ IsSeq(f[n]) /\ Len(f[n]) = Len(buf)
      BY <1>0
    <2>2. f[n + 1] = Overwrite(f[n], counters[n + 1])
      BY <1>1, <2>1 DEF OverwritingBy
    <2> QED
      BY <2>1, <2>2, OverwriteSize
  <1>6. S = Nat
    <2>1. S \in SUBSET Nat
      OBVIOUS
    <2> HIDE DEF S
    <2> QED
      BY <1>4, <1>5, <2>1, Induction
  <1>7. Kept(N)
    BY <1>0, <1>6
  <1> QED
    BY <1>0, <1>2, <1>3, <1>7 DEF N

PackingBy(f, bits, values, N) ==
    f = [n \in 0 .. N |->
            IF n = 0 THEN [bytes |-> <<>>, pos |-> 0]
            ELSE IF bits[n] = 0 THEN f[n - 1] ELSE PackField(f[n - 1], bits[n], values[n])]

LEMMA PackingExists ==
    ASSUME NEW bits, NEW values, NEW N \in Nat
    PROVE  \E f : PackingBy(f, bits, values, N)
  <1> DEFINE start == [bytes |-> <<>>, pos |-> 0]
             After(before, m) == IF bits[m] = 0 THEN before ELSE PackField(before, bits[m], values[m])
             Up(n) == \E f : PackingBy(f, bits, values, n)
             S == {n \in Nat : Up(n)}
  <1>0. \A f, n : PackingBy(f, bits, values, n) <=>
            f = [m \in 0 .. n |-> IF m = 0 THEN start ELSE After(f[m - 1], m)]
    BY DEF PackingBy
  <1> HIDE DEF start, After
  <1>1. Up(0)
    <2> DEFINE f == [m \in 0 .. 0 |-> start]
    <2>1. f = [m \in 0 .. 0 |-> IF m = 0 THEN start ELSE After(f[m - 1], m)]
      OBVIOUS
    <2> HIDE DEF f
    <2> QED
      BY <1>0, <2>1
  <1>2. ASSUME NEW n \in Nat, Up(n) PROVE Up(n + 1)
    <2>1. PICK f : f = [m \in 0 .. n |-> IF m = 0 THEN start ELSE After(f[m - 1], m)]
      BY <1>0, <1>2
    <2> DEFINE g == [m \in 0 .. n + 1 |-> IF m <= n THEN f[m] ELSE After(f[n], m)]
    <2>2. ASSUME NEW m \in 0 .. n + 1
          PROVE  g[m] = IF m = 0 THEN start ELSE After(g[m - 1], m)
      <3>1. CASE m = n + 1
        <4>1. m # 0 /\ ~ (m <= n) /\ m - 1 = n /\ n \in 0 .. n + 1 /\ n <= n
          BY <3>1
        <4>2. g[m] = After(f[n], m) /\ g[n] = f[n]
          BY <4>1
        <4> QED
          BY <4>1, <4>2
      <3>2. CASE m # n + 1 /\ m # 0
        <4>1. m <= n /\ m \in 0 .. n /\ m - 1 \in 0 .. n + 1 /\ m - 1 <= n
          BY <3>2
        <4>2. g[m] = f[m] /\ g[m - 1] = f[m - 1]
          BY <4>1
        <4>3. f[m] = After(f[m - 1], m)
          BY <2>1, <3>2, <4>1
        <4> QED
          BY <3>2, <4>2, <4>3
      <3>3. CASE m = 0
        <4>1. 0 <= n /\ 0 \in 0 .. n
          OBVIOUS
        <4>2. g[0] = f[0] /\ f[0] = start
          BY <2>1, <4>1
        <4> QED
          BY <3>3, <4>2
      <3> QED
        BY <3>1, <3>2, <3>3
    <2>3. g = [m \in 0 .. n + 1 |-> g[m]]
      OBVIOUS
    <2> HIDE DEF g
    <2>4. g = [m \in 0 .. n + 1 |-> IF m = 0 THEN start ELSE After(g[m - 1], m)]
      BY <2>2, <2>3
    <2> QED
      BY <1>0, <2>4
  <1> HIDE DEF Up
  <1>3. S = Nat
    <2>1. S \in SUBSET Nat
      OBVIOUS
    <2>2. 0 \in S /\ \A n \in S : n + 1 \in S
      BY <1>1, <1>2
    <2> HIDE DEF S
    <2> QED
      BY <2>1, <2>2, Induction
  <1>4. Up(N)
    BY <1>3
  <1> QED
    BY <1>4 DEF Up

\* After so many bits, a packed beginning has so many bytes.
Packed(acc, filled) ==
    /\ IsSeq(acc.bytes) /\ Len(acc.bytes) = (filled + 7) \div 8
    /\ acc.pos = filled % 8

\* A field fits: its value is as many bytes as its bits need, and its bits do not
\* go beyond the byte in which whole bytes of it end.
Fits(filled, bits, value) ==
    /\ IsSeq(value)
    /\ 8 * Len(value) - bits \in 0 .. 7
    /\ 8 * Len(value) = bits \/ filled % 8 <= 8 * Len(value) - bits

LEMMA ExceptSize ==
    ASSUME NEW b, IsSeq(b), NEW n, NEW e
    PROVE  IsSeq([b EXCEPT ![n] = e]) /\ Len([b EXCEPT ![n] = e]) = Len(b)
  <1> DEFINE c == [b EXCEPT ![n] = e]
  <1>1. Len(b) \in Nat /\ DOMAIN b = 1 .. Len(b)
    BY SeqFun
  <1>2. DOMAIN c = 1 .. Len(b)
    BY <1>1
  <1>3. c = [m \in 1 .. Len(b) |-> c[m]]
    BY <1>1
  <1> HIDE DEF c
  <1> QED
    BY <1>1, <1>3, FunSeq DEF c

\* How many bytes more.
LEMMA MoreBytes ==
    ASSUME NEW filled \in Nat, NEW bits \in Nat, NEW whole \in Nat, NEW spare \in 0 .. 7,
           spare = 8 * whole - bits
    PROVE  /\ filled % 8 = 0 => (filled + 7) \div 8 + whole = (filled + bits + 7) \div 8
           /\ spare = 0 => (filled + 7) \div 8 + whole = (filled + bits + 7) \div 8
           /\ spare # 0 /\ filled % 8 # 0 /\ filled % 8 <= spare =>
                 (filled + 7) \div 8 + whole - 1 = (filled + bits + 7) \div 8
  <1> DEFINE q == filled \div 8
             r == filled % 8
  <1>1. q \in Nat /\ r \in 0 .. 7 /\ filled = 8 * q + r
    OBVIOUS
  <1> HIDE DEF q, r
  <1>2. bits = 8 * whole - spare
    OBVIOUS
  <1> QED
    BY <1>1, <1>2 DEF r

LEMMA CutSize ==
    ASSUME NEW acc, NEW filled \in Nat, Packed(acc, filled),
           NEW bits \in Nat, bits > 0, NEW value, Fits(filled, bits, value), NEW up
    PROVE  Packed(Cut(acc, bits, value, up), filled + bits)
  <1> DEFINE spare == Spare(bits, value)
             cut == Cut(acc, bits, value, up)
  <1>1. Len(value) \in Nat /\ DOMAIN value = 1 .. Len(value) /\ Len(acc.bytes) \in Nat
        /\ DOMAIN acc.bytes = 1 .. Len(acc.bytes)
    BY SeqFun DEF Fits, Packed
  <1>2. spare \in 0 .. 7 /\ spare = 8 * Len(value) - bits
    BY DEF Spare, Fits
  <1> DEFINE Onward(d) == IF d > Len(value) THEN 0 ELSE value[d]
             left == IF spare = 0 THEN value
                     ELSE [d \in DOMAIN value |-> Or((value[d] * 2 ^ spare) % 256, Onward(d + 1) \div 2 ^ (8 - spare))]
             High(d) == IF d > Len(left) THEN 0 ELSE left[d] \div 2 ^ acc.pos
             more == IF spare = 0 THEN Len(left) ELSE Len(left) - 1
             ends == [acc.bytes EXCEPT ![Len(acc.bytes)] = Or(@, High(1))]
             rest == [d \in 1 .. more |-> Or((left[d] * 2 ^ up) % 256, High(d + 1))]
  <1>3. /\ cut.bytes = IF acc.pos = 0 THEN acc.bytes \o left ELSE ends \o rest
        /\ cut.pos = (acc.pos + bits) % 8
    BY DEF Cut
  <1>4. IsSeq(left) /\ Len(left) = Len(value)
    <2>1. CASE spare = 0
      BY <2>1 DEF Fits
    <2>2. CASE spare # 0
      <3>1. left = [d \in 1 .. Len(value) |-> left[d]]
        BY <1>1, <2>2
      <3> HIDE DEF left
      <3> QED
        BY <1>1, <3>1, FunSeq
    <2> QED
      BY <2>1, <2>2
  <1>5. more \in Nat /\ more = IF spare = 0 THEN Len(value) ELSE Len(value) - 1
    <2>1. spare # 0 => Len(value) >= 1
      BY <1>1, <1>2
    <2> HIDE DEF left
    <2> QED
      BY <1>1, <1>4, <2>1
  <1>6. IsSeq(rest) /\ Len(rest) = more
    <2>1. rest = [d \in 1 .. more |-> rest[d]]
      OBVIOUS
    <2> HIDE DEF rest, more
    <2> QED
      BY <1>5, <2>1, FunSeq
  <1>7. IsSeq(ends) /\ Len(ends) = Len(acc.bytes)
    <2> HIDE DEF left
    <2> QED
      BY ExceptSize DEF Packed
  <1> HIDE DEF left, more, ends, rest, spare
  <1>8. cut.pos = (filled + bits) % 8
    BY <1>3 DEF Packed
  <1>9. CASE acc.pos = 0
    <2>1. cut.bytes = acc.bytes \o left
      BY <1>3, <1>9
    <2>2. IsSeq(cut.bytes) /\ Len(cut.bytes) = Len(acc.bytes) + Len(value)
      <3> DEFINE bytes == acc.bytes
      <3>1. IsSeq(bytes) /\ IsSeq(left) /\ cut.bytes = bytes \o left
        BY <1>4, <2>1 DEF Packed
      <3> HIDE DEF bytes
      <3>2. IsSeq(bytes \o left) /\ Len(bytes \o left) = Len(bytes) + Len(left)
        BY ONLY <3>1, ConcatSeq
      <3>3. IsSeq(cut.bytes) /\ Len(cut.bytes) = Len(bytes) + Len(left)
        BY <3>1, <3>2
      <3> QED
        BY <1>4, <3>3 DEF bytes
    <2>3. Len(acc.bytes) = (filled + 7) \div 8 /\ filled % 8 = 0
      BY <1>9 DEF Packed
    <2>4. Len(value) \in Nat /\ spare \in 0 .. 7 /\ spare = 8 * Len(value) - bits
      BY <1>1, <1>2
    <2>5. (filled + 7) \div 8 + Len(value) = (filled + bits + 7) \div 8
      <3> HIDE DEF cut
      <3> QED
        BY <2>3, <2>4, MoreBytes, Zenon
    <2>6. Len(cut.bytes) = (filled + bits + 7) \div 8
      <3> HIDE DEF cut
      <3> QED
        BY <2>2, <2>3, <2>5
    <2> QED
      BY <1>8, <2>2, <2>6 DEF Packed
  <1>10. CASE acc.pos # 0
    <2>1. cut.bytes = ends \o rest
      BY <1>3, <1>10
    <2>2. IsSeq(cut.bytes) /\ Len(cut.bytes) = Len(acc.bytes) + more
      BY <1>6, <1>7, <2>1, ConcatSeq
    <2>3. Len(acc.bytes) = (filled + 7) \div 8 /\ filled % 8 # 0
      BY <1>10 DEF Packed
    <2>4. spare = 0 \/ filled % 8 <= spare
      BY <1>2 DEF Fits
    <2>5. Len(value) \in Nat /\ spare \in 0 .. 7 /\ spare = 8 * Len(value) - bits
      BY <1>1, <1>2
    <2>6. /\ spare = 0 => (filled + 7) \div 8 + Len(value) = (filled + bits + 7) \div 8
          /\ spare # 0 => (filled + 7) \div 8 + Len(value) - 1 = (filled + bits + 7) \div 8
      <3> HIDE DEF cut
      <3> QED
        BY <2>3, <2>4, <2>5, MoreBytes, Zenon
    <2>7. Len(cut.bytes) = (filled + bits + 7) \div 8
      <3> HIDE DEF cut
      <3>1. (filled + 7) \div 8 \in Int
        OBVIOUS
      <3> QED
        BY <1>1, <1>5, <2>2, <2>3, <2>6, <3>1
    <2> QED
      BY <1>8, <2>2, <2>7 DEF Packed
  <1> QED
    BY <1>9, <1>10

LEMMA PackFieldSize ==
    ASSUME NEW acc, NEW filled \in Nat, Packed(acc, filled),
           NEW bits \in Nat, bits > 0, NEW value, Fits(filled, bits, value)
    PROVE  Packed(PackField(acc, bits, value), filled + bits)
  BY CutSize DEF PackField

\* Fields that fit, one behind the other, take the bytes their bits need.
LEMMA PackSize ==
    ASSUME NEW bits, NEW values, NEW N \in Nat, Len(bits) = N, Len(values) = N,
           NEW sums, sums[0] = 0,
           \A n \in 1 .. N : /\ bits[n] \in Nat /\ sums[n - 1] \in Nat
                             /\ sums[n] = sums[n - 1] + bits[n]
                             /\ bits[n] > 0 => Fits(sums[n - 1], bits[n], values[n])
    PROVE  /\ IsSeq(Pack(bits, values))
           /\ Len(Pack(bits, values)) = (Total(bits) + 7) \div 8
  <1> DEFINE f == CHOOSE f : PackingBy(f, bits, values, N)
  <1>1. PackingBy(f, bits, values, N)
    BY PackingExists
  <1>2. Pack(bits, values) = f[N].bytes
    BY DEF Pack, PackingBy
  <1>3. Total(bits) = sums[N]
    <2>1. \A n \in 1 .. N : bits[n] \in Int
      OBVIOUS
    <2>2. \A n \in 1 .. N : sums[n] = sums[n - 1] + bits[n]
      OBVIOUS
    <2>3. N \in Nat /\ Len(bits) = N /\ sums[0] = 0
      OBVIOUS
    <2> HIDE DEF f
    <2> QED
      BY ONLY <2>1, <2>2, <2>3, TotalIs, ZenonT(40)
  <1> HIDE DEF f
  <1> DEFINE Good(n) == n <= N => sums[n] \in Nat /\ Packed(f[n], sums[n])
             S == {n \in Nat : Good(n)}
  <1>4. 0 \in S
    <2>1. f[0] = [bytes |-> <<>>, pos |-> 0]
      BY <1>1 DEF PackingBy
    <2>2. Packed(f[0], 0)
      BY <2>1, EmptyIsSeq DEF Packed
    <2> QED
      BY <2>2
  <1>5. ASSUME NEW n \in S PROVE n + 1 \in S
    <2> SUFFICES ASSUME n + 1 <= N PROVE sums[n + 1] \in Nat /\ Packed(f[n + 1], sums[n + 1])
      OBVIOUS
    <2>1. /\ n + 1 \in 0 .. N /\ n + 1 # 0 /\ (n + 1) - 1 = n /\ n + 1 \in 1 .. N
          /\ sums[n] \in Nat /\ Packed(f[n], sums[n])
      OBVIOUS
    <2>2. f[n + 1] = IF bits[n + 1] = 0 THEN f[n] ELSE PackField(f[n], bits[n + 1], values[n + 1])
      BY <1>1, <2>1 DEF PackingBy
    <2>3. /\ bits[n + 1] \in Nat /\ sums[n + 1] = sums[n] + bits[n + 1]
          /\ bits[n + 1] > 0 => Fits(sums[n], bits[n + 1], values[n + 1])
      BY <2>1
    <2>4. CASE bits[n + 1] = 0
      BY <2>1, <2>2, <2>3, <2>4
    <2>5. CASE bits[n + 1] # 0
      <3>1. bits[n + 1] > 0
        BY <2>3, <2>5
      <3>2. Packed(PackField(f[n], bits[n + 1], values[n + 1]), sums[n] + bits[n + 1])
        BY <2>1, <2>3, <3>1, PackFieldSize
      <3> QED
        BY <2>1, <2>2, <2>3, <2>5, <3>2
    <2> QED
      BY <2>4, <2>5
  <1>6. S = Nat
    <2>1. S \in SUBSET Nat
      OBVIOUS
    <2> HIDE DEF S
    <2> QED
      BY <1>4, <1>5, <2>1, Induction
  <1>7. Good(N)
    BY <1>6
  <1> QED
    BY <1>2, <1>3, <1>7 DEF Packed

-----------------------------------------------------------------------------
(* One sequence behind the other.                                            *)

JoiningBy(f, seqs, N) ==
    f = [n \in 1 .. N |-> IF n = 1 THEN seqs[n] ELSE f[n - 1] \o seqs[n]]

LEMMA JoiningExists ==
    ASSUME NEW seqs, NEW N \in Nat
    PROVE  \E f : JoiningBy(f, seqs, N)
  <1> DEFINE Up(n) == \E f : JoiningBy(f, seqs, n)
             S == {n \in Nat : Up(n)}
  <1>1. Up(0)
    <2> DEFINE f == [n \in 1 .. 0 |-> seqs]
    <2>1. f = [n \in 1 .. 0 |-> IF n = 1 THEN seqs[n] ELSE f[n - 1] \o seqs[n]]
      OBVIOUS
    <2> HIDE DEF f
    <2>2. JoiningBy(f, seqs, 0)
      BY <2>1 DEF JoiningBy
    <2> QED
      BY <2>2
  <1>2. ASSUME NEW n \in Nat, Up(n) PROVE Up(n + 1)
    <2>1. PICK f : JoiningBy(f, seqs, n)
      BY <1>2
    <2> DEFINE g == [m \in 1 .. n + 1 |-> IF m <= n THEN f[m] ELSE IF m = 1 THEN seqs[m] ELSE f[n] \o seqs[m]]
    <2>2. ASSUME NEW m \in 1 .. n + 1
          PROVE  g[m] = IF m = 1 THEN seqs[m] ELSE g[m - 1] \o seqs[m]
      <3>1. CASE m = n + 1 /\ m # 1
        <4>1. ~ (m <= n) /\ m - 1 = n /\ n \in 1 .. n + 1 /\ n <= n
          BY <3>1
        <4>2. g[m] = f[n] \o seqs[m] /\ g[n] = f[n]
          BY <3>1, <4>1
        <4> QED
          BY <3>1, <4>1, <4>2
      <3>2. CASE m # n + 1 /\ m # 1
        <4>1. m <= n /\ m \in 1 .. n /\ m - 1 \in 1 .. n + 1 /\ m - 1 <= n
          BY <3>2
        <4>2. g[m] = f[m] /\ g[m - 1] = f[m - 1]
          BY <4>1
        <4>3. f[m] = f[m - 1] \o seqs[m]
          BY <2>1, <3>2, <4>1 DEF JoiningBy
        <4> QED
          BY <3>2, <4>2, <4>3
      <3>3. CASE m = 1 /\ m # n + 1
        <4>1. m <= n /\ m \in 1 .. n
          BY <3>3
        <4>2. g[m] = f[m] /\ f[m] = seqs[m]
          BY <2>1, <3>3, <4>1 DEF JoiningBy
        <4> QED
          BY <3>3, <4>2
      <3>4. CASE m = 1 /\ m = n + 1
        <4>1. ~ (m <= n)
          BY <3>4
        <4>2. g[m] = seqs[m]
          BY <3>4, <4>1
        <4> QED
          BY <3>4, <4>2
      <3> QED
        BY <3>1, <3>2, <3>3, <3>4
    <2>3. g = [m \in 1 .. n + 1 |-> g[m]]
      OBVIOUS
    <2> HIDE DEF g
    <2>4. JoiningBy(g, seqs, n + 1)
      BY <2>2, <2>3 DEF JoiningBy
    <2> QED
      BY <2>4
  <1> HIDE DEF Up
  <1>3. S = Nat
    <2>1. S \in SUBSET Nat
      OBVIOUS
    <2>2. 0 \in S /\ \A n \in S : n + 1 \in S
      BY <1>1, <1>2
    <2> HIDE DEF S
    <2> QED
      BY <2>1, <2>2, Induction
  <1>4. Up(N)
    BY <1>3
  <1> QED
    BY <1>4 DEF Up

\* Each sequence is found where those before it end.
Joined(whole, seqs, ends, N) ==
    /\ IsSeq(whole) /\ Len(whole) = ends[N]
    /\ \A n \in 1 .. N : ends[n] <= ends[N]
    /\ \A n \in 1 .. N : Has(whole, ends[n - 1], seqs[n])

LEMMA JoinOneMore ==
    ASSUME NEW whole, NEW seqs, NEW ends, NEW N \in Nat, Joined(whole, seqs, ends, N),
           ends[N] \in Nat, IsSeq(seqs[N + 1]), ends[N + 1] = ends[N] + Len(seqs[N + 1]),
           \A n \in 1 .. N : ends[n - 1] \in Nat /\ IsSeq(seqs[n]) /\ ends[n] = ends[n - 1] + Len(seqs[n])
    PROVE  Joined(whole \o seqs[N + 1], seqs, ends, N + 1)
  <1> DEFINE more == whole \o seqs[N + 1]
  <1>1. /\ IsSeq(more) /\ Len(more) = Len(whole) + Len(seqs[N + 1])
        /\ \A k \in 1 .. Len(whole) : more[k] = whole[k]
        /\ Has(more, Len(whole), seqs[N + 1])
    <2> DEFINE next == seqs[N + 1]
    <2>1. IsSeq(whole) /\ IsSeq(next)
      BY DEF Joined
    <2> HIDE DEF next
    <2>2. /\ IsSeq(whole \o next) /\ Len(whole \o next) = Len(whole) + Len(next)
          /\ \A k \in 1 .. Len(whole) : (whole \o next)[k] = whole[k]
          /\ Has(whole \o next, Len(whole), next)
      BY ONLY <2>1, ConcatSeq
    <2> QED
      BY <2>2 DEF next
  <1> HIDE DEF more
  <1>2. Len(whole) = ends[N] /\ Len(seqs[N + 1]) \in Nat /\ ends[N] <= ends[N + 1]
    BY SeqFun DEF Joined
  <1>3. ASSUME NEW n \in 1 .. N + 1 PROVE ends[n] <= ends[N + 1]
    <2>1. CASE n = N + 1
      BY <1>2, <2>1
    <2>2. CASE n # N + 1
      <3>1. n \in 1 .. N
        BY <2>2
      <3>2. ends[n - 1] \in Nat /\ IsSeq(seqs[n]) /\ ends[n] = ends[n - 1] + Len(seqs[n]) /\ ends[n] <= ends[N]
        BY <3>1 DEF Joined
      <3>3. Len(seqs[n]) \in Nat
        BY <3>2, SeqFun
      <3> QED
        BY <1>2, <3>2, <3>3
    <2> QED
      BY <2>1, <2>2
  <1>4. ASSUME NEW n \in 1 .. N + 1 PROVE Has(more, ends[n - 1], seqs[n])
    <2>1. CASE n = N + 1
      <3>1. n - 1 = N
        BY <2>1
      <3> QED
        BY <1>1, <1>2, <2>1, <3>1
    <2>2. CASE n # N + 1
      <3>1. n \in 1 .. N
        BY <2>2
      <3>2. ends[n - 1] \in Nat /\ IsSeq(seqs[n]) /\ ends[n] = ends[n - 1] + Len(seqs[n]) /\ ends[n] <= ends[N]
        BY <3>1 DEF Joined
      <3>3. Len(seqs[n]) \in Nat
        BY <3>2, SeqFun
      <3>4. Has(whole, ends[n - 1], seqs[n])
        BY <3>1 DEF Joined
      <3>5. ASSUME NEW m \in 1 .. Len(seqs[n])
            PROVE  more[ends[n - 1] + m] = seqs[n][m]
        <4>1. ends[n - 1] + m \in 1 .. Len(whole)
          BY <1>2, <3>2, <3>3
        <4>2. whole[ends[n - 1] + m] = seqs[n][m]
          BY <3>4 DEF Has
        <4> QED
          BY <1>1, <4>1, <4>2
      <3> QED
        BY <3>5 DEF Has
    <2> QED
      BY <2>1, <2>2
  <1>5. Len(more) = ends[N + 1]
    BY <1>1, <1>2
  <1>6. Joined(more, seqs, ends, N + 1)
    BY <1>1, <1>3, <1>4, <1>5 DEF Joined
  <1> QED
    BY <1>6 DEF more

LEMMA FlattenedPieces ==
    ASSUME NEW seqs, NEW N \in Nat, N > 0, Len(seqs) = N,
           NEW ends, ends[0] = 0,
           \A n \in 1 .. N : IsSeq(seqs[n]) /\ ends[n] = ends[n - 1] + Len(seqs[n])
    PROVE  Joined(FlattenSeq(seqs), seqs, ends, N) /\ \A n \in 0 .. N : ends[n] \in Nat
  <1> DEFINE f == CHOOSE f : JoiningBy(f, seqs, N)
  <1>1. JoiningBy(f, seqs, N)
    BY JoiningExists
  <1>2. FlattenSeq(seqs) = f[N]
    BY DEF FlattenSeq, JoiningBy
  <1> HIDE DEF f
  <1> DEFINE Fine(n) == n <= N => ends[n] \in Nat
             T == {n \in Nat : Fine(n)}
  <1>3. \A n \in 0 .. N : ends[n] \in Nat
    <2>1. 0 \in T
      OBVIOUS
    <2>2. ASSUME NEW n \in T PROVE n + 1 \in T
      <3> SUFFICES ASSUME n + 1 <= N PROVE ends[n + 1] \in Nat
        OBVIOUS
      <3>1. n + 1 \in 1 .. N /\ (n + 1) - 1 = n /\ ends[n] \in Nat
        OBVIOUS
      <3>2. IsSeq(seqs[n + 1]) /\ ends[n + 1] = ends[n] + Len(seqs[n + 1])
        BY <3>1
      <3>3. Len(seqs[n + 1]) \in Nat
        BY <3>2, SeqFun
      <3> QED
        BY <3>1, <3>2, <3>3
    <2>3. T = Nat
      <3>1. T \in SUBSET Nat
        OBVIOUS
      <3> HIDE DEF T
      <3> QED
        BY <2>1, <2>2, <3>1, Induction
    <2> QED
      BY <2>3
  <1> DEFINE Good(n) == n + 1 <= N => Joined(f[n + 1], seqs, ends, n + 1)
             S == {n \in Nat : Good(n)}
  <1>4. 0 \in S
    <2>1. 1 \in 1 .. N /\ 0 + 1 = 1 /\ 1 - 1 = 0
      OBVIOUS
    <2>2. f[1] = seqs[1] /\ IsSeq(seqs[1]) /\ ends[1] = Len(seqs[1])
      <3>1. f[1] = seqs[1]
        BY <1>1, <2>1 DEF JoiningBy
      <3>2. IsSeq(seqs[1]) /\ ends[1] = ends[0] + Len(seqs[1])
        BY <2>1
      <3>3. Len(seqs[1]) \in Nat
        BY <3>2, SeqFun
      <3> QED
        BY <3>1, <3>2, <3>3
    <2>3. Len(seqs[1]) \in Nat
      BY <2>2, SeqFun
    <2>4. Joined(f[1], seqs, ends, 1)
      <3>1. ASSUME NEW n \in 1 .. 1 PROVE Has(f[1], ends[n - 1], seqs[n])
        <4>1. n = 1 /\ ends[n - 1] = 0
          OBVIOUS
        <4>2. Has(f[1], 0, seqs[1])
          BY <2>2, <2>3 DEF Has
        <4> QED
          BY <4>1, <4>2
      <3>2. \A n \in 1 .. 1 : ends[n] <= ends[1]
        BY <2>2, <2>3
      <3> QED
        BY <2>2, <3>1, <3>2 DEF Joined
    <2> QED
      BY <2>1, <2>4
  <1>5. ASSUME NEW n \in S PROVE n + 1 \in S
    <2> DEFINE k == n + 1
    <2> SUFFICES ASSUME k + 1 <= N PROVE Joined(f[k + 1], seqs, ends, k + 1)
      OBVIOUS
    <2>1. /\ k \in 1 .. N /\ k \in 0 .. N /\ k + 1 \in 1 .. N /\ k + 1 # 1 /\ (k + 1) - 1 = k /\ k \in Nat
          /\ Joined(f[k], seqs, ends, k)
      OBVIOUS
    <2> HIDE DEF k
    <2>2. f[k + 1] = f[k] \o seqs[k + 1]
      BY <1>1, <2>1 DEF JoiningBy
    <2>3. ends[k] \in Nat
      BY <1>3, <2>1
    <2>4. IsSeq(seqs[k + 1]) /\ ends[k + 1] = ends[k] + Len(seqs[k + 1])
      BY <2>1
    <2>5. \A m \in 1 .. k : ends[m - 1] \in Nat /\ IsSeq(seqs[m]) /\ ends[m] = ends[m - 1] + Len(seqs[m])
      <3>1. \A m \in 1 .. k : m \in 1 .. N /\ m - 1 \in 0 .. N
        BY <2>1
      <3> QED
        BY <1>3, <3>1
    <2> QED
      BY <2>1, <2>2, <2>3, <2>4, <2>5, JoinOneMore
  <1>6. S = Nat
    <2>1. S \in SUBSET Nat
      OBVIOUS
    <2> HIDE DEF S
    <2> QED
      BY <1>4, <1>5, <2>1, Induction
  <1>7. Good(N - 1)
    <2>1. N - 1 \in S
      <3> HIDE DEF S
      <3> QED
        BY <1>6
    <2> QED
      BY <2>1
  <1>8. (N - 1) + 1 = N /\ N <= N
    OBVIOUS
  <1> QED
    BY <1>2, <1>3, <1>7, <1>8

-----------------------------------------------------------------------------
(* The fields of each protocol are as wide as their values.                  *)

OfSize(x, n) == IsSeq(x) /\ Len(x) = n

LEMMA WideIs ==
    ASSUME NEW n \in Nat, NEW x \in Wide(n)
    PROVE  OfSize(x, n)
  <1>1. x = [d \in 1 .. n |-> x[d]]
    BY DEF Wide
  <1> QED
    BY <1>1, FunSeq DEF OfSize

LEMMA BytesWide ==
    ASSUME NEW x, NEW n \in Nat
    PROVE  OfSize(Bytes(x, n), n)
  <1>1. Bytes(x, n) = [d \in 1 .. n |-> Bytes(x, n)[d]]
    BY DEF Bytes
  <1> QED
    BY <1>1, FunSeq DEF OfSize

LEMMA OneByte ==
    ASSUME NEW x
    PROVE  OfSize(<<x>>, 1)
  <1>1. <<x>> = [d \in 1 .. 1 |-> x]
    OBVIOUS
  <1> DEFINE f == [d \in 1 .. 1 |-> x]
  <1>2. f = [d \in 1 .. 1 |-> f[d]]
    OBVIOUS
  <1> HIDE DEF f
  <1>3. OfSize(f, 1)
    BY <1>2, FunSeq DEF OfSize
  <1> QED
    BY <1>1, <1>3 DEF f

LEMMA PlusWide ==
    ASSUME NEW x, NEW n \in Nat, OfSize(x, n), NEW m
    PROVE  OfSize(Plus(x, m), n)
  <1>1. Plus(x, m) = [d \in 1 .. n |-> Plus(x, m)[d]]
    BY DEF Plus, OfSize
  <1> QED
    BY <1>1, FunSeq DEF OfSize

LEMMA MergeWide ==
    ASSUME NEW x, NEW n \in Nat, OfSize(x, n), NEW y, NEW mask
    PROVE  OfSize(Merge(x, y, mask), n)
  <1>0. DOMAIN x = 1 .. n
    BY SeqFun DEF OfSize
  <1>1. Merge(x, y, mask) = [d \in 1 .. n |-> Merge(x, y, mask)[d]]
    BY <1>0 DEF Merge
  <1> QED
    BY <1>1, FunSeq DEF OfSize

LEMMA MacAddressWide ==
    ASSUME NEW a, NEW n \in Nat, a.addr \in Wide(n), NEW i
    PROVE  OfSize(MacAddress(a, i), n)
  BY WideIs, PlusWide DEF MacAddress

LEMMA HostAddressWide ==
    ASSUME NEW a, NEW n \in Nat, NEW x, OfSize(x, n), NEW mask, NEW i
    PROVE  OfSize(HostAddress(a, x, mask, i), n)
  BY MergeWide DEF HostAddress

LEMMA Ip4AddressWide ==
    ASSUME NEW a, NEW n \in Nat, a.addr \in Wide(n), NEW i
    PROVE  OfSize(Ip4Address(a, i), n)
  BY WideIs, HostAddressWide DEF Ip4Address

LEMMA HalfWide ==
    ASSUME NEW x \in Wide(16), NEW from \in {1, 9}
    PROVE  OfSize(SubSeq(x, from, from + 7), 8)
  <1> DEFINE half == SubSeq(x, from, from + 7)
  <1>1. half = [d \in 1 .. 8 |-> half[d]]
    <2>1. CASE from = 1
      BY <2>1 DEF Wide
    <2>2. CASE from = 9
      BY <2>2 DEF Wide
    <2> QED
      BY <2>1, <2>2
  <1> HIDE DEF half
  <1>2. OfSize(half, 8)
    BY <1>1, FunSeq DEF OfSize
  <1> QED
    BY <1>2 DEF half

LEMMA Ip6AddressWide ==
    ASSUME NEW a, a.addr \in Wide(16), NEW i
    PROVE  OfSize(Ip6Address(a, i), 16)
  <1> DEFINE Half(from, p) == HostAddress(a, SubSeq(a.addr, from, from + 7), Ip6Mask(p), i)
             left == Half(1, Min({a.prefix, 64}))
             right == Half(9, Max({a.prefix - 64, 0}))
  <1>1. OfSize(left, 8)
    <2>1. OfSize(SubSeq(a.addr, 1, 1 + 7), 8)
      BY HalfWide
    <2> QED
      BY <2>1, HostAddressWide
  <1>2. OfSize(right, 8)
    <2>1. OfSize(SubSeq(a.addr, 9, 9 + 7), 8)
      BY HalfWide
    <2> QED
      BY <2>1, HostAddressWide
  <1>3. Ip6Address(a, i) = left \o right
    BY DEF Ip6Address
  <1> HIDE DEF left, right
  <1>4. IsSeq(left) /\ IsSeq(right) /\ Len(left) = 8 /\ Len(right) = 8
    BY <1>1, <1>2 DEF OfSize
  <1>5. IsSeq(left \o right) /\ Len(left \o right) = Len(left) + Len(right)
    BY <1>4, ConcatSeq
  <1> QED
    BY <1>3, <1>4, <1>5 DEF OfSize

LEMMA FitsWhole ==
    ASSUME NEW filled, NEW x, NEW n \in Nat, OfSize(x, n)
    PROVE  Fits(filled, 8 * n, x)
  BY DEF Fits, OfSize

LEMMA FitsPart ==
    ASSUME NEW filled \in Nat, NEW x, NEW n \in Nat, OfSize(x, n), NEW bits \in Nat,
           8 * n - bits \in 0 .. 7, filled % 8 <= 8 * n - bits
    PROVE  Fits(filled, bits, x)
  BY DEF Fits, OfSize

\* The values of a protocol's fields can be put one behind the other.
FitsAll(bits, values) ==
    LET N == Len(bits) IN
    /\ N \in Nat /\ Len(values) = N
    /\ \E sums : /\ sums[0] = 0
                 /\ \A n \in 1 .. N : /\ bits[n] \in Nat /\ sums[n - 1] \in Nat
                                      /\ sums[n] = sums[n - 1] + bits[n]
                                      /\ bits[n] > 0 => Fits(sums[n - 1], bits[n], values[n])

LEMMA PackedSize ==
    ASSUME NEW bits, NEW values, FitsAll(bits, values)
    PROVE  OfSize(Pack(bits, values), (Total(bits) + 7) \div 8)
  <1> DEFINE N == Len(bits)
  <1>1. PICK sums : /\ sums[0] = 0
                    /\ \A n \in 1 .. N : /\ bits[n] \in Nat /\ sums[n - 1] \in Nat
                                         /\ sums[n] = sums[n - 1] + bits[n]
                                         /\ bits[n] > 0 => Fits(sums[n - 1], bits[n], values[n])
    BY DEF FitsAll
  <1>2. N \in Nat /\ Len(bits) = N /\ Len(values) = N
    BY DEF FitsAll
  <1> HIDE DEF N
  <1> QED
    BY <1>1, <1>2, PackSize DEF OfSize

LEMMA MacFits ==
    ASSUME NEW p, p.proto = "mac", Sized(p), NEW i
    PROVE  FitsAll(FieldBits(p), MacFields(p, i))
  <1> DEFINE sums == [n \in 0 .. 2 |-> 48 * n]
             a == MacAddress(p.dst, i)
             b == MacAddress(p.src, i)
  <1>1. FieldBits(p) = <<48, 48>> /\ MacFields(p, i) = <<a, b>>
    BY DEF FieldBits, MacFields
  <1>2. OfSize(a, 6) /\ OfSize(b, 6)
    BY MacAddressWide DEF Sized
  <1>3. Fits(0, 48, a) /\ Fits(48, 48, b)
    BY <1>2, FitsWhole
  <1> HIDE DEF a, b
  <1>4. /\ sums[0] = 0
        /\ \A n \in 1 .. 2 : /\ <<48, 48>>[n] \in Nat /\ sums[n - 1] \in Nat
                             /\ sums[n] = sums[n - 1] + <<48, 48>>[n]
                             /\ <<48, 48>>[n] > 0 => Fits(sums[n - 1], <<48, 48>>[n], <<a, b>>[n])
    BY <1>3
  <1> HIDE DEF sums
  <1> QED
    BY <1>1, <1>4 DEF FitsAll

LEMMA VlanFits ==
    ASSUME NEW p, p.proto = "vlan"
    PROVE  FitsAll(FieldBits(p), VlanFields(p))
  <1> DEFINE bits == <<16, 3, 1, 12>>
             sums == [n \in 0 .. 4 |-> <<0, 16, 19, 20, 32>>[n + 1]]
             v1 == Bytes(Given(p, "tpid", \h8100), 2)
             v2 == <<(p.tag \div 8192) % 8>>
             v3 == <<(p.tag \div 4096) % 2>>
             v4 == Bytes(p.tag % 4096, 2)
             values == <<v1, v2, v3, v4>>
  <1>1. FieldBits(p) = bits /\ VlanFields(p) = values
    BY DEF FieldBits, VlanFields
  <1>2. OfSize(v1, 2) /\ OfSize(v2, 1) /\ OfSize(v3, 1) /\ OfSize(v4, 2)
    BY BytesWide, OneByte
  <1> HIDE DEF v1, v2, v3, v4
  <1>3. /\ Fits(0, 16, v1)
        /\ Fits(16, 3, v2)
        /\ Fits(19, 1, v3)
        /\ Fits(20, 12, v4)
    BY <1>2, FitsWhole, FitsPart
  <1>4. ASSUME NEW n \in 1 .. 4
        PROVE  /\ bits[n] \in Nat /\ sums[n - 1] \in Nat /\ sums[n] = sums[n - 1] + bits[n]
               /\ Fits(sums[n - 1], bits[n], values[n])
    BY <1>3
  <1>5. sums[0] = 0 /\ Len(bits) = 4 /\ Len(values) = 4
    OBVIOUS
  <1> HIDE DEF sums, bits, values
  <1> QED
    BY <1>1, <1>4, <1>5 DEF FitsAll

LEMMA Eth2Fits ==
    ASSUME NEW s, NEW k, Proto(s, k).proto = "eth2"
    PROVE  FitsAll(FieldBits(Proto(s, k)), Eth2Fields(s, k))
  <1> DEFINE bits == <<16>>
             sums == [n \in 0 .. 1 |-> <<0, 16>>[n + 1]]
             v1 == Bytes(Given(Proto(s, k), "type", PayloadProtocolId(s, k, "eth")), 2)
             values == <<v1>>
  <1>1. FieldBits(Proto(s, k)) = bits /\ Eth2Fields(s, k) = values
    BY DEF FieldBits, Eth2Fields
  <1>2. OfSize(v1, 2)
    BY BytesWide, OneByte
  <1> HIDE DEF v1
  <1>3. /\ Fits(0, 16, v1)
    BY <1>2, FitsWhole, FitsPart
  <1>4. ASSUME NEW n \in 1 .. 1
        PROVE  /\ bits[n] \in Nat /\ sums[n - 1] \in Nat /\ sums[n] = sums[n - 1] + bits[n]
               /\ Fits(sums[n - 1], bits[n], values[n])
    BY <1>3
  <1>5. sums[0] = 0 /\ Len(bits) = 1 /\ Len(values) = 1
    OBVIOUS
  <1> HIDE DEF sums, bits, values
  <1> QED
    BY <1>1, <1>4, <1>5 DEF FitsAll

LEMMA Dot3Fits ==
    ASSUME NEW s, NEW k, NEW i, Proto(s, k).proto = "dot3"
    PROVE  FitsAll(FieldBits(Proto(s, k)), Dot3Fields(s, k, i))
  <1> DEFINE bits == <<16>>
             sums == [n \in 0 .. 1 |-> <<0, 16>>[n + 1]]
             v1 == Bytes(Given(Proto(s, k), "length", ProtocolFramePayloadSize(s, k, i)), 2)
             values == <<v1>>
  <1>1. FieldBits(Proto(s, k)) = bits /\ Dot3Fields(s, k, i) = values
    BY DEF FieldBits, Dot3Fields
  <1>2. OfSize(v1, 2)
    BY BytesWide, OneByte
  <1> HIDE DEF v1
  <1>3. /\ Fits(0, 16, v1)
    BY <1>2, FitsWhole, FitsPart
  <1>4. ASSUME NEW n \in 1 .. 1
        PROVE  /\ bits[n] \in Nat /\ sums[n - 1] \in Nat /\ sums[n] = sums[n - 1] + bits[n]
               /\ Fits(sums[n - 1], bits[n], values[n])
    BY <1>3
  <1>5. sums[0] = 0 /\ Len(bits) = 1 /\ Len(values) = 1
    OBVIOUS
  <1> HIDE DEF sums, bits, values
  <1> QED
    BY <1>1, <1>4, <1>5 DEF FitsAll

LEMMA SnapFits ==
    ASSUME NEW s, NEW k, Proto(s, k).proto = "snap"
    PROVE  FitsAll(FieldBits(Proto(s, k)), SnapFields(s, k))
  <1> DEFINE bits == <<24, 16>>
             sums == [n \in 0 .. 2 |-> <<0, 24, 40>>[n + 1]]
             v1 == Bytes(Given(Proto(s, k), "oui", 0), 3)
             v2 == Bytes(Given(Proto(s, k), "type", PayloadProtocolId(s, k, "eth")), 2)
             values == <<v1, v2>>
  <1>1. FieldBits(Proto(s, k)) = bits /\ SnapFields(s, k) = values
    BY DEF FieldBits, SnapFields
  <1>2. OfSize(v1, 3) /\ OfSize(v2, 2)
    BY BytesWide, OneByte
  <1> HIDE DEF v1, v2
  <1>3. /\ Fits(0, 24, v1)
        /\ Fits(24, 16, v2)
    BY <1>2, FitsWhole, FitsPart
  <1>4. ASSUME NEW n \in 1 .. 2
        PROVE  /\ bits[n] \in Nat /\ sums[n - 1] \in Nat /\ sums[n] = sums[n - 1] + bits[n]
               /\ Fits(sums[n - 1], bits[n], values[n])
    BY <1>3
  <1>5. sums[0] = 0 /\ Len(bits) = 2 /\ Len(values) = 2
    OBVIOUS
  <1> HIDE DEF sums, bits, values
  <1> QED
    BY <1>1, <1>4, <1>5 DEF FitsAll

LEMMA ArpFits ==
    ASSUME NEW p, p.proto = "arp", Sized(p), NEW i
    PROVE  FitsAll(FieldBits(p), ArpFields(p, i))
  <1> DEFINE bits == <<16, 16, 8, 8, 16, 48, 32, 48, 32>>
             sums == [n \in 0 .. 9 |-> <<0, 16, 32, 40, 48, 64, 112, 144, 192, 224>>[n + 1]]
             v1 == Bytes(1, 2)
             v2 == Bytes(\h0800, 2)
             v3 == <<6>>
             v4 == <<4>>
             v5 == Bytes(p.opCode, 2)
             v6 == MacAddress(p.senderHw, i)
             v7 == Ip4Address(p.senderProto, i)
             v8 == MacAddress(p.targetHw, i)
             v9 == Ip4Address(p.targetProto, i)
             values == <<v1, v2, v3, v4, v5, v6, v7, v8, v9>>
  <1>1. FieldBits(p) = bits /\ ArpFields(p, i) = values
    BY DEF FieldBits, ArpFields
  <1>2. /\ OfSize(v1, 2) /\ OfSize(v2, 2) /\ OfSize(v3, 1) /\ OfSize(v4, 1)
        /\ OfSize(v5, 2) /\ OfSize(v6, 6) /\ OfSize(v7, 4) /\ OfSize(v8, 6)
        /\ OfSize(v9, 4)
    <2>1. /\ p.senderHw.addr \in Wide(6) /\ p.targetHw.addr \in Wide(6)
          /\ p.senderProto.addr \in Wide(4) /\ p.targetProto.addr \in Wide(4)
      BY DEF Sized
    <2>2. OfSize(v6, 6) /\ OfSize(v7, 4) /\ OfSize(v8, 6) /\ OfSize(v9, 4)
      BY <2>1, MacAddressWide, Ip4AddressWide
    <2> QED
      BY <2>2, BytesWide, OneByte
  <1> HIDE DEF v1, v2, v3, v4, v5, v6, v7, v8, v9
  <1>3. /\ Fits(0, 16, v1)
        /\ Fits(16, 16, v2)
        /\ Fits(32, 8, v3)
        /\ Fits(40, 8, v4)
        /\ Fits(48, 16, v5)
        /\ Fits(64, 48, v6)
        /\ Fits(112, 32, v7)
        /\ Fits(144, 48, v8)
        /\ Fits(192, 32, v9)
    BY <1>2, FitsWhole, FitsPart
  <1>4. ASSUME NEW n \in 1 .. 9
        PROVE  /\ bits[n] \in Nat /\ sums[n - 1] \in Nat /\ sums[n] = sums[n - 1] + bits[n]
               /\ Fits(sums[n - 1], bits[n], values[n])
    BY <1>3
  <1>5. sums[0] = 0 /\ Len(bits) = 9 /\ Len(values) = 9
    OBVIOUS
  <1> HIDE DEF sums, bits, values
  <1> QED
    BY <1>1, <1>4, <1>5 DEF FitsAll

LEMMA Ip6Fits ==
    ASSUME NEW s, NEW k, NEW i, Proto(s, k).proto = "ip6", Sized(Proto(s, k))
    PROVE  FitsAll(FieldBits(Proto(s, k)), Ip6Fields(s, k, i))
  <1> DEFINE bits == <<4, 8, 20, 16, 8, 8, 128, 128>>
             sums == [n \in 0 .. 8 |-> <<0, 4, 12, 32, 48, 56, 64, 192, 320>>[n + 1]]
             v1 == <<Given(Proto(s, k), "version", 6)>>
             v2 == <<Proto(s, k).trafficClass>>
             v3 == Bytes(Proto(s, k).flowLabel, 3)
             v4 == Bytes(Given(Proto(s, k), "payloadLength", ProtocolFramePayloadSize(s, k, i)), 2)
             v5 == Ip6Fields(s, k, i)[5]
             v6 == <<Proto(s, k).hopLimit>>
             v7 == Ip6Address(Proto(s, k).src, i)
             v8 == Ip6Address(Proto(s, k).dst, i)
             values == <<v1, v2, v3, v4, v5, v6, v7, v8>>
  <1>1. FieldBits(Proto(s, k)) = bits /\ Ip6Fields(s, k, i) = values
    BY DEF FieldBits, Ip6Fields
  <1>2. /\ OfSize(v1, 1) /\ OfSize(v2, 1) /\ OfSize(v3, 3) /\ OfSize(v4, 2)
        /\ OfSize(v5, 1) /\ OfSize(v6, 1) /\ OfSize(v7, 16) /\ OfSize(v8, 16)
    BY BytesWide, OneByte, Ip6AddressWide DEF Sized, Ip6Fields
  <1> HIDE DEF v1, v2, v3, v4, v5, v6, v7, v8
  <1>3. /\ Fits(0, 4, v1)
        /\ Fits(4, 8, v2)
        /\ Fits(12, 20, v3)
        /\ Fits(32, 16, v4)
        /\ Fits(48, 8, v5)
        /\ Fits(56, 8, v6)
        /\ Fits(64, 128, v7)
        /\ Fits(192, 128, v8)
    BY <1>2, FitsWhole, FitsPart
  <1>4. ASSUME NEW n \in 1 .. 8
        PROVE  /\ bits[n] \in Nat /\ sums[n - 1] \in Nat /\ sums[n] = sums[n - 1] + bits[n]
               /\ Fits(sums[n - 1], bits[n], values[n])
    BY <1>3
  <1>5. sums[0] = 0 /\ Len(bits) = 8 /\ Len(values) = 8
    OBVIOUS
  <1> HIDE DEF sums, bits, values
  <1> QED
    BY <1>1, <1>4, <1>5 DEF FitsAll

LEMMA UdpFits ==
    ASSUME NEW s, NEW k, NEW i, NEW sum, Proto(s, k).proto = "udp"
    PROVE  FitsAll(FieldBits(Proto(s, k)), UdpFields(s, k, i, sum))
  <1> DEFINE bits == <<16, 16, 16, 16>>
             sums == [n \in 0 .. 4 |-> <<0, 16, 32, 48, 64>>[n + 1]]
             v1 == Bytes(Given(Proto(s, k), "srcPort", PayloadProtocolId(s, k, "port")), 2)
             v2 == Bytes(Given(Proto(s, k), "dstPort", PayloadProtocolId(s, k, "port")), 2)
             v3 == Bytes(Given(Proto(s, k), "totLen", ProtocolFramePayloadSize(s, k, i) + 8), 2)
             v4 == Bytes(sum, 2)
             values == <<v1, v2, v3, v4>>
  <1>1. FieldBits(Proto(s, k)) = bits /\ UdpFields(s, k, i, sum) = values
    BY DEF FieldBits, UdpFields
  <1>2. OfSize(v1, 2) /\ OfSize(v2, 2) /\ OfSize(v3, 2) /\ OfSize(v4, 2)
    BY BytesWide, OneByte
  <1> HIDE DEF v1, v2, v3, v4
  <1>3. /\ Fits(0, 16, v1)
        /\ Fits(16, 16, v2)
        /\ Fits(32, 16, v3)
        /\ Fits(48, 16, v4)
    BY <1>2, FitsWhole, FitsPart
  <1>4. ASSUME NEW n \in 1 .. 4
        PROVE  /\ bits[n] \in Nat /\ sums[n - 1] \in Nat /\ sums[n] = sums[n - 1] + bits[n]
               /\ Fits(sums[n - 1], bits[n], values[n])
    BY <1>3
  <1>5. sums[0] = 0 /\ Len(bits) = 4 /\ Len(values) = 4
    OBVIOUS
  <1> HIDE DEF sums, bits, values
  <1> QED
    BY <1>1, <1>4, <1>5 DEF FitsAll

LEMMA TcpFits ==
    ASSUME NEW s, NEW k, NEW i, NEW sum, Proto(s, k).proto = "tcp", Sized(Proto(s, k))
    PROVE  FitsAll(FieldBits(Proto(s, k)), TcpFields(s, k, i, sum))
  <1> DEFINE bits == <<16, 16, 32, 32, 4, 4, 8, 16, 16, 16>>
             sums == [n \in 0 .. 10 |-> <<0, 16, 32, 64, 96, 100, 104, 112, 128, 144, 160>>[n + 1]]
             v1 == Bytes(Given(Proto(s, k), "srcPort", PayloadProtocolId(s, k, "port")), 2)
             v2 == Bytes(Given(Proto(s, k), "dstPort", PayloadProtocolId(s, k, "port")), 2)
             v3 == Proto(s, k).seq
             v4 == Proto(s, k).ack
             v5 == <<Given(Proto(s, k), "hdrLen", 5)>>
             v6 == <<Proto(s, k).rsvd>>
             v7 == <<Proto(s, k).flags>>
             v8 == Bytes(Proto(s, k).window, 2)
             v9 == Bytes(sum, 2)
             v10 == Bytes(Proto(s, k).urgPtr, 2)
             values == <<v1, v2, v3, v4, v5, v6, v7, v8, v9, v10>>
  <1>1. FieldBits(Proto(s, k)) = bits /\ TcpFields(s, k, i, sum) = values
    BY DEF FieldBits, TcpFields
  <1>2. /\ OfSize(v1, 2) /\ OfSize(v2, 2) /\ OfSize(v3, 4) /\ OfSize(v4, 4)
        /\ OfSize(v5, 1) /\ OfSize(v6, 1) /\ OfSize(v7, 1) /\ OfSize(v8, 2)
        /\ OfSize(v9, 2) /\ OfSize(v10, 2)
    BY BytesWide, OneByte, WideIs DEF Sized
  <1> HIDE DEF v1, v2, v3, v4, v5, v6, v7, v8, v9, v10
  <1>3. /\ Fits(0, 16, v1)
        /\ Fits(16, 16, v2)
        /\ Fits(32, 32, v3)
        /\ Fits(64, 32, v4)
        /\ Fits(96, 4, v5)
        /\ Fits(100, 4, v6)
        /\ Fits(104, 8, v7)
        /\ Fits(112, 16, v8)
        /\ Fits(128, 16, v9)
        /\ Fits(144, 16, v10)
    BY <1>2, FitsWhole, FitsPart
  <1>4. ASSUME NEW n \in 1 .. 10
        PROVE  /\ bits[n] \in Nat /\ sums[n - 1] \in Nat /\ sums[n] = sums[n - 1] + bits[n]
               /\ Fits(sums[n - 1], bits[n], values[n])
    BY <1>3
  <1>5. sums[0] = 0 /\ Len(bits) = 10 /\ Len(values) = 10
    OBVIOUS
  <1> HIDE DEF sums, bits, values
  <1> QED
    BY <1>1, <1>4, <1>5 DEF FitsAll

LEMMA SignParts ==
    ASSUME NEW x
    PROVE  /\ OfSize(<<TypeLenEnd>>, 1) /\ OfSize(Append(Bytes(x, 3), TypeLenGuid), 4) /\ OfSize(SignMagic, 4)
  <1> DEFINE bytes == Bytes(x, 3)
             guid == Append(bytes, TypeLenGuid)
             U == Range(bytes) \cup {TypeLenGuid}
  <1>1. OfSize(bytes, 3)
    BY BytesWide
  <1>2. bytes \in Seq(U) /\ Len(bytes) = 3 /\ TypeLenGuid \in U
    BY <1>1 DEF OfSize, IsSeq
  <1> HIDE DEF bytes, U
  <1>3. OfSize(guid, 4)
    <2>1. guid \in Seq(U) /\ Len(guid) = 4
      <3>1. guid \in Seq(U) /\ Len(guid) = Len(bytes) + 1
        BY <1>2, Lists!AppendProperties
      <3> QED
        BY <1>2, <3>1
    <2> HIDE DEF guid
    <2> QED
      BY <2>1, TypedSeq DEF OfSize
  <1>4. SignMagic = [d \in 1 .. 4 |-> SignMagic[d]]
    BY DEF SignMagic
  <1>5. OfSize(SignMagic, 4)
    BY <1>4, FunSeq DEF OfSize
  <1> QED
    BY <1>3, <1>5, OneByte DEF guid, bytes

LEMMA SignFits ==
    ASSUME NEW p, p.proto = "sign"
    PROVE  FitsAll(FieldBits(p), SignFields(p))
  <1> DEFINE bits == <<8, 32, 32>>
             sums == [n \in 0 .. 3 |-> <<0, 8, 40, 72>>[n + 1]]
             v1 == <<TypeLenEnd>>
             v2 == Append(Bytes(p.guid, 3), TypeLenGuid)
             v3 == SignMagic
             values == <<v1, v2, v3>>
  <1>1. FieldBits(p) = bits /\ SignFields(p) = values
    BY DEF FieldBits, SignFields
  <1>2. OfSize(v1, 1) /\ OfSize(v2, 4) /\ OfSize(v3, 4)
    BY SignParts
  <1> HIDE DEF v1, v2, v3
  <1>3. /\ Fits(0, 8, v1)
        /\ Fits(8, 32, v2)
        /\ Fits(40, 32, v3)
    BY <1>2, FitsWhole, FitsPart
  <1>4. ASSUME NEW n \in 1 .. 3
        PROVE  /\ bits[n] \in Nat /\ sums[n - 1] \in Nat /\ sums[n] = sums[n - 1] + bits[n]
               /\ Fits(sums[n - 1], bits[n], values[n])
    BY <1>3
  <1>5. sums[0] = 0 /\ Len(bits) = 3 /\ Len(values) = 3
    OBVIOUS
  <1> HIDE DEF sums, bits, values
  <1> QED
    BY <1>1, <1>4, <1>5 DEF FitsAll

LEMMA LlcFits ==
    ASSUME NEW s, NEW k, Proto(s, k).proto = "llc"
    PROVE  FitsAll(FieldBits(Proto(s, k)), LlcFields(s, k))
  <1> DEFINE bits == <<8, 8, 8>>
             sums == [n \in 0 .. 3 |-> 8 * n]
             values == LlcFields(s, k)
  <1>1. FieldBits(Proto(s, k)) = bits
    BY DEF FieldBits
  <1>2. OfSize(values, 3) /\ \A n \in 1 .. 3 : OfSize(values[n], 1)
    <2>1. PICK x : values = [n \in 1 .. 3 |-> <<x[n]>>]
      <3> DEFINE x == [f \in 1 .. 3 |-> Given(Proto(s, k), <<"dsap", "ssap", "ctl">>[f],
                                            Bytes(PayloadProtocolId(s, k, "llc"), 3)[f])]
      <3>1. values = [n \in 1 .. 3 |-> <<x[n]>>]
        BY DEF LlcFields
      <3> HIDE DEF x
      <3> QED
        BY <3>1
    <2>2. \A n \in 1 .. 3 : OfSize(values[n], 1)
      <3> HIDE DEF values
      <3> QED
        BY <2>1, OneByte
    <2>3. values = [n \in 1 .. 3 |-> values[n]]
      BY <2>1
    <2> HIDE DEF values
    <2> QED
      BY <2>2, <2>3, FunSeq DEF OfSize
  <1> HIDE DEF values
  <1>3. \A n \in 1 .. 3 : \A filled : Fits(filled, 8 * 1, values[n])
    BY <1>2, FitsWhole
  <1>4. ASSUME NEW n \in 1 .. 3
        PROVE  /\ bits[n] \in Nat /\ sums[n - 1] \in Nat /\ sums[n] = sums[n - 1] + bits[n]
               /\ Fits(sums[n - 1], bits[n], values[n])
    <2>1. bits[n] = 8 /\ sums[n - 1] = 8 * (n - 1) /\ sums[n] = 8 * n
      OBVIOUS
    <2>2. Fits(sums[n - 1], 8, values[n])
      BY <1>3
    <2> QED
      BY <2>1, <2>2
  <1>5. sums[0] = 0 /\ Len(bits) = 3 /\ Len(values) = 3
    BY <1>2 DEF OfSize
  <1> HIDE DEF sums, bits
  <1> QED
    BY <1>1, <1>4, <1>5 DEF FitsAll, values

LEMMA IcmpLong ==
    ASSUME NEW p, p.proto = "icmp", IsIdSeqType(p), NEW sum
    PROVE  FitsAll(FieldBits(p), IcmpFields(p, sum))
  <1> DEFINE bits == <<8, 8, 16, 16, 16>>
             sums == [n \in 0 .. 5 |-> <<0, 8, 16, 32, 48, 64>>[n + 1]]
             v1 == <<p.type>>
             v2 == <<p.code>>
             v3 == Bytes(sum, 2)
             v4 == Bytes(p.id, 2)
             v5 == Bytes(p.seq, 2)
             values == <<v1, v2, v3, v4, v5>>
  <1>1. FieldBits(p) = bits /\ IcmpFields(p, sum) = values
    <2>1. FieldBits(p) = bits /\ IcmpFields(p, sum) = <<v1, v2, v3>> \o <<v4, v5>>
      BY DEF FieldBits, IcmpFields
    <2> HIDE DEF v1, v2, v3, v4, v5
    <2> DEFINE U == {v1, v2, v3, v4, v5}
               a == <<v1, v2, v3>>
               b == <<v4, v5>>
               c == a \o b
    <2>2. c = values
      <3>1. a \in Seq(U) /\ b \in Seq(U) /\ Len(a) = 3 /\ Len(b) = 2
        OBVIOUS
      <3>2. a[1] = v1 /\ a[2] = v2 /\ a[3] = v3 /\ b[1] = v4 /\ b[2] = v5
        OBVIOUS
      <3> HIDE DEF a, b, U
      <3>7. IsSeq(a) /\ IsSeq(b)
        BY <3>1, TypedSeq
      <3>8. /\ IsSeq(c) /\ Len(c) = Len(a) + Len(b)
            /\ \A n \in 1 .. Len(a) : c[n] = a[n]
            /\ Has(c, Len(a), b)
        BY ONLY <3>7, ConcatSeq
      <3> HIDE DEF c
      <3>3. Len(c) = 5 /\ c[1] = a[1] /\ c[2] = a[2] /\ c[3] = a[3] /\ c[4] = b[1] /\ c[5] = b[2]
        <4>1. c[3 + 1] = b[1] /\ c[3 + 2] = b[2]
          BY <3>1, <3>8 DEF Has
        <4> QED
          BY <3>1, <3>8, <4>1
      <3>4. c = [n \in 1 .. 5 |-> c[n]]
        BY <3>3, <3>8, SeqFun
      <3>5. values = [n \in 1 .. 5 |-> values[n]]
        OBVIOUS
      <3>6. \A n \in 1 .. 5 : values[n] = c[n]
        BY <3>2, <3>3
      <3> QED
        BY <3>4, <3>5, <3>6
    <2> QED
      BY <2>1, <2>2
  <1>2. OfSize(v1, 1) /\ OfSize(v2, 1) /\ OfSize(v3, 2) /\ OfSize(v4, 2) /\ OfSize(v5, 2)
    BY BytesWide, OneByte
  <1> HIDE DEF v1, v2, v3, v4, v5
  <1>3. /\ Fits(0, 8, v1)
        /\ Fits(8, 8, v2)
        /\ Fits(16, 16, v3)
        /\ Fits(32, 16, v4)
        /\ Fits(48, 16, v5)
    BY <1>2, FitsWhole, FitsPart
  <1>4. ASSUME NEW n \in 1 .. 5
        PROVE  /\ bits[n] \in Nat /\ sums[n - 1] \in Nat /\ sums[n] = sums[n - 1] + bits[n]
               /\ Fits(sums[n - 1], bits[n], values[n])
    BY <1>3
  <1>5. sums[0] = 0 /\ Len(bits) = 5 /\ Len(values) = 5
    OBVIOUS
  <1> HIDE DEF sums, bits, values
  <1> QED
    BY <1>1, <1>4, <1>5 DEF FitsAll

LEMMA IcmpShort ==
    ASSUME NEW p, p.proto = "icmp", ~ IsIdSeqType(p), NEW sum
    PROVE  FitsAll(FieldBits(p), IcmpFields(p, sum))
  <1> DEFINE bits == <<8, 8, 16>>
             sums == [n \in 0 .. 3 |-> <<0, 8, 16, 32>>[n + 1]]
             v1 == <<p.type>>
             v2 == <<p.code>>
             v3 == Bytes(sum, 2)
             values == <<v1, v2, v3>>
  <1>1. FieldBits(p) = bits /\ IcmpFields(p, sum) = values
    BY DEF FieldBits, IcmpFields
  <1>2. OfSize(v1, 1) /\ OfSize(v2, 1) /\ OfSize(v3, 2)
    BY BytesWide, OneByte
  <1> HIDE DEF v1, v2, v3
  <1>3. /\ Fits(0, 8, v1)
        /\ Fits(8, 8, v2)
        /\ Fits(16, 16, v3)
    BY <1>2, FitsWhole, FitsPart
  <1>4. ASSUME NEW n \in 1 .. 3
        PROVE  /\ bits[n] \in Nat /\ sums[n - 1] \in Nat /\ sums[n] = sums[n - 1] + bits[n]
               /\ Fits(sums[n - 1], bits[n], values[n])
    BY <1>3
  <1>5. sums[0] = 0 /\ Len(bits) = 3 /\ Len(values) = 3
    OBVIOUS
  <1> HIDE DEF sums, bits, values
  <1> QED
    BY <1>1, <1>4, <1>5 DEF FitsAll

LEMMA Ip4Fits ==
    ASSUME NEW s, NEW k, NEW i, NEW sum, Proto(s, k).proto = "ip4", Sized(Proto(s, k))
    PROVE  FitsAll(FieldBits(Proto(s, k)), Ip4Fields(s, k, i, sum))
  <1> DEFINE p == Proto(s, k)
             N == Len(p.options)
             bits == <<4, 4, 8, 16, 16, 3, 13, 8, 8, 16, 32, 32, 8 * N>>
             sums == [n \in 0 .. 13 |-> IF n = 13 THEN 160 + 8 * N
                                       ELSE <<0, 4, 8, 16, 32, 48, 51, 64, 72, 80, 96, 128, 160>>[n + 1]]
             v1 == <<Given(p, "ver", 4)>>
             v2 == <<Given(p, "hdrLen", 5 + Len(p.options) \div 4) % 16>>
             v3 == <<p.tos>>
             v4 == Bytes(Given(p, "totLen", ProtocolFramePayloadSize(s, k, i) + 20 + Len(p.options)), 2)
             v5 == Bytes(p.id, 2)
             v6 == <<p.flags>>
             v7 == Bytes(p.fragOfs, 2)
             v8 == <<p.ttl>>
             v9 == Bytes(Given(p, "protocol", PayloadProtocolId(s, k, "ip")), 1)
             v10 == Bytes(sum, 2)
             v11 == Ip4Address(p.src, i)
             v12 == Ip4Address(p.dst, i)
             options == p.options
             values == <<v1, v2, v3, v4, v5, v6, v7, v8, v9, v10, v11, v12, options>>
  <1>0. /\ p.src.addr \in Wide(4) /\ p.dst.addr \in Wide(4) /\ options \in Seq(0 .. 255)
    BY DEF Sized
  <1>1. FieldBits(p) = bits /\ Ip4Fields(s, k, i, sum) = values
    BY DEF FieldBits, Ip4Fields
  <1>2. OfSize(v11, 4) /\ OfSize(v12, 4)
    BY <1>0, Ip4AddressWide
  <1>3. N \in Nat /\ OfSize(options, N)
    BY <1>0, TypedSeq DEF OfSize
  <1>4. /\ OfSize(v1, 1) /\ OfSize(v2, 1) /\ OfSize(v3, 1) /\ OfSize(v4, 2)
        /\ OfSize(v5, 2) /\ OfSize(v6, 1) /\ OfSize(v7, 2) /\ OfSize(v8, 1)
        /\ OfSize(v9, 1) /\ OfSize(v10, 2)
    BY BytesWide, OneByte
  <1> HIDE DEF v1, v2, v3, v4, v5, v6, v7, v8, v9, v10, v11, v12, options, N
  <1>5. /\ Fits(0, 4, v1)
        /\ Fits(4, 4, v2)
        /\ Fits(8, 8, v3)
        /\ Fits(16, 16, v4)
        /\ Fits(32, 16, v5)
        /\ Fits(48, 3, v6)
        /\ Fits(51, 13, v7)
        /\ Fits(64, 8, v8)
        /\ Fits(72, 8, v9)
        /\ Fits(80, 16, v10)
        /\ Fits(96, 32, v11)
        /\ Fits(128, 32, v12)
    BY <1>2, <1>4, FitsWhole, FitsPart
  <1>6. Fits(160, 8 * N, options)
    BY <1>3, FitsWhole
  <1>7. ASSUME NEW n \in 1 .. 12
        PROVE  /\ bits[n] \in Nat /\ sums[n - 1] \in Nat /\ sums[n] = sums[n - 1] + bits[n]
               /\ Fits(sums[n - 1], bits[n], values[n])
    BY <1>5
  <1>8. /\ bits[13] \in Nat /\ sums[13 - 1] \in Nat /\ sums[13] = sums[13 - 1] + bits[13]
        /\ Fits(sums[13 - 1], bits[13], values[13])
    BY <1>3, <1>6
  <1>9. sums[0] = 0 /\ Len(bits) = 13 /\ Len(values) = 13
    OBVIOUS
  <1> HIDE DEF sums, bits, values
  <1>10. \A n \in 1 .. 13 : n \in 1 .. 12 \/ n = 13
    OBVIOUS
  <1> QED
    BY <1>1, <1>7, <1>8, <1>9, <1>10 DEF FitsAll

LEMMA FieldsFit ==
    ASSUME NEW s, NEW k, NEW i, NEW sum, Sized(Proto(s, k)),
           Proto(s, k).proto \notin {"payload", "hexdump"}
    PROVE  FitsAll(FieldBits(Proto(s, k)), FieldValues(s, k, i, sum))
  <1> DEFINE p == Proto(s, k)
             Good == FitsAll(FieldBits(p), FieldValues(s, k, i, sum))
  <1>1. p.proto \in {"mac", "vlan", "eth2", "dot3", "llc", "snap", "arp", "ip4", "ip6", "udp", "tcp",
                     "icmp", "sign"}
    BY DEF Sized
  <1>2. CASE p.proto = "mac"
    <2>1. FieldValues(s, k, i, sum) = MacFields(p, i)
      BY <1>2 DEF FieldValues
    <2> QED
      BY <1>2, <2>1, MacFits
  <1>3. CASE p.proto = "vlan"
    <2>1. FieldValues(s, k, i, sum) = VlanFields(p)
      BY <1>3 DEF FieldValues
    <2> QED
      BY <1>3, <2>1, VlanFits
  <1>4. CASE p.proto = "eth2"
    <2>1. FieldValues(s, k, i, sum) = Eth2Fields(s, k)
      BY <1>4 DEF FieldValues
    <2> QED
      BY <1>4, <2>1, Eth2Fits
  <1>5. CASE p.proto = "dot3"
    <2>1. FieldValues(s, k, i, sum) = Dot3Fields(s, k, i)
      BY <1>5 DEF FieldValues
    <2> QED
      BY <1>5, <2>1, Dot3Fits
  <1>6. CASE p.proto = "llc"
    <2>1. FieldValues(s, k, i, sum) = LlcFields(s, k)
      BY <1>6 DEF FieldValues
    <2> QED
      BY <1>6, <2>1, LlcFits
  <1>7. CASE p.proto = "snap"
    <2>1. FieldValues(s, k, i, sum) = SnapFields(s, k)
      BY <1>7 DEF FieldValues
    <2> QED
      BY <1>7, <2>1, SnapFits
  <1>8. CASE p.proto = "arp"
    <2>1. FieldValues(s, k, i, sum) = ArpFields(p, i)
      BY <1>8 DEF FieldValues
    <2> QED
      BY <1>8, <2>1, ArpFits
  <1>9. CASE p.proto = "ip4"
    <2>1. FieldValues(s, k, i, sum) = Ip4Fields(s, k, i, sum)
      BY <1>9 DEF FieldValues
    <2> QED
      BY <1>9, <2>1, Ip4Fits
  <1>10. CASE p.proto = "ip6"
    <2>1. FieldValues(s, k, i, sum) = Ip6Fields(s, k, i)
      BY <1>10 DEF FieldValues
    <2> QED
      BY <1>10, <2>1, Ip6Fits
  <1>11. CASE p.proto = "udp"
    <2>1. FieldValues(s, k, i, sum) = UdpFields(s, k, i, sum)
      BY <1>11 DEF FieldValues
    <2> QED
      BY <1>11, <2>1, UdpFits
  <1>12. CASE p.proto = "tcp"
    <2>1. FieldValues(s, k, i, sum) = TcpFields(s, k, i, sum)
      BY <1>12 DEF FieldValues
    <2> QED
      BY <1>12, <2>1, TcpFits
  <1>13. CASE p.proto = "icmp"
    <2>1. FieldValues(s, k, i, sum) = IcmpFields(p, sum)
      BY <1>13 DEF FieldValues
    <2> QED
      BY <1>13, <2>1, IcmpLong, IcmpShort
  <1>14. CASE p.proto = "sign"
    <2>1. FieldValues(s, k, i, sum) = SignFields(p)
      BY <1>14 DEF FieldValues
    <2> QED
      BY <1>14, <2>1, SignFits
  <1> HIDE DEF p
  <1> QED
    BY <1>1, <1>2, <1>3, <1>4, <1>5, <1>6, <1>7, <1>8, <1>9, <1>10, <1>11, <1>12, <1>13, <1>14

-----------------------------------------------------------------------------
(* A protocol gives as many bytes as it announces.                           *)

LEMMA OneTotal ==
    ASSUME NEW x \in Int
    PROVE  Total(<<x>>) = x
  <1> DEFINE numbers == <<x>>
             sums == [n \in 0 .. 1 |-> IF n = 0 THEN 0 ELSE x]
  <1>1. Len(numbers) = 1 /\ \A n \in 1 .. 1 : numbers[n] \in Int
    OBVIOUS
  <1>2. sums[0] = 0 /\ \A n \in 1 .. 1 : sums[n] = sums[n - 1] + numbers[n]
    OBVIOUS
  <1>3. sums[1] = x /\ 1 \in Nat
    OBVIOUS
  <1> HIDE DEF numbers, sums
  <1>4. Total(numbers) = sums[1]
    BY ONLY <1>1, <1>2, <1>3, TotalIs, ZenonT(40)
  <1> QED
    BY <1>3, <1>4 DEF numbers

LEMMA ContentSize ==
    ASSUME NEW p, p.proto = "hexdump", Sized(p)
    PROVE  OfSize(p.content, OwnSize(p)) /\ OwnSize(p) \in Nat
  <1> DEFINE N == Len(p.content)
  <1>1. p.content \in Seq(0 .. 255)
    BY DEF Sized
  <1>2. N \in Nat /\ IsSeq(p.content)
    BY <1>1, TypedSeq
  <1>3. OwnSize(p) = (Total(<<8 * N>>) + 7) \div 8
    BY DEF OwnSize, FieldBits
  <1> HIDE DEF N
  <1>4. Total(<<8 * N>>) = 8 * N
    BY <1>2, OneTotal
  <1>5. OwnSize(p) = N
    BY <1>2, <1>3, <1>4
  <1> QED
    BY <1>2, <1>5 DEF OfSize, N

LEMMA PayloadOwnSize ==
    ASSUME NEW p, p.proto = "payload"
    PROVE  OwnSize(p) = 0
  <1>1. OwnSize(p) = (Total(<<0>>) + 7) \div 8
    BY DEF OwnSize, FieldBits
  <1>2. Total(<<0>>) = 0
    BY OneTotal
  <1> QED
    BY <1>1, <1>2

LEMMA PackedFieldsSize ==
    ASSUME NEW s, NEW k, NEW i, NEW sum, Sized(Proto(s, k)),
           Proto(s, k).proto \notin {"payload", "hexdump"}
    PROVE  /\ OfSize(Pack(FieldBits(Proto(s, k)), FieldValues(s, k, i, sum)), OwnSize(Proto(s, k)))
           /\ OwnSize(Proto(s, k)) \in Nat
  <1> DEFINE pack == Pack(FieldBits(Proto(s, k)), FieldValues(s, k, i, sum))
  <1>1. OfSize(pack, OwnSize(Proto(s, k)))
    BY FieldsFit, PackedSize DEF OwnSize
  <1> HIDE DEF pack
  <1>2. OwnSize(Proto(s, k)) \in Nat
    BY <1>1, SeqFun DEF OfSize
  <1> QED
    BY <1>1, <1>2 DEF pack

LEMMA OwnSizeNat ==
    ASSUME NEW s, NEW k, Sized(Proto(s, k))
    PROVE  OwnSize(Proto(s, k)) \in Nat
  <1>1. CASE Proto(s, k).proto \notin {"payload", "hexdump"}
    BY <1>1, PackedFieldsSize
  <1>2. CASE Proto(s, k).proto = "payload"
    BY <1>2, PayloadOwnSize
  <1>3. CASE Proto(s, k).proto = "hexdump"
    BY <1>3, ContentSize
  <1> QED
    BY <1>1, <1>2, <1>3

\* What a protocol's variable fields are written over.
Written(s, k, i, sum) ==
    LET p == Proto(s, k) IN
    CASE p.proto = "payload" -> PayloadBytes(s, k, i)
      [] p.proto = "hexdump" -> HexDumpBytes(s, k, i)
      [] OTHER -> Pack(FieldBits(p), FieldValues(s, k, i, sum))

LEMMA WrittenSize ==
    ASSUME NEW s, NEW k, NEW i, NEW sum, Sized(Proto(s, k)), Filling(s, k, i) \in Nat,
           Proto(s, k).proto = "payload" => Filling(s, k, i) > 0
    PROVE  OfSize(Written(s, k, i, sum), ProtocolFrameSize(s, k, i))
  <1> DEFINE p == Proto(s, k)
             fill == Filling(s, k, i)
             own == OwnSize(p)
             size == ProtocolFrameSize(s, k, i)
             bytes == Written(s, k, i, sum)
  <1>0. own \in Nat /\ fill \in Nat /\ size = own + fill
    BY OwnSizeNat DEF ProtocolFrameSize
  <1>1. CASE p.proto = "payload"
    <2>1. bytes = PayloadBytes(s, k, i)
      BY <1>1 DEF Written
    <2>2. own = 0
      BY <1>1, PayloadOwnSize
    <2>3. fill > 0
      BY <1>1
    <2> DEFINE b == PayloadBytes(s, k, i)
               room == Max({1, size})
    <2>4. b = [n \in 1 .. room |-> b[n]]
      BY DEF PayloadBytes
    <2> HIDE DEF size, own, fill, b
    <2>5. room = size /\ size \in Nat
      BY <1>0, <2>2, <2>3, PairMax
    <2>6. OfSize(b, size)
      <3> HIDE DEF room
      <3> QED
        BY <2>4, <2>5, FunSeq DEF OfSize
    <2> QED
      BY <2>1, <2>6 DEF b, size
  <1>2. CASE p.proto = "hexdump"
    <2> DEFINE zeros == Zeros(fill)
    <2>1. bytes = p.content \o zeros
      BY <1>2 DEF Written, HexDumpBytes
    <2>2. OfSize(p.content, own)
      BY <1>2, ContentSize
    <2>3. zeros = [d \in 1 .. fill |-> zeros[d]]
      BY DEF Zeros
    <2> HIDE DEF zeros, fill, own
    <2>4. OfSize(zeros, fill)
      BY <1>0, <2>3, FunSeq DEF OfSize
    <2> DEFINE content == p.content
    <2> HIDE DEF content
    <2>5. IsSeq(content) /\ IsSeq(zeros) /\ Len(content) = own /\ Len(zeros) = fill
      BY <2>2, <2>4 DEF OfSize, content
    <2>6. IsSeq(content \o zeros) /\ Len(content \o zeros) = Len(content) + Len(zeros)
      BY ONLY <2>5, ConcatSeq
    <2> QED
      BY <1>0, <2>1, <2>5, <2>6 DEF OfSize, content
  <1>3. CASE p.proto \notin {"payload", "hexdump"}
    <2>1. bytes = Pack(FieldBits(p), FieldValues(s, k, i, sum))
      BY <1>3 DEF Written
    <2>2. fill = 0
      BY <1>3 DEF Filling, FillsFrame
    <2>3. size = own
      BY <1>0, <2>2
    <2> QED
      BY <1>3, <2>1, <2>3, PackedFieldsSize
  <1> QED
    BY <1>1, <1>2, <1>3

LEMMA CountersLen ==
    ASSUME NEW p, Counted(p), NEW i
    PROVE  Len([n \in DOMAIN p.vary |-> Counter(p.vary[n], i)]) = Len(p.vary) /\ Len(p.vary) \in Nat
  <1>1. p.vary \in Seq(Range(p.vary))
    BY DEF Counted
  <1> DEFINE vary == p.vary
  <1>2. Len(vary) \in Nat /\ DOMAIN vary = 1 .. Len(vary)
    BY <1>1
  <1> HIDE DEF vary
  <1>3. Len([n \in DOMAIN vary |-> Counter(vary[n], i)]) = Len(vary)
    BY <1>2
  <1> QED
    BY <1>2, <1>3 DEF vary

LEMMA ValueSize ==
    ASSUME NEW s, NEW k, NEW i, Sized(Proto(s, k)), Counted(Proto(s, k)), Filling(s, k, i) \in Nat,
           Proto(s, k).proto = "payload" => Filling(s, k, i) > 0
    PROVE  /\ OfSize(ProtocolFrameValue(s, k, i), ProtocolFrameSize(s, k, i))
           /\ ProtocolFrameSize(s, k, i) \in Nat
  <1> DEFINE p == Proto(s, k)
             sum == IF p.proto \in Checksummed THEN Checksum(s, k, i) ELSE 0
             counters == IF p.proto = "mac" THEN <<>> ELSE [n \in DOMAIN p.vary |-> Counter(p.vary[n], i)]
             bytes == Written(s, k, i, sum)
             value == ProtocolFrameValue(s, k, i)
  <1>1. value = Overwritten(bytes, counters)
    BY DEF ProtocolFrameValue, ValueWith, Written
  <1> HIDE DEF sum
  <1>2. OfSize(bytes, ProtocolFrameSize(s, k, i))
    BY WrittenSize
  <1>3. Len(counters) \in Nat
    <2>1. CASE p.proto = "mac"
      BY <2>1, EmptyIsSeq
    <2>2. CASE p.proto # "mac"
      BY <2>2, CountersLen
    <2> QED
      BY <2>1, <2>2
  <1> HIDE DEF bytes, counters, value
  <1>4. OfSize(value, ProtocolFrameSize(s, k, i))
    BY <1>1, <1>2, <1>3, OverwrittenSize DEF OfSize
  <1>5. ProtocolFrameSize(s, k, i) \in Nat
    BY <1>4, SeqFun DEF OfSize
  <1> QED
    BY <1>4, <1>5 DEF value

-----------------------------------------------------------------------------
(* Sizes and offsets in a frame that has room.                               *)

HoldsPayload(s) == \E k \in 1 .. Top(s) : Proto(s, k).proto = "payload"
IsFilled(s) == \E k \in 1 .. Top(s) : FillsFrame(s, k)
\* The length of the frame without its checksum has room for all protocols.
LeavesRoom(s, i) == FrameLen(s, i) - FcsSize >= SumOfSizes(s, Top(s)) + (IF HoldsPayload(s) THEN 1 ELSE 0)

LEMMA FrameLenInt ==
    ASSUME NEW s \in FrameStreams, NEW i \in Nat
    PROVE  FrameLen(s, i) \in Int
  <1>1. CASE s.lenMode = "fixed"
    BY <1>1, FrameAssumption DEF FrameLen
  <1>2. CASE s.lenMode # "fixed"
    <2> DEFINE count == FrameLenCount(s)
               step == i % count
    <2>1. s.min \in Nat /\ s.max \in Nat /\ s.min <= s.max /\ s.lenMode \in {"inc", "dec"}
      BY <1>2, FrameAssumption
    <2>2. count \in Nat \ {0}
      BY <1>2, <2>1 DEF FrameLenCount
    <2>3. FrameLen(s, i) = IF s.lenMode = "inc" THEN s.min + step ELSE s.max - step
      BY <2>1 DEF FrameLen
    <2> HIDE DEF count
    <2>4. step \in Int
      BY <2>2
    <2> HIDE DEF step
    <2> QED
      BY <2>1, <2>3, <2>4
  <1> QED
    BY <1>1, <1>2

LEMMA StreamTop ==
    ASSUME NEW s \in FrameStreams
    PROVE  /\ Top(s) \in Nat
           /\ \A k \in 1 .. Top(s) : Counted(Proto(s, k)) /\ Sized(Proto(s, k)) /\ OwnSize(Proto(s, k)) \in Nat
           /\ \A k, l \in 1 .. Top(s) : FillsFrame(s, k) /\ FillsFrame(s, l) => k = l
  <1>1. s.protocols \in Seq(Range(s.protocols))
    BY FrameAssumption
  <1>2. Top(s) \in Nat
    <2> DEFINE protocols == s.protocols
    <2>1. protocols \in Seq(Range(protocols))
      BY <1>1
    <2> HIDE DEF protocols
    <2>2. Len(protocols) \in Nat
      BY <2>1
    <2> QED
      BY <2>2 DEF Top, protocols
  <1>3. \A k \in 1 .. Top(s) : Counted(Proto(s, k)) /\ Sized(Proto(s, k))
    BY FrameAssumption
  <1>4. \A k, l \in 1 .. Top(s) : FillsFrame(s, k) /\ FillsFrame(s, l) => k = l
    BY FrameAssumption
  <1> QED
    BY <1>2, <1>3, <1>4, OwnSizeNat

\* One protocol fills what the others leave.
LEMMA FillingIs ==
    ASSUME NEW s \in FrameStreams, NEW i \in Nat, LeavesRoom(s, i), NEW k \in 1 .. Top(s)
    PROVE  /\ Filling(s, k, i) \in Nat
           /\ FillsFrame(s, k) => Filling(s, k, i) = FrameLen(s, i) - FcsSize - SumOfSizes(s, Top(s))
           /\ ~FillsFrame(s, k) => Filling(s, k, i) = 0
           /\ Proto(s, k).proto = "payload" => Filling(s, k, i) > 0
           /\ SumOfSizes(s, Top(s)) \in Int
  <1> DEFINE sum == SumOfSizes(s, Top(s))
             len == FrameLen(s, i)
             fill == Filling(s, k, i)
  <1>1. sum \in Int
    <2> DEFINE g == [n \in 1 .. Top(s) |-> OwnSize(Proto(s, n))]
               N == Top(s)
    <2>1. N \in Nat /\ \A n \in 1 .. N : g[n] \in Int
      BY StreamTop
    <2>2. [n \in 1 .. N |-> g[n]] = [n \in 1 .. N |-> OwnSize(Proto(s, n))]
      OBVIOUS
    <2>3. N \in 0 .. N
      BY <2>1
    <2> HIDE DEF g, N
    <2>4. Total([n \in 1 .. N |-> g[n]]) \in Int
      BY <2>1, <2>3, Totals
    <2> QED
      BY <2>2, <2>4 DEF SumOfSizes, N
  <1>2. len \in Int
    BY FrameLenInt
  <1>3. len - FcsSize >= sum + (IF HoldsPayload(s) THEN 1 ELSE 0)
    BY DEF LeavesRoom
  <1>4. fill = IF ~FillsFrame(s, k) THEN 0 ELSE Max({0, len - sum - FcsSize})
    BY DEF Filling
  <1>5. Proto(s, k).proto = "payload" => HoldsPayload(s) /\ FillsFrame(s, k)
    BY DEF HoldsPayload, FillsFrame
  <1> HIDE DEF sum, len, fill
  <1>6. Max({0, len - sum - FcsSize}) = len - sum - FcsSize /\ len - sum - FcsSize >= 0
    <2>1. len - sum - FcsSize \in Int /\ len - sum - FcsSize >= 0
      BY <1>1, <1>2, <1>3 DEF FcsSize
    <2> DEFINE rest == len - sum - FcsSize
    <2> HIDE DEF rest
    <2>2. rest \in Int /\ rest >= 0
      BY <2>1 DEF rest
    <2>3. Max({0, rest}) = rest
      BY <2>2, PairMax
    <2> QED
      BY <2>1, <2>3 DEF rest
  <1>7. /\ fill \in Nat
        /\ FillsFrame(s, k) => fill = len - FcsSize - sum
        /\ ~FillsFrame(s, k) => fill = 0
        /\ Proto(s, k).proto = "payload" => fill > 0
    BY <1>1, <1>2, <1>3, <1>4, <1>5, <1>6 DEF FcsSize
  <1> QED
    BY <1>1, <1>7 DEF fill, len, sum

\* Where each protocol begins, and where the last one ends.
LEMMA OffsetsAre ==
    ASSUME NEW s \in FrameStreams, NEW i \in Nat, LeavesRoom(s, i)
    PROVE  /\ ProtocolFrameOffset(s, 1, i) = 0
           /\ \A k \in 1 .. Top(s) :
                /\ ProtocolFrameSize(s, k, i) \in Nat
                /\ OfSize(ProtocolFrameValue(s, k, i), ProtocolFrameSize(s, k, i))
                /\ ProtocolFrameOffset(s, k + 1, i)
                     = ProtocolFrameOffset(s, k, i) + ProtocolFrameSize(s, k, i)
           /\ ProtocolFrameOffset(s, Top(s) + 1, i) <= FrameLen(s, i) - FcsSize
           /\ IsFilled(s) => ProtocolFrameOffset(s, Top(s) + 1, i) = FrameLen(s, i) - FcsSize
  <1> DEFINE N == Top(s)
             own == [n \in 1 .. N |-> OwnSize(Proto(s, n))]
             size == [n \in 1 .. N |-> ProtocolFrameSize(s, n, i)]
             at(n) == ProtocolFrameOffset(s, n, i)
             room == FrameLen(s, i) - FcsSize
             sum == SumOfSizes(s, N)
  <1>0. N \in Nat /\ room \in Int
    BY StreamTop, FrameLenInt DEF FcsSize
  <1>1. \A k \in 1 .. N : /\ ProtocolFrameSize(s, k, i) \in Nat
                          /\ OfSize(ProtocolFrameValue(s, k, i), ProtocolFrameSize(s, k, i))
    BY StreamTop, FillingIs, ValueSize
  <1>2. \A n \in 1 .. N : /\ own[n] \in Int /\ size[n] \in Int
                          /\ size[n] = own[n] + Filling(s, n, i)
    BY <1>1, StreamTop DEF ProtocolFrameSize
  <1>3. ASSUME NEW n \in 0 .. N
        PROVE  at(n + 1) = Total([m \in 1 .. n |-> size[m]])
    <2>1. (n + 1) - 1 = n /\ \A m \in 1 .. n : m \in 1 .. N
      BY <1>0
    <2>2. [l \in 1 .. n |-> ProtocolFrameSize(s, l, i)] = [m \in 1 .. n |-> size[m]]
      BY <2>1
    <2> HIDE DEF size
    <2> QED
      BY <2>1, <2>2 DEF ProtocolFrameOffset
  <1>4. sum = Total([n \in 1 .. N |-> own[n]])
    <2>1. [n \in 1 .. N |-> OwnSize(Proto(s, n))] = [n \in 1 .. N |-> own[n]]
      OBVIOUS
    <2> QED
      BY <2>1 DEF SumOfSizes
  <1> DEFINE ends(n) == Total([m \in 1 .. n |-> size[m]])
  <1> HIDE DEF own, size
  <1>5. /\ ends(0) = 0
        /\ \A n \in 0 .. N : ends(n) \in Int
        /\ \A n \in 1 .. N : ends(n) = ends(n - 1) + size[n]
    BY <1>0, <1>2, Totals
  <1> HIDE DEF at, ends
  <1>6. \A n \in 0 .. N : at(n + 1) = ends(n)
    BY <1>3 DEF ends
  <1>7. at(1) = 0
    BY <1>0, <1>5, <1>6
  <1>8. \A k \in 1 .. N : at(k + 1) = at(k) + ProtocolFrameSize(s, k, i)
    <2> TAKE k \in 1 .. N
    <2>1. k \in 0 .. N /\ k - 1 \in 0 .. N /\ (k - 1) + 1 = k
      BY <1>0
    <2>2. size[k] = ProtocolFrameSize(s, k, i)
      BY DEF size
    <2> QED
      BY <1>5, <1>6, <2>1, <2>2
  <1>9. sum \in Int /\ sum <= room
    <2>1. sum \in Int
      <3>1. N \in 0 .. N
        BY <1>0
      <3>2. Total([n \in 1 .. N |-> own[n]]) \in Int
        BY <1>0, <1>2, <3>1, Totals
      <3> QED
        BY <1>4, <3>2
    <2>2. room >= sum + (IF HoldsPayload(s) THEN 1 ELSE 0)
      BY DEF LeavesRoom
    <2> HIDE DEF room, sum
    <2> QED
      BY <1>0, <2>1, <2>2
  <1>10. CASE IsFilled(s)
    <2>1. PICK f \in 1 .. N : FillsFrame(s, f)
      BY <1>10 DEF IsFilled
    <2>2. Filling(s, f, i) = room - sum
      BY <2>1, FillingIs
    <2>3. \A n \in 1 .. N : n # f => Filling(s, n, i) = 0
      BY <2>1, StreamTop, FillingIs
    <2> HIDE DEF room, sum
    <2>4. \A n \in 1 .. N : own[n] \in Int /\ size[n] = own[n] + (IF n = f THEN room - sum ELSE 0)
      BY <1>2, <2>2, <2>3
    <2>5. room - sum \in Int
      BY <1>0, <1>9
    <2>6. ends(N) = sum + (room - sum)
      <3> DEFINE more == room - sum
      <3>1. \A n \in 1 .. N : own[n] \in Int /\ size[n] = own[n] + (IF n = f THEN more ELSE 0)
        BY <2>4
      <3>2. N \in Nat /\ f \in 1 .. N /\ more \in Int
        BY <1>0, <2>1, <2>5
      <3>3. own = [n \in 1 .. N |-> own[n]] /\ size = [n \in 1 .. N |-> size[n]]
        BY DEF own, size
      <3>4. IsSeq(own) /\ IsSeq(size) /\ Len(own) = N /\ Len(size) = N
        BY <1>0, <3>3, FunSeq
      <3> HIDE DEF more, N
      <3>5. Total(size) = Total(own) + more
        BY ONLY <3>1, <3>2, <3>4, TotalWithOne
      <3> QED
        BY <1>4, <3>3, <3>5 DEF ends, more
    <2>7. at(N + 1) = room
      BY <1>0, <1>6, <1>9, <2>6
    <2> QED
      BY <1>0, <1>1, <1>7, <1>8, <2>7 DEF at, room
  <1>11. CASE ~IsFilled(s)
    <2>1. \A n \in 1 .. N : ~FillsFrame(s, n)
      BY <1>11 DEF IsFilled
    <2>2. \A n \in 1 .. N : Filling(s, n, i) = 0
      BY <2>1, FillingIs
    <2>3. \A n \in 1 .. N : own[n] = size[n]
      BY <1>2, <2>2
    <2>4. [n \in 1 .. N |-> own[n]] = [n \in 1 .. N |-> size[n]]
      BY <2>3
    <2>5. ends(N) = sum
      BY <1>4, <2>4 DEF ends
    <2> HIDE DEF room, sum
    <2>6. at(N + 1) <= room
      BY <1>0, <1>6, <1>9, <2>5
    <2> QED
      BY <1>0, <1>1, <1>7, <1>8, <1>11, <2>6 DEF at, room
  <1> QED
    BY <1>10, <1>11

-----------------------------------------------------------------------------
(* Each protocol's bytes in the frame.                                       *)

LEMMA FrameHolds ==
    ASSUME NEW s \in FrameStreams, NEW i \in Nat, LeavesRoom(s, i),
           Len(FrameValue(s, i)) = FrameLen(s, i) - FcsSize, NEW k \in 1 .. Top(s)
    PROVE  LET at == ProtocolFrameOffset(s, k, i)
               size == ProtocolFrameSize(s, k, i)
           IN  /\ at \in Nat /\ size \in Nat /\ at + size <= Len(FrameValue(s, i))
               /\ \A m \in 1 .. size : FrameValue(s, i)[at + m] = ProtocolFrameValue(s, k, i)[m]
  <1> DEFINE N == Top(s)
             values == [n \in 1 .. N |-> ProtocolFrameValue(s, n, i)]
             ends == [n \in 0 .. N |-> ProtocolFrameOffset(s, n + 1, i)]
             whole == FlattenSeq(values)
             room == FrameLen(s, i) - FcsSize
             value == FrameValue(s, i)
             fit == Min({room, MaxPktSize})
             at == ProtocolFrameOffset(s, k, i)
             size == ProtocolFrameSize(s, k, i)
  <1>0. N \in Nat /\ N > 0 /\ room \in Int /\ MaxPktSize \in Nat
    BY StreamTop, FrameLenInt, FrameAssumption DEF FcsSize
  <1>1. Len(values) = N /\ \A n \in 1 .. N : values[n] = ProtocolFrameValue(s, n, i)
    BY <1>0
  <1>2. \A n \in 1 .. N : /\ ends[n] = ProtocolFrameOffset(s, n + 1, i)
                          /\ ends[n - 1] = ProtocolFrameOffset(s, n, i)
    BY <1>0
  <1>3. ends[0] = 0
    BY <1>0, OffsetsAre
  <1> HIDE DEF values, ends
  <1>4. ASSUME NEW n \in 1 .. N
        PROVE  IsSeq(values[n]) /\ ends[n] = ends[n - 1] + Len(values[n])
    <2>1. /\ OfSize(ProtocolFrameValue(s, n, i), ProtocolFrameSize(s, n, i))
          /\ ProtocolFrameOffset(s, n + 1, i)
               = ProtocolFrameOffset(s, n, i) + ProtocolFrameSize(s, n, i)
      BY OffsetsAre DEF N
    <2> QED
      BY <1>1, <1>2, <2>1 DEF OfSize
  <1>5. Joined(whole, values, ends, N) /\ \A n \in 0 .. N : ends[n] \in Nat
    BY <1>0, <1>1, <1>3, <1>4, FlattenedPieces
  <1>6. /\ k \in 1 .. N /\ k - 1 \in 0 .. N /\ k \in 0 .. N
        /\ at = ends[k - 1] /\ ends[k] = at + size /\ at \in Nat /\ size \in Nat
        /\ size = Len(values[k]) /\ values[k] = ProtocolFrameValue(s, k, i)
    BY <1>0, <1>1, <1>2, <1>5, OffsetsAre DEF OfSize
  <1>7. ends[N] <= room /\ ends[k] <= ends[N] /\ ends[N] \in Nat /\ Len(whole) = ends[N]
    <2>1. N \in 1 .. N /\ N \in 0 .. N
      BY <1>0
    <2>2. ends[N] <= room
      BY <1>2, <2>1, OffsetsAre
    <2> QED
      BY <1>5, <1>6, <2>1, <2>2 DEF Joined
  <1>8. value = [n \in 1 .. fit |-> IF n <= Len(whole) THEN whole[n] ELSE 0]
    BY DEF FrameValue, values
  <1> HIDE DEF whole, room, value, at, size
  <1>9. fit = room /\ Len(value) = room
    <2>1. fit = IF room <= MaxPktSize THEN room ELSE MaxPktSize
      BY <1>0, PairMin
    <2>2. fit \in Nat
      BY <1>0, <1>7, <2>1
    <2> HIDE DEF fit
    <2>3. Len(value) = fit
      BY <1>8, <2>2
    <2>4. Len(value) = room
      BY DEF value, room
    <2> QED
      BY <2>3, <2>4
  <1>10. ASSUME NEW m \in 1 .. size
         PROVE  value[at + m] = ProtocolFrameValue(s, k, i)[m]
    <2>1. at + m \in 1 .. fit /\ at + m <= Len(whole)
      BY <1>0, <1>6, <1>7, <1>9
    <2>2. value[at + m] = whole[at + m]
      BY <1>8, <2>1
    <2>3. whole[ends[k - 1] + m] = values[k][m]
      BY <1>5, <1>6 DEF Joined, Has
    <2> QED
      BY <1>6, <2>2, <2>3
  <1>11. at \in Nat /\ size \in Nat /\ at + size <= Len(value)
    BY <1>0, <1>6, <1>7, <1>9
  <1> QED
    BY <1>10, <1>11 DEF at, size, value

\* Every protocol's bytes are where the others take them to be, as many as it has announced
\* to them: lengths, checksums and the swap at odd offsets go by these.
ProtocolsAtOffsets ==
    Intact => \A k \in 1 .. Top(stream) :
        /\ Offset(k) + ProtocolFrameSize(stream, k, index) <= Len(frame)
        /\ FromFrame(Offset(k), ProtocolFrameSize(stream, k, index))
             = ProtocolFrameValue(stream, k, index)

LEMMA IntactHas ==
    ASSUME LastFrame, Intact
    PROVE  /\ stream \in FrameStreams /\ index \in Nat /\ LeavesRoom(stream, index)
           /\ frame = FrameValue(stream, index)
           /\ Len(FrameValue(stream, index)) = FrameLen(stream, index) - FcsSize
  BY DEF LastFrame, Intact, index, LeavesRoom, HoldsPayload, HasPayload

LEMMA AtOffsets ==
    ASSUME LastFrame, Intact, NEW k \in 1 .. Top(stream)
    PROVE  /\ Offset(k) \in Nat /\ ProtocolFrameSize(stream, k, index) \in Nat
           /\ Offset(k) + ProtocolFrameSize(stream, k, index) <= Len(frame)
           /\ OfSize(ProtocolFrameValue(stream, k, index), ProtocolFrameSize(stream, k, index))
           /\ \A m \in 1 .. ProtocolFrameSize(stream, k, index) :
                frame[Offset(k) + m] = ProtocolFrameValue(stream, k, index)[m]
  <1>1. /\ stream \in FrameStreams /\ index \in Nat /\ LeavesRoom(stream, index)
        /\ frame = FrameValue(stream, index)
        /\ Len(FrameValue(stream, index)) = FrameLen(stream, index) - FcsSize
    BY IntactHas
  <1>2. OfSize(ProtocolFrameValue(stream, k, index), ProtocolFrameSize(stream, k, index))
    BY <1>1, OffsetsAre
  <1> QED
    BY <1>1, <1>2, FrameHolds DEF Offset

\* The sizes that protocolFrameSize() announces and the offsets added up from them are
\* those of the bytes frameValue() writes, for any stack of protocols and any data.
THEOREM ProtocolsAtOffsetsHolds == FrameSpec => []ProtocolsAtOffsets
  <1>1. LastFrame => ProtocolsAtOffsets
    <2> SUFFICES ASSUME LastFrame, Intact, NEW k \in 1 .. Top(stream)
                 PROVE  /\ Offset(k) + ProtocolFrameSize(stream, k, index) <= Len(frame)
                        /\ FromFrame(Offset(k), ProtocolFrameSize(stream, k, index))
                             = ProtocolFrameValue(stream, k, index)
      BY DEF ProtocolsAtOffsets
    <2> DEFINE at == Offset(k)
               size == ProtocolFrameSize(stream, k, index)
               value == ProtocolFrameValue(stream, k, index)
               part == SubSeq(frame, at + 1, at + size)
    <2>1. /\ at \in Nat /\ size \in Nat /\ at + size <= Len(frame) /\ OfSize(value, size)
          /\ \A m \in 1 .. size : frame[at + m] = value[m]
      BY AtOffsets
    <2>2. part = FromFrame(at, size)
      BY DEF FromFrame
    <2> HIDE DEF at, size, value
    <2>3. part = [m \in 1 .. size |-> frame[at + m]]
      BY <2>1
    <2>4. value = [m \in 1 .. size |-> value[m]]
      BY <2>1, SeqFun DEF OfSize
    <2>5. part = value
      BY <2>1, <2>3, <2>4
    <2> QED
      BY <2>1, <2>2, <2>5 DEF at, size, value
  <1> QED
    BY <1>1, LastFrameHolds, PTL

-----------------------------------------------------------------------------
(* The signature at the end.                                                 *)

GuidBy(f, pkt, N) ==
    f = [p \in 1 .. N |->
            LET before == p - (1 + pkt[p] \div 32) IN
            IF pkt[p] = TypeLenEnd THEN NoGuid
            ELSE IF pkt[p] = TypeLenGuid THEN Number(SubSeq(pkt, p - 3, p - 1))
            ELSE IF before \in 1 .. p - 1 THEN f[before] ELSE NoGuid]

LEMMA GuidExists ==
    ASSUME NEW pkt, NEW N \in Nat
    PROVE  \E f : GuidBy(f, pkt, N)
  <1> DEFINE Before(p) == p - (1 + pkt[p] \div 32)
             Ends(p) == pkt[p] = TypeLenEnd \/ pkt[p] = TypeLenGuid \/ Before(p) \notin 1 .. p - 1
             Found(p) == IF pkt[p] = TypeLenEnd THEN NoGuid
                         ELSE IF pkt[p] = TypeLenGuid THEN Number(SubSeq(pkt, p - 3, p - 1)) ELSE NoGuid
             By(f, n) == f = [p \in 1 .. n |-> IF Ends(p) THEN Found(p) ELSE f[Before(p)]]
             Up(n) == \E f : By(f, n)
             S == {n \in Nat : Up(n)}
  <1>0. ASSUME NEW f, NEW n, By(f, n) PROVE GuidBy(f, pkt, n)
    <2>1. ASSUME NEW p \in 1 .. n
          PROVE  (IF Ends(p) THEN Found(p) ELSE f[Before(p)])
                   = IF pkt[p] = TypeLenEnd THEN NoGuid
                     ELSE IF pkt[p] = TypeLenGuid THEN Number(SubSeq(pkt, p - 3, p - 1))
                     ELSE IF Before(p) \in 1 .. p - 1 THEN f[Before(p)] ELSE NoGuid
      <3> DEFINE number == Number(SubSeq(pkt, p - 3, p - 1))
                 before == Before(p)
      <3> HIDE DEF number, before
      <3> QED
        BY DEF number, before
    <2> QED
      BY <1>0, <2>1 DEF GuidBy
  <1>b. ASSUME NEW p \in Nat, ~Ends(p) PROVE Before(p) \in 1 .. p - 1
    BY <1>b
  <1> HIDE DEF Before, Ends, Found
  <1>1. Up(0)
    <2> DEFINE f == [p \in 1 .. 0 |-> pkt]
    <2>1. f = [p \in 1 .. 0 |-> IF Ends(p) THEN Found(p) ELSE f[Before(p)]]
      OBVIOUS
    <2> HIDE DEF f
    <2> QED
      BY <2>1
  <1>2. ASSUME NEW n \in Nat, Up(n) PROVE Up(n + 1)
    <2>1. PICK f : By(f, n)
      BY <1>2
    <2> DEFINE g == [p \in 1 .. n + 1 |-> IF Ends(p) THEN Found(p) ELSE f[Before(p)]]
    <2>2. ASSUME NEW p \in 1 .. n + 1
          PROVE  g[p] = IF Ends(p) THEN Found(p) ELSE g[Before(p)]
      <3>1. CASE Ends(p)
        BY <3>1
      <3>2. CASE ~Ends(p)
        <4>1. Before(p) \in 1 .. p - 1
          BY <1>b, <3>2
        <4>2. Before(p) \in 1 .. n /\ Before(p) \in 1 .. n + 1
          BY <4>1
        <4>3. g[Before(p)] = f[Before(p)]
          BY <2>1, <4>2
        <4>4. g[p] = f[Before(p)]
          BY <3>2
        <4> QED
          BY <3>2, <4>3, <4>4
      <3> QED
        BY <3>1, <3>2
    <2>3. g = [p \in 1 .. n + 1 |-> g[p]]
      OBVIOUS
    <2> HIDE DEF g
    <2>4. By(g, n + 1)
      BY <2>2, <2>3
    <2> QED
      BY <2>4
  <1>3. S = Nat
    <2>1. S \in SUBSET Nat
      OBVIOUS
    <2>2. 0 \in S /\ \A n \in S : n + 1 \in S
      <3> HIDE DEF Up
      <3> QED
        BY <1>1, <1>2
    <2> HIDE DEF S
    <2> QED
      BY <2>1, <2>2, Induction
  <1>4. Up(N)
    BY <1>3
  <1>5. PICK f : By(f, N)
    BY <1>4
  <1>6. GuidBy(f, pkt, N)
    <2> HIDE DEF By
    <2> QED
      BY <1>0, <1>5
  <1> QED
    BY <1>6

\* A packet that ends in the guid's type-length and the magic number has that guid.
LEMMA GuidIs ==
    ASSUME NEW pkt, NEW N \in Nat, N > 4, Len(pkt) = N,
           SubSeq(pkt, N - 3, N) = SignMagic, pkt[N - 4] = TypeLenGuid
    PROVE  PacketGuid(pkt) = Number(SubSeq(pkt, N - 7, N - 5))
  <1> DEFINE at == Len(pkt) - Len(SignMagic)
             f == CHOOSE f : GuidBy(f, pkt, at)
  <1>1. PacketGuid(pkt) = IF SubSeq(pkt, at + 1, Len(pkt)) # SignMagic THEN NoGuid ELSE f[at]
    BY DEF PacketGuid, GuidBy
  <1>2. at = N - 4
    BY DEF SignMagic
  <1> HIDE DEF at
  <1>3. at \in Nat /\ at \in 1 .. at /\ at + 1 = N - 3 /\ at - 3 = N - 7 /\ at - 1 = N - 5
    BY <1>2
  <1>4. GuidBy(f, pkt, at)
    BY <1>3, GuidExists
  <1> HIDE DEF f
  <1>5. PacketGuid(pkt) = f[at]
    BY <1>1, <1>3
  <1>6. TypeLenGuid # TypeLenEnd /\ pkt[at] = TypeLenGuid
    BY <1>2 DEF TypeLenGuid, TypeLenEnd
  <1>7. f[at] = Number(SubSeq(pkt, at - 3, at - 1))
    BY <1>3, <1>4, <1>6 DEF GuidBy
  <1> QED
    BY <1>3, <1>5, <1>7

\* The bytes of a number of three bytes, and the number of those bytes.
LEMMA ThreeBytes ==
    ASSUME NEW n \in Nat, (n \div 256) \div 256 <= 255
    PROVE  /\ Bytes(n, 3)[1] = (n \div 256) \div 256 /\ Bytes(n, 3)[2] = (n \div 256) % 256
           /\ Bytes(n, 3)[3] = n % 256
  <1> DEFINE By(f) == f = [d \in 1 .. 3 |-> IF d = 3 THEN n ELSE f[d + 1] \div 256]
             g == [d \in 1 .. 3 |-> IF d = 3 THEN n ELSE IF d = 2 THEN n \div 256 ELSE (n \div 256) \div 256]
             f == CHOOSE f : By(f)
  <1>1. By(g)
    <2>1. ASSUME NEW d \in 1 .. 3 PROVE g[d] = IF d = 3 THEN n ELSE g[d + 1] \div 256
      <3>1. d = 1 \/ d = 2 \/ d = 3
        OBVIOUS
      <3>2. g[1] = (n \div 256) \div 256 /\ g[2] = n \div 256 /\ g[3] = n
        OBVIOUS
      <3> HIDE DEF g
      <3> QED
        BY <3>1, <3>2
    <2>2. g = [d \in 1 .. 3 |-> g[d]]
      OBVIOUS
    <2> HIDE DEF g
    <2> QED
      BY <2>1, <2>2
  <1>2. By(f)
    <2> HIDE DEF By, g
    <2> QED
      BY <1>1
  <1>3. Bytes(n, 3) = [d \in 1 .. 3 |-> f[d] % 256]
    BY DEF Bytes
  <1> HIDE DEF f
  <1>4. f[3] = n /\ f[2] = f[3] \div 256 /\ f[1] = f[2] \div 256
    <2>1. f[2] = f[2 + 1] \div 256 /\ f[1] = f[1 + 1] \div 256 /\ f[3] = n
      BY <1>2
    <2> QED
      BY <2>1
  <1>5. (n \div 256) \div 256 \in 0 .. 255
    OBVIOUS
  <1>6. Bytes(n, 3)[1] = f[1] % 256 /\ Bytes(n, 3)[2] = f[2] % 256 /\ Bytes(n, 3)[3] = f[3] % 256
    BY <1>3
  <1>7. ((n \div 256) \div 256) % 256 = (n \div 256) \div 256
    BY <1>5
  <1> QED
    BY <1>4, <1>5, <1>6, <1>7

LEMMA NumberOfThree ==
    ASSUME NEW b, OfSize(b, 3), NEW n \in Nat,
           b[1] = (n \div 256) \div 256, b[2] = (n \div 256) % 256, b[3] = n % 256
    PROVE  Number(b) = n
  <1> DEFINE By(f) == f = [d \in 0 .. Len(b) |-> IF d = 0 THEN 0 ELSE 256 * f[d - 1] + b[d]]
             one == b[1]
             two == 256 * one + b[2]
             g == [d \in 0 .. 3 |-> IF d = 0 THEN 0 ELSE IF d = 1 THEN one ELSE IF d = 2 THEN two
                                    ELSE 256 * two + b[3]]
             f == CHOOSE f : By(f)
  <1>0. Len(b) = 3
    BY DEF OfSize
  <1>b. b[1] \in Int /\ b[2] \in Int /\ b[3] \in Int
    OBVIOUS
  <1>1. By(g)
    <2>1. ASSUME NEW d \in 0 .. 3 PROVE g[d] = IF d = 0 THEN 0 ELSE 256 * g[d - 1] + b[d]
      <3>1. d = 0 \/ d = 1 \/ d = 2 \/ d = 3
        OBVIOUS
      <3>2. g[0] = 0 /\ g[1] = 256 * 0 + b[1] /\ g[2] = 256 * g[1] + b[2] /\ g[3] = 256 * g[2] + b[3]
        BY <1>b
      <3> HIDE DEF g
      <3> QED
        BY <3>1, <3>2
    <2>2. g = [d \in 0 .. 3 |-> g[d]]
      OBVIOUS
    <2> HIDE DEF g
    <2> QED
      BY <1>0, <2>1, <2>2
  <1>2. By(f)
    <2> HIDE DEF By, g
    <2> QED
      BY <1>1
  <1>3. Number(b) = f[3]
    BY <1>0 DEF Number
  <1> HIDE DEF f
  <1>4. f[0] = 0 /\ f[1] = 256 * f[0] + b[1] /\ f[2] = 256 * f[1] + b[2] /\ f[3] = 256 * f[2] + b[3]
    <2>1. f[0] = 0 /\ f[1] = 256 * f[1 - 1] + b[1] /\ f[2] = 256 * f[2 - 1] + b[2]
          /\ f[3] = 256 * f[3 - 1] + b[3]
      BY <1>0, <1>2
    <2> QED
      BY <2>1
  <1>5. f[3] = 256 * (256 * b[1] + b[2]) + b[3]
    BY <1>b, <1>4
  <1>6. n = 256 * (256 * ((n \div 256) \div 256) + ((n \div 256) % 256)) + (n % 256)
    OBVIOUS
  <1> QED
    BY <1>3, <1>5, <1>6

LEMMA ConcatSized ==
    ASSUME NEW a, NEW b, NEW m \in Nat, NEW n \in Nat, OfSize(a, m), OfSize(b, n)
    PROVE  OfSize(a \o b, m + n) /\ Has(a \o b, m, b)
  <1>1. IsSeq(a) /\ IsSeq(b) /\ Len(a) = m /\ Len(b) = n
    BY DEF OfSize
  <1> DEFINE ab == a \o b
  <1>2. /\ IsSeq(ab) /\ Len(ab) = Len(a) + Len(b)
        /\ Has(ab, Len(a), b)
    BY ONLY <1>1, ConcatSeq
  <1> HIDE DEF ab
  <1>3. OfSize(ab, m + n) /\ Has(ab, m, b)
    BY <1>1, <1>2 DEF OfSize
  <1> QED
    BY <1>3 DEF ab

LEMMA HasAlso ==
    ASSUME NEW a, NEW c, NEW m \in Nat, OfSize(a, m), IsSeq(c),
           NEW at \in Nat, NEW part, NEW n \in Nat, OfSize(part, n), at + n <= m, Has(a, at, part)
    PROVE  Has(a \o c, at, part)
  <1> DEFINE ac == a \o c
  <1>1. IsSeq(a) /\ IsSeq(c) /\ Len(a) = m /\ Len(part) = n
    BY DEF OfSize
  <1>2. \A d \in 1 .. Len(a) : ac[d] = a[d]
    BY ONLY <1>1, ConcatSeq
  <1> HIDE DEF ac
  <1>3. ASSUME NEW d \in 1 .. Len(part) PROVE ac[at + d] = part[d]
    <2>1. at + d \in 1 .. Len(a) /\ a[at + d] = part[d]
      BY <1>1 DEF Has
    <2> QED
      BY <1>2, <2>1
  <1>4. Has(ac, at, part)
    BY <1>3 DEF Has
  <1> QED
    BY <1>4 DEF ac

Behind(a, b, c) == ((<<>> \o a) \o b) \o c

LEMMA ThreeParts ==
    ASSUME NEW a, NEW b, NEW c, NEW l \in Nat, NEW m \in Nat, NEW n \in Nat,
           OfSize(a, l), OfSize(b, m), OfSize(c, n)
    PROVE  /\ OfSize(Behind(a, b, c), (l + m) + n)
           /\ Has(Behind(a, b, c), l, b) /\ Has(Behind(a, b, c), l + m, c)
  <1> DEFINE head == <<>> \o a
             ab == head \o b
             abc == ab \o c
  <1>1. OfSize(<<>>, 0) /\ 0 \in Nat /\ 0 + l = l /\ l + m \in Nat /\ l + m <= l + m
    BY EmptyIsSeq DEF OfSize
  <1>2. OfSize(head, l)
    <2>1. OfSize(head, 0 + l)
      BY <1>1, ConcatSized
    <2> QED
      BY <1>1, <2>1
  <1> HIDE DEF head
  <1>3. OfSize(ab, l + m) /\ Has(ab, l, b)
    BY <1>2, ConcatSized
  <1> HIDE DEF ab
  <1>4. OfSize(abc, (l + m) + n) /\ Has(abc, l + m, c)
    BY <1>1, <1>3, ConcatSized
  <1>5. IsSeq(c)
    BY DEF OfSize
  <1>6. Has(abc, l, b)
    BY <1>1, <1>3, <1>5, HasAlso
  <1> QED
    BY <1>4, <1>6 DEF abc, ab, head, Behind

\* A field of whole bytes that starts with a byte is put behind the others as it is.
LEMMA PackOneWhole ==
    ASSUME NEW acc, acc.pos = 0, NEW n \in Nat, NEW v, OfSize(v, n)
    PROVE  PackField(acc, 8 * n, v).bytes = acc.bytes \o v /\ PackField(acc, 8 * n, v).pos = 0
  <1>1. Spare(8 * n, v) = 0
    BY DEF Spare, OfSize
  <1> DEFINE up == IF Spare(8 * n, v) = 0 THEN acc.pos ELSE 8 - acc.pos
             cut == Cut(acc, 8 * n, v, up)
  <1>2. PackField(acc, 8 * n, v) = cut
    BY DEF PackField
  <1> HIDE DEF up
  <1>3. cut.bytes = acc.bytes \o v /\ cut.pos = (acc.pos + 8 * n) % 8
    BY <1>1 DEF Cut
  <1>4. (acc.pos + 8 * n) % 8 = 0
    OBVIOUS
  <1> QED
    BY <1>2, <1>3, <1>4

\* Four bytes.
LEMMA PackFourWhole ==
    ASSUME NEW acc, acc.pos = 0, NEW v, OfSize(v, 4)
    PROVE  PackField(acc, 8 * 4, v).bytes = acc.bytes \o v /\ PackField(acc, 8 * 4, v).pos = 0
  <1>1. 4 \in Nat
    OBVIOUS
  <1> QED
    BY ONLY acc.pos = 0, OfSize(v, 4), <1>1, PackOneWhole

\* The three fields of a signature are put together as they are.
LEMMA PackSign ==
    ASSUME NEW a, NEW b, NEW c, OfSize(a, 1), OfSize(b, 4), OfSize(c, 4)
    PROVE  Pack(<<8, 32, 32>>, <<a, b, c>>) = Behind(a, b, c)
  <1> DEFINE bits == <<8, 32, 32>>
             values == <<a, b, c>>
             f == CHOOSE f : PackingBy(f, bits, values, 3)
  <1>1. Len(values) = 3 /\ bits[1] = 8 /\ bits[2] = 32 /\ bits[3] = 32
        /\ values[1] = a /\ values[2] = b /\ values[3] = c
    OBVIOUS
  <1>2. Pack(bits, values) = f[3].bytes
    BY DEF Pack, PackingBy
  <1> HIDE DEF bits, values
  <1>3. PackingBy(f, bits, values, 3)
    BY PackingExists
  <1> HIDE DEF f
  <1>4. /\ f[0] = [bytes |-> <<>>, pos |-> 0]
        /\ f[1] = PackField(f[0], 8, a)
        /\ f[2] = PackField(f[1], 32, b)
        /\ f[3] = PackField(f[2], 32, c)
    <2>1. /\ 0 \in 0 .. 3 /\ 1 \in 0 .. 3 /\ 2 \in 0 .. 3 /\ 3 \in 0 .. 3
          /\ 1 - 1 = 0 /\ 2 - 1 = 1 /\ 3 - 1 = 2 /\ 1 # 0 /\ 2 # 0 /\ 3 # 0
      OBVIOUS
    <2>2. f[0] = [bytes |-> <<>>, pos |-> 0]
      BY <1>3, <2>1 DEF PackingBy
    <2>3. f[1] = PackField(f[0], bits[1], values[1])
      BY <1>1, <1>3, <2>1 DEF PackingBy
    <2>4. f[2] = PackField(f[1], bits[2], values[2])
      BY <1>1, <1>3, <2>1 DEF PackingBy
    <2>5. f[3] = PackField(f[2], bits[3], values[3])
      BY <1>1, <1>3, <2>1 DEF PackingBy
    <2> QED
      BY <1>1, <2>2, <2>3, <2>4, <2>5
  <1>5. 8 * 1 = 8 /\ 8 * 4 = 32 /\ 1 \in Nat /\ 4 \in Nat
    OBVIOUS
  <1>6. f[0].bytes = <<>> /\ f[0].pos = 0
    BY <1>4
  <1>7. f[1].bytes = <<>> \o a /\ f[1].pos = 0
    <2>1. PackField(f[0], 8 * 1, a).bytes = f[0].bytes \o a /\ PackField(f[0], 8 * 1, a).pos = 0
      BY <1>5, <1>6, PackOneWhole
    <2> QED
      BY <1>4, <1>5, <1>6, <2>1
  <1>8. f[2].bytes = (<<>> \o a) \o b /\ f[2].pos = 0
    <2>1. f[1].pos = 0
      BY <1>7
    <2>2. PackField(f[1], 8 * 4, b).bytes = f[1].bytes \o b /\ PackField(f[1], 8 * 4, b).pos = 0
      BY ONLY <2>1, OfSize(b, 4), PackFourWhole
    <2> QED
      BY <1>4, <1>5, <1>7, <2>2
  <1>9. f[3].bytes = ((<<>> \o a) \o b) \o c
    <2>1. PackField(f[2], 8 * 4, c).bytes = f[2].bytes \o c
      BY <1>8, PackFourWhole
    <2> QED
      BY <1>4, <1>5, <1>8, <2>1
  <1> QED
    BY <1>2, <1>9 DEF bits, values, Behind

\* The bytes of a signature: the end, the guid and its type-length, the magic number.
LEMMA SignBytes ==
    ASSUME NEW p, p.proto = "sign", NEW bytes, bytes = Pack(FieldBits(p), SignFields(p))
    PROVE  /\ OfSize(bytes, 9)
           /\ bytes[2] = Bytes(p.guid, 3)[1] /\ bytes[3] = Bytes(p.guid, 3)[2]
           /\ bytes[4] = Bytes(p.guid, 3)[3] /\ bytes[5] = TypeLenGuid
           /\ bytes[6] = SignMagic[1] /\ bytes[7] = SignMagic[2]
           /\ bytes[8] = SignMagic[3] /\ bytes[9] = SignMagic[4]
  <1> DEFINE number == Bytes(p.guid, 3)
             a == <<TypeLenEnd>>
             b == Append(number, TypeLenGuid)
             c == SignMagic
  <1>1. OfSize(a, 1) /\ OfSize(b, 4) /\ OfSize(c, 4)
    BY SignParts
  <1>2. b[1] = number[1] /\ b[2] = number[2] /\ b[3] = number[3] /\ b[4] = TypeLenGuid
    <2>1. OfSize(number, 3)
      BY BytesWide
    <2> HIDE DEF number
    <2> DEFINE U == Range(number) \cup {TypeLenGuid}
    <2>2. number \in Seq(U) /\ Len(number) = 3 /\ TypeLenGuid \in U
      BY <2>1 DEF OfSize, IsSeq
    <2> HIDE DEF U
    <2> DEFINE one == <<TypeLenGuid>>
               more == number \o one
    <2>3. b = more
      BY <2>2, Lists!AppendIsConcat
    <2>4. OfSize(one, 1) /\ one[1] = TypeLenGuid
      BY OneByte
    <2> HIDE DEF one
    <2>5. IsSeq(number) /\ IsSeq(one) /\ Len(number) = 3 /\ Len(one) = 1
      BY <2>1, <2>4 DEF OfSize
    <2>6. /\ \A d \in 1 .. Len(number) : more[d] = number[d]
          /\ Has(more, Len(number), one)
      BY ONLY <2>5, ConcatSeq
    <2> HIDE DEF more
    <2>7. more[1] = number[1] /\ more[2] = number[2] /\ more[3] = number[3] /\ more[3 + 1] = one[1]
      BY <2>5, <2>6 DEF Has
    <2> QED
      BY <2>3, <2>4, <2>7
  <1>3. FieldBits(p) = <<8, 32, 32>> /\ SignFields(p) = <<a, b, c>>
    BY DEF FieldBits, SignFields
  <1> HIDE DEF number, a, b, c
  <1>4. bytes = Behind(a, b, c)
    <2>1. Pack(<<8, 32, 32>>, <<a, b, c>>) = Behind(a, b, c)
      BY <1>1, PackSign
    <2> QED
      BY <1>3, <2>1
  <1>5. OfSize(bytes, (1 + 4) + 4) /\ Has(bytes, 1, b) /\ Has(bytes, 1 + 4, c)
    <2>1. 1 \in Nat /\ 4 \in Nat
      OBVIOUS
    <2> QED
      BY <1>1, <1>4, <2>1, ThreeParts
  <1>6. /\ bytes[1 + 1] = b[1] /\ bytes[1 + 2] = b[2] /\ bytes[1 + 3] = b[3] /\ bytes[1 + 4] = b[4]
        /\ bytes[5 + 1] = c[1] /\ bytes[5 + 2] = c[2] /\ bytes[5 + 3] = c[3] /\ bytes[5 + 4] = c[4]
    <2>1. Len(b) = 4 /\ Len(c) = 4
      BY <1>1 DEF OfSize
    <2>2. 1 \in 1 .. 4 /\ 2 \in 1 .. 4 /\ 3 \in 1 .. 4 /\ 4 \in 1 .. 4 /\ 1 + 4 = 5
      OBVIOUS
    <2> QED
      BY <1>5, <2>1, <2>2 DEF Has
  <1>7. OfSize(bytes, 9)
    BY <1>5
  <1> QED
    BY <1>2, <1>6, <1>7 DEF c, number

\* A signature without variable fields is given as it is.
LEMMA SignatureValue ==
    ASSUME NEW s, NEW k, NEW i, Proto(s, k).proto = "sign", Proto(s, k).vary = <<>>
    PROVE  ProtocolFrameValue(s, k, i) = Pack(FieldBits(Proto(s, k)), SignFields(Proto(s, k)))
  <1> DEFINE p == Proto(s, k)
             sum == IF p.proto \in Checksummed THEN Checksum(s, k, i) ELSE 0
             counters == [n \in DOMAIN p.vary |-> Counter(p.vary[n], i)]
             bytes == Pack(FieldBits(p), FieldValues(s, k, i, sum))
  <1>1. ProtocolFrameValue(s, k, i) = Overwritten(bytes, counters)
    BY DEF ProtocolFrameValue, ValueWith
  <1>2. FieldValues(s, k, i, sum) = SignFields(p)
    BY DEF FieldValues
  <1>3. bytes = Pack(FieldBits(p), SignFields(p))
    BY <1>2
  <1> HIDE DEF bytes
  <1>4. IsSeq(bytes)
    BY <1>3, SignBytes DEF OfSize
  <1>5. Len(counters) = 0
    <2>1. p.vary = [n \in 1 .. 0 |-> 0]
      OBVIOUS
    <2>2. DOMAIN p.vary = 1 .. 0
      BY <2>1
    <2>3. counters = [n \in 1 .. 0 |-> Counter(p.vary[n], i)]
      BY <2>2
    <2> QED
      BY <2>3
  <1> HIDE DEF counters
  <1>6. Overwritten(bytes, counters) = bytes
    BY <1>4, <1>5, OverwrittenSize
  <1> QED
    BY <1>1, <1>3, <1>6

LEMMA PartIs ==
    ASSUME NEW x, NEW from \in Nat, NEW n \in Nat
    PROVE  SubSeq(x, from + 1, from + n) = [m \in 1 .. n |-> x[from + m]]
  OBVIOUS

LEMMA SignatureIsFound ==
    ASSUME LastFrame, Intact, IsFilled(stream),
           Proto(stream, Top(stream)).proto = "sign", Proto(stream, Top(stream)).vary = <<>>
    PROVE  PacketGuid(frame) = Proto(stream, Top(stream)).guid
  <1> DEFINE K == Top(stream)
             p == Proto(stream, K)
             at == Offset(K)
             size == ProtocolFrameSize(stream, K, index)
             value == ProtocolFrameValue(stream, K, index)
             N == Len(frame)
             number == Bytes(p.guid, 3)
  <1>1. /\ stream \in FrameStreams /\ index \in Nat /\ LeavesRoom(stream, index)
        /\ frame = FrameValue(stream, index)
        /\ N = FrameLen(stream, index) - FcsSize
    BY IntactHas
  <1>2. K \in Nat /\ K \in 1 .. K
    BY <1>1, StreamTop DEF IsFilled
  <1>3. /\ at \in Nat /\ size \in Nat /\ OfSize(value, size)
        /\ \A m \in 1 .. size : frame[at + m] = value[m]
    BY <1>2, AtOffsets
  <1>4. at + size = N
    BY <1>1, <1>2, OffsetsAre DEF Offset
  <1>5. value = Pack(FieldBits(p), SignFields(p))
    BY SignatureValue
  <1>6. /\ OfSize(value, 9)
        /\ value[2] = number[1] /\ value[3] = number[2] /\ value[4] = number[3] /\ value[5] = TypeLenGuid
        /\ value[6] = SignMagic[1] /\ value[7] = SignMagic[2]
        /\ value[8] = SignMagic[3] /\ value[9] = SignMagic[4]
    BY <1>5, SignBytes
  <1>7. size = 9
    BY <1>3, <1>6 DEF OfSize
  <1>8. p.guid \in Nat /\ (p.guid \div 256) \div 256 <= 255
    BY <1>1, <1>2, StreamTop DEF Sized
  <1> HIDE DEF at, size, value, N, number, p, K
  <1>9. /\ frame[at + 2] = number[1] /\ frame[at + 3] = number[2] /\ frame[at + 4] = number[3]
        /\ frame[at + 5] = TypeLenGuid
        /\ frame[at + 6] = SignMagic[1] /\ frame[at + 7] = SignMagic[2]
        /\ frame[at + 8] = SignMagic[3] /\ frame[at + 9] = SignMagic[4]
    <2>1. \A m \in 1 .. 9 : frame[at + m] = value[m]
      BY <1>3, <1>7
    <2> QED
      BY <1>6, <2>1
  <1>10. N = at + 9 /\ N \in Nat /\ N > 4 /\ N - 3 = at + 6 /\ N - 4 = at + 5 /\ N - 7 = at + 2 /\ N - 5 = at + 4
    BY <1>3, <1>4, <1>7
  <1>11. SubSeq(frame, N - 3, N) = SignMagic
    <2> DEFINE end == SubSeq(frame, at + 6, at + 9)
    <2>1. end = [m \in 1 .. 4 |-> frame[(at + 5) + m]]
      <3>1. at + 5 \in Nat /\ 4 \in Nat /\ (at + 5) + 1 = at + 6 /\ (at + 5) + 4 = at + 9
        BY <1>3
      <3>2. SubSeq(frame, (at + 5) + 1, (at + 5) + 4) = [m \in 1 .. 4 |-> frame[(at + 5) + m]]
        BY ONLY <3>1, PartIs
      <3> QED
        BY <3>1, <3>2
    <2>2. SignMagic = [m \in 1 .. 4 |-> SignMagic[m]]
      BY DEF SignMagic
    <2> HIDE DEF end
    <2>3. \A m \in 1 .. 4 : frame[(at + 5) + m] = SignMagic[m]
      BY <1>3, <1>9
    <2>4. end = SignMagic
      BY <2>1, <2>2, <2>3
    <2> QED
      BY <1>10, <2>4 DEF end
  <1>12. PacketGuid(frame) = Number(SubSeq(frame, at + 2, at + 4))
    <2>1. Len(frame) = N /\ frame[N - 4] = TypeLenGuid
      BY <1>9, <1>10 DEF N
    <2>2. PacketGuid(frame) = Number(SubSeq(frame, N - 7, N - 5))
      BY <1>10, <1>11, <2>1, GuidIs
    <2> QED
      BY <1>10, <2>2
  <1>13. Number(SubSeq(frame, at + 2, at + 4)) = p.guid
    <2> DEFINE b == SubSeq(frame, at + 2, at + 4)
    <2>1. b = [m \in 1 .. 3 |-> frame[(at + 1) + m]]
      <3>1. at + 1 \in Nat /\ 3 \in Nat /\ (at + 1) + 1 = at + 2 /\ (at + 1) + 3 = at + 4
        BY <1>3
      <3>2. SubSeq(frame, (at + 1) + 1, (at + 1) + 3) = [m \in 1 .. 3 |-> frame[(at + 1) + m]]
        BY ONLY <3>1, PartIs
      <3> QED
        BY <3>1, <3>2
    <2> HIDE DEF b
    <2>2. OfSize(b, 3)
      <3>1. b = [m \in 1 .. 3 |-> b[m]]
        BY <2>1
      <3> QED
        BY <3>1, FunSeq DEF OfSize
    <2>3. b[1] = frame[(at + 1) + 1] /\ b[2] = frame[(at + 1) + 2] /\ b[3] = frame[(at + 1) + 3]
      BY <2>1
    <2>4. b[1] = number[1] /\ b[2] = number[2] /\ b[3] = number[3]
      BY <1>3, <1>9, <2>3
    <2>5. /\ number[1] = (p.guid \div 256) \div 256 /\ number[2] = (p.guid \div 256) % 256
          /\ number[3] = p.guid % 256
      BY <1>8, ThreeBytes DEF number
    <2>6. Number(b) = p.guid
      BY <1>8, <2>2, <2>4, <2>5, NumberOfThree
    <2> QED
      BY <2>6 DEF b
  <1> QED
    BY <1>12, <1>13 DEF p, K

\* packetGuid(), reading a frame from its end, finds the guid that SignProtocol has put
\* there, when the frame is filled up to the signature and no variable field changes it.
THEOREM SignatureFoundHolds == FrameSpec => []SignatureFound
  <1>1. LastFrame => SignatureFound
    BY SignatureIsFound DEF SignatureFound, IsFilled
  <1> QED
    BY <1>1, LastFrameHolds, PTL
=============================================================================
