--------------------------- MODULE StreamAccounting ---------------------------
(***************************************************************************)
(* A port's statistics by stream, streamStats_: what the transmit thread     *)
(* has sent is added by a slot of the main thread, what the poller of signed *)
(* packets receives by the poller, and both are cleared by requests.  Only   *)
(* the requests take the port's lock, which none of the others looks at.     *)
(*                                                                          *)
(* When the poller sees the port's own packets too, the slot takes those     *)
(* sent off those received.  Bytes are counted like packets and left out.    *)
(* Tracking is on.  The slot's loop and the thread's are a step each; the    *)
(* poller finds the entry of a packet in one and increments it in the next.  *)
(***************************************************************************)
EXTENDS PacketList, Functions

CONSTANTS Streams,       \* guids, natural numbers
          List,          \* the packet list that is transmitted, [seqs, listSize]
          Directional,   \* rxStatsPoller_->isDirectional()
          MaxRuns, MaxPackets, MaxOthers, MaxClears   \* bounds

ASSUME AccountingAssumption ==
    /\ Streams \subseteq Nat /\ List.listSize \in Nat \ {0} /\ Directional \in BOOLEAN
    /\ MaxCounter >= MaxRuns * MaxPackets /\ MaxCounter >= MaxOthers
    /\ MaxRuns \in Nat /\ MaxPackets \in Nat /\ MaxOthers \in Nat /\ MaxClears \in Nat

\* A list of these streams as the scheduler builds it.  Its packetListSize_ is what one
\* pass sends, unless sets take several sequences (StatsAlwaysExact in ScheduleProofs).
ASSUME ListAssumption ==
    LET order == TransmitOrder(List.seqs)
    IN  /\ List.seqs \in Seq(SequenceType) /\ Tiled(List.seqs)
        /\ List.listSize = Len(order)
        /\ \A m \in 1 .. Len(order) : order[m].guid \in Streams
        /\ MaxPackets <= MaxInt
        /\ \A q \in 1 .. Len(List.seqs) : MaxPackets * List.seqs[q].repeatCount <= MaxInt

VARIABLES
    tx,          \* where PcapTxThread is: "idle", "sending", "update", "finish"
    sent,        \* the packets of this transmission, by guid; the thread knows how many:
    lastPkts,    \* lastStats_.pkts; stats_->pkts is this and the number sent
    threadStats, \* PcapTxThread::streamStats_
    posted,      \* finished() signals in the main thread's queue
    slot,        \* updateTxThreadStreamStats(): "idle" or "added"
    stats,       \* AbstractPort::streamStats_, a table
    wire,        \* signed packets for the poller
    ref,         \* the entry the poller is about to increment, or None or Gone
    total, dropped, others,   \* ghost: packets sent, cleared, received from others
    excuse,      \* ghost: races that lose counts
    runs, clears \* used up of the bounds

counts == <<threadStats, stats>>
ghosts == <<total, dropped, others, excuse>>
vars == <<tx, sent, lastPkts, counts, posted, slot, wire, ref, ghosts, runs, clears>>

Wrap == MaxCounter + 1   \* the values of a counter
None == -1
Gone == -2   \* an entry that has been removed from the table
Zero == [g \in Streams |-> 0]
NoEntry == [tx |-> 0, rx |-> 0]
EntryOf(g) == IF g \in DOMAIN stats THEN stats[g] ELSE NoEntry

Order == TransmitOrder(List.seqs)

Init ==
    /\ tx = "idle" /\ sent = <<>> /\ lastPkts = 0 /\ threadStats = Zero /\ posted = 0 /\ slot = "idle"
    /\ stats = <<>> /\ wire = <<>> /\ ref = None
    /\ total = Zero /\ dropped = Zero /\ others = Zero /\ excuse = {}
    /\ runs = 0 /\ clears = 0

-----------------------------------------------------------------------------
(* The transmit thread.                                                      *)

\* start() waits for nothing but the thread: the slot of the last time may not have run.
StartTransmit ==
    /\ tx = "idle" /\ runs < MaxRuns
    /\ runs' = runs + 1 /\ tx' = "sending" /\ sent' = <<>>
    /\ lastPkts' = AsCounter(lastPkts + Len(sent))
    /\ UNCHANGED <<counts, posted, slot, wire, ref, ghosts, clears>>

\* The list loops.
SendPacket ==
    /\ tx = "sending" /\ Len(sent) < MaxPackets
    /\ LET g == Order[(Len(sent) % Len(Order)) + 1].guid
       IN  /\ sent' = Append(sent, g)
           /\ total' = [total EXCEPT ![g] = @ + 1]
           /\ wire' = IF Directional THEN wire ELSE Append(wire, g)
    /\ UNCHANGED <<tx, lastPkts, counts, posted, slot, ref, dropped, others, excuse, runs, clears>>

\* stop() is honoured after a packet.
Stopped ==
    /\ tx = "sending" /\ sent # <<>>
    /\ tx' = "update"
    /\ UNCHANGED <<sent, lastPkts, counts, posted, slot, wire, ref, ghosts, runs, clears>>

\* updateStreamStats()
UpdateStreamStats ==
    /\ tx = "update"
    /\ LET pkts == SentPkts(lastPkts, AsCounter(lastPkts + Len(sent)))
       IN  threadStats' = [g \in Streams |-> AsCounter(
               threadStats[g] + StreamTxPkts(List.seqs, List.listSize, pkts, g))]
    /\ excuse' = excuse \cup (IF slot = "added" THEN {"raced"} ELSE {})
    /\ tx' = "finish"
    /\ UNCHANGED <<sent, lastPkts, posted, slot, stats, wire, ref, total, dropped, others, runs, clears>>

\* finished(), queued for the main thread.
Finished ==
    /\ tx = "finish" /\ tx' = "idle" /\ posted' = posted + 1
    /\ UNCHANGED <<sent, lastPkts, counts, slot, wire, ref, ghosts, runs, clears>>

-----------------------------------------------------------------------------
(* updateTxThreadStreamStats()                                               *)

\* Mutant: a stream that was cleared is not entered again.
SlotAddKnown ==
    /\ posted > 0 /\ slot = "idle"
    /\ posted' = posted - 1 /\ slot' = "added"
    /\ stats' = [g \in DOMAIN stats |->
                   [stats[g] EXCEPT !.tx = (@ + threadStats[g]) % Wrap,
                                    !.rx = IF Directional THEN @
                                           ELSE (@ + Wrap - threadStats[g]) % Wrap]]
    /\ UNCHANGED <<tx, sent, lastPkts, threadStats, wire, ref, ghosts, runs, clears>>

\* Mutant: the port's own packets stay among those received.
SlotAddNoAdjust ==
    /\ posted > 0 /\ slot = "idle"
    /\ posted' = posted - 1 /\ slot' = "added"
    /\ stats' = [g \in DOMAIN stats \cup {h \in Streams : threadStats[h] > 0} |->
                   [EntryOf(g) EXCEPT !.tx = (@ + threadStats[g]) % Wrap]]
    /\ UNCHANGED <<tx, sent, lastPkts, threadStats, wire, ref, ghosts, runs, clears>>

SlotAdd ==
    /\ posted > 0 /\ slot = "idle"
    /\ posted' = posted - 1 /\ slot' = "added"
    /\ stats' = [g \in DOMAIN stats \cup {h \in Streams : threadStats[h] > 0} |->
                   [tx |-> (EntryOf(g).tx + threadStats[g]) % Wrap,
                    rx |-> IF Directional THEN EntryOf(g).rx
                           ELSE (EntryOf(g).rx + Wrap - threadStats[g]) % Wrap]]
    /\ UNCHANGED <<tx, sent, lastPkts, threadStats, wire, ref, ghosts, runs, clears>>

SlotClear ==
    /\ slot = "added" /\ slot' = "idle"
    /\ threadStats' = Zero
    /\ UNCHANGED <<tx, sent, lastPkts, posted, stats, wire, ref, ghosts, runs, clears>>

-----------------------------------------------------------------------------
(* PcapRxStats::run()                                                        *)

\* A packet another port has signed.
OtherPacket ==
    \E g \in Streams :
        /\ others[g] < MaxOthers
        /\ others' = [others EXCEPT ![g] = @ + 1] /\ wire' = Append(wire, g)
        /\ UNCHANGED <<tx, sent, lastPkts, counts, posted, slot, ref, total, dropped, excuse, runs, clears>>

RxFind ==
    /\ wire # <<>> /\ ref = None
    /\ ref' = Head(wire) /\ wire' = Tail(wire)
    /\ stats' = [g \in DOMAIN stats \cup {Head(wire)} |-> EntryOf(g)]
    /\ UNCHANGED <<tx, sent, lastPkts, threadStats, posted, slot, ghosts, runs, clears>>

\* The entry may be gone, and what is incremented then is nobody's.
RxCount ==
    /\ ref # None /\ ref' = None
    /\ stats' = IF ref = Gone THEN stats ELSE [stats EXCEPT ![ref].rx = (@ + 1) % Wrap]
    /\ UNCHANGED <<tx, sent, lastPkts, threadStats, posted, slot, wire, ghosts, runs, clears>>

-----------------------------------------------------------------------------
(* clearStreamStats(), of some streams or of all.                            *)

\* Nothing of the stream is between sender, poller and table.
Quiet(g) ==
    /\ tx = "idle" /\ posted = 0 /\ slot = "idle" /\ threadStats[g] = 0
    /\ g # ref /\ \A n \in DOMAIN wire : wire[n] # g

ClearStreamStats ==
    /\ clears < MaxClears /\ clears' = clears + 1
    /\ \E gs \in SUBSET Streams \ {{}} :
          /\ stats' = Restrict(stats, DOMAIN stats \ gs)
          /\ dropped' = [g \in Streams |-> dropped[g] + (IF g \in gs THEN EntryOf(g).tx ELSE 0)]
          /\ others' = [g \in Streams |-> IF g \in gs THEN 0 ELSE others[g]]
          /\ ref' = IF ref \in gs THEN Gone ELSE ref
          /\ excuse' = excuse \cup (IF \A g \in gs : Quiet(g) THEN {} ELSE {"cleared"})
    /\ UNCHANGED <<tx, sent, lastPkts, threadStats, posted, slot, wire, total, runs>>

-----------------------------------------------------------------------------
Transmit == StartTransmit \/ SendPacket \/ Stopped \/ UpdateStreamStats \/ Finished
MainThread == SlotAdd \/ SlotClear
Poller == RxFind \/ RxCount

Next == Transmit \/ MainThread \/ Poller \/ OtherPacket \/ ClearStreamStats

Spec == Init /\ [][Next]_vars

-----------------------------------------------------------------------------
(***************************************************************************)
(* Properties                                                              *)
(***************************************************************************)
\* Sent in the transmission under way and not accounted for yet.
Underway(g) ==
    IF tx \notin {"sending", "update"} THEN 0
    ELSE CountOf(g, sent)

\* No packet sent is lost from the statistics or counted twice on its way from the
\* transmission to the slot to the table, however transmissions, slots and requests to
\* clear follow each other - except that what a transmission adds while the slot is
\* between adding and clearing is lost.
TxConserved ==
    "raced" \notin excuse =>
        \A g \in Streams :
            total[g] = EntryOf(g).tx + dropped[g] + Underway(g)
                         + (IF slot = "added" THEN 0 ELSE threadStats[g])

\* Once everything is counted, the packets received of a stream are those of other ports,
\* the port's own being taken off - if no counter was cleared on the way, which would
\* leave it below zero, that is near 2^64.
RxAdjusted ==
    excuse = {} => \A g \in Streams : Quiet(g) => EntryOf(g).rx = others[g]

=============================================================================
