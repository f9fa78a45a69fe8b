------------------------------- MODULE TxThread -------------------------------
(***************************************************************************)
(* PcapTxThread: a port's transmit thread and its controller.               *)
(*                                                                          *)
(*   controller   the RPC thread that holds the port's write lock; it calls  *)
(*                start(), stop() and, while nothing runs, rebuilds the      *)
(*                packet list.  start() and stop() poll state_, they do not  *)
(*                wait for the QThread.                                     *)
(*   worker       the QThread: run(), then QThread's own finish()            *)
(*                                                                          *)
(* They share state_ and stop_ (volatile, no lock) and the packet list (no   *)
(* lock).  A packet list is a record [seqs, returnTo] as PacketList.tla      *)
(* builds it.                                                               *)
(***************************************************************************)
EXTENDS PacketList

CONSTANT PacketLists    \* the finished lists the port may load

\* What SequentialSchedule leaves behind (ListsForTheThread in ScheduleProofs).
ASSUME PacketListsAssumption ==
    \A l \in PacketLists :
        /\ l.seqs \in Seq(SequenceType)
        /\ l.returnTo \in {-1, 0}
        /\ Tiled(l.seqs)

VARIABLES
    list,       \* packetSequenceList_ and returnToQIdx_
    state_,     \* "kNotStarted", "kRunning", "kFinished"
    stop_,      \* the request to stop
    qthread,    \* QThread: "idle", "running", "finishing" (isInFinish)
    cpc,        \* controller: "idle", "qstart", "startWait", "stopSet", "stopWait"
    wpc,        \* worker: "none", "enter", "set", "send", "check", "stopped",
                \* "exit", "finish", "ret"
    at,         \* run()'s i (from 1), j, k and the packet p within the sequence
    wire        \* the packets sent in this pass over the list

vars == <<list, state_, stop_, qthread, cpc, wpc, at, wire>>
seqs == list.seqs
Sending == {"set", "send", "check"}
Gone == {"none", "ret"}        \* no thread, or run() has returned

Init ==
    /\ list \in PacketLists
    /\ state_ = "kNotStarted" /\ stop_ = FALSE
    /\ qthread = "idle"
    /\ cpc = "idle" /\ wpc = "none"
    /\ at = [i |-> 1, j |-> 0, k |-> 0, p |-> 1]
    /\ wire = <<>>

-----------------------------------------------------------------------------
(* Controller                                                              *)

\* Mutant: the list is rebuilt whether or not the thread runs.
LoadListAnyTime ==
    /\ cpc = "idle" /\ list' \in PacketLists
    /\ UNCHANGED <<state_, stop_, qthread, cpc, wpc, at, wire>>

\* clearPacketList() and the appends that follow.  clearPacketList() asserts
\* !isRunning(): PortService asks whether its callers keep to that.
LoadList ==
    /\ cpc = "idle" /\ state_ # "kRunning"
    /\ list' \in PacketLists
    /\ UNCHANGED <<state_, stop_, qthread, cpc, wpc, at, wire>>

\* start(): nothing when running, else state_ is reset ...
StartCall ==
    /\ cpc = "idle" /\ state_ # "kRunning"
    /\ state_' = "kNotStarted"
    /\ cpc' = "qstart"
    /\ UNCHANGED <<list, stop_, qthread, wpc, at, wire>>

\* ... QThread::start() waits while the old thread is in finish(), does nothing
\* when it is still running, and else launches run() ...
QThreadStart ==
    /\ cpc = "qstart" /\ qthread # "finishing"
    /\ cpc' = "startWait"
    /\ IF qthread = "idle"
       THEN qthread' = "running" /\ wpc' = "enter"
       ELSE UNCHANGED <<qthread, wpc>>
    /\ UNCHANGED <<list, state_, stop_, at, wire>>

\* Mutant: start() does not wait.
StartReturnAtOnce ==
    /\ cpc = "startWait" /\ cpc' = "idle"
    /\ UNCHANGED <<list, state_, stop_, qthread, wpc, at, wire>>

\* ... and start() sleeps until state_ has left kNotStarted.
StartReturn ==
    /\ cpc = "startWait" /\ state_ # "kNotStarted"
    /\ cpc' = "idle"
    /\ UNCHANGED <<list, state_, stop_, qthread, wpc, at, wire>>

\* stop(): nothing when not running.  The test and the write are two steps.
StopCall ==
    /\ cpc = "idle" /\ state_ = "kRunning"
    /\ cpc' = "stopSet"
    /\ UNCHANGED <<list, state_, stop_, qthread, wpc, at, wire>>

StopSet ==
    /\ cpc = "stopSet"
    /\ stop_' = TRUE
    /\ cpc' = "stopWait"
    /\ UNCHANGED <<list, state_, qthread, wpc, at, wire>>

\* Mutant: stop() does not wait for the thread.
StopReturnAtOnce ==
    /\ cpc = "stopWait" /\ cpc' = "idle"
    /\ UNCHANGED <<list, state_, stop_, qthread, wpc, at, wire>>

StopReturn ==
    /\ cpc = "stopWait" /\ state_ # "kRunning"
    /\ cpc' = "idle"
    /\ UNCHANGED <<list, state_, stop_, qthread, wpc, at, wire>>

-----------------------------------------------------------------------------
(* Worker: run()                                                           *)

RunEnter ==
    /\ wpc = "enter"
    /\ IF seqs = <<>>
       THEN wpc' = "exit" /\ UNCHANGED <<state_, at, wire>>
       ELSE /\ state_' = "kRunning" /\ wpc' = "set"
            /\ at' = [i |-> 1, j |-> 0, k |-> 0, p |-> 1]
            /\ wire' = <<>>
    /\ UNCHANGED <<list, stop_, qthread, cpc>>

\* The top of the while loop: the next packet set, skipped when it has no repeats.
RunNextSet ==
    /\ wpc = "set" /\ at.i <= Len(seqs)
    /\ IF seqs[at.i].repeatCount > 0
       THEN wpc' = "send" /\ at' = [at EXCEPT !.j = 0, !.k = 0, !.p = 1]
       ELSE at' = [at EXCEPT !.i = @ + seqs[at.i].repeatSize] /\ UNCHANGED wpc
    /\ UNCHANGED <<list, state_, stop_, qthread, cpc, wire>>

\* Past the last set: back to returnToQIdx_ in loop mode.
RunLoop ==
    /\ wpc = "set" /\ at.i > Len(seqs) /\ list.returnTo >= 0
    /\ at' = [at EXCEPT !.i = list.returnTo + 1]
    /\ wire' = <<>>
    /\ UNCHANGED <<list, state_, stop_, qthread, cpc, wpc>>

RunEnd ==
    /\ wpc = "set" /\ at.i > Len(seqs) /\ list.returnTo < 0
    /\ wpc' = "exit"
    /\ UNCHANGED <<list, state_, stop_, qthread, cpc, at, wire>>

\* sendQueueTransmit(): a packet is sent, and only then stop_ is looked at.
SendPacket ==
    /\ wpc = "send" /\ at.p <= Len(seqs[at.i + at.k].pkts)
    /\ wire' = Append(wire, seqs[at.i + at.k].pkts[at.p].guid)
    /\ at' = [at EXCEPT !.p = @ + 1]
    /\ wpc' = "check"
    /\ UNCHANGED <<list, state_, stop_, qthread, cpc>>

\* Mutant: stop_ is not looked at while sending.
CheckStopNever ==
    /\ wpc = "check" /\ wpc' = "send"
    /\ UNCHANGED <<list, state_, stop_, qthread, cpc, at, wire>>

CheckStop ==
    /\ wpc = "check"
    /\ wpc' = IF stop_ THEN "stopped" ELSE "send"
    /\ UNCHANGED <<list, state_, stop_, qthread, cpc, at, wire>>

\* Mutant: one sequence more than the set has.
SequenceDoneTooFar ==
    /\ wpc = "send" /\ at.p > Len(seqs[at.i + at.k].pkts)
    /\ LET head == seqs[at.i] IN
       \/ /\ at.k + 1 <= head.repeatSize
          /\ at' = [at EXCEPT !.k = @ + 1, !.p = 1] /\ UNCHANGED wpc
       \/ /\ at.k + 1 > head.repeatSize
          /\ at' = [at EXCEPT !.i = @ + head.repeatSize] /\ wpc' = "set"
    /\ UNCHANGED <<list, state_, stop_, qthread, cpc, wire>>

\* A sequence is through: the next one of the set, the next repeat, the next set.
SequenceDone ==
    /\ wpc = "send" /\ at.p > Len(seqs[at.i + at.k].pkts)
    /\ LET head == seqs[at.i] IN
       \/ /\ at.k + 1 < head.repeatSize
          /\ at' = [at EXCEPT !.k = @ + 1, !.p = 1] /\ UNCHANGED wpc
       \/ /\ at.k + 1 >= head.repeatSize /\ at.j + 1 < head.repeatCount
          /\ at' = [at EXCEPT !.j = @ + 1, !.k = 0, !.p = 1] /\ UNCHANGED wpc
       \/ /\ at.k + 1 >= head.repeatSize /\ at.j + 1 >= head.repeatCount
          /\ at' = [at EXCEPT !.i = @ + head.repeatSize] /\ wpc' = "set"
    /\ UNCHANGED <<list, state_, stop_, qthread, cpc, wire>>

\* The -2 path: the request is consumed.
RunStopped ==
    /\ wpc = "stopped"
    /\ stop_' = FALSE
    /\ wpc' = "exit"
    /\ UNCHANGED <<list, state_, qthread, cpc, at, wire>>

\* Mutant: kFinished is set before the statistics are taken from the list.
RunAccountAfterFinish ==
    /\ wpc = "exit"
    /\ state_' = "kFinished" /\ wpc' = "finish"
    /\ UNCHANGED <<list, stop_, qthread, cpc, at, wire>>

\* _exit: the stream statistics are brought up to date, then state_ is set.
RunAccount ==
    /\ wpc = "exit"
    /\ wpc' = "finish"
    /\ UNCHANGED <<list, state_, stop_, qthread, cpc, at, wire>>

RunFinish ==
    /\ wpc = "finish"
    /\ state_' = "kFinished"
    /\ wpc' = "ret"
    /\ UNCHANGED <<list, stop_, qthread, cpc, at, wire>>

(* QThreadPrivate::finish(): isInFinish while finished() is emitted.        *)
QFinishBegin ==
    /\ wpc = "ret" /\ qthread = "running"
    /\ qthread' = "finishing"
    /\ UNCHANGED <<list, state_, stop_, cpc, wpc, at, wire>>

QFinishEnd ==
    /\ qthread = "finishing"
    /\ qthread' = "idle" /\ wpc' = "none"
    /\ UNCHANGED <<list, state_, stop_, cpc, at, wire>>

-----------------------------------------------------------------------------
ControllerStep == QThreadStart \/ StartReturn \/ StopSet \/ StopReturn
WorkerStep ==
    \/ RunEnter \/ RunNextSet \/ RunLoop \/ RunEnd
    \/ SendPacket \/ CheckStop \/ SequenceDone
    \/ RunStopped \/ RunAccount \/ RunFinish
    \/ QFinishBegin \/ QFinishEnd

Next ==
    \/ LoadList \/ StartCall \/ StopCall
    \/ ControllerStep
    \/ WorkerStep

\* The scheduler runs every runnable thread; nobody has to call start() or stop().
Fairness == WF_vars(ControllerStep) /\ WF_vars(WorkerStep)

Spec == Init /\ [][Next]_vars /\ Fairness

-----------------------------------------------------------------------------
(***************************************************************************)
(* Properties                                                              *)
(***************************************************************************)
Whole == Guids(TransmitOrder(seqs))

\* The type invariant.
TypeOK ==
    /\ list \in PacketLists
    /\ state_ \in {"kNotStarted", "kRunning", "kFinished"}
    /\ stop_ \in BOOLEAN
    /\ qthread \in {"idle", "running", "finishing"}
    /\ cpc \in {"idle", "qstart", "startWait", "stopSet", "stopWait"}
    /\ wpc \in {"none", "enter", "set", "send", "check", "stopped",
                "exit", "finish", "ret"}
    /\ at \in [i : Nat \ {0}, j : Nat, k : Nat, p : Nat \ {0}]
    /\ wire \in Seq(Nat)

\* isRunning() tells the truth to whoever holds the port lock: when state_ is not
\* kRunning and no start() is in progress, no thread is inside run().  It is what
\* Q_ASSERT(!isRunning()) in clearPacketList() stands for.
NotRunningMeansGone == cpc = "idle" /\ state_ # "kRunning" => wpc \in Gone

\* How the two threads hand state_ to each other: the inductive strengthening of
\* NotRunningMeansGone.
Handshake ==
    /\ wpc = "none" <=> qthread = "idle"
    /\ qthread = "finishing" => wpc = "ret"
    /\ wpc = "enter" => cpc = "startWait" /\ state_ = "kNotStarted"
    /\ wpc \in Sending \cup {"stopped"} => state_ = "kRunning"
    /\ wpc \in {"exit", "finish"} =>
          state_ = "kRunning" \/ (state_ = "kNotStarted" /\ cpc = "startWait")
    /\ wpc \in Gone => state_ # "kRunning"
    /\ cpc = "qstart" => state_ = "kNotStarted" /\ wpc \in Gone

\* Where the cursor of run() may stand in a tiled list: the strengthening of
\* ReadsInsideList.
Cursor ==
    \E heads \in SUBSET (1 .. Len(seqs) + 1) :
        /\ TiledBy(seqs, heads)
        /\ wpc \in Sending => at.i \in heads
        /\ wpc \in {"send", "check"} =>
              at.i # Len(seqs) + 1 /\ at.k < seqs[at.i].repeatSize

\* What run() has sent of the set it is in when its cursor stands at i, j, k and p.
SentOfSet(sq, i, j, k, p) ==
    Repeat(SetPackets(sq, i), j) \o PacketsOf(sq, i, k)
        \o SubSeq(SequencePackets(sq[i + k]), 1, p - 1)

\* With w on the wire run() has gone through the list up to the set at index i, and it
\* has sent s of that set.
Walked(sq, i, s, w) ==
    \E n \in 0 .. Len(TransmitOrder(sq)) :
        LET before == SubSeq(TransmitOrder(sq), 1, n)
        IN  TransmitOrder(sq) = before \o TransmitFrom(sq)[i] /\ w = Guids(before \o s)

\* What is on the wire is what the cursor says: the strengthening of
\* ImplementsTransmitter.
Walk ==
    /\ wpc = "set" => Walked(seqs, at.i, <<>>, wire)
    /\ wpc \in {"send", "check"} =>
          /\ Walked(seqs, at.i, SentOfSet(seqs, at.i, at.j, at.k, at.p), wire)
          /\ at.j < seqs[at.i].repeatCount
          /\ at.p <= Len(seqs[at.i + at.k].pkts) + 1
    /\ wpc = "stopped" => stop_

\* A request nobody waits for is seen behind the first packet: the strengthening of
\* LateStopEndsAtFirstPacket.
LateStop ==
    stop_ /\ wpc \in Sending /\ cpc # "stopWait" =>
        IF wpc = "check" THEN Len(wire) = 1 ELSE wire = <<>>

\* The inductive invariant of the transmit thread.
IInv == TypeOK /\ Handshake /\ Cursor

\* The packet list, which has no lock, never changes under a thread that is
\* between the first line of run() and its last.
ListStableInRun == [][list' # list => wpc \in Gone /\ wpc' \in Gone]_vars

\* run() reads the list without a bounds check of its own, at(i) and at(i + k): the
\* walk over the sets never leaves the list.
ReadsInsideList ==
    wpc \in {"send", "check"} => at.i \in 1 .. Len(seqs) /\ at.i + at.k <= Len(seqs)

\* A request to stop that came too late is left behind in stop_.  All it can do is
\* to end the next transmission, and it does so after its first packet: nobody's
\* transmission is cut in the middle without a stop() waiting for it.
LateStopEndsAtFirstPacket ==
    [][wpc = "check" /\ wpc' = "stopped" /\ cpc # "stopWait" => Len(wire) = 1]_vars

\* A start() that found the QThread between the end of run() and finish(): no
\* thread was launched and none is left to move state_.
LostStart == cpc = "startWait" /\ state_ = "kNotStarted" /\ wpc \in Gone

\* A looped list without a packet, which a stream whose frames do not build leaves:
\* stop_ is only looked at behind a packet.
BarrenLoop == list.returnTo >= 0 /\ Whole = <<>>

\* stop() returns, whatever the worker is doing when it is called, unless it goes
\* round a loop without a packet; and start() does, unless it fell into the gap
\* before finish().
CallsReturn ==
    /\ cpc = "stopSet" ~> (cpc = "idle" \/ BarrenLoop)
    /\ cpc = "qstart" ~> (cpc = "idle" \/ LostStart)

\* The thread implements the Transmitter: what was requested is pending until the
\* thread that was cut has set kFinished.
Abs == INSTANCE Transmitter WITH
    running <- state_ = "kRunning",
    pending <- stop_ \/ (state_ = "kRunning" /\ wpc \in {"exit", "finish"} /\ wire # Whole)

\* start(), stop() and run() together are the Transmitter that PortService relies on.
ImplementsTransmitter == Abs!Spec

=============================================================================
