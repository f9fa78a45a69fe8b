------------------------------ MODULE PortProofs ------------------------------
(* What the requests to a port keep, for any number of connections, groups and   *)
(* requests.                                                                    *)
(*                                                                            *)
(* PortService: the discipline of portLock; a port that is not dirty has the     *)
(* packet list of its streams; the ids of its streams are unique; its            *)
(* configuration is stable while it transmits - all of it but for requests that   *)
(* were overtaken between the tests they make without the lock and the lock.      *)
(* When no request changes the port's mode, startTransmit() is never called on a  *)
(* dirty port.                                                                   *)
(*                                                                            *)
(* DeviceManager: the devices are those of the groups, a broadcast reaches those *)
(* of its VLAN, every gateway is asked for, and nothing is learned in another    *)
(* VLAN.                                                                        *)
EXTENDS PortService, DeviceManager, SequenceTheorems, FiniteSetTheorems,
        WellFoundedInduction, TLAPS

\* The handler states and the lock; reply, left and the configuration do not matter.
PcType ==
    /\ pc \in [Conns -> Locked \cup {"idle", "received", "wantLock", "read",
                                     "markRefused", "markAllowed"}]
    /\ writer \in Conns \cup {NoConn}
    /\ readers \subseteq Conns
    /\ req \in [Conns -> Requests \cup {NoRequest}]
    /\ reply \in [Conns -> {"success", "error", "failed"}]

LockInv == PcType /\ LockDiscipline

\* A handler's request is one of those the clients may send.
LEMMA RequestOp ==
    ASSUME NEW r \in Requests \cup {NoRequest}
    PROVE  r.op \in Ops \cup {"read"} /\ r.op \in AllOps
  <1>1. CASE r \in Requests
    <2>1. r.op \in Ops
      BY <1>1 DEF Requests
    <2> QED
      BY <2>1, ServiceAssumption
  <1>2. CASE r = NoRequest
    BY <1>2 DEF NoRequest, AllOps
  <1> QED
    BY <1>1, <1>2

\* A new port has no handler and no holder of its lock.
THEOREM LockInit == Init => LockInv
  <1> SUFFICES ASSUME Init PROVE LockInv
    OBVIOUS
  <1>1. NoRequest \in Requests \cup {NoRequest}
    OBVIOUS
  <1>2. PcType
    BY <1>1 DEF Init, PcType
  <1>3. LockDiscipline
    BY ServiceAssumption DEF Init, LockDiscipline, Locked, NoConn
  <1> QED
    BY <1>2, <1>3 DEF LockInv

\* One step of one connection changes only that connection's place and share of the lock.
LEMMA OneHandler ==
    ASSUME LockInv, NEW c \in Conns, Receive(c) \/ Handle(c)
    PROVE  LockInv'
  <1> USE DEF LockInv, PcType, LockDiscipline, Locked, Goto, Answer, config, handler
  <1>0. req[c].op \in AllOps
    BY RequestOp
  <1>1. CASE Receive(c)
    BY <1>1 DEF Receive
  <1>2. CASE CheckBusy(c)
    BY <1>2 DEF CheckBusy
  <1>3. CASE NoCheck(c)
    BY <1>3 DEF NoCheck
  <1>4. CASE CanModify(c)
    BY <1>4 DEF CanModify
  <1>5. CASE MarkDirty(c)
    BY <1>5 DEF MarkDirty
  <1>6. CASE LockForWrite(c)
    BY <1>0, <1>6, ServiceAssumption DEF LockForWrite, AllOps, StreamOps, TransmitOps, NoConn
  <1>7. CASE LockForRead(c)
    BY <1>7, ServiceAssumption DEF LockForRead, NoConn
  <1>8. CASE AddStream(c)
    BY <1>8 DEF AddStream
  <1>9. CASE DeleteStream(c)
    BY <1>9 DEF DeleteStream
  <1>10. CASE ModifyStream(c)
    BY <1>10 DEF ModifyStream
  <1>11. CASE ModifyPort(c)
    BY <1>11 DEF ModifyPort
  <1>12. CASE DeviceNeighbors(c)
    BY <1>12 DEF DeviceNeighbors
  <1>13. CASE DeviceGroup(c)
    BY <1>13 DEF DeviceGroup
  <1>14. CASE TestDirty(c)
    BY <1>14 DEF TestDirty
  <1>15. CASE UpdatePacketList(c)
    BY <1>15 DEF UpdatePacketList
  <1>16. CASE Start(c)
    BY <1>16 DEF Start
  <1>17. CASE StopTransmit(c)
    BY <1>17 DEF StopTransmit
  <1>18. CASE Unlock(c)
    BY <1>18, ServiceAssumption DEF Unlock, NoConn
  <1>19. CASE Read(c)
    BY <1>19 DEF Read
  <1> QED
    BY <1>1, <1>2, <1>3, <1>4, <1>5, <1>6, <1>7, <1>8, <1>9, <1>10, <1>11, <1>12,
       <1>13, <1>14, <1>15, <1>16, <1>17, <1>18, <1>19 DEF Handle

\* No step of a handler, nor the end of a transmission, breaks the lock's discipline.
THEOREM LockNext == LockInv /\ [Next]_vars => LockInv'
  <1> SUFFICES ASSUME LockInv, [Next]_vars PROVE LockInv'
    OBVIOUS
  <1>1. ASSUME NEW c \in Conns, Receive(c) \/ Handle(c) PROVE LockInv'
    BY <1>1, OneHandler
  <1>2. CASE TransmitEnds
    BY <1>2 DEF TransmitEnds, config, handler, LockInv, PcType, LockDiscipline
  <1>3. CASE UNCHANGED vars
    BY <1>3 DEF vars, LockInv, PcType, LockDiscipline
  <1> QED
    BY <1>1, <1>2, <1>3 DEF Next, Finished

\* portLock gives the port to one writer or to readers, whoever calls what.
THEOREM LockDisciplineHolds == Spec => []LockDiscipline
  <1>1. Spec => []LockInv
    BY LockInit, LockNext, PTL DEF Spec
  <1>2. LockInv => LockDiscipline
    BY DEF LockInv
  <1> QED
    BY <1>1, <1>2, PTL

-----------------------------------------------------------------------------
(* The tests before the lock, and the dirty flag *)

\* Who has passed canModify() has asked for modifyPort.
PcMatchesRequest ==
    \A c \in Conns :
        pc[c] \in {"modifyPort", "markRefused", "markAllowed"} => req[c].op = "modifyPort"

\* Whatever the requests are, a handler is at modifyPort() because it was asked to.
LEMMA MatchesStep ==
    ASSUME LockInv, PcMatchesRequest, NEW c \in Conns, Receive(c) \/ Handle(c)
    PROVE  PcMatchesRequest'
  <1> USE DEF LockInv, PcType, PcMatchesRequest, Goto, Answer, config, handler
  <1>0. req[c].op \in AllOps
    BY RequestOp
  <1>1. CASE Receive(c)
    BY <1>1 DEF Receive
  <1>2. CASE CheckBusy(c) \/ NoCheck(c)
    BY <1>2 DEF CheckBusy, NoCheck
  <1>3. CASE CanModify(c)
    BY <1>3 DEF CanModify
  <1>4. CASE MarkDirty(c)
    BY <1>4 DEF MarkDirty
  <1>5. CASE LockForWrite(c)
    BY <1>5, <1>0 DEF LockForWrite, AllOps, StreamOps, TransmitOps
  <1>6. CASE LockForRead(c) \/ Read(c) \/ Unlock(c)
    BY <1>6 DEF LockForRead, Read, Unlock
  <1>7. CASE AddStream(c) \/ DeleteStream(c) \/ ModifyStream(c)
    BY <1>7 DEF AddStream, DeleteStream, ModifyStream
  <1>8. CASE ModifyPort(c) \/ DeviceNeighbors(c) \/ DeviceGroup(c)
    BY <1>8 DEF ModifyPort, DeviceNeighbors, DeviceGroup
  <1>9. CASE TestDirty(c) \/ UpdatePacketList(c)
    BY <1>9 DEF TestDirty, UpdatePacketList
  <1>10. CASE Start(c) \/ StopTransmit(c)
    BY <1>10 DEF Start, StopTransmit
  <1> QED
    BY <1>1, <1>2, <1>3, <1>4, <1>5, <1>6, <1>7, <1>8, <1>9, <1>10 DEF Handle

\* What the unlocked tests of c found still holds where it is relied on, unless c was
\* overtaken: nothing is transmitted, and a mode to be changed has made the port dirty.
TestHolds(c) ==
    c \notin late =>
        /\ pc[c] \in StreamOps \cup {"markAllowed"} => ~running
        /\ pc[c] = "wantLock" /\ req[c].op \in GuardedOps => ~running
        /\ pc[c] = "modifyPort" \/ (pc[c] = "wantLock" /\ req[c].op = "modifyPort") =>
             req[c].mode = mode \/ (dirty /\ ~running)

TestsHold == LockInv /\ PcMatchesRequest /\ \A c \in Conns : TestHolds(c)

\* A handler's own step: what it relies on next it has just found, or nobody could change
\* since it has the lock; and what it changes while the port transmits it changes late.
LEMMA OwnTest ==
    ASSUME TestsHold, NEW c \in Conns, Receive(c) \/ Handle(c)
    PROVE  /\ TestHolds(c)'
           /\ running /\ c \notin late => streams' = streams /\ mode' = mode
  <1> USE DEF TestsHold, LockInv, PcType, TestHolds, Goto, Answer, config, handler, history
  <1>0. TestHolds(c) /\ req[c].op \in AllOps
    BY RequestOp
  <1>1. CASE Receive(c)
    BY <1>0, <1>1 DEF Receive, StreamOps
  <1>2. CASE CheckBusy(c) \/ NoCheck(c)
    BY <1>0, <1>2 DEF CheckBusy, NoCheck, StreamOps, GuardedOps
  <1>3. CASE CanModify(c)
    BY <1>0, <1>3 DEF CanModify, StreamOps, GuardedOps
  <1>4. CASE MarkDirty(c)
    BY <1>0, <1>4 DEF MarkDirty, StreamOps, PcMatchesRequest, GuardedOps
  <1>5. CASE LockForWrite(c)
    BY <1>0, <1>5 DEF LockForWrite, AllOps, StreamOps, TransmitOps, GuardedOps
  <1>6. CASE LockForRead(c) \/ Read(c) \/ Unlock(c)
    BY <1>0, <1>6 DEF LockForRead, Read, Unlock, StreamOps
  <1>7. CASE AddStream(c) \/ DeleteStream(c) \/ ModifyStream(c)
    BY <1>0, <1>7 DEF AddStream, DeleteStream, ModifyStream, StreamOps
  <1>8. CASE ModifyPort(c) \/ DeviceNeighbors(c) \/ DeviceGroup(c)
    <2>1. streams' = streams /\ running' = running /\ pc'[c] = "unlock"
      BY <1>0, <1>8 DEF ModifyPort, DeviceNeighbors, DeviceGroup
    <2>2. CASE ModifyPort(c)
      <3>1. pc[c] = "modifyPort" /\ mode' = req[c].mode
        BY <2>2 DEF ModifyPort
      <3>2. running /\ c \notin late => req[c].mode = mode
        BY <1>0, <3>1
      <3> QED
        BY <2>1, <3>1, <3>2 DEF StreamOps
    <2>3. CASE DeviceNeighbors(c) \/ DeviceGroup(c)
      BY <2>1, <2>3 DEF DeviceNeighbors, DeviceGroup, StreamOps
    <2> QED
      BY <1>8, <2>2, <2>3
  <1>9. CASE TestDirty(c) \/ UpdatePacketList(c)
    BY <1>0, <1>9 DEF TestDirty, UpdatePacketList, StreamOps
  <1>10. CASE Start(c) \/ StopTransmit(c)
    BY <1>0, <1>10 DEF Start, StopTransmit, StreamOps
  <1> QED
    BY <1>1, <1>2, <1>3, <1>4, <1>5, <1>6, <1>7, <1>8, <1>9, <1>10 DEF Handle

\* Another handler's step: what starts, builds or changes the mode has the lock, and
\* overtakes all who have tested and wait for it.
LEMMA OtherTest ==
    ASSUME TestsHold, NEW c \in Conns, Receive(c) \/ Handle(c), NEW d \in Conns, d # c
    PROVE  TestHolds(d)'
  <1> USE DEF TestsHold, LockInv, PcType, Goto, Answer, config, handler, history
  <1>1. pc'[d] = pc[d] /\ req'[d] = req[d]
    BY DEF Receive, Handle, CheckBusy, NoCheck, CanModify, MarkDirty, LockForWrite,
           LockForRead, AddStream, DeleteStream, ModifyStream, ModifyPort, DeviceNeighbors,
           DeviceGroup, TestDirty, UpdatePacketList, Start, StopTransmit, Unlock, Read
  <1>2. CASE ModifyPort(c) \/ UpdatePacketList(c) \/ Start(c)
    <2>1. pc[c] \in Locked /\ Overtake(c)
      BY <1>2 DEF ModifyPort, UpdatePacketList, Start, Locked
    <2>2. pc[d] \notin Locked
      BY <2>1 DEF LockDiscipline
    <2>3. pc[d] = "markAllowed" => req[d].op = "modifyPort"
      BY DEF PcMatchesRequest
    <2> QED
      BY <1>1, <2>1, <2>2, <2>3 DEF TestHolds, Overtake, Locked, StreamOps
  <1>3. CASE ~(ModifyPort(c) \/ UpdatePacketList(c) \/ Start(c))
    <2>1. running' = running /\ mode' = mode /\ (dirty => dirty')
          /\ late' \in {late, late \ {c}}
      BY <1>3 DEF Receive, Handle, CheckBusy, NoCheck, CanModify, MarkDirty, LockForWrite,
             LockForRead, AddStream, DeleteStream, ModifyStream, DeviceNeighbors,
             DeviceGroup, TestDirty, StopTransmit, Unlock, Read
    <2>2. TestHolds(d) /\ (d \notin late' => d \notin late)
      BY <2>1
    <2> HIDE DEF TestsHold, LockInv, PcType
    <2>3. pc[d] = pc'[d] /\ req[d].op = req'[d].op /\ req[d].mode = req'[d].mode
      BY <1>1
    <2> QED
      BY <2>1, <2>2, <2>3 DEF TestHolds
  <1> QED
    BY <1>2, <1>3

\* A step of one handler leaves a clean port with the list it should have.
LEMMA CleanStep ==
    ASSUME TestsHold, CleanMeansBuilt, NEW c \in Conns, Receive(c) \/ Handle(c)
    PROVE  CleanMeansBuilt'
  <1>1. CASE Receive(c) \/ CheckBusy(c) \/ NoCheck(c) \/ CanModify(c) \/ LockForWrite(c)
             \/ LockForRead(c) \/ Read(c) \/ Unlock(c) \/ DeviceGroup(c) \/ TestDirty(c)
             \/ StopTransmit(c) \/ Start(c)
    <2>1. config' = config /\ lateMode' = lateMode
      BY <1>1 DEF Receive, CheckBusy, NoCheck, CanModify, LockForWrite, LockForRead, Read,
                  Unlock, DeviceGroup, TestDirty, StopTransmit, Start, history
    <2> QED
      BY <2>1 DEF config, CleanMeansBuilt
  <1>2. CASE AddStream(c) \/ DeleteStream(c) \/ ModifyStream(c) \/ DeviceNeighbors(c)
             \/ MarkDirty(c)
    <2>1. (dirty' = TRUE \/ config' = config) /\ lateMode' = lateMode
      BY <1>2 DEF AddStream, DeleteStream, ModifyStream, DeviceNeighbors, MarkDirty,
                  config, history
    <2> QED
      BY <2>1 DEF config, CleanMeansBuilt
  <1>3. CASE UpdatePacketList(c)
    BY <1>3 DEF UpdatePacketList, CleanMeansBuilt, Config
  <1>4. CASE ModifyPort(c)
    <2>1. mode' = req[c].mode /\ streams' = streams /\ dirty' = dirty /\ built' = built
          /\ lateMode' = (IF req[c].mode = mode THEN lateMode ELSE c \in late)
      BY <1>4 DEF ModifyPort
    <2>2. c \in late \/ req[c].mode = mode \/ dirty
      BY <1>4 DEF ModifyPort, TestsHold, TestHolds
    <2> QED
      BY <2>1, <2>2 DEF CleanMeansBuilt
  <1> QED
    BY <1>1, <1>2, <1>3, <1>4 DEF Handle

TestsInv == TestsHold /\ CleanMeansBuilt

\* A new port is clean, and its empty packet list is that of its empty configuration.
LEMMA TestsInit == Init => TestsInv
  BY LockInit DEF Init, TestsInv, TestsHold, TestHolds, PcMatchesRequest, CleanMeansBuilt,
                  Config, StreamOps

\* The invariant is kept, and the configuration of a transmitting port is changed only by
\* a request that was overtaken.
LEMMA TestsNext ==
    ASSUME TestsInv, [Next]_vars
    PROVE  /\ TestsInv'
           /\ [running => \/ streams' = streams /\ mode' = mode
                          \/ \E c \in late : pc[c] \in StreamOps \cup {"modifyPort"}]_vars
  <1>1. LockInv'
    BY LockNext DEF TestsInv, TestsHold
  <1>2. ASSUME NEW c \in Conns, Receive(c) \/ Handle(c)
        PROVE  /\ TestsInv'
               /\ running => \/ streams' = streams /\ mode' = mode
                             \/ \E d \in late : pc[d] \in StreamOps \cup {"modifyPort"}
    <2>1. PcMatchesRequest' /\ CleanMeansBuilt'
      BY <1>2, MatchesStep, CleanStep DEF TestsInv, TestsHold
    <2>2. \A d \in Conns : TestHolds(d)'
      BY <1>2, OwnTest, OtherTest DEF TestsInv
    <2>3. running /\ c \notin late => streams' = streams /\ mode' = mode
      BY <1>2, OwnTest DEF TestsInv
    <2>4. ~(streams' = streams /\ mode' = mode) => pc[c] \in StreamOps \cup {"modifyPort"}
      BY <1>2 DEF Receive, Handle, CheckBusy, NoCheck, CanModify, MarkDirty, LockForWrite,
             LockForRead, AddStream, DeleteStream, ModifyStream, ModifyPort,
             DeviceNeighbors, DeviceGroup, TestDirty, UpdatePacketList, Start,
             StopTransmit, Unlock, Read, config, StreamOps
    <2> QED
      BY <1>1, <2>1, <2>2, <2>3, <2>4 DEF TestsInv, TestsHold
  <1>3. CASE TransmitEnds
    <2>1. config' = config /\ pc' = pc /\ req' = req /\ running' = FALSE /\ history' = history
      BY <1>3 DEF TransmitEnds, handler
    <2> QED
      BY <1>1, <2>1 DEF TestsInv, TestsHold, TestHolds, PcMatchesRequest, CleanMeansBuilt,
                        config, history
  <1>4. CASE UNCHANGED vars
    BY <1>1, <1>4 DEF vars, history, TestsInv, TestsHold, TestHolds, PcMatchesRequest,
                      CleanMeansBuilt
  <1> QED
    BY <1>2, <1>3, <1>4 DEF Next, Finished

\* For any clients and any requests, modifyPort included: a port that is not dirty has the
\* packet list of its streams, and of its mode unless an overtaken modifyPort set that.
THEOREM CleanMeansBuiltHolds == Spec => []CleanMeansBuilt
  <1>1. TestsInv /\ [Next]_vars => TestsInv'
    BY TestsNext
  <1>2. TestsInv => CleanMeansBuilt
    BY DEF TestsInv
  <1> QED
    BY <1>1, <1>2, TestsInit, PTL DEF Spec

\* For any clients and any requests: only a request that was overtaken between its test of
\* isTransmitOn() and the lock changes the streams or the mode of a transmitting port.
THEOREM ConfigStableHolds == Spec => ConfigStableWhileRunning
  <1>1. TestsInv /\ [Next]_vars => TestsInv'
    BY TestsNext
  <1>2. TestsInv /\ [Next]_vars
          => [running => \/ streams' = streams /\ mode' = mode
                         \/ \E c \in late : pc[c] \in StreamOps \cup {"modifyPort"}]_vars
    BY TestsNext
  <1> QED
    BY <1>1, <1>2, TestsInit, PTL DEF Spec, ConfigStableWhileRunning

(* startTransmit() on a dirty port, when nobody changes the mode *)

DirtyInv == LockInv /\ NotDirtyAtStart

\* One step of one handler: only the holder of the lock gets to the start, with a list it
\* found clean or has rebuilt.
LEMMA DirtyStep ==
    ASSUME "modifyPort" \notin Ops, DirtyInv, PcMatchesRequest,
           NEW c \in Conns, Receive(c) \/ Handle(c)
    PROVE  NotDirtyAtStart'
  <1> USE DEF DirtyInv, LockInv, PcType, Goto, Answer
  <1>0. req[c].op \in Ops \cup {"read"} /\ req[c].op # "modifyPort"
    BY RequestOp
  <1>1. pc[c] \notin {"modifyPort", "markRefused", "markAllowed"}
    BY <1>0 DEF PcMatchesRequest
  <1>2. ASSUME pc[c] \in Locked, NEW d \in Conns, d # c PROVE pc[d] # "start"
    BY <1>2 DEF LockDiscipline, Locked
  <1>3. CASE Receive(c) \/ CheckBusy(c) \/ NoCheck(c) \/ LockForRead(c) \/ Read(c)
             \/ Unlock(c) \/ DeviceGroup(c) \/ StopTransmit(c) \/ Start(c)
    <2>1. dirty' = dirty /\ \A d \in Conns : pc'[d] = "start" => pc[d] = "start"
      BY <1>3 DEF Receive, CheckBusy, NoCheck, LockForRead, Read, Unlock, DeviceGroup,
                  StopTransmit, Start, config
    <2> QED
      BY <2>1 DEF NotDirtyAtStart
  <1>4. CASE LockForWrite(c)
    <2>1. dirty' = dirty /\ \A d \in Conns : pc'[d] = "start" => pc[d] = "start"
      BY <1>4, RequestOp DEF LockForWrite, AllOps, StreamOps, TransmitOps, config
    <2> QED
      BY <2>1 DEF NotDirtyAtStart
  <1>5. CASE TestDirty(c)
    BY <1>5 DEF TestDirty, config, NotDirtyAtStart
  <1>6. CASE AddStream(c) \/ DeleteStream(c) \/ ModifyStream(c) \/ DeviceNeighbors(c)
    <2>1. pc[c] \in Locked /\ pc' = [pc EXCEPT ![c] = "unlock"]
      BY <1>6 DEF AddStream, DeleteStream, ModifyStream, DeviceNeighbors, Locked
    <2> QED
      BY <2>1, <1>2 DEF NotDirtyAtStart
  <1>7. CASE UpdatePacketList(c)
    BY <1>7 DEF UpdatePacketList, NotDirtyAtStart
  <1>8. CASE CanModify(c) \/ MarkDirty(c) \/ ModifyPort(c)
    BY <1>8, <1>0, <1>1 DEF CanModify, MarkDirty, ModifyPort
  <1> QED
    BY <1>3, <1>4, <1>5, <1>6, <1>7, <1>8 DEF Handle

\* startTransmit() finds the port clean, as its assertion says, as long as nobody
\* sends modifyPort.
THEOREM NotDirtyAtStartHolds ==
    ASSUME "modifyPort" \notin Ops
    PROVE  Spec => []NotDirtyAtStart
  <1>1. Init => DirtyInv
    BY LockInit DEF Init, DirtyInv, NotDirtyAtStart
  <1>2. TestsInv /\ DirtyInv /\ [Next]_vars => DirtyInv'
    <2> SUFFICES ASSUME TestsInv, DirtyInv, [Next]_vars PROVE DirtyInv'
      OBVIOUS
    <2>1. LockInv'
      BY LockNext DEF DirtyInv
    <2>2. ASSUME NEW c \in Conns, Receive(c) \/ Handle(c) PROVE NotDirtyAtStart'
      BY <2>2, DirtyStep DEF TestsInv, TestsHold
    <2>3. CASE TransmitEnds \/ UNCHANGED vars
      <3>1. (dirty' => dirty) /\ pc' = pc
        BY <2>3 DEF TransmitEnds, vars, config
      <3> QED
        BY <2>1, <3>1 DEF DirtyInv, NotDirtyAtStart
    <2> QED
      BY <2>1, <2>2, <2>3 DEF Next, Finished, DirtyInv
  <1>3. TestsInv /\ [Next]_vars => TestsInv'
    BY TestsNext
  <1>4. DirtyInv => NotDirtyAtStart
    BY DEF DirtyInv
  <1> QED
    BY <1>1, <1>2, <1>3, <1>4, TestsInit, PTL DEF Spec

-----------------------------------------------------------------------------
(* The streams, whatever is requested                                      *)

StreamRecords == [id : StreamIds \cup {NoRequest.id}, ver : Versions]

StreamsInv ==
    /\ req \in [Conns -> Requests \cup {NoRequest}]
    /\ streams \in Seq(StreamRecords)
    /\ StreamIdsUnique

\* The fields of a request that become those of a stream.
LEMMA RequestFields ==
    ASSUME NEW r \in Requests \cup {NoRequest}
    PROVE  r.id \in StreamIds \cup {NoRequest.id} /\ r.ver \in Versions
  BY DEF Requests, NoRequest, Versions

\* Appending a stream the id of which is not there keeps the ids unique.
LEMMA AppendUnique ==
    ASSUME NEW s \in Seq(StreamRecords), NEW t \in StreamRecords,
           \A m, n \in 1 .. Len(s) : s[m].id = s[n].id => m = n,
           t.id \notin {s[n].id : n \in 1 .. Len(s)}
    PROVE  LET u == Append(s, t)
           IN  /\ u \in Seq(StreamRecords)
               /\ \A m, n \in 1 .. Len(u) : u[m].id = u[n].id => m = n
  <1> DEFINE u == Append(s, t)
  <1>1. u \in Seq(StreamRecords) /\ Len(u) = Len(s) + 1 /\ u[Len(s) + 1] = t
    OBVIOUS
  <1>2. \A n \in 1 .. Len(s) : u[n] = s[n]
    OBVIOUS
  <1>3. ASSUME NEW m \in 1 .. Len(u), NEW n \in 1 .. Len(u), u[m].id = u[n].id
        PROVE  m = n
    <2>1. (m \in 1 .. Len(s) \/ m = Len(s) + 1) /\ (n \in 1 .. Len(s) \/ n = Len(s) + 1)
      BY <1>1
    <2>2. CASE m \in 1 .. Len(s) /\ n \in 1 .. Len(s)
      BY <2>2, <1>2, <1>3
    <2>3. CASE m \in 1 .. Len(s) /\ n = Len(s) + 1
      BY <2>3, <1>1, <1>2, <1>3
    <2>4. CASE m = Len(s) + 1 /\ n \in 1 .. Len(s)
      BY <2>4, <1>1, <1>2, <1>3
    <2> QED
      BY <2>1, <2>2, <2>3, <2>4
  <1> QED
    BY <1>1, <1>3

\* Taking one stream out keeps the ids of the others unique.
LEMMA RemoveUnique ==
    ASSUME NEW s \in Seq(StreamRecords), NEW k \in 1 .. Len(s),
           \A m, n \in 1 .. Len(s) : s[m].id = s[n].id => m = n
    PROVE  LET u == SubSeq(s, 1, k - 1) \o SubSeq(s, k + 1, Len(s))
           IN  /\ u \in Seq(StreamRecords)
               /\ \A m, n \in 1 .. Len(u) : u[m].id = u[n].id => m = n
  <1> DEFINE a == SubSeq(s, 1, k - 1)
             b == SubSeq(s, k + 1, Len(s))
             u == a \o b
             Old(n) == IF n < k THEN n ELSE n + 1
  <1>0. Len(s) \in Nat /\ k \in Nat
    OBVIOUS
  <1>1. a \in Seq(StreamRecords) /\ Len(a) = k - 1 /\ \A n \in 1 .. k - 1 : a[n] = s[n]
    BY <1>0
  <1>2. b \in Seq(StreamRecords) /\ Len(b) = Len(s) - k
        /\ \A n \in 1 .. Len(s) - k : b[n] = s[n + k]
    BY <1>0
  <1> HIDE DEF a, b
  <1>3. u \in Seq(StreamRecords) /\ Len(u) = Len(s) - 1
    <2>1. u \in Seq(StreamRecords) /\ Len(u) = Len(a) + Len(b)
      BY <1>1, <1>2, ConcatProperties
    <2>2. (k - 1) + (Len(s) - k) = Len(s) - 1
      BY <1>0
    <2> HIDE DEF u
    <2> QED
      BY <2>1, <2>2, <1>1, <1>2
  <1>4. ASSUME NEW n \in 1 .. Len(u)
        PROVE  Old(n) \in 1 .. Len(s) /\ u[n] = s[Old(n)]
    <2>1. CASE n < k
      BY <2>1, <1>0, <1>1, <1>2, <1>3
    <2>2. CASE n >= k
      <3>1. u[n] = b[n - (k - 1)] /\ n - (k - 1) \in 1 .. Len(s) - k
        BY <2>2, <1>0, <1>1, <1>2, <1>3
      <3>2. n - (k - 1) + k = n + 1
        BY <1>0
      <3> QED
        BY <2>2, <3>1, <3>2, <1>0, <1>2, <1>3
    <2> QED
      BY <2>1, <2>2, <1>0
  <1>5. ASSUME NEW m \in 1 .. Len(u), NEW n \in 1 .. Len(u), u[m].id = u[n].id
        PROVE  m = n
    <2>1. Old(m) = Old(n)
      BY <1>4, <1>5
    <2> QED
      BY <2>1, <1>0, <1>3
  <1>6. u = SubSeq(s, 1, k - 1) \o SubSeq(s, k + 1, Len(s))
    BY DEF a, b
  <1> QED
    BY <1>3, <1>5, <1>6

\* A new port has no streams.
LEMMA StreamsInit == Init => StreamsInv
  BY DEF Init, StreamsInv, StreamIdsUnique

\* addStream appends only an id that is not there, deleteStream takes one stream out,
\* modifyStream leaves every id where it is, and no other step touches the streams.
LEMMA StreamsStep ==
    ASSUME StreamsInv, NEW c \in Conns, Receive(c) \/ Handle(c)
    PROVE  StreamsInv'
  <1> USE DEF StreamsInv
  <1>1. CASE Receive(c)
    BY <1>1 DEF Receive, config, StreamIdsUnique
  <1>2. CASE ~Receive(c)
    <2>1. Handle(c)
      BY <1>2
    <2>2. req' = req
      BY <2>1 DEF Handle, CheckBusy, NoCheck, CanModify, MarkDirty, LockForWrite,
                  LockForRead, AddStream, DeleteStream, ModifyStream, ModifyPort,
                  DeviceNeighbors, DeviceGroup, TestDirty, UpdatePacketList, Start,
                  StopTransmit, Unlock, Read, handler
    <2>3. CASE streams' = streams
      BY <2>2, <2>3 DEF StreamIdsUnique
    <2>4. CASE AddStream(c) /\ streams' # streams
      <3> DEFINE t == [id |-> req[c].id, ver |-> 0]
      <3>1. req[c].id \notin Ids /\ streams' = Append(streams, t)
        BY <2>4 DEF AddStream, config
      <3>2. t \in StreamRecords
        BY RequestFields DEF StreamRecords, Versions
      <3>3. t.id \notin {streams[n].id : n \in 1 .. Len(streams)}
        BY <3>1 DEF Ids
      <3> HIDE DEF t
      <3> QED
        BY <2>2, <3>1, <3>2, <3>3, AppendUnique DEF StreamIdsUnique
    <2>5. CASE DeleteStream(c) /\ streams' # streams
      <3>1. PICK k \in 1 .. Len(streams) :
                streams' = SubSeq(streams, 1, k - 1) \o SubSeq(streams, k + 1, Len(streams))
        BY <2>5 DEF DeleteStream, config
      <3> QED
        BY <2>2, <3>1, RemoveUnique DEF StreamIdsUnique
    <2>6. CASE ModifyStream(c) /\ streams' # streams
      <3>1. streams' = [n \in 1 .. Len(streams) |->
                          IF streams[n].id = req[c].id
                          THEN [streams[n] EXCEPT !.ver = req[c].ver]
                          ELSE streams[n]]
        BY <2>6 DEF ModifyStream, config
      <3>2. \A n \in 1 .. Len(streams) :
                streams'[n] \in StreamRecords /\ streams'[n].id = streams[n].id
        <4> TAKE n \in 1 .. Len(streams)
        <4>1. streams[n] \in StreamRecords /\ req[c].ver \in Versions
          BY RequestFields
        <4>2. streams'[n] = streams[n] \/ streams'[n] = [streams[n] EXCEPT !.ver = req[c].ver]
          BY <3>1
        <4> QED
          BY <4>1, <4>2 DEF StreamRecords
      <3>3. Len(streams) \in Nat /\ Len(streams') = Len(streams)
            /\ streams' \in Seq(StreamRecords)
        BY <3>1, <3>2
      <3> QED
        BY <2>2, <3>2, <3>3 DEF StreamIdsUnique
    <2> QED
      BY <2>1, <2>3, <2>4, <2>5, <2>6
         DEF Handle, CheckBusy, NoCheck, CanModify, MarkDirty, LockForWrite,
             LockForRead, ModifyPort, DeviceNeighbors, DeviceGroup, TestDirty,
             UpdatePacketList, Start, StopTransmit, Unlock, Read, config
  <1> QED
    BY <1>1, <1>2

\* However many clients add, delete and modify streams, no id is there twice: the look-up
\* and the change are under one lock.
THEOREM StreamIdsUniqueHolds == Spec => []StreamIdsUnique
  <1>1. StreamsInv /\ [Next]_vars => StreamsInv'
    <2> SUFFICES ASSUME StreamsInv, [Next]_vars PROVE StreamsInv'
      OBVIOUS
    <2>1. ASSUME NEW c \in Conns, Receive(c) \/ Handle(c) PROVE StreamsInv'
      BY <2>1, StreamsStep
    <2>2. CASE TransmitEnds \/ UNCHANGED vars
      BY <2>2 DEF TransmitEnds, vars, config, handler, StreamsInv, StreamIdsUnique
    <2> QED
      BY <2>1, <2>2 DEF Next, Finished
  <1>2. Spec => []StreamsInv
    BY <1>1, StreamsInit, PTL DEF Spec
  <1>3. StreamsInv => StreamIdsUnique
    BY DEF StreamsInv
  <1> QED
    BY <1>2, <1>3, PTL

-----------------------------------------------------------------------------
(* DeviceManager: what the tables of the devices are.                        *)

\* The tables: devices with an object each, found by their keys, and entries that name a
\* device and its VLANs.
DeviceKeys == [vlans : Seq(Nat), mac : Nat]
Caches == UNION {[ips -> {0, 1}] : ips \in SUBSET {Peer}}
DeviceType == [key : DeviceKeys, ip : Nat, arp : Caches]
TableSet == [devs : UNION {[objects -> DeviceType] : objects \in SUBSET Nat},
             list : UNION {[keys -> Nat] : keys \in SUBSET DeviceKeys},
             bcast : Seq([vlans : Seq(Nat), dev : Nat])]
Typed(t) == t \in TableSet /\ IsFiniteSet(DOMAIN t.devs)

\* The table of keys and the devices' keys are inverse to each other.
Paired(t) ==
    /\ \A key \in DOMAIN t.list : t.list[key] \in DOMAIN t.devs /\ t.devs[t.list[key]].key = key
    /\ \A o \in DOMAIN t.devs : t.devs[o].key \in DOMAIN t.list /\ t.list[t.devs[o].key] = o

\* No device has two entries, and an entry whose device exists is in its VLANs.
Distinct(t) == \A m, n \in DOMAIN t.bcast : t.bcast[m].dev = t.bcast[n].dev => m = n
InOwnVlans(t) ==
    \A n \in DOMAIN t.bcast :
        t.bcast[n].dev \in DOMAIN t.devs => t.devs[t.bcast[n].dev].key.vlans = t.bcast[n].vlans

\* There are as many entries for a VLAN as devices in it, though perhaps not theirs.
EntriesIn(t, vlans) == {e \in {t.bcast[n] : n \in DOMAIN t.bcast} : e.vlans = vlans}
DevicesIn(t, vlans) == {o \in DOMAIN t.devs : t.devs[o].key.vlans = vlans}
Balanced(t) ==
    \A vlans \in Seq(Nat) : Cardinality(EntriesIn(t, vlans)) = Cardinality(DevicesIn(t, vlans))

TablesInv(t) == Typed(t) /\ Paired(t) /\ Distinct(t) /\ InOwnVlans(t) /\ Balanced(t)

\* Outside the given VLANs every entry is a device's and every device has an entry.
Reaches(t, except) ==
    /\ \A n \in DOMAIN t.bcast : t.bcast[n].vlans \notin except => t.bcast[n].dev \in DOMAIN t.devs
    /\ \A o \in DOMAIN t.devs :
          t.devs[o].key.vlans \notin except => \E n \in DOMAIN t.bcast : t.bcast[n].dev = o

\* What is left of the devices found for the packet is in the packet's VLANs.
FoundInVlan(t) ==
    \A n \in DOMAIN rx.found :
        rx.found[n] \in DOMAIN t.devs /\ rx.tgt # NoIp =>
            t.devs[rx.found[n]].key.vlans = TagIds(rx.tags)

\* The tags of the groups gs that have the TPID, by group and level.
UsersOf(gs, tpid) ==
    {u \in (DOMAIN gs) \X Nat : u[2] \in DOMAIN gs[u[1]].tags /\ gs[u[1]].tags[u[2]].tpid = tpid}
TpidsOf(gs) == UNION {Tpids(gs[id]) : id \in DOMAIN gs}
Counted(f, gs) ==
    /\ DOMAIN f = TpidsOf(gs)
    /\ \A tpid \in DOMAIN f :
          IsFiniteSet(UsersOf(gs, tpid)) /\ f[tpid] = Cardinality(UsersOf(gs, tpid))

\* No two of the groups gs have a device with the same key, and keys are theirs.
KeysApart(gs, keys) ==
    /\ \A i, j \in DOMAIN gs : i # j => Keys(gs[i]) \cap Keys(gs[j]) = {}
    /\ keys = UNION {Keys(gs[i]) : i \in DOMAIN gs}

\* No two of the groups have a device in the same VLAN.
VlansApart(gs) ==
    \A i, j \in DOMAIN gs : i # j => VlanSets(gs[i]) \cap VlanSets(gs[j]) = {}

\* What the groups gs, the tables t, the counts f and the excuse e are to each other.
Consistent(gs, t, f, e) ==
    /\ gs \in [DOMAIN gs -> Groups] /\ Counted(f, gs)
    /\ TablesInv(t) /\ FoundInVlan(t)
    /\ "key" \notin e => KeysApart(gs, DOMAIN t.list)
    /\ "vlan" \notin e => VlansApart(gs)
    /\ e \cap {"key", "vlan"} = {} => Reaches(t, {})

\* The inductive invariant.
DeviceInv ==
    /\ rx.found \in Seq(Nat) /\ DOMAIN rx = {"tags", "tgt", "found"}
    /\ Consistent(groups, Tables, tpids, excuse)
    /\ GatewaysAsked

\* A step in which a device learns only in its own VLAN.
LearnsInVlan ==
    \A o \in DOMAIN devs \cap DOMAIN devs' :
        Known(devs'[o]) /\ ~Known(devs[o]) =>
            devs[o].key.vlans = TagIds(rx.tags) /\ devs[o].ip = rx.tgt

-----------------------------------------------------------------------------
(* Numbers.                                                                  *)

\* A set of naturals has a least element: otherwise the intervals 1 .. n would descend
\* for ever in the well-founded order of finite sets.
LEMMA LeastNumber ==
    ASSUME NEW T \in SUBSET Nat, T # {}
    PROVE  \E n \in T : \A m \in T : n <= m
  <1> DEFINE U == {1 .. n : n \in T}
             R == StrictSubsetOrdering(Nat)
             F == FiniteSubsetsOf(Nat)
  <1>1. \E x \in U : \A y \in U : ~ (<<y, x>> \in R)
    <2>1. IsWellFoundedOn(R, F)
      BY FS_StrictSubsetOrderingWellFounded
    <2>2. U \subseteq F /\ U # {}
      <3>1. ASSUME NEW n \in T PROVE IsFiniteSet(1 .. n) /\ 1 .. n \in SUBSET Nat
        <4>1. 1 \in Int /\ n \in Int
          OBVIOUS
        <4> QED
          BY <4>1, FS_Interval
      <3> QED
        BY <3>1 DEF FiniteSubsetsOf
    <2> HIDE DEF R, U, F
    <2> QED
      BY <2>1, <2>2, WFMin
  <1>2. PICK n \in T : \A m \in T : ~ (<<1 .. m, 1 .. n>> \in R)
    BY <1>1
  <1>3. ASSUME NEW m \in T, m < n PROVE FALSE
    <2>1. /\ 1 .. m \subseteq Nat /\ 1 .. n \subseteq Nat
          /\ 1 .. m \subseteq 1 .. n /\ n \in 1 .. n /\ n \notin 1 .. m
      BY <1>3
    <2> QED
      BY <2>1, <1>2 DEF StrictSubsetOrdering
  <1> QED
    BY <1>2, <1>3

\* Induction over the naturals.
LEMMA Induction ==
    ASSUME NEW S \in SUBSET Nat, 0 \in S, \A n \in S : n + 1 \in S
    PROVE  S = Nat
  <1>1. SUFFICES ASSUME Nat \ S # {} PROVE FALSE
    OBVIOUS
  <1>2. PICK n \in Nat \ S : \A m \in Nat \ S : n <= m
    BY <1>1, LeastNumber
  <1>3. n - 1 \in S
    BY <1>2
  <1> QED
    BY <1>2, <1>3
\* A bounded set has its greatest number.
LEMMA GreatestNumber ==
    ASSUME NEW T \in SUBSET Int, T # {}, NEW b \in Int, \A x \in T : x <= b
    PROVE  Max(T) \in T /\ \A x \in T : Max(T) >= x
  <1> DEFINE U == {b - x : x \in T}
  <1>1. U \in SUBSET Nat /\ U # {}
    <2>1. \A x \in T : b - x \in Nat
      OBVIOUS
    <2>2. PICK x \in T : TRUE
      OBVIOUS
    <2>3. b - x \in U
      OBVIOUS
    <2> QED
      BY <2>1, <2>3
  <1>2. PICK u \in U : \A v \in U : u <= v
    BY <1>1, LeastNumber
  <1>3. PICK y \in T : u = b - y
    BY <1>2
  <1>4. \A x \in T : y >= x
    <2> SUFFICES ASSUME NEW x \in T PROVE y >= x
      OBVIOUS
    <2>1. b - y <= b - x
      BY <1>2, <1>3
    <2> QED
      BY <2>1
  <1> QED
    BY <1>4 DEF Max

\* Finitely many numbers are bounded.
LEMMA NumbersBounded ==
    ASSUME NEW k \in Nat, NEW v \in [1 .. k -> Nat]
    PROVE  \E b \in Nat : \A n \in 1 .. k : v[n] <= b
  <1> DEFINE Up(m) == m <= k => \E b \in Nat : \A n \in 1 .. m : v[n] <= b
             S == {m \in Nat : Up(m)}
  <1>1. 0 \in S
    <2>1. 0 \in Nat /\ \A n \in 1 .. 0 : v[n] <= 0
      OBVIOUS
    <2> QED
      BY <2>1
  <1>2. ASSUME NEW m \in S PROVE m + 1 \in S
    <2>1. m \in Nat
      OBVIOUS
    <2> SUFFICES ASSUME m + 1 <= k PROVE \E b \in Nat : \A n \in 1 .. m + 1 : v[n] <= b
      BY <2>1
    <2>2. PICK b \in Nat : \A n \in 1 .. m : v[n] <= b
      BY <2>1
    <2>3. v[m + 1] \in Nat
      BY <2>1
    <2>4. b + v[m + 1] \in Nat /\ \A n \in 1 .. m + 1 : v[n] <= b + v[m + 1]
      BY <2>1, <2>2, <2>3
    <2> QED
      BY <2>4
  <1>3. S = Nat
    <2>1. S \in SUBSET Nat
      OBVIOUS
    <2> HIDE DEF S
    <2> QED
      BY <1>1, <1>2, <2>1, Induction
  <1>4. Up(k)
    <2> HIDE DEF Up
    <2> QED
      BY <1>3
  <1> QED
    BY <1>4

\* A finite set of numbers is bounded.
LEMMA FiniteBounded ==
    ASSUME NEW T \in SUBSET Nat, IsFiniteSet(T)
    PROVE  \E b \in Nat : \A x \in T : x <= b
  <1> DEFINE k == Cardinality(T)
  <1>1. k \in Nat /\ ExistsBijection(1 .. k, T)
    BY FS_CardinalityType
  <1>2. PICK f \in [1 .. k -> T] : \A x \in T : \E n \in 1 .. k : f[n] = x
    BY <1>1 DEF ExistsBijection, Bijection, Surjection, Injection
  <1> HIDE DEF k
  <1>3. f \in [1 .. k -> Nat]
    BY <1>2
  <1>4. PICK b \in Nat : \A n \in 1 .. k : f[n] <= b
    BY <1>1, <1>3, NumbersBounded
  <1> QED
    BY <1>2, <1>4

\* f has the first value a, and each of the others by a step from the one before it.
Steps(f, W, a, N, step) ==
    f \in [0 .. N -> W] /\ f[0] = a /\ \A n \in 1 .. N : f[n] = step[n][f[n - 1]]

\* There is such a function.
LEMMA Recursion ==
    ASSUME NEW W, NEW a \in W, NEW N \in Nat, NEW step \in [1 .. N -> [W -> W]]
    PROVE  \E f : Steps(f, W, a, N, step)
  <1> DEFINE Good(f, k) ==
                f \in [0 .. k -> W] /\ f[0] = a /\ \A n \in 1 .. k : f[n] = step[n][f[n - 1]]
             Up(k) == k <= N => \E f : Good(f, k)
             S == {k \in Nat : Up(k)}
  <1>1. 0 \in S
    <2> DEFINE f == [n \in 0 .. 0 |-> a]
    <2>1. f \in [0 .. 0 -> W] /\ f[0] = a
      OBVIOUS
    <2> HIDE DEF f
    <2>2. Good(f, 0)
      BY <2>1
    <2>3. Up(0)
      BY <2>2
    <2> QED
      BY <2>3
  <1>2. ASSUME NEW k \in S PROVE k + 1 \in S
    <2>1. k \in Nat /\ Up(k)
      OBVIOUS
    <2>2. ASSUME k + 1 <= N PROVE \E f : Good(f, k + 1)
      <3>1. PICK f : Good(f, k)
        BY <2>1, <2>2
      <3> DEFINE g == [n \in 0 .. k + 1 |-> IF n <= k THEN f[n] ELSE step[n][f[n - 1]]]
      <3>2. \A n \in 0 .. k : n \in 0 .. k + 1 /\ n <= k /\ g[n] = f[n] /\ f[n] \in W
        BY <2>1, <3>1
      <3>3. k + 1 \in 0 .. k + 1 /\ ~ (k + 1 <= k) /\ k + 1 - 1 = k /\ k \in 0 .. k
        BY <2>1
      <3>4. g[k + 1] = step[k + 1][f[k]]
        BY <3>3
      <3>5. step[k + 1] \in [W -> W] /\ f[k] \in W
        BY <2>1, <2>2, <3>1
      <3>6. g[k + 1] \in W
        BY <3>4, <3>5
      <3>7. \A n \in 0 .. k + 1 : n \in 0 .. k \/ n = k + 1
        BY <2>1
      <3>8. g \in [0 .. k + 1 -> W]
        <4>1. \A n \in 0 .. k + 1 : g[n] \in W
          BY <3>2, <3>6, <3>7
        <4> QED
          BY <4>1
      <3>9. g[0] = a
        BY <2>1, <3>1, <3>2
      <3>10. ASSUME NEW n \in 1 .. k + 1 PROVE g[n] = step[n][g[n - 1]]
        <4>0. n - 1 \in 0 .. k /\ g[n - 1] = f[n - 1]
          BY <2>1, <3>2
        <4>1. CASE n = k + 1
          BY <3>4, <3>3, <4>0, <4>1
        <4>2. CASE n # k + 1
          <5>1. n \in 1 .. k /\ n \in 0 .. k
            BY <2>1, <4>2
          <5>2. g[n] = f[n] /\ f[n] = step[n][f[n - 1]]
            BY <3>1, <3>2, <5>1
          <5> QED
            BY <4>0, <5>2
        <4> QED
          BY <4>1, <4>2
      <3> HIDE DEF g
      <3>11. Good(g, k + 1)
        BY <3>8, <3>9, <3>10
      <3> QED
        BY <3>11
    <2> HIDE DEF Good
    <2>3. Up(k + 1)
      BY <2>2
    <2> HIDE DEF Up
    <2> QED
      BY <2>1, <2>3
  <1>3. S = Nat
    <2>1. S \in SUBSET Nat
      OBVIOUS
    <2> HIDE DEF S
    <2> QED
      BY <1>1, <1>2, <2>1, Induction
  <1>4. \E f : Good(f, N)
    <2>1. Up(N)
      <3> HIDE DEF Up
      <3> QED
        BY <1>3
    <2> QED
      BY <2>1
  <1> QED
    BY <1>4 DEF Steps

-----------------------------------------------------------------------------
(* The devices of a group.                                                   *)

\* The product of two naturals is one, and positive if they are.
LEMMA NatTimes ==
    ASSUME NEW a \in Nat, NEW b \in Nat
    PROVE  /\ a * b \in Nat
           /\ a # 0 /\ b # 0 => a * b # 0
  OBVIOUS

\* So are quotient and remainder.
LEMMA NatDivide ==
    ASSUME NEW a \in Nat, NEW b \in Nat \ {0}
    PROVE  a \div b \in Nat /\ a % b \in Nat
  OBVIOUS

\* The function VlanCount takes its value from, and that there is one.
Counting(f, g) ==
    f = [l \in 0 .. Len(g.tags) |->
            IF l = 0 THEN 1 ELSE g.tags[Len(g.tags) + 1 - l].count * f[l - 1]]
LEMMA CountingExists ==
    ASSUME NEW g \in Groups
    PROVE  \E f : Counting(f, g)
  <1> DEFINE N == Len(g.tags)
             W == Nat \ {0}
             c(n) == g.tags[N + 1 - n].count
             step == [n \in 1 .. N |-> [x \in W |-> c(n) * x]]
  <1>1. N \in Nat /\ \A n \in 1 .. N : c(n) \in Nat \ {0}
    <2>1. g.tags \in Seq(Levels)
      BY DEF Groups
    <2>2. N \in Nat
      BY <2>1
    <2>3. ASSUME NEW n \in 1 .. N PROVE c(n) \in Nat \ {0}
      <3>1. N + 1 - n \in 1 .. N
        BY <2>2
      <3>2. g.tags[N + 1 - n] \in Levels
        BY <2>1, <3>1
      <3> QED
        BY <3>2 DEF Levels
    <2> QED
      BY <2>2, <2>3
  <1> HIDE DEF N, c
  <1>2. \A n \in 1 .. N : \A x \in W : c(n) * x \in W
    BY <1>1, NatTimes
  <1>3. step \in [1 .. N -> [W -> W]]
    BY <1>2
  <1>4. \A n \in 1 .. N : \A x \in W : step[n][x] = c(n) * x
    OBVIOUS
  <1> HIDE DEF step
  <1>5. 1 \in W
    OBVIOUS
  <1> HIDE DEF W
  <1>6. PICK f \in [0 .. N -> W] : f[0] = 1 /\ \A n \in 1 .. N : f[n] = step[n][f[n - 1]]
    BY <1>1, <1>3, <1>5, Recursion DEF Steps
  <1>7. ASSUME NEW n \in 0 .. N PROVE f[n] = IF n = 0 THEN 1 ELSE c(n) * f[n - 1]
    <2>1. CASE n = 0
      BY <1>6, <2>1
    <2>2. CASE n # 0
      <3>1. n \in 1 .. N /\ n - 1 \in 0 .. N
        BY <1>1, <2>2
      <3>2. f[n - 1] \in W
        BY <1>6, <3>1
      <3> QED
        BY <1>4, <1>6, <2>2, <3>1, <3>2
    <2> QED
      BY <2>1, <2>2
  <1>8. f = [n \in 0 .. N |-> IF n = 0 THEN 1 ELSE c(n) * f[n - 1]]
    BY <1>6, <1>7
  <1>9. Counting(f, g)
    BY <1>8 DEF Counting, N, c
  <1> QED
    BY <1>9

\* There is at least one VLAN, from any level inwards.
LEMMA VlanCountType ==
    ASSUME NEW g \in Groups, NEW j \in 1 .. Len(g.tags) + 1
    PROVE  VlanCount(g, j) \in Nat \ {0}
  <1> DEFINE f == CHOOSE f : Counting(f, g)
             N == Len(g.tags)
             S == {n \in Nat : n <= N => f[n] \in Nat \ {0}}
  <1>1. VlanCount(g, j) = f[N + 1 - j]
    BY DEF VlanCount, Counting
  <1>2. Counting(f, g)
    BY CountingExists
  <1> HIDE DEF f
  <1>3. g.tags \in Seq(Levels) /\ N \in Nat
    BY DEF Groups
  <1>4. 0 \in S
    <2>1. f[0] = 1
      BY <1>2, <1>3 DEF Counting
    <2> QED
      BY <2>1
  <1>5. \A l \in 1 .. N : f[l] = g.tags[N + 1 - l].count * f[l - 1]
    <2> SUFFICES ASSUME NEW l \in 1 .. N PROVE f[l] = g.tags[N + 1 - l].count * f[l - 1]
      OBVIOUS
    <2>1. l \in 0 .. Len(g.tags) /\ l # 0
      BY <1>3
    <2>2. f[l] = IF l = 0 THEN 1 ELSE g.tags[N + 1 - l].count * f[l - 1]
      BY <1>2, <2>1 DEF Counting
    <2> QED
      BY <2>1, <2>2
  <1>6. \A l \in 1 .. N : g.tags[l].count \in Nat \ {0}
    <2> SUFFICES ASSUME NEW l \in 1 .. N PROVE g.tags[l].count \in Nat \ {0}
      OBVIOUS
    <2>1. g.tags[l] \in Levels
      BY <1>3
    <2> QED
      BY <2>1 DEF Levels
  <1> HIDE DEF N
  <1>7. ASSUME NEW n \in S PROVE n + 1 \in S
    <2>1. n \in Nat /\ (n <= N => f[n] \in Nat \ {0})
      OBVIOUS
    <2>2. ASSUME n + 1 <= N PROVE f[n + 1] \in Nat \ {0}
      <3>1. n + 1 \in 1 .. N /\ N + 1 - (n + 1) \in 1 .. N /\ n + 1 - 1 = n /\ n <= N
        BY <1>3, <2>1, <2>2
      <3>2. f[n + 1] = g.tags[N + 1 - (n + 1)].count * f[n]
        BY <1>5, <3>1
      <3>3. g.tags[N + 1 - (n + 1)].count \in Nat \ {0}
        BY <1>6, <3>1
      <3> QED
        BY <2>1, <3>1, <3>2, <3>3, NatTimes
    <2> QED
      BY <2>1, <2>2
  <1>8. S = Nat
    <2>1. S \in SUBSET Nat
      OBVIOUS
    <2> HIDE DEF S
    <2> QED
      BY <1>4, <1>7, <2>1, Induction
  <1>9. N + 1 - j \in Nat /\ N + 1 - j <= N
    BY <1>3 DEF N
  <1> QED
    BY <1>1, <1>8, <1>9

\* The tags of a VLAN are numbers.
LEMMA VlansType ==
    ASSUME NEW g \in Groups, NEW i \in Nat
    PROVE  Vlans(g, i) \in Seq(Nat)
  <1>1. g.tags \in Seq(Levels) /\ Len(g.tags) \in Nat /\ DOMAIN g.tags = 1 .. Len(g.tags)
    BY DEF Groups
  <1> DEFINE tag(j) == (g.tags[j].id + ((i \div VlanCount(g, j + 1)) % g.tags[j].count)
                                          * g.tags[j].step) % 65536
  <1>2. ASSUME NEW j \in 1 .. Len(g.tags) PROVE tag(j) \in Nat
    <2>1. g.tags[j] \in Levels
      BY <1>1
    <2>2. /\ g.tags[j].id \in Nat /\ g.tags[j].count \in Nat \ {0} /\ g.tags[j].step \in Nat
      BY <2>1 DEF Levels
    <2>3. j + 1 \in 1 .. Len(g.tags) + 1
      BY <1>1
    <2>4. VlanCount(g, j + 1) \in Nat \ {0}
      BY <2>3, VlanCountType
    <2> DEFINE q == i \div VlanCount(g, j + 1)
    <2>5. q \in Nat
      BY <2>4, NatDivide
    <2> HIDE DEF q
    <2> DEFINE m == q % g.tags[j].count
    <2>6. m \in Nat
      BY <2>2, <2>5, NatDivide
    <2> HIDE DEF m
    <2> DEFINE p == m * g.tags[j].step
    <2>7. p \in Nat
      BY <2>2, <2>6, NatTimes
    <2> HIDE DEF p
    <2>8. (g.tags[j].id + p) % 65536 \in Nat
      BY <2>2, <2>7
    <2> QED
      BY <2>8 DEF p, m, q
  <1> DEFINE ids == [j \in 1 .. Len(g.tags) |-> tag(j)]
  <1>3. Vlans(g, i) = Slots(ids)
    BY <1>1 DEF Vlans
  <1> HIDE DEF tag
  <1>4. DOMAIN ids = 1 .. Len(g.tags) /\ \A j \in DOMAIN ids : ids[j] \in Nat
    BY <1>2
  <1> HIDE DEF ids
  <1>5. Slots(ids) \in Seq(Nat)
    BY <1>4 DEF Slots, MaxVlan
  <1> QED
    BY <1>3, <1>5

\* The devices of a group are devices that have learned nothing.
LEMMA DevicesType ==
    ASSUME NEW g \in Groups
    PROVE  /\ Devices(g) \in Seq(DeviceType)
           /\ \A n \in DOMAIN Devices(g) : Devices(g)[n].arp = <<>>
  <1> DEFINE N == VlanCount(g, 1) * g.count
             dev(n) == [key |-> [vlans |-> Vlans(g, (n - 1) \div g.count),
                                 mac |-> g.mac + ((n - 1) % g.count) * g.step],
                        ip |-> IF g.ip = NoIp THEN NoIp ELSE g.ip + ((n - 1) % g.count),
                        arp |-> <<>>]
  <1>1. g.count \in Nat /\ g.mac \in Nat /\ g.step \in Nat /\ g.ip \in Nat
    BY DEF Groups
  <1>2. VlanCount(g, 1) \in Nat
    <2>1. g.tags \in Seq(Levels)
      BY DEF Groups
    <2>2. 1 \in 1 .. Len(g.tags) + 1
      BY <2>1
    <2> QED
      BY <2>2, VlanCountType
  <1>3. N \in Nat /\ (N # 0 => g.count # 0)
    BY <1>1, <1>2, NatTimes
  <1>4. Devices(g) = [n \in 1 .. N |-> dev(n)]
    BY DEF Devices
  <1>5. ASSUME NEW n \in 1 .. N PROVE dev(n) \in DeviceType /\ dev(n).arp = <<>>
    <2>1. n - 1 \in Nat /\ g.count \in Nat \ {0}
      BY <1>1, <1>3
    <2> DEFINE k == (n - 1) % g.count
               i == (n - 1) \div g.count
    <2>2. k \in Nat /\ i \in Nat
      BY <2>1, NatDivide
    <2> HIDE DEF k, i
    <2>3. Vlans(g, i) \in Seq(Nat)
      BY <2>2, VlansType
    <2>4. k * g.step \in Nat
      BY <1>1, <2>2, NatTimes
    <2>5. [vlans |-> Vlans(g, i), mac |-> g.mac + k * g.step] \in DeviceKeys
      BY <1>1, <2>3, <2>4 DEF DeviceKeys
    <2>6. (IF g.ip = NoIp THEN NoIp ELSE g.ip + k) \in Nat
      BY <1>1, <2>2 DEF NoIp
    <2>7. <<>> \in Caches
      <3>1. <<>> \in [{} -> {0, 1}]
        OBVIOUS
      <3> QED
        BY <3>1 DEF Caches
    <2> QED
      BY <2>5, <2>6, <2>7 DEF DeviceType, k, i
  <1> HIDE DEF dev, N
  <1> QED
    BY <1>3, <1>4, <1>5

-----------------------------------------------------------------------------
(* Adding the devices of a group.                                            *)

\* What Typed says of the three tables.
LEMMA TypedTables ==
    ASSUME NEW t, Typed(t)
    PROVE  /\ DOMAIN t.devs \in SUBSET Nat /\ IsFiniteSet(DOMAIN t.devs)
           /\ t.devs \in [DOMAIN t.devs -> DeviceType]
           /\ DOMAIN t.list \in SUBSET DeviceKeys
           /\ t.list \in [DOMAIN t.list -> Nat]
           /\ t.bcast \in Seq([vlans : Seq(Nat), dev : Nat])
           /\ Len(t.bcast) \in Nat /\ DOMAIN t.bcast = 1 .. Len(t.bcast)
           /\ \A n \in DOMAIN t.bcast : t.bcast[n].dev \in Nat /\ t.bcast[n].vlans \in Seq(Nat)
           /\ t = [devs |-> t.devs, list |-> t.list, bcast |-> t.bcast]
  <1>1. t \in TableSet /\ IsFiniteSet(DOMAIN t.devs)
    BY DEF Typed
  <1>2. PICK objects \in SUBSET Nat : t.devs \in [objects -> DeviceType]
    BY <1>1 DEF TableSet
  <1>3. PICK keys \in SUBSET DeviceKeys : t.list \in [keys -> Nat]
    BY <1>1 DEF TableSet
  <1>4. t.bcast \in Seq([vlans : Seq(Nat), dev : Nat])
    BY <1>1 DEF TableSet
  <1>5. t = [devs |-> t.devs, list |-> t.list, bcast |-> t.bcast]
    BY <1>1 DEF TableSet
  <1>6. ASSUME NEW n \in DOMAIN t.bcast
        PROVE  t.bcast[n].dev \in Nat /\ t.bcast[n].vlans \in Seq(Nat)
    <2> DEFINE E == [vlans : Seq(Nat), dev : Nat]
    <2>1. t.bcast[n] \in E
      <3>1. t.bcast \in Seq(E)
        BY <1>4
      <3> HIDE DEF E
      <3> QED
        BY <3>1
    <2> QED
      BY <2>1
  <1> QED
    BY <1>1, <1>2, <1>3, <1>4, <1>5, <1>6

\* Tables of these types are typed.
LEMMA TablesTyped ==
    ASSUME NEW f, NEW objects \in SUBSET Nat, f \in [objects -> DeviceType], IsFiniteSet(objects),
           NEW l, NEW keys \in SUBSET DeviceKeys, l \in [keys -> Nat],
           NEW b \in Seq([vlans : Seq(Nat), dev : Nat])
    PROVE  Typed([devs |-> f, list |-> l, bcast |-> b])
  <1>1. f \in UNION {[os -> DeviceType] : os \in SUBSET Nat}
    OBVIOUS
  <1>2. l \in UNION {[ks -> Nat] : ks \in SUBSET DeviceKeys}
    OBVIOUS
  <1>3. DOMAIN f = objects
    OBVIOUS
  <1> QED
    BY <1>1, <1>2, <1>3 DEF Typed, TableSet

\* A new object is new.
LEMMA NewObjectIsNew ==
    ASSUME NEW t, Typed(t), rx.found \in Seq(Nat)
    PROVE  /\ NewObject(t) \in Nat /\ NewObject(t) \notin DOMAIN t.devs
           /\ \A n \in DOMAIN rx.found : rx.found[n] # NewObject(t)
           /\ \A n \in DOMAIN t.bcast : t.bcast[n].dev # NewObject(t)
  <1> DEFINE F == Range(rx.found)
             B == {t.bcast[n].dev : n \in DOMAIN t.bcast}
             T == {-1} \cup DOMAIN t.devs \cup F \cup B
  <1>1. DOMAIN t.devs \in SUBSET Nat /\ IsFiniteSet(DOMAIN t.devs)
    BY TypedTables
  <1>2. PICK b1 \in Nat : \A x \in DOMAIN t.devs : x <= b1
    BY <1>1, FiniteBounded
  <1>3. PICK b2 \in Nat : \A n \in DOMAIN rx.found : rx.found[n] <= b2
    <2>1. Len(rx.found) \in Nat /\ rx.found \in [1 .. Len(rx.found) -> Nat]
          /\ DOMAIN rx.found = 1 .. Len(rx.found)
      OBVIOUS
    <2> QED
      BY <2>1, NumbersBounded
  <1>4. PICK b3 \in Nat : \A n \in DOMAIN t.bcast : t.bcast[n].dev <= b3
    <2> DEFINE v == [n \in 1 .. Len(t.bcast) |-> t.bcast[n].dev]
    <2>1. /\ Len(t.bcast) \in Nat /\ DOMAIN t.bcast = 1 .. Len(t.bcast)
          /\ \A n \in DOMAIN t.bcast : t.bcast[n].dev \in Nat
      BY TypedTables
    <2>2. v \in [1 .. Len(t.bcast) -> Nat]
      BY <2>1
    <2>3. \A n \in DOMAIN t.bcast : v[n] = t.bcast[n].dev
      BY <2>1
    <2> HIDE DEF v
    <2>4. PICK b \in Nat : \A n \in 1 .. Len(t.bcast) : v[n] <= b
      BY <2>1, <2>2, NumbersBounded
    <2>5. \A n \in DOMAIN t.bcast : t.bcast[n].dev <= b
      BY <2>1, <2>3, <2>4
    <2> QED
      BY <2>5
  <1>5. F \in SUBSET Nat /\ \A x \in F : x <= b2
    BY <1>3 DEF Range
  <1>6. B \in SUBSET Nat /\ \A x \in B : x <= b3
    <2>1. \A n \in DOMAIN t.bcast : t.bcast[n].dev \in Nat
      BY TypedTables
    <2> QED
      BY <1>4, <2>1
  <1>7. /\ \A n \in DOMAIN rx.found : rx.found[n] \in F
        /\ \A n \in DOMAIN t.bcast : t.bcast[n].dev \in B
    BY DEF Range
  <1>8. NewObject(t) = Max(T) + 1
    BY DEF NewObject
  <1> HIDE DEF F, B
  <1>9. T \in SUBSET Int /\ T # {} /\ -1 \in T
    <2>1. -1 \in Int /\ Nat \subseteq Int
      OBVIOUS
    <2>2. -1 \in T
      OBVIOUS
    <2>3. T \in SUBSET Int
      BY <1>1, <1>5, <1>6, <2>1
    <2> QED
      BY <2>2, <2>3
  <1>10. \A x \in T : x <= b1 + b2 + b3
    <2>1. \A x \in DOMAIN t.devs : x <= b1 + b2 + b3
      BY <1>1, <1>2
    <2>2. \A x \in F : x <= b1 + b2 + b3
      BY <1>5
    <2>3. \A x \in B : x <= b1 + b2 + b3
      BY <1>6
    <2> QED
      BY <2>1, <2>2, <2>3
  <1>11. b1 + b2 + b3 \in Int
    OBVIOUS
  <1>12. DOMAIN t.devs \subseteq T /\ F \subseteq T /\ B \subseteq T
    OBVIOUS
  <1> HIDE DEF T
  <1>13. Max(T) \in T /\ \A x \in T : Max(T) >= x
    BY <1>9, <1>10, <1>11, GreatestNumber
  <1> DEFINE m == Max(T)
  <1>14. m \in Int /\ m >= -1 /\ \A x \in T : x \in Int /\ m >= x
    BY <1>9, <1>13
  <1> HIDE DEF m
  <1>15. \A x \in T : x # m + 1
    BY <1>14
  <1>16. m + 1 \in Nat
    BY <1>14
  <1> QED
    BY <1>7, <1>8, <1>12, <1>15, <1>16 DEF m

\* What is in the tables when a device with a new key has been inserted.
LEMMA Inserted ==
    ASSUME NEW t, Typed(t), rx.found \in Seq(Nat), NEW d \in DeviceType,
           d.key \notin DOMAIN t.list,
           NEW u, u = Insert(t, d), NEW o, o = NewObject(t)
    PROVE  /\ Typed(u)
           /\ DOMAIN u.devs = DOMAIN t.devs \cup {o} /\ u.devs[o] = d
           /\ \A x \in DOMAIN t.devs : u.devs[x] = t.devs[x]
           /\ DOMAIN u.list = DOMAIN t.list \cup {d.key} /\ u.list[d.key] = o
           /\ \A k \in DOMAIN t.list : u.list[k] = t.list[k]
           /\ DOMAIN u.bcast = DOMAIN t.bcast \cup {Len(t.bcast) + 1}
           /\ u.bcast[Len(t.bcast) + 1] = [vlans |-> d.key.vlans, dev |-> o]
           /\ \A n \in DOMAIN t.bcast : u.bcast[n] = t.bcast[n]
  <1> DEFINE e == [vlans |-> d.key.vlans, dev |-> o]
             E == [vlans : Seq(Nat), dev : Nat]
  <1>1. u = [devs |-> Put(t.devs, o, d), list |-> Put(t.list, d.key, o),
             bcast |-> Append(t.bcast, e)]
    BY DEF Insert
  <1>2. /\ DOMAIN t.devs \in SUBSET Nat /\ IsFiniteSet(DOMAIN t.devs)
        /\ t.devs \in [DOMAIN t.devs -> DeviceType]
        /\ DOMAIN t.list \in SUBSET DeviceKeys /\ t.list \in [DOMAIN t.list -> Nat]
        /\ t.bcast \in Seq(E) /\ Len(t.bcast) \in Nat /\ DOMAIN t.bcast = 1 .. Len(t.bcast)
    BY TypedTables
  <1>3. o \in Nat /\ o \notin DOMAIN t.devs
    BY NewObjectIsNew
  <1>4. d.key \in DeviceKeys /\ d.key.vlans \in Seq(Nat)
    BY DEF DeviceType, DeviceKeys
  <1>5. e \in E
    BY <1>3, <1>4
  <1>6. /\ u.devs = Put(t.devs, o, d) /\ u.list = Put(t.list, d.key, o)
        /\ u.bcast = Append(t.bcast, e)
    BY <1>1
  <1> HIDE DEF E
  <1>7. /\ u.bcast \in Seq(E) /\ Len(u.bcast) = Len(t.bcast) + 1
        /\ u.bcast[Len(t.bcast) + 1] = e
        /\ \A n \in 1 .. Len(t.bcast) : u.bcast[n] = t.bcast[n]
    <2> HIDE DEF e
    <2> QED
      BY <1>2, <1>5, <1>6, AppendProperties
  <1>8. DOMAIN u.bcast = DOMAIN t.bcast \cup {Len(t.bcast) + 1}
    BY <1>2, <1>7
  <1>9. /\ DOMAIN u.devs = DOMAIN t.devs \cup {o} /\ u.devs[o] = d
        /\ \A x \in DOMAIN t.devs : u.devs[x] = t.devs[x]
        /\ u.devs \in [DOMAIN t.devs \cup {o} -> DeviceType]
    BY <1>2, <1>3, <1>6 DEF Put
  <1>10. /\ DOMAIN u.list = DOMAIN t.list \cup {d.key} /\ u.list[d.key] = o
         /\ \A k \in DOMAIN t.list : u.list[k] = t.list[k]
         /\ u.list \in [DOMAIN t.list \cup {d.key} -> Nat]
    BY <1>2, <1>3, <1>6 DEF Put
  <1>11. IsFiniteSet(DOMAIN t.devs \cup {o})
    BY <1>2, FS_AddElement
  <1>12. /\ DOMAIN t.devs \cup {o} \in SUBSET Nat
         /\ DOMAIN t.list \cup {d.key} \in SUBSET DeviceKeys
    BY <1>2, <1>3, <1>4
  <1>13. u = [devs |-> u.devs, list |-> u.list, bcast |-> u.bcast]
    BY <1>1
  <1>14. Typed(u)
    <2>1. Typed([devs |-> u.devs, list |-> u.list, bcast |-> u.bcast])
      BY <1>7, <1>9, <1>10, <1>11, <1>12, TablesTyped DEF E
    <2> QED
      BY <1>13, <2>1
  <1> QED
    BY <1>2, <1>7, <1>8, <1>9, <1>10, <1>14

\* There are finitely many entries and devices in a VLAN.
LEMMA FiniteInVlan ==
    ASSUME NEW t, Typed(t), NEW vlans
    PROVE  /\ IsFiniteSet(EntriesIn(t, vlans)) /\ IsFiniteSet(DevicesIn(t, vlans))
           /\ Cardinality(EntriesIn(t, vlans)) \in Nat /\ Cardinality(DevicesIn(t, vlans)) \in Nat
  <1> DEFINE E == {t.bcast[n] : n \in DOMAIN t.bcast}
  <1>1. IsFiniteSet(E)
    <2>1. Len(t.bcast) \in Nat /\ DOMAIN t.bcast = 1 .. Len(t.bcast)
      BY TypedTables
    <2> DEFINE f == [n \in 1 .. Len(t.bcast) |-> t.bcast[n]]
    <2>2. f \in Surjection(1 .. Len(t.bcast), E)
      BY <2>1 DEF Surjection
    <2>3. IsFiniteSet(1 .. Len(t.bcast))
      <3>1. 1 \in Int /\ Len(t.bcast) \in Int
        BY <2>1
      <3> QED
        BY <3>1, FS_Interval
    <2> HIDE DEF f, E
    <2> QED
      BY <2>2, <2>3, FS_Surjection
  <1>2. EntriesIn(t, vlans) \in SUBSET E
    BY DEF EntriesIn
  <1>3. IsFiniteSet(DOMAIN t.devs) /\ DevicesIn(t, vlans) \in SUBSET DOMAIN t.devs
    BY TypedTables DEF DevicesIn
  <1> HIDE DEF E
  <1>4. IsFiniteSet(EntriesIn(t, vlans)) /\ IsFiniteSet(DevicesIn(t, vlans))
    BY <1>1, <1>2, <1>3, FS_Subset
  <1> QED
    BY <1>4, FS_CardinalityType

\* Inserting a device keeps what the tables are.
LEMMA InsertKeeps ==
    ASSUME NEW t, TablesInv(t), rx.found \in Seq(Nat), NEW d \in DeviceType, d.arp = <<>>,
           NEW u, u = Insert(t, d)
    PROVE  /\ TablesInv(u)
           /\ DOMAIN u.list = DOMAIN t.list \cup {d.key}
           /\ Reaches(t, {}) => Reaches(u, {})
           /\ FoundInVlan(t) => FoundInVlan(u)
           /\ \A x \in DOMAIN u.devs :
                 (x \in DOMAIN t.devs /\ u.devs[x] = t.devs[x]) \/ u.devs[x].arp = <<>>
  <1>1. CASE d.key \in DOMAIN t.list
    <2>1. u = t
      BY <1>1 DEF Insert
    <2> QED
      BY <1>1, <2>1
  <1>2. CASE d.key \notin DOMAIN t.list
    <2> DEFINE o == NewObject(t)
               N == Len(t.bcast) + 1
               e == [vlans |-> d.key.vlans, dev |-> o]
    <2>1. Typed(t) /\ Paired(t) /\ Distinct(t) /\ InOwnVlans(t) /\ Balanced(t)
      BY DEF TablesInv
    <2>2. /\ o \in Nat /\ o \notin DOMAIN t.devs
          /\ \A n \in DOMAIN rx.found : rx.found[n] # o
          /\ \A n \in DOMAIN t.bcast : t.bcast[n].dev # o
      BY <2>1, NewObjectIsNew
    <2>3. /\ Typed(u)
          /\ DOMAIN u.devs = DOMAIN t.devs \cup {o} /\ u.devs[o] = d
          /\ \A x \in DOMAIN t.devs : u.devs[x] = t.devs[x]
          /\ DOMAIN u.list = DOMAIN t.list \cup {d.key} /\ u.list[d.key] = o
          /\ \A k \in DOMAIN t.list : u.list[k] = t.list[k]
          /\ DOMAIN u.bcast = DOMAIN t.bcast \cup {N} /\ u.bcast[N] = e
          /\ \A n \in DOMAIN t.bcast : u.bcast[n] = t.bcast[n]
      BY <1>2, <2>1, Inserted
    <2> HIDE DEF o, N
    <2>4. e.vlans = d.key.vlans /\ e.dev = o
      OBVIOUS
    <2> HIDE DEF e
    <2>5. Paired(u)
      BY <1>2, <2>1, <2>2, <2>3 DEF Paired
    <2>6. Distinct(u)
      BY <2>1, <2>2, <2>3, <2>4 DEF Distinct
    <2>7. InOwnVlans(u)
      BY <2>1, <2>2, <2>3, <2>4 DEF InOwnVlans
    <2>8. Balanced(u)
      <3> SUFFICES ASSUME NEW vlans \in Seq(Nat)
                   PROVE  Cardinality(EntriesIn(u, vlans)) = Cardinality(DevicesIn(u, vlans))
        BY DEF Balanced
      <3>1. /\ IsFiniteSet(EntriesIn(t, vlans)) /\ IsFiniteSet(DevicesIn(t, vlans))
            /\ Cardinality(EntriesIn(t, vlans)) = Cardinality(DevicesIn(t, vlans))
        BY <2>1, FiniteInVlan DEF Balanced
      <3>2. e \notin EntriesIn(t, vlans) /\ o \notin DevicesIn(t, vlans)
        BY <2>2, <2>4 DEF EntriesIn, DevicesIn
      <3>3. CASE vlans = d.key.vlans
        <4>1. EntriesIn(u, vlans) = EntriesIn(t, vlans) \cup {e}
          BY <2>3, <2>4, <3>3 DEF EntriesIn
        <4>2. DevicesIn(u, vlans) = DevicesIn(t, vlans) \cup {o}
          BY <2>2, <2>3, <3>3 DEF DevicesIn
        <4>3. Cardinality(EntriesIn(u, vlans)) = Cardinality(EntriesIn(t, vlans)) + 1
          BY <3>1, <3>2, <4>1, FS_AddElement
        <4>4. Cardinality(DevicesIn(u, vlans)) = Cardinality(DevicesIn(t, vlans)) + 1
          BY <3>1, <3>2, <4>2, FS_AddElement
        <4> QED
          BY <3>1, <4>3, <4>4
      <3>4. CASE vlans # d.key.vlans
        <4>1. EntriesIn(u, vlans) = EntriesIn(t, vlans)
          BY <2>3, <2>4, <3>4 DEF EntriesIn
        <4>2. DevicesIn(u, vlans) = DevicesIn(t, vlans)
          BY <2>2, <2>3, <3>4 DEF DevicesIn
        <4> QED
          BY <3>1, <4>1, <4>2
      <3> QED
        BY <3>3, <3>4
    <2>9. Reaches(t, {}) => Reaches(u, {})
      BY <2>3, <2>4 DEF Reaches
    <2>10. FoundInVlan(t) => FoundInVlan(u)
      BY <2>2, <2>3 DEF FoundInVlan
    <2> QED
      BY <2>3, <2>5, <2>6, <2>7, <2>8, <2>9, <2>10 DEF TablesInv
  <1> QED
    BY <1>1, <1>2

\* Devices that have learned nothing.
NewDevices == {d \in DeviceType : d.arp = <<>>}

\* The function Added takes its value from, and that there is one.
Adding(f, t, ds) ==
    f = [n \in 0 .. Len(ds) |-> IF n = 0 THEN t ELSE Insert(f[n - 1], ds[n])]
LEMMA AddingExists ==
    ASSUME NEW t, TablesInv(t), rx.found \in Seq(Nat), NEW ds \in Seq(NewDevices)
    PROVE  \E f : Adding(f, t, ds)
  <1> DEFINE N == Len(ds)
             W == {x \in TableSet : TablesInv(x)}
             step == [n \in 1 .. N |-> [x \in W |-> Insert(x, ds[n])]]
  <1>1. N \in Nat /\ \A n \in 1 .. N : ds[n] \in NewDevices
    OBVIOUS
  <1>2. \A x : TablesInv(x) => x \in W
    BY DEF TablesInv, Typed
  <1>3. \A x \in W : TablesInv(x)
    OBVIOUS
  <1> HIDE DEF W
  <1>4. ASSUME NEW n \in 1 .. N, NEW x \in W PROVE Insert(x, ds[n]) \in W
    <2>1. ds[n] \in DeviceType /\ ds[n].arp = <<>> /\ TablesInv(x)
      BY <1>1, <1>3 DEF NewDevices
    <2>2. TablesInv(Insert(x, ds[n]))
      BY <2>1, InsertKeeps
    <2> QED
      BY <1>2, <2>2
  <1>5. step \in [1 .. N -> [W -> W]] /\ \A n \in 1 .. N : \A x \in W : step[n][x] = Insert(x, ds[n])
    BY <1>4
  <1> HIDE DEF step, N
  <1>6. PICK s \in [1 .. N -> [W -> W]] : \A n \in 1 .. N : \A x \in W : s[n][x] = Insert(x, ds[n])
    BY <1>5
  <1>7. PICK f \in [0 .. N -> W] : f[0] = t /\ \A n \in 1 .. N : f[n] = s[n][f[n - 1]]
    <2>1. t \in W
      BY <1>2
    <2> QED
      <3>1. \E f : Steps(f, W, t, N, s)
        BY <1>1, <2>1, Recursion
      <3> QED
        BY <3>1 DEF Steps
  <1>8. ASSUME NEW n \in 0 .. N PROVE f[n] = IF n = 0 THEN t ELSE Insert(f[n - 1], ds[n])
    <2>1. CASE n = 0
      BY <1>7, <2>1
    <2>2. CASE n # 0
      <3>1. n \in 1 .. N /\ n - 1 \in 0 .. N
        BY <1>1, <2>2
      <3>2. f[n - 1] \in W
        BY <1>7, <3>1
      <3> QED
        BY <1>6, <1>7, <2>2, <3>1, <3>2
    <2> QED
      BY <2>1, <2>2
  <1>9. f = [n \in 0 .. N |-> IF n = 0 THEN t ELSE Insert(f[n - 1], ds[n])]
    BY <1>7, <1>8
  <1>10. Adding(f, t, ds)
    BY <1>9 DEF Adding, N
  <1> QED
    BY <1>10

\* Adding a group keeps what the tables are, and adds the keys of its devices.
LEMMA AddedKeeps ==
    ASSUME NEW t, TablesInv(t), rx.found \in Seq(Nat), NEW g \in Groups
    PROVE  /\ TablesInv(Added(t, g))
           /\ DOMAIN Added(t, g).list = DOMAIN t.list \cup Keys(g)
           /\ Reaches(t, {}) => Reaches(Added(t, g), {})
           /\ FoundInVlan(t) => FoundInVlan(Added(t, g))
           /\ \A x \in DOMAIN Added(t, g).devs :
                 \/ x \in DOMAIN t.devs /\ Added(t, g).devs[x] = t.devs[x]
                 \/ Added(t, g).devs[x].arp = <<>>
  <1> DEFINE ds == Devices(g)
             N == Len(ds)
             f == CHOOSE f : Adding(f, t, ds)
             K(n) == {ds[m].key : m \in 1 .. n}
             Kept(n) ==
                 /\ TablesInv(f[n])
                 /\ DOMAIN f[n].list = DOMAIN t.list \cup K(n)
                 /\ Reaches(t, {}) => Reaches(f[n], {})
                 /\ FoundInVlan(t) => FoundInVlan(f[n])
                 /\ \A x \in DOMAIN f[n].devs :
                       (x \in DOMAIN t.devs /\ f[n].devs[x] = t.devs[x]) \/ f[n].devs[x].arp = <<>>
             S == {n \in Nat : n <= N => Kept(n)}
  <1>1. Added(t, g) = f[N]
    BY DEF Added, Adding
  <1>2. ds \in Seq(NewDevices)
    <2>1. ds \in Seq(DeviceType) /\ \A n \in DOMAIN ds : ds[n].arp = <<>>
      BY DevicesType
    <2> HIDE DEF ds
    <2> QED
      BY <2>1 DEF NewDevices
  <1>3. N \in Nat /\ DOMAIN ds = 1 .. N /\ \A n \in 1 .. N : ds[n] \in DeviceType /\ ds[n].arp = <<>>
    BY <1>2 DEF NewDevices
  <1> HIDE DEF ds
  <1>4. Adding(f, t, ds)
    BY <1>2, AddingExists
  <1> HIDE DEF f
  <1>5. f[0] = t /\ \A n \in 1 .. N : f[n] = Insert(f[n - 1], ds[n])
    <2>1. f = [n \in 0 .. N |-> IF n = 0 THEN t ELSE Insert(f[n - 1], ds[n])]
      BY <1>4 DEF Adding
    <2> HIDE DEF N
    <2> QED
      BY <1>3, <2>1
  <1> HIDE DEF N
  <1>6. Kept(0)
    <2>1. K(0) = {}
      OBVIOUS
    <2> HIDE DEF K
    <2> QED
      BY <1>5, <2>1
  <1>7. ASSUME NEW n \in Nat, n + 1 <= N, Kept(n) PROVE Kept(n + 1)
    <2>1. n + 1 \in 1 .. N /\ n + 1 - 1 = n
      BY <1>3, <1>7
    <2> DEFINE a == f[n]
               b == f[n + 1]
               d == ds[n + 1]
    <2>2. b = Insert(a, d) /\ d \in DeviceType /\ d.arp = <<>>
      BY <1>3, <1>5, <2>1
    <2>3. /\ TablesInv(a)
          /\ DOMAIN a.list = DOMAIN t.list \cup K(n)
          /\ Reaches(t, {}) => Reaches(a, {})
          /\ FoundInVlan(t) => FoundInVlan(a)
          /\ \A x \in DOMAIN a.devs :
                (x \in DOMAIN t.devs /\ a.devs[x] = t.devs[x]) \/ a.devs[x].arp = <<>>
      BY <1>7
    <2>4. K(n + 1) = K(n) \cup {d.key}
      <3>1. 1 .. n + 1 = (1 .. n) \cup {n + 1}
        BY <1>7
      <3> QED
        BY <3>1
    <2> HIDE DEF a, b, d, K
    <2>5. /\ TablesInv(b)
          /\ DOMAIN b.list = DOMAIN a.list \cup {d.key}
          /\ Reaches(a, {}) => Reaches(b, {})
          /\ FoundInVlan(a) => FoundInVlan(b)
          /\ \A x \in DOMAIN b.devs :
                (x \in DOMAIN a.devs /\ b.devs[x] = a.devs[x]) \/ b.devs[x].arp = <<>>
      BY <2>2, <2>3, InsertKeeps
    <2>6. /\ DOMAIN b.list = DOMAIN t.list \cup K(n + 1)
          /\ Reaches(t, {}) => Reaches(b, {})
          /\ FoundInVlan(t) => FoundInVlan(b)
      BY <2>3, <2>4, <2>5
    <2>7. \A x \in DOMAIN b.devs :
             (x \in DOMAIN t.devs /\ b.devs[x] = t.devs[x]) \/ b.devs[x].arp = <<>>
      BY <2>3, <2>5
    <2> QED
      BY <2>5, <2>6, <2>7 DEF b
  <1> HIDE DEF Kept
  <1>8. S = Nat
    <2>1. 0 \in S
      BY <1>6
    <2>2. ASSUME NEW n \in S PROVE n + 1 \in S
      <3>1. n \in Nat /\ n + 1 \in Nat /\ (n + 1 <= N => n <= N)
        BY <1>3
      <3>2. n + 1 <= N => Kept(n + 1)
        BY <1>7, <3>1
      <3> QED
        BY <3>1, <3>2
    <2>3. S \in SUBSET Nat
      OBVIOUS
    <2> HIDE DEF S
    <2> QED
      BY <2>1, <2>2, <2>3, Induction
  <1>9. Kept(N)
    <2>1. N <= N
      BY <1>3
    <2> QED
      BY <1>3, <1>8, <2>1
  <1>10. K(N) = Keys(g)
    BY <1>3 DEF Keys, ds
  <1> HIDE DEF K
  <1> QED
    BY <1>1, <1>9, <1>10 DEF Kept

-----------------------------------------------------------------------------
(* Deleting the devices of a group.                                          *)

\* A sequence without one of its elements.
LEMMA RemovedAt ==
    ASSUME NEW S, NEW s \in Seq(S), NEW i \in 1 .. Len(s)
    PROVE  /\ RemoveAt(s, i) \in Seq(S) /\ Len(RemoveAt(s, i)) = Len(s) - 1
           /\ \A n \in 1 .. Len(s) - 1 :
                 RemoveAt(s, i)[n] = IF n < i THEN s[n] ELSE s[n + 1]
  <1> DEFINE a == SubSeq(s, 1, i - 1)
             b == SubSeq(s, i + 1, Len(s))
  <1>1. Len(s) \in Nat /\ i \in Nat /\ 1 <= i /\ i <= Len(s) /\ \A n \in 1 .. Len(s) : s[n] \in S
    OBVIOUS
  <1>2. /\ a \in Seq(S) /\ Len(a) = i - 1
        /\ \A n \in 1 .. i - 1 : a[n] = s[n]
    <2>1. 1 \in Int /\ i - 1 \in Int /\ \A n \in 1 .. i - 1 : s[n] \in S
      BY <1>1
    <2>2. /\ a \in Seq(S) /\ Len(a) = IF 1 <= i - 1 THEN i - 1 - 1 + 1 ELSE 0
          /\ \A n \in 1 .. i - 1 - 1 + 1 : a[n] = s[1 + n - 1]
      BY <2>1, SubSeqProperties
    <2> HIDE DEF a
    <2>3. Len(a) = i - 1
      BY <1>1, <2>2
    <2>4. ASSUME NEW n \in 1 .. i - 1 PROVE a[n] = s[n]
      <3>1. n \in 1 .. i - 1 - 1 + 1 /\ 1 + n - 1 = n
        BY <1>1
      <3> QED
        BY <2>2, <3>1
    <2> QED
      BY <2>2, <2>3, <2>4
  <1>3. /\ b \in Seq(S) /\ Len(b) = Len(s) - i
        /\ \A n \in 1 .. Len(s) - i : b[n] = s[i + n]
    <2>1. i + 1 \in Int /\ Len(s) \in Int /\ \A n \in i + 1 .. Len(s) : s[n] \in S
      BY <1>1
    <2>2. /\ b \in Seq(S) /\ Len(b) = IF i + 1 <= Len(s) THEN Len(s) - (i + 1) + 1 ELSE 0
          /\ \A n \in 1 .. Len(s) - (i + 1) + 1 : b[n] = s[i + 1 + n - 1]
      BY <2>1, SubSeqProperties
    <2> HIDE DEF b
    <2>3. Len(b) = Len(s) - i
      BY <1>1, <2>2
    <2>4. ASSUME NEW n \in 1 .. Len(s) - i PROVE b[n] = s[i + n]
      <3>1. n \in 1 .. Len(s) - (i + 1) + 1 /\ i + 1 + n - 1 = i + n
        BY <1>1
      <3> QED
        BY <2>2, <3>1
    <2> QED
      BY <2>2, <2>3, <2>4
  <1>4. RemoveAt(s, i) = a \o b
    BY DEF RemoveAt
  <1> HIDE DEF a, b
  <1>5. /\ a \o b \in Seq(S) /\ Len(a \o b) = Len(s) - 1
        /\ \A n \in 1 .. Len(s) - 1 :
              (a \o b)[n] = IF n <= Len(a) THEN a[n] ELSE b[n - Len(a)]
    BY <1>1, <1>2, <1>3, ConcatProperties
  <1>6. ASSUME NEW n \in 1 .. Len(s) - 1
        PROVE  (a \o b)[n] = IF n < i THEN s[n] ELSE s[n + 1]
    <2>1. CASE n < i
      <3>1. n \in 1 .. i - 1 /\ n <= Len(a)
        BY <1>1, <1>2, <2>1
      <3> QED
        BY <1>2, <1>5, <2>1, <3>1
    <2>2. CASE ~ (n < i)
      <3>1. n - Len(a) \in 1 .. Len(s) - i /\ ~ (n <= Len(a)) /\ i + (n - Len(a)) = n + 1
        BY <1>1, <1>2, <2>2
      <3> QED
        BY <1>3, <1>5, <2>2, <3>1
    <2> QED
      BY <2>1, <2>2
  <1> QED
    BY <1>4, <1>5, <1>6

\* What is left in the tables when a device has been deleted: some entry i for its VLANs
\* has gone with it.
LEMMA Removed ==
    ASSUME NEW t, TablesInv(t), NEW d \in DeviceType, d.key \in DOMAIN t.list,
           NEW u, u = Delete(t, d), NEW o, o = t.list[d.key]
    PROVE  /\ Typed(u)
           /\ DOMAIN u.devs = DOMAIN t.devs \ {o}
           /\ \A x \in DOMAIN u.devs : u.devs[x] = t.devs[x]
           /\ DOMAIN u.list = DOMAIN t.list \ {d.key}
           /\ \A k \in DOMAIN u.list : u.list[k] = t.list[k]
           /\ \E i \in DOMAIN t.bcast :
                 /\ t.bcast[i].vlans = d.key.vlans
                 /\ DOMAIN u.bcast = 1 .. Len(t.bcast) - 1
                 /\ \A n \in DOMAIN u.bcast :
                       u.bcast[n] = IF n < i THEN t.bcast[n] ELSE t.bcast[n + 1]
  <1> DEFINE v == d.key.vlans
             I == {n \in DOMAIN t.bcast : t.bcast[n].vlans = v}
             i == Max({0} \cup I)
             E == [vlans : Seq(Nat), dev : Nat]
  <1>1. /\ DOMAIN t.devs \in SUBSET Nat /\ IsFiniteSet(DOMAIN t.devs)
        /\ t.devs \in [DOMAIN t.devs -> DeviceType]
        /\ DOMAIN t.list \in SUBSET DeviceKeys /\ t.list \in [DOMAIN t.list -> Nat]
        /\ t.bcast \in Seq(E) /\ Len(t.bcast) \in Nat /\ DOMAIN t.bcast = 1 .. Len(t.bcast)
    BY TypedTables DEF TablesInv
  <1>2. I # {}
    <2>1. o \in DOMAIN t.devs /\ t.devs[o].key = d.key
      BY DEF TablesInv, Paired
    <2>2. o \in DevicesIn(t, v)
      BY <2>1 DEF DevicesIn
    <2>3. v \in Seq(Nat)
      BY DEF DeviceType, DeviceKeys
    <2>4. /\ IsFiniteSet(DevicesIn(t, v)) /\ IsFiniteSet(EntriesIn(t, v))
          /\ Cardinality(EntriesIn(t, v)) = Cardinality(DevicesIn(t, v))
      BY <2>3, FiniteInVlan DEF TablesInv, Balanced
    <2>5. Cardinality(EntriesIn(t, v)) # 0
      BY <2>2, <2>4, FS_EmptySet
    <2>6. EntriesIn(t, v) # {}
      BY <2>5, FS_EmptySet
    <2> QED
      BY <2>6 DEF EntriesIn
  <1>3. i \in I
    <2>1. \A n \in I : n \in Int /\ 1 <= n /\ n <= Len(t.bcast)
      BY <1>1
    <2> DEFINE T == {0} \cup I
    <2>2. T \in SUBSET Int /\ T # {} /\ \A n \in T : n <= Len(t.bcast)
      BY <1>1, <2>1
    <2>3. Len(t.bcast) \in Int
      BY <1>1
    <2>4. PICK n \in I : TRUE
      BY <1>2
    <2>5. n \in T /\ 1 <= n /\ n \in Int
      BY <2>1
    <2>6. i = Max(T)
      OBVIOUS
    <2>7. \A m \in T : m = 0 \/ m \in I
      OBVIOUS
    <2> HIDE DEF T, I, i
    <2>8. i \in T /\ i >= n
      BY <2>2, <2>3, <2>5, <2>6, GreatestNumber
    <2> QED
      BY <2>5, <2>7, <2>8
  <1>4. i \in DOMAIN t.bcast /\ t.bcast[i].vlans = v /\ i # 0
    BY <1>1, <1>3
  <1>5. u = [devs |-> Drop(t.devs, o), list |-> Drop(t.list, d.key),
             bcast |-> RemoveAt(t.bcast, i)]
    <2>1. u = [devs |-> Drop(t.devs, o), list |-> Drop(t.list, d.key),
               bcast |-> IF i = 0 THEN t.bcast ELSE RemoveAt(t.bcast, i)]
      BY DEF Delete
    <2> HIDE DEF i
    <2> QED
      BY <1>4, <2>1
  <1> HIDE DEF I, i, v, E
  <1>6. u.devs = Drop(t.devs, o) /\ u.list = Drop(t.list, d.key) /\ u.bcast = RemoveAt(t.bcast, i)
    BY <1>5
  <1>7. /\ u.bcast \in Seq(E) /\ Len(u.bcast) = Len(t.bcast) - 1
        /\ \A n \in 1 .. Len(t.bcast) - 1 :
              u.bcast[n] = IF n < i THEN t.bcast[n] ELSE t.bcast[n + 1]
    <2> DEFINE b == t.bcast
    <2>1. b \in Seq(E) /\ i \in 1 .. Len(b)
      BY <1>1, <1>4
    <2>2. u.bcast = RemoveAt(b, i)
      BY <1>6
    <2> HIDE DEF b
    <2>3. /\ RemoveAt(b, i) \in Seq(E) /\ Len(RemoveAt(b, i)) = Len(b) - 1
          /\ \A n \in 1 .. Len(b) - 1 : RemoveAt(b, i)[n] = IF n < i THEN b[n] ELSE b[n + 1]
      BY <2>1, RemovedAt
    <2>4. /\ u.bcast \in Seq(E) /\ Len(u.bcast) = Len(b) - 1
          /\ \A n \in 1 .. Len(b) - 1 : u.bcast[n] = IF n < i THEN b[n] ELSE b[n + 1]
      BY <2>2, <2>3
    <2> QED
      BY <2>4 DEF b
  <1>8. DOMAIN u.bcast = 1 .. Len(t.bcast) - 1
    BY <1>7
  <1>9. /\ DOMAIN u.devs = DOMAIN t.devs \ {o}
        /\ \A x \in DOMAIN u.devs : u.devs[x] = t.devs[x]
        /\ u.devs \in [DOMAIN t.devs \ {o} -> DeviceType]
    BY <1>1, <1>6 DEF Drop
  <1>10. /\ DOMAIN u.list = DOMAIN t.list \ {d.key}
         /\ \A k \in DOMAIN u.list : u.list[k] = t.list[k]
         /\ u.list \in [DOMAIN t.list \ {d.key} -> Nat]
    BY <1>1, <1>6 DEF Drop
  <1>11. IsFiniteSet(DOMAIN t.devs \ {o})
    BY <1>1, FS_RemoveElement
  <1>12. /\ DOMAIN t.devs \ {o} \in SUBSET Nat
         /\ DOMAIN t.list \ {d.key} \in SUBSET DeviceKeys
    BY <1>1
  <1>13. u = [devs |-> u.devs, list |-> u.list, bcast |-> u.bcast]
    BY <1>5
  <1>14. Typed(u)
    <2>1. Typed([devs |-> u.devs, list |-> u.list, bcast |-> u.bcast])
      BY <1>7, <1>9, <1>10, <1>11, <1>12, TablesTyped DEF E
    <2> QED
      BY <1>13, <2>1
  <1> QED
    BY <1>4, <1>7, <1>8, <1>9, <1>10, <1>14 DEF v

\* Deleting a device keeps what the tables are; outside a set V that has its VLANs the
\* broadcasts reach what they reached.
LEMMA DeleteKeeps ==
    ASSUME NEW t, TablesInv(t), NEW d \in DeviceType, NEW u, u = Delete(t, d),
           NEW V, d.key.vlans \in V
    PROVE  /\ TablesInv(u)
           /\ DOMAIN u.list = DOMAIN t.list \ {d.key}
           /\ Reaches(t, V) => Reaches(u, V)
           /\ FoundInVlan(t) => FoundInVlan(u)
           /\ \A x \in DOMAIN u.devs : x \in DOMAIN t.devs /\ u.devs[x] = t.devs[x]
  <1>1. CASE d.key \notin DOMAIN t.list
    <2>1. u = t
      BY <1>1 DEF Delete
    <2> QED
      BY <1>1, <2>1
  <1>2. CASE d.key \in DOMAIN t.list
    <2> DEFINE o == t.list[d.key]
               L == Len(t.bcast)
    <2>1. Typed(t) /\ Paired(t) /\ Distinct(t) /\ InOwnVlans(t) /\ Balanced(t)
      BY DEF TablesInv
    <2>2. /\ Typed(u)
          /\ DOMAIN u.devs = DOMAIN t.devs \ {o}
          /\ \A x \in DOMAIN u.devs : u.devs[x] = t.devs[x]
          /\ DOMAIN u.list = DOMAIN t.list \ {d.key}
          /\ \A k \in DOMAIN u.list : u.list[k] = t.list[k]
          /\ \E i \in DOMAIN t.bcast :
                /\ t.bcast[i].vlans = d.key.vlans
                /\ DOMAIN u.bcast = 1 .. L - 1
                /\ \A n \in DOMAIN u.bcast :
                      u.bcast[n] = IF n < i THEN t.bcast[n] ELSE t.bcast[n + 1]
      BY <1>2, Removed
    <2>3. L \in Nat /\ DOMAIN t.bcast = 1 .. L
      BY <2>1, TypedTables
    <2> HIDE DEF L
    <2>4. PICK i \in DOMAIN t.bcast :
                /\ t.bcast[i].vlans = d.key.vlans
                /\ DOMAIN u.bcast = 1 .. L - 1
                /\ \A n \in DOMAIN u.bcast :
                      u.bcast[n] = IF n < i THEN t.bcast[n] ELSE t.bcast[n + 1]
      BY <2>2
    <2>5. o \in DOMAIN t.devs /\ t.devs[o].key = d.key
      BY <1>2, <2>1 DEF Paired
    <2> HIDE DEF o
    <2>6. ASSUME NEW n \in DOMAIN u.bcast
          PROVE  \E m \in DOMAIN t.bcast : m # i /\ u.bcast[n] = t.bcast[m]
      <3>1. CASE n < i
        <4>1. n \in DOMAIN t.bcast /\ n # i
          BY <2>3, <2>4, <3>1
        <4> QED
          BY <2>4, <3>1, <4>1
      <3>2. CASE ~ (n < i)
        <4>1. n + 1 \in DOMAIN t.bcast /\ n + 1 # i
          BY <2>3, <2>4, <3>2
        <4> QED
          BY <2>4, <3>2, <4>1
      <3> QED
        BY <3>1, <3>2
    <2>7. ASSUME NEW m \in DOMAIN t.bcast, m # i
          PROVE  \E n \in DOMAIN u.bcast : u.bcast[n] = t.bcast[m]
      <3>1. CASE m < i
        <4>1. m \in DOMAIN u.bcast
          BY <2>3, <2>4, <3>1
        <4> QED
          BY <2>4, <3>1, <4>1
      <3>2. CASE ~ (m < i)
        <4>1. m - 1 \in DOMAIN u.bcast /\ ~ (m - 1 < i) /\ m - 1 + 1 = m
          BY <2>3, <2>4, <2>7, <3>2
        <4> QED
          BY <2>4, <4>1
      <3> QED
        BY <3>1, <3>2
    <2>8. Paired(u)
      BY <1>2, <2>1, <2>2, <2>5 DEF Paired
    <2>9. Distinct(u)
      <3> SUFFICES ASSUME NEW m \in DOMAIN u.bcast, NEW n \in DOMAIN u.bcast,
                          u.bcast[m].dev = u.bcast[n].dev
                   PROVE  m = n
        BY DEF Distinct
      <3> DEFINE a == IF m < i THEN m ELSE m + 1
                 b == IF n < i THEN n ELSE n + 1
      <3>1. /\ a \in DOMAIN t.bcast /\ b \in DOMAIN t.bcast /\ (a = b => m = n)
        BY <2>3, <2>4
      <3>2. u.bcast[m] = t.bcast[a] /\ u.bcast[n] = t.bcast[b]
        BY <2>4
      <3> HIDE DEF a, b
      <3> QED
        BY <2>1, <3>1, <3>2 DEF Distinct
    <2>10. InOwnVlans(u)
      BY <2>1, <2>2, <2>6 DEF InOwnVlans
    <2>11. Balanced(u)
      <3> SUFFICES ASSUME NEW vlans \in Seq(Nat)
                   PROVE  Cardinality(EntriesIn(u, vlans)) = Cardinality(DevicesIn(u, vlans))
        BY DEF Balanced
      <3>1. /\ IsFiniteSet(EntriesIn(t, vlans)) /\ IsFiniteSet(DevicesIn(t, vlans))
            /\ Cardinality(EntriesIn(t, vlans)) = Cardinality(DevicesIn(t, vlans))
        BY <2>1, FiniteInVlan DEF Balanced
      <3>2. CASE vlans = d.key.vlans
        <4>1. t.bcast[i] \in EntriesIn(t, vlans) /\ o \in DevicesIn(t, vlans)
          BY <2>4, <2>5, <3>2 DEF EntriesIn, DevicesIn
        <4>2. EntriesIn(u, vlans) = EntriesIn(t, vlans) \ {t.bcast[i]}
          <5>1. \A m \in DOMAIN t.bcast : m # i => t.bcast[m] # t.bcast[i]
            BY <2>1 DEF Distinct
          <5> QED
            BY <2>6, <2>7, <5>1 DEF EntriesIn
        <4>3. DevicesIn(u, vlans) = DevicesIn(t, vlans) \ {o}
          BY <2>2 DEF DevicesIn
        <4>4. Cardinality(EntriesIn(u, vlans)) = Cardinality(EntriesIn(t, vlans)) - 1
          <5> DEFINE A == EntriesIn(t, vlans)
                     e == t.bcast[i]
          <5>1. IsFiniteSet(A) /\ e \in A /\ EntriesIn(u, vlans) = A \ {e}
            BY <3>1, <4>1, <4>2
          <5> HIDE DEF A, e
          <5>2. Cardinality(A \ {e}) = Cardinality(A) - 1
            BY <5>1, FS_RemoveElement
          <5>3. Cardinality(EntriesIn(u, vlans)) = Cardinality(A) - 1
            BY <5>1, <5>2
          <5> QED
            BY <5>3 DEF A
        <4>5. Cardinality(DevicesIn(u, vlans)) = Cardinality(DevicesIn(t, vlans)) - 1
          BY <3>1, <4>1, <4>3, FS_RemoveElement
        <4> QED
          BY <3>1, <4>4, <4>5
      <3>3. CASE vlans # d.key.vlans
        <4>1. EntriesIn(u, vlans) = EntriesIn(t, vlans)
          BY <2>4, <2>6, <2>7, <3>3 DEF EntriesIn
        <4>2. DevicesIn(u, vlans) = DevicesIn(t, vlans)
          BY <2>2, <2>5, <3>3 DEF DevicesIn
        <4> QED
          BY <3>1, <4>1, <4>2
      <3> QED
        BY <3>2, <3>3
    <2>12. ASSUME Reaches(t, V) PROVE Reaches(u, V)
      <3>1. ASSUME NEW n \in DOMAIN u.bcast, u.bcast[n].vlans \notin V
            PROVE  u.bcast[n].dev \in DOMAIN u.devs
        <4>1. PICK m \in DOMAIN t.bcast : u.bcast[n] = t.bcast[m]
          BY <2>6
        <4>2. t.bcast[m].dev \in DOMAIN t.devs
          BY <2>12, <3>1, <4>1 DEF Reaches
        <4>3. t.devs[t.bcast[m].dev].key.vlans = t.bcast[m].vlans
          BY <2>1, <4>2 DEF InOwnVlans
        <4>4. t.bcast[m].dev # o
          BY <2>5, <3>1, <4>1, <4>3
        <4> QED
          BY <2>2, <4>1, <4>2, <4>4
      <3>2. ASSUME NEW x \in DOMAIN u.devs, u.devs[x].key.vlans \notin V
            PROVE  \E n \in DOMAIN u.bcast : u.bcast[n].dev = x
        <4>1. x \in DOMAIN t.devs /\ u.devs[x] = t.devs[x]
          BY <2>2
        <4>2. PICK m \in DOMAIN t.bcast : t.bcast[m].dev = x
          BY <2>12, <3>2, <4>1 DEF Reaches
        <4>3. t.devs[x].key.vlans = t.bcast[m].vlans
          BY <2>1, <4>1, <4>2 DEF InOwnVlans
        <4>4. m # i
          BY <2>4, <3>2, <4>1, <4>3
        <4> QED
          BY <2>7, <4>2, <4>4
      <3> QED
        BY <3>1, <3>2 DEF Reaches
    <2>13. FoundInVlan(t) => FoundInVlan(u)
      BY <2>2 DEF FoundInVlan
    <2> QED
      BY <2>2, <2>8, <2>9, <2>10, <2>11, <2>12, <2>13 DEF TablesInv
  <1> QED
    BY <1>1, <1>2

\* The function Deleted takes its value from, and that there is one.
Deleting(f, t, ds) ==
    f = [n \in 0 .. Len(ds) |-> IF n = 0 THEN t ELSE Delete(f[n - 1], ds[n])]
LEMMA DeletingExists ==
    ASSUME NEW t, TablesInv(t), NEW ds \in Seq(DeviceType)
    PROVE  \E f : Deleting(f, t, ds)
  <1> DEFINE N == Len(ds)
             W == {x \in TableSet : TablesInv(x)}
             step == [n \in 1 .. N |-> [x \in W |-> Delete(x, ds[n])]]
  <1>1. N \in Nat /\ \A n \in 1 .. N : ds[n] \in DeviceType
    OBVIOUS
  <1>2. \A x : TablesInv(x) => x \in W
    BY DEF TablesInv, Typed
  <1>3. \A x \in W : TablesInv(x)
    OBVIOUS
  <1> HIDE DEF W
  <1>4. ASSUME NEW n \in 1 .. N, NEW x \in W PROVE Delete(x, ds[n]) \in W
    <2>1. ds[n] \in DeviceType /\ TablesInv(x)
      BY <1>1, <1>3
    <2> DEFINE V == {ds[n].key.vlans}
    <2>2. ds[n].key.vlans \in V
      OBVIOUS
    <2> HIDE DEF V
    <2>3. TablesInv(Delete(x, ds[n]))
      BY <2>1, <2>2, DeleteKeeps
    <2> QED
      BY <1>2, <2>3
  <1>5. step \in [1 .. N -> [W -> W]] /\ \A n \in 1 .. N : \A x \in W : step[n][x] = Delete(x, ds[n])
    BY <1>4
  <1> HIDE DEF step, N
  <1>6. PICK s \in [1 .. N -> [W -> W]] : \A n \in 1 .. N : \A x \in W : s[n][x] = Delete(x, ds[n])
    BY <1>5
  <1>7. PICK f \in [0 .. N -> W] : f[0] = t /\ \A n \in 1 .. N : f[n] = s[n][f[n - 1]]
    <2>1. t \in W
      BY <1>2
    <2> QED
      <3>1. \E f : Steps(f, W, t, N, s)
        BY <1>1, <2>1, Recursion
      <3> QED
        BY <3>1 DEF Steps
  <1>8. ASSUME NEW n \in 0 .. N PROVE f[n] = IF n = 0 THEN t ELSE Delete(f[n - 1], ds[n])
    <2>1. CASE n = 0
      BY <1>7, <2>1
    <2>2. CASE n # 0
      <3>1. n \in 1 .. N /\ n - 1 \in 0 .. N
        BY <1>1, <2>2
      <3>2. f[n - 1] \in W
        BY <1>7, <3>1
      <3> QED
        BY <1>6, <1>7, <2>2, <3>1, <3>2
    <2> QED
      BY <2>1, <2>2
  <1>9. f = [n \in 0 .. N |-> IF n = 0 THEN t ELSE Delete(f[n - 1], ds[n])]
    BY <1>7, <1>8
  <1>10. Deleting(f, t, ds)
    BY <1>9 DEF Deleting, N
  <1> QED
    BY <1>10

\* Deleting a group keeps what the tables are, and removes the keys of its devices;
\* outside its VLANs the broadcasts reach what they reached.
LEMMA DeletedKeeps ==
    ASSUME NEW t, TablesInv(t), NEW g \in Groups
    PROVE  /\ TablesInv(Deleted(t, g))
           /\ DOMAIN Deleted(t, g).list = DOMAIN t.list \ Keys(g)
           /\ Reaches(t, {}) => Reaches(Deleted(t, g), VlanSets(g))
           /\ FoundInVlan(t) => FoundInVlan(Deleted(t, g))
           /\ \A x \in DOMAIN Deleted(t, g).devs :
                 x \in DOMAIN t.devs /\ Deleted(t, g).devs[x] = t.devs[x]
  <1> DEFINE ds == Devices(g)
             N == Len(ds)
             V == VlanSets(g)
             f == CHOOSE f : Deleting(f, t, ds)
             K(n) == {ds[m].key : m \in 1 .. n}
             Kept(n) ==
                 /\ TablesInv(f[n])
                 /\ DOMAIN f[n].list = DOMAIN t.list \ K(n)
                 /\ Reaches(t, V) => Reaches(f[n], V)
                 /\ FoundInVlan(t) => FoundInVlan(f[n])
                 /\ \A x \in DOMAIN f[n].devs : x \in DOMAIN t.devs /\ f[n].devs[x] = t.devs[x]
             S == {n \in Nat : n <= N => Kept(n)}
  <1>1. Deleted(t, g) = f[N]
    BY DEF Deleted, Deleting
  <1>2. ds \in Seq(DeviceType)
    BY DevicesType
  <1>3. N \in Nat /\ DOMAIN ds = 1 .. N /\ \A n \in 1 .. N : ds[n] \in DeviceType
    <2> HIDE DEF ds
    <2> QED
      BY <1>2
  <1>4. \A n \in 1 .. N : ds[n].key.vlans \in V
    BY <1>3 DEF VlanSets, Keys
  <1> HIDE DEF ds, V
  <1>5. Deleting(f, t, ds)
    BY <1>2, DeletingExists
  <1> HIDE DEF f
  <1>6. f[0] = t /\ \A n \in 1 .. N : f[n] = Delete(f[n - 1], ds[n])
    <2>1. f = [n \in 0 .. N |-> IF n = 0 THEN t ELSE Delete(f[n - 1], ds[n])]
      BY <1>5 DEF Deleting
    <2> HIDE DEF N
    <2> QED
      BY <1>3, <2>1
  <1> HIDE DEF N
  <1>7. Kept(0)
    <2>1. K(0) = {}
      OBVIOUS
    <2> HIDE DEF K
    <2> QED
      BY <1>6, <2>1
  <1>8. ASSUME NEW n \in Nat, n + 1 <= N, Kept(n) PROVE Kept(n + 1)
    <2>1. n + 1 \in 1 .. N /\ n + 1 - 1 = n
      BY <1>3, <1>8
    <2> DEFINE a == f[n]
               b == f[n + 1]
               d == ds[n + 1]
    <2>2. b = Delete(a, d) /\ d \in DeviceType /\ d.key.vlans \in V
      BY <1>3, <1>4, <1>6, <2>1
    <2>3. /\ TablesInv(a)
          /\ DOMAIN a.list = DOMAIN t.list \ K(n)
          /\ Reaches(t, V) => Reaches(a, V)
          /\ FoundInVlan(t) => FoundInVlan(a)
          /\ \A x \in DOMAIN a.devs : x \in DOMAIN t.devs /\ a.devs[x] = t.devs[x]
      BY <1>8
    <2>4. K(n + 1) = K(n) \cup {d.key}
      <3>1. 1 .. n + 1 = (1 .. n) \cup {n + 1}
        BY <1>8
      <3> QED
        BY <3>1
    <2> HIDE DEF a, b, d, K
    <2>5. /\ TablesInv(b)
          /\ DOMAIN b.list = DOMAIN a.list \ {d.key}
          /\ Reaches(a, V) => Reaches(b, V)
          /\ FoundInVlan(a) => FoundInVlan(b)
          /\ \A x \in DOMAIN b.devs : x \in DOMAIN a.devs /\ b.devs[x] = a.devs[x]
      BY <2>2, <2>3, DeleteKeeps
    <2>6. DOMAIN b.list = DOMAIN t.list \ K(n + 1)
      BY <2>3, <2>4, <2>5
    <2>7. (Reaches(t, V) => Reaches(b, V)) /\ (FoundInVlan(t) => FoundInVlan(b))
      BY <2>3, <2>5
    <2>8. \A x \in DOMAIN b.devs : x \in DOMAIN t.devs /\ b.devs[x] = t.devs[x]
      BY <2>3, <2>5
    <2> QED
      BY <2>5, <2>6, <2>7, <2>8 DEF b
  <1> HIDE DEF Kept
  <1>9. S = Nat
    <2>1. 0 \in S
      BY <1>7
    <2>2. ASSUME NEW n \in S PROVE n + 1 \in S
      <3>1. n \in Nat /\ n + 1 \in Nat /\ (n + 1 <= N => n <= N)
        BY <1>3
      <3>2. n + 1 <= N => Kept(n + 1)
        BY <1>8, <3>1
      <3> QED
        BY <3>1, <3>2
    <2>3. S \in SUBSET Nat
      OBVIOUS
    <2> HIDE DEF S
    <2> QED
      BY <2>1, <2>2, <2>3, Induction
  <1>10. Kept(N)
    <2>1. N <= N
      BY <1>3
    <2> QED
      BY <1>3, <1>9, <2>1
  <1>11. K(N) = Keys(g)
    BY <1>3 DEF Keys, ds
  <1>12. Reaches(t, {}) => Reaches(t, V)
    BY DEF Reaches
  <1> HIDE DEF K
  <1> QED
    BY <1>1, <1>10, <1>11, <1>12 DEF Kept, V

\* When no device is left in the VLANs of a deleted group there is no entry either, and
\* the broadcasts reach everybody again.
LEMMA ReachesAgain ==
    ASSUME NEW t, TablesInv(t), NEW V \in SUBSET Seq(Nat), Reaches(t, V),
           \A key \in DOMAIN t.list : key.vlans \notin V
    PROVE  Reaches(t, {})
  <1>1. Typed(t) /\ Paired(t) /\ Distinct(t) /\ InOwnVlans(t) /\ Balanced(t)
    BY DEF TablesInv
  <1>2. \A x \in DOMAIN t.devs : t.devs[x].key.vlans \notin V
    BY <1>1 DEF Paired
  <1>3. ASSUME NEW n \in DOMAIN t.bcast PROVE t.bcast[n].vlans \notin V
    <2> DEFINE v == t.bcast[n].vlans
    <2>1. SUFFICES ASSUME v \in V PROVE FALSE
      OBVIOUS
    <2>2. DevicesIn(t, v) = {}
      BY <1>2, <2>1 DEF DevicesIn
    <2>3. t.bcast[n] \in EntriesIn(t, v)
      BY DEF EntriesIn
    <2>4. v \in Seq(Nat)
      BY <2>1
    <2> HIDE DEF v
    <2>5. IsFiniteSet(EntriesIn(t, v)) /\ Cardinality(EntriesIn(t, v)) = Cardinality(DevicesIn(t, v))
      BY <1>1, <2>4, FiniteInVlan DEF Balanced
    <2>6. Cardinality(DevicesIn(t, v)) = 0
      BY <2>2, FS_EmptySet
    <2>7. EntriesIn(t, v) = {}
      BY <2>5, <2>6, FS_EmptySet
    <2> QED
      BY <2>3, <2>7
  <1> QED
    BY <1>2, <1>3 DEF Reaches

-----------------------------------------------------------------------------
(* The TPIDs in use.                                                         *)

\* How many levels of a group have a TPID, and that they can be counted with the group's id.
LEMMA LevelsCounted ==
    ASSUME NEW g \in Groups, NEW id, NEW x
    PROVE  \E P : /\ P = {u \in {id} \X Nat : u[2] \in DOMAIN g.tags /\ g.tags[u[2]].tpid = x}
                  /\ IsFiniteSet(P) /\ Cardinality(P) = Uses(g, x)
                  /\ Uses(g, x) \in Nat /\ (Uses(g, x) = 0 <=> x \notin Tpids(g))
  <1> DEFINE J == {j \in DOMAIN g.tags : g.tags[j].tpid = x}
             P == {u \in {id} \X Nat : u[2] \in DOMAIN g.tags /\ g.tags[u[2]].tpid = x}
             f == [j \in J |-> <<id, j>>]
  <1>1. g.tags \in Seq(Levels)
    BY DEF Groups
  <1>2. Len(g.tags) \in Nat /\ DOMAIN g.tags = 1 .. Len(g.tags)
    <2> DEFINE tags == g.tags
    <2>1. tags \in Seq(Levels)
      BY <1>1
    <2> HIDE DEF tags
    <2>2. Len(tags) \in Nat /\ DOMAIN tags = 1 .. Len(tags)
      BY <2>1
    <2> QED
      BY <2>2 DEF tags
  <1>3. IsFiniteSet(J)
    <2>1. 1 \in Int /\ Len(g.tags) \in Int
      BY <1>2
    <2>2. IsFiniteSet(1 .. Len(g.tags))
      BY <2>1, FS_Interval
    <2>3. J \in SUBSET (1 .. Len(g.tags))
      BY <1>2
    <2> HIDE DEF J
    <2> QED
      BY <2>2, <2>3, FS_Subset
  <1>4. \A j \in J : j \in Nat
    BY <1>2
  <1>5. f \in Bijection(J, P)
    <2>1. \A j \in J : f[j] = <<id, j>> /\ f[j] \in P
      BY <1>4
    <2>2. \A u \in P : u[2] \in J /\ u = <<id, u[2]>>
      OBVIOUS
    <2>3. f \in [J -> P]
      BY <2>1
    <2>4. \A i, j \in J : f[i] = f[j] => i = j
      BY <2>1
    <2>5. \A u \in P : \E j \in J : f[j] = u
      BY <2>1, <2>2
    <2> HIDE DEF f, J, P
    <2> QED
      BY <2>3, <2>4, <2>5 DEF Bijection, Injection, Surjection, IsInjective
  <1>6. Uses(g, x) = Cardinality(J)
    BY DEF Uses
  <1>7. x \notin Tpids(g) <=> J = {}
    BY DEF Tpids
  <1> HIDE DEF f, J
  <1>8. IsFiniteSet(P) /\ Cardinality(P) = Cardinality(J)
    <2> HIDE DEF P
    <2> QED
      BY <1>3, <1>5, FS_Bijection DEF ExistsBijection
  <1>9. Cardinality(J) \in Nat /\ (Cardinality(J) = 0 <=> J = {})
    BY <1>3, FS_CardinalityType, FS_EmptySet
  <1> QED
    BY <1>6, <1>7, <1>8, <1>9

\* With one more group there are its levels more that have a TPID.
LEMMA UsersAdded ==
    ASSUME NEW gs, NEW id, id \notin DOMAIN gs, NEW g \in Groups,
           NEW hs, DOMAIN hs = DOMAIN gs \cup {id}, hs[id] = g,
           \A i \in DOMAIN gs : hs[i] = gs[i],
           NEW x, IsFiniteSet(UsersOf(gs, x)) \/ IsFiniteSet(UsersOf(hs, x))
    PROVE  /\ IsFiniteSet(UsersOf(gs, x)) /\ IsFiniteSet(UsersOf(hs, x))
           /\ Cardinality(UsersOf(hs, x)) = Cardinality(UsersOf(gs, x)) + Uses(g, x)
           /\ Cardinality(UsersOf(gs, x)) \in Nat /\ Uses(g, x) \in Nat
           /\ Uses(g, x) = 0 <=> x \notin Tpids(g)
  <1> DEFINE A == UsersOf(gs, x)
             B == UsersOf(hs, x)
  <1>1. PICK P : /\ P = {u \in {id} \X Nat : u[2] \in DOMAIN g.tags /\ g.tags[u[2]].tpid = x}
                 /\ IsFiniteSet(P) /\ Cardinality(P) = Uses(g, x)
                 /\ Uses(g, x) \in Nat /\ (Uses(g, x) = 0 <=> x \notin Tpids(g))
    BY LevelsCounted
  <1>2. B = A \cup P
    <2>1. \A u \in B : u \in A \cup P
      BY <1>1 DEF UsersOf
    <2>2. \A u \in A : u \in B
      BY DEF UsersOf
    <2>3. \A u \in P : u \in B
      BY <1>1 DEF UsersOf
    <2> HIDE DEF A, B
    <2> QED
      BY <2>1, <2>2, <2>3
  <1>3. A \cap P = {}
    BY <1>1 DEF UsersOf
  <1>4. IsFiniteSet(A) \/ IsFiniteSet(B)
    OBVIOUS
  <1> HIDE DEF A, B
  <1>5. IsFiniteSet(A)
    <2>1. A \in SUBSET B
      BY <1>2
    <2>2. IsFiniteSet(B) => IsFiniteSet(A)
      BY <2>1, FS_Subset
    <2> QED
      BY <1>4, <2>2
  <1>6. /\ IsFiniteSet(A \cup P)
        /\ Cardinality(A \cup P) = Cardinality(A) + Cardinality(P) - Cardinality(A \cap P)
    BY <1>1, <1>5, FS_Union
  <1>7. Cardinality(A \cap P) = 0
    BY <1>3, FS_EmptySet
  <1>8. Cardinality(A) \in Nat
    BY <1>5, FS_CardinalityType
  <1>9. Cardinality(B) = Cardinality(A) + Uses(g, x)
    BY <1>1, <1>2, <1>6, <1>7, <1>8
  <1>10. IsFiniteSet(B)
    BY <1>2, <1>6
  <1> QED
    BY <1>1, <1>5, <1>8, <1>9, <1>10 DEF A, B

\* A TPID no group has is used by none.
LEMMA UsersOfNone ==
    ASSUME NEW gs, NEW x, x \notin TpidsOf(gs)
    PROVE  IsFiniteSet(UsersOf(gs, x)) /\ Cardinality(UsersOf(gs, x)) = 0
  <1>1. UsersOf(gs, x) = {}
    BY DEF UsersOf, TpidsOf, Tpids
  <1> QED
    BY <1>1, FS_EmptySet

\* Adding a group counts its TPIDs.
LEMMA TpidsAdded ==
    ASSUME NEW gs, NEW id, id \notin DOMAIN gs, NEW g \in Groups,
           NEW hs, DOMAIN hs = DOMAIN gs \cup {id}, hs[id] = g,
           \A i \in DOMAIN gs : hs[i] = gs[i],
           NEW f, Counted(f, gs)
    PROVE  Counted(AddTpids(f, g), hs)
  <1> DEFINE h == AddTpids(f, g)
  <1>1. /\ DOMAIN f = TpidsOf(gs)
        /\ \A x \in DOMAIN f : IsFiniteSet(UsersOf(gs, x)) /\ f[x] = Cardinality(UsersOf(gs, x))
    BY DEF Counted
  <1>2. DOMAIN h = DOMAIN f \cup Tpids(g) /\ \A x \in DOMAIN h : h[x] = Count(f, x) + Uses(g, x)
    BY DEF AddTpids
  <1>3. TpidsOf(hs) = TpidsOf(gs) \cup Tpids(g)
    BY DEF TpidsOf
  <1> HIDE DEF h
  <1>4. ASSUME NEW x \in DOMAIN h
        PROVE  IsFiniteSet(UsersOf(hs, x)) /\ h[x] = Cardinality(UsersOf(hs, x))
    <2>1. IsFiniteSet(UsersOf(gs, x)) /\ Count(f, x) = Cardinality(UsersOf(gs, x))
      <3>1. CASE x \in DOMAIN f
        BY <1>1, <3>1 DEF Count
      <3>2. CASE x \notin DOMAIN f
        BY <1>1, <3>2, UsersOfNone DEF Count
      <3> QED
        BY <3>1, <3>2
    <2>2. /\ IsFiniteSet(UsersOf(hs, x))
          /\ Cardinality(UsersOf(hs, x)) = Cardinality(UsersOf(gs, x)) + Uses(g, x)
      BY <2>1, UsersAdded
    <2> QED
      BY <1>2, <2>1, <2>2
  <1>5. Counted(h, hs)
    BY <1>1, <1>2, <1>3, <1>4 DEF Counted
  <1> QED
    BY <1>5 DEF h

\* Deleting a group discounts its TPIDs, and forgets those that nobody uses any more.
LEMMA TpidsDeleted ==
    ASSUME NEW hs, NEW id \in DOMAIN hs, \A i \in DOMAIN hs : hs[i] \in Groups,
           NEW gs, DOMAIN gs = DOMAIN hs \ {id}, \A i \in DOMAIN gs : gs[i] = hs[i],
           NEW f, Counted(f, hs)
    PROVE  Counted(DeleteTpids(f, hs[id]), gs)
  <1> DEFINE g == hs[id]
             h == DeleteTpids(f, g)
  <1>1. /\ DOMAIN f = TpidsOf(hs)
        /\ \A x \in DOMAIN f : IsFiniteSet(UsersOf(hs, x)) /\ f[x] = Cardinality(UsersOf(hs, x))
    BY DEF Counted
  <1>2. DOMAIN h = {x \in DOMAIN f : f[x] # Uses(g, x)} /\ \A x \in DOMAIN h : h[x] = f[x] - Uses(g, x)
    BY DEF DeleteTpids
  <1>3. TpidsOf(hs) = TpidsOf(gs) \cup Tpids(g)
    BY DEF TpidsOf
  <1>4. id \notin DOMAIN gs /\ DOMAIN hs = DOMAIN gs \cup {id} /\ \A i \in DOMAIN gs : hs[i] = gs[i]
    OBVIOUS
  <1>5. g \in Groups /\ hs[id] = g
    OBVIOUS
  <1> HIDE DEF h, g
  <1>6. ASSUME NEW x \in DOMAIN f
        PROVE  /\ IsFiniteSet(UsersOf(gs, x)) /\ Uses(g, x) \in Nat
               /\ Cardinality(UsersOf(gs, x)) \in Nat
               /\ f[x] = Cardinality(UsersOf(gs, x)) + Uses(g, x)
               /\ Uses(g, x) = 0 <=> x \notin Tpids(g)
    <2>1. IsFiniteSet(UsersOf(hs, x)) /\ f[x] = Cardinality(UsersOf(hs, x))
      BY <1>1
    <2>2. /\ IsFiniteSet(UsersOf(gs, x))
          /\ Cardinality(UsersOf(hs, x)) = Cardinality(UsersOf(gs, x)) + Uses(g, x)
          /\ Cardinality(UsersOf(gs, x)) \in Nat /\ Uses(g, x) \in Nat
          /\ Uses(g, x) = 0 <=> x \notin Tpids(g)
      <3>1. IsFiniteSet(UsersOf(gs, x)) \/ IsFiniteSet(UsersOf(hs, x))
        BY <2>1
      <3>2. /\ id \notin DOMAIN gs /\ DOMAIN hs = DOMAIN gs \cup {id}
            /\ hs[id] = g /\ g \in Groups /\ \A i \in DOMAIN gs : hs[i] = gs[i]
        BY <1>4, <1>5
      <3> QED
        BY ONLY <3>1, <3>2, UsersAdded
    <2> QED
      BY <2>1, <2>2
  <1>7. ASSUME NEW x \in DOMAIN f
        PROVE  f[x] # Uses(g, x) <=> x \in TpidsOf(gs)
    <2> DEFINE A == UsersOf(gs, x)
    <2>1. A = {} <=> Cardinality(A) = 0
      BY <1>6, FS_EmptySet
    <2>2. Cardinality(A) = 0 <=> f[x] = Uses(g, x)
      BY <1>6
    <2>3. x \notin TpidsOf(gs) => A = {}
      BY DEF UsersOf, TpidsOf, Tpids
    <2>4. x \in TpidsOf(gs) => A # {}
      <3> SUFFICES ASSUME x \in TpidsOf(gs) PROVE A # {}
        OBVIOUS
      <3>1. PICK i \in DOMAIN gs : \E j \in DOMAIN gs[i].tags : gs[i].tags[j].tpid = x
        BY DEF TpidsOf, Tpids
      <3>2. PICK j \in DOMAIN gs[i].tags : gs[i].tags[j].tpid = x
        BY <3>1
      <3>3. j \in Nat
        <4> DEFINE tags == gs[i].tags
        <4>1. gs[i] \in Groups
          OBVIOUS
        <4>2. tags \in Seq(Levels)
          BY <4>1 DEF Groups
        <4> HIDE DEF tags
        <4>3. DOMAIN tags \subseteq Nat
          BY <4>2
        <4> QED
          BY <4>3 DEF tags
      <3>4. <<i, j>> \in A
        BY <3>2, <3>3 DEF UsersOf
      <3> QED
        BY <3>4
    <2> QED
      BY <2>1, <2>2, <2>3, <2>4
  <1>8. DOMAIN h = TpidsOf(gs)
    BY <1>1, <1>2, <1>3, <1>7
  <1>9. \A x \in DOMAIN h : IsFiniteSet(UsersOf(gs, x)) /\ h[x] = Cardinality(UsersOf(gs, x))
    BY <1>2, <1>6
  <1>10. Counted(h, gs)
    BY <1>8, <1>9 DEF Counted
  <1> QED
    BY <1>10 DEF h, g

-----------------------------------------------------------------------------
(* The devices a packet is for.                                              *)

\* The sequences of objects of which those that exist are devices in the VLANs.
InVlan(vlans) ==
    {s \in Seq(Nat) :
        \A n \in DOMAIN s : s[n] \in DOMAIN devs => devs[s[n]].key.vlans = vlans}

\* One more in front is another one.
LEMMA OneMoreInVlan ==
    ASSUME NEW vlans, NEW s \in InVlan(vlans), NEW o \in Nat,
           o \in DOMAIN devs => devs[o].key.vlans = vlans
    PROVE  <<o>> \o s \in InVlan(vlans)
  <1> DEFINE b == <<o>>
             c == b \o s
  <1>1. s \in Seq(Nat) /\ \A n \in DOMAIN s : s[n] \in DOMAIN devs => devs[s[n]].key.vlans = vlans
    BY DEF InVlan
  <1>2. b \in Seq(Nat) /\ Len(b) = 1 /\ b[1] = o
    OBVIOUS
  <1> HIDE DEF b
  <1>3. /\ c \in Seq(Nat) /\ Len(c) = 1 + Len(s)
        /\ \A n \in 1 .. Len(c) : c[n] = IF n <= 1 THEN b[n] ELSE s[n - 1]
    <2>1. /\ c \in Seq(Nat) /\ Len(c) = Len(b) + Len(s)
          /\ \A n \in 1 .. Len(b) + Len(s) : c[n] = IF n <= Len(b) THEN b[n] ELSE s[n - Len(b)]
      BY <1>1, <1>2, ConcatProperties
    <2> HIDE DEF c
    <2> QED
      BY <1>2, <2>1
  <1> HIDE DEF c
  <1>4. ASSUME NEW n \in DOMAIN c, c[n] \in DOMAIN devs PROVE devs[c[n]].key.vlans = vlans
    <2>1. n \in 1 .. Len(c) /\ Len(s) \in Nat /\ DOMAIN s = 1 .. Len(s)
      BY <1>1, <1>3
    <2>2. CASE n <= 1
      <3>1. n = 1
        BY <2>1, <2>2
      <3>2. c[n] = o
        BY <1>2, <1>3, <2>1, <2>2, <3>1
      <3> QED
        BY <1>4, <3>2
    <2>3. CASE ~ (n <= 1)
      <3>1. n - 1 \in DOMAIN s
        BY <1>3, <2>1, <2>3
      <3>2. c[n] = s[n - 1]
        BY <1>3, <2>1, <2>3
      <3> QED
        BY <1>1, <1>4, <3>1, <3>2
    <2> QED
      BY <2>2, <2>3
  <1>5. c \in InVlan(vlans)
    BY <1>3, <1>4 DEF InVlan
  <1> QED
    BY <1>5 DEF c, b

\* The function Lookup takes the devices of a broadcast from.
Reaching(f, vlans) ==
    f = [n \in 0 .. Len(bcast) |->
            IF n = 0 THEN <<>>
            ELSE IF bcast[n].vlans = vlans THEN <<bcast[n].dev>> \o f[n - 1]
            ELSE f[n - 1]]

\* There is one, and it yields devices in the VLANs.
LEMMA BroadcastInVlan ==
    ASSUME TablesInv(Tables), NEW vlans
    PROVE  (CHOOSE f : Reaching(f, vlans))[Len(bcast)] \in InVlan(vlans)
  <1> DEFINE N == Len(bcast)
             W == InVlan(vlans)
             h == CHOOSE f : Reaching(f, vlans)
             r(n, x) == IF bcast[n].vlans = vlans THEN <<bcast[n].dev>> \o x ELSE x
             step == [n \in 1 .. N |-> [x \in W |-> r(n, x)]]
             S == {n \in Nat : n <= N => h[n] \in W}
  <1>1. Tables.bcast = bcast /\ Tables.devs = devs
    BY DEF Tables
  <1>2. N \in Nat /\ DOMAIN bcast = 1 .. N /\ \A n \in 1 .. N : bcast[n].dev \in Nat
    <2>1. /\ Len(Tables.bcast) \in Nat /\ DOMAIN Tables.bcast = 1 .. Len(Tables.bcast)
          /\ \A n \in DOMAIN Tables.bcast : Tables.bcast[n].dev \in Nat
      BY TypedTables DEF TablesInv
    <2> QED
      BY <1>1, <2>1
  <1>3. \A n \in 1 .. N : bcast[n].dev \in DOMAIN devs =>
                             devs[bcast[n].dev].key.vlans = bcast[n].vlans
    BY <1>1, <1>2 DEF TablesInv, InOwnVlans
  <1>4. <<>> \in W
    <2>1. <<>> \in Seq(Nat) /\ DOMAIN <<>> = {}
      OBVIOUS
    <2> QED
      BY <2>1 DEF InVlan
  <1> HIDE DEF N, W
  <1>5. ASSUME NEW n \in 1 .. N, NEW x \in W PROVE r(n, x) \in W
    <2>1. CASE bcast[n].vlans = vlans
      <3>1. <<bcast[n].dev>> \o x \in W
        BY <1>2, <1>3, <2>1, OneMoreInVlan DEF W
      <3> QED
        BY <2>1, <3>1
    <2>2. CASE bcast[n].vlans # vlans
      BY <2>2
    <2> QED
      BY <2>1, <2>2
  <1> HIDE DEF r
  <1>6. step \in [1 .. N -> [W -> W]] /\ \A n \in 1 .. N : \A x \in W : step[n][x] = r(n, x)
    BY <1>5
  <1> HIDE DEF step
  <1>7. PICK f \in [0 .. N -> W] : f[0] = <<>> /\ \A n \in 1 .. N : f[n] = step[n][f[n - 1]]
    <2>1. \E f : Steps(f, W, <<>>, N, step)
      BY <1>2, <1>4, <1>6, Recursion
    <2> QED
      BY <2>1 DEF Steps
  <1>8. ASSUME NEW n \in 0 .. N PROVE f[n] = IF n = 0 THEN <<>> ELSE r(n, f[n - 1])
    <2>1. CASE n = 0
      BY <1>7, <2>1
    <2>2. CASE n # 0
      <3>1. n \in 1 .. N /\ n - 1 \in 0 .. N
        BY <1>2, <2>2
      <3>2. f[n - 1] \in W
        BY <1>7, <3>1
      <3> QED
        BY <1>6, <1>7, <2>2, <3>1, <3>2
    <2> QED
      BY <2>1, <2>2
  <1>9. Reaching(f, vlans)
    <2>1. f = [n \in 0 .. N |-> IF n = 0 THEN <<>> ELSE r(n, f[n - 1])]
      BY <1>7, <1>8
    <2> QED
      BY <2>1 DEF Reaching, r, N
  <1>10. Reaching(h, vlans)
    BY <1>9
  <1> HIDE DEF h
  <1>11. h[0] = <<>> /\ \A n \in 1 .. N : h[n] = r(n, h[n - 1])
    <2>1. h = [n \in 0 .. N |-> IF n = 0 THEN <<>> ELSE r(n, h[n - 1])]
      BY <1>10 DEF Reaching, r, N
    <2> QED
      BY <1>2, <2>1
  <1>12. S = Nat
    <2>1. 0 \in S
      BY <1>4, <1>11
    <2>2. ASSUME NEW n \in S PROVE n + 1 \in S
      <3>1. n \in Nat /\ n + 1 \in Nat /\ n + 1 - 1 = n
            /\ (n + 1 <= N => n <= N /\ n + 1 \in 1 .. N)
        BY <1>2
      <3>2. ASSUME n + 1 <= N PROVE h[n + 1] \in W
        <4>1. h[n] \in W /\ n + 1 \in 1 .. N
          BY <3>1, <3>2
        <4>2. h[n + 1] = r(n + 1, h[n])
          BY <1>11, <3>1, <4>1
        <4> QED
          BY <1>5, <4>1, <4>2
      <3> QED
        BY <3>1, <3>2
    <2>3. S \in SUBSET Nat
      OBVIOUS
    <2> HIDE DEF S
    <2> QED
      BY <2>1, <2>2, <2>3, Induction
  <1>13. h[N] \in W
    <2>1. N \in S /\ N <= N
      BY <1>2, <1>12
    <2> QED
      BY <2>1
  <1> QED
    BY <1>13 DEF h, N, W

\* The devices found for a packet are in its VLANs.
LEMMA LookupInVlan ==
    ASSUME TablesInv(Tables), NEW p
    PROVE  Lookup(p) \in InVlan(TagIds(Parsed(p.tags)))
  <1> DEFINE vlans == TagIds(Parsed(p.tags))
             key == [vlans |-> vlans, mac |-> p.dst]
             reached == CHOOSE f : Reaching(f, vlans)
  <1>1. Lookup(p) = IF p.dst = Bcast THEN reached[Len(bcast)]
                    ELSE IF key \in DOMAIN list THEN <<list[key]>> ELSE <<>>
    BY DEF Lookup, Reaching
  <1>2. key.vlans = vlans
    OBVIOUS
  <1> HIDE DEF vlans
  <1>3. reached[Len(bcast)] \in InVlan(vlans)
    BY BroadcastInVlan
  <1>4. <<>> \in InVlan(vlans)
    <2>1. <<>> \in Seq(Nat) /\ DOMAIN <<>> = {}
      OBVIOUS
    <2> QED
      BY <2>1 DEF InVlan
  <1> HIDE DEF reached, key
  <1>5. ASSUME key \in DOMAIN list PROVE <<list[key]>> \in InVlan(vlans)
    <2>1. Tables.list = list /\ Tables.devs = devs
      BY DEF Tables
    <2>2. list[key] \in DOMAIN devs /\ devs[list[key]].key = key
      BY <1>5, <2>1 DEF TablesInv, Paired
    <2>3. list[key] \in Nat
      <3>1. Tables.list \in [DOMAIN Tables.list -> Nat]
        BY TypedTables DEF TablesInv
      <3> QED
        BY <1>5, <2>1, <3>1
    <2> DEFINE o == list[key]
               s == <<o>>
    <2>4. o \in Nat /\ devs[o].key.vlans = vlans
      BY <1>2, <2>2, <2>3
    <2> HIDE DEF o
    <2>5. s \in Seq(Nat) /\ DOMAIN s = {1} /\ s[1] = o
      BY <2>4
    <2> HIDE DEF s
    <2>6. s \in InVlan(vlans)
      BY <2>4, <2>5 DEF InVlan
    <2> QED
      BY <2>6 DEF s, o
  <1>6. Lookup(p) \in InVlan(vlans)
    BY <1>1, <1>3, <1>4, <1>5
  <1> QED
    BY <1>6 DEF vlans

-----------------------------------------------------------------------------
(* Groups and tables together.                                               *)

\* The keys of a group's devices, and their VLANs, are of these types.
LEMMA VlanSetsType ==
    ASSUME NEW g \in Groups
    PROVE  VlanSets(g) \in SUBSET Seq(Nat)
  <1> DEFINE ds == Devices(g)
  <1>1. ds \in Seq(DeviceType)
    BY DevicesType
  <1>2. \A n \in DOMAIN ds : ds[n].key.vlans \in Seq(Nat)
    <2> HIDE DEF ds
    <2>1. \A n \in DOMAIN ds : ds[n] \in DeviceType
      BY <1>1
    <2> QED
      BY <2>1 DEF DeviceType, DeviceKeys
  <1> QED
    BY <1>2 DEF VlanSets, Keys

\* The configurations of the groups gs.
ConfigsOf(gs) == {gs[i] : i \in DOMAIN gs}

\* A group more keeps everything consistent: that its keys or VLANs meet those of the
\* others is what excuse is for.
LEMMA GroupAdded ==
    ASSUME rx.found \in Seq(Nat),
           NEW gs, NEW t, NEW f, NEW e, Consistent(gs, t, f, e),
           NEW id, id \notin DOMAIN gs, NEW g \in Groups,
           NEW hs, hs \in [DOMAIN gs \cup {id} -> Groups], hs[id] = g,
           \A i \in DOMAIN gs : hs[i] = gs[i]
    PROVE  Consistent(hs, Added(t, g), AddTpids(f, g), e \cup Meets(g, ConfigsOf(gs)))
  <1> DEFINE u == Added(t, g)
             os == ConfigsOf(gs)
             d == e \cup Meets(g, os)
  <1>1. /\ Counted(f, gs) /\ TablesInv(t) /\ FoundInVlan(t)
        /\ "key" \notin e => KeysApart(gs, DOMAIN t.list)
        /\ "vlan" \notin e => VlansApart(gs)
        /\ e \cap {"key", "vlan"} = {} => Reaches(t, {})
    BY DEF Consistent
  <1>2. DOMAIN hs = DOMAIN gs \cup {id}
    OBVIOUS
  <1>3. Counted(AddTpids(f, g), hs)
    BY <1>1, <1>2, TpidsAdded
  <1>4. /\ TablesInv(u) /\ DOMAIN u.list = DOMAIN t.list \cup Keys(g)
        /\ Reaches(t, {}) => Reaches(u, {})
        /\ FoundInVlan(t) => FoundInVlan(u)
    BY <1>1, AddedKeeps
  <1> HIDE DEF u
  <1>5. ASSUME "key" \notin d PROVE KeysApart(hs, DOMAIN u.list)
    <2>1. "key" \notin e /\ "key" \notin Meets(g, os)
      BY <1>5
    <2>2. \A h \in os : Keys(g) \cap Keys(h) = {}
      BY <2>1 DEF Meets
    <2>3. \A i \in DOMAIN gs : Keys(g) \cap Keys(gs[i]) = {}
      BY <2>2 DEF ConfigsOf
    <2>4. KeysApart(gs, DOMAIN t.list)
      BY <1>1, <2>1
    <2>5. \A i, j \in DOMAIN hs : i # j => Keys(hs[i]) \cap Keys(hs[j]) = {}
      BY <1>2, <2>3, <2>4 DEF KeysApart
    <2>6. UNION {Keys(hs[i]) : i \in DOMAIN hs} = (UNION {Keys(gs[i]) : i \in DOMAIN gs}) \cup Keys(g)
      BY <1>2
    <2> QED
      BY <1>4, <2>4, <2>5, <2>6 DEF KeysApart
  <1>6. ASSUME "vlan" \notin d PROVE VlansApart(hs)
    <2>1. "vlan" \notin e /\ "vlan" \notin Meets(g, os)
      BY <1>6
    <2>2. \A h \in os : VlanSets(g) \cap VlanSets(h) = {}
      BY <2>1 DEF Meets
    <2>3. \A i \in DOMAIN gs : VlanSets(g) \cap VlanSets(gs[i]) = {}
      BY <2>2 DEF ConfigsOf
    <2> QED
      BY <1>1, <1>2, <2>1, <2>3 DEF VlansApart
  <1>7. d \cap {"key", "vlan"} = {} => Reaches(u, {})
    BY <1>1, <1>4
  <1> HIDE DEF d
  <1>8. Consistent(hs, u, AddTpids(f, g), d)
    BY <1>1, <1>3, <1>4, <1>5, <1>6, <1>7 DEF Consistent
  <1> QED
    BY <1>8 DEF u, d

\* So does a group less.
LEMMA GroupDeleted ==
    ASSUME NEW hs, NEW t, NEW f, NEW e, Consistent(hs, t, f, e),
           NEW id \in DOMAIN hs, NEW g, g = hs[id],
           NEW gs, gs \in [DOMAIN hs \ {id} -> Groups],
           \A i \in DOMAIN gs : gs[i] = hs[i]
    PROVE  Consistent(gs, Deleted(t, g), DeleteTpids(f, g), e)
  <1> DEFINE u == Deleted(t, g)
  <1>1. /\ hs \in [DOMAIN hs -> Groups] /\ Counted(f, hs) /\ TablesInv(t) /\ FoundInVlan(t)
        /\ "key" \notin e => KeysApart(hs, DOMAIN t.list)
        /\ "vlan" \notin e => VlansApart(hs)
        /\ e \cap {"key", "vlan"} = {} => Reaches(t, {})
    BY DEF Consistent
  <1>2. DOMAIN gs = DOMAIN hs \ {id} /\ \A i \in DOMAIN hs : hs[i] \in Groups
    BY <1>1
  <1>3. g \in Groups
    BY <1>2
  <1>4. Counted(DeleteTpids(f, g), gs)
    BY <1>1, <1>2, TpidsDeleted
  <1>5. /\ TablesInv(u) /\ DOMAIN u.list = DOMAIN t.list \ Keys(g)
        /\ Reaches(t, {}) => Reaches(u, VlanSets(g))
        /\ FoundInVlan(t) => FoundInVlan(u)
    BY <1>1, <1>3, DeletedKeeps
  <1> HIDE DEF u
  <1>6. ASSUME "key" \notin e PROVE KeysApart(gs, DOMAIN u.list)
    <2>1. KeysApart(hs, DOMAIN t.list)
      BY <1>1, <1>6
    <2>2. \A i, j \in DOMAIN gs : i # j => Keys(gs[i]) \cap Keys(gs[j]) = {}
      BY <1>2, <2>1 DEF KeysApart
    <2>3. \A i \in DOMAIN gs : Keys(g) \cap Keys(gs[i]) = {}
      BY <1>2, <2>1 DEF KeysApart
    <2>4. DOMAIN t.list = (UNION {Keys(gs[i]) : i \in DOMAIN gs}) \cup Keys(g)
      <3>1. UNION {Keys(hs[i]) : i \in DOMAIN hs} = (UNION {Keys(gs[i]) : i \in DOMAIN gs}) \cup Keys(g)
        BY <1>2
      <3> QED
        BY <2>1, <3>1 DEF KeysApart
    <2>5. DOMAIN u.list = UNION {Keys(gs[i]) : i \in DOMAIN gs}
      BY <1>5, <2>3, <2>4
    <2> QED
      BY <2>2, <2>5 DEF KeysApart
  <1>7. ASSUME "vlan" \notin e PROVE VlansApart(gs)
    BY <1>1, <1>2, <1>7 DEF VlansApart
  <1>8. ASSUME e \cap {"key", "vlan"} = {} PROVE Reaches(u, {})
    <2>1. "key" \notin e /\ "vlan" \notin e /\ Reaches(u, VlanSets(g))
      BY <1>1, <1>5, <1>8
    <2>2. ASSUME NEW key \in DOMAIN u.list PROVE key.vlans \notin VlanSets(g)
      <3>1. PICK i \in DOMAIN gs : key \in Keys(gs[i])
        BY <1>6, <2>1 DEF KeysApart
      <3>2. key.vlans \in VlanSets(gs[i])
        BY <3>1 DEF VlanSets
      <3>3. VlanSets(gs[i]) \cap VlanSets(g) = {}
        BY <1>1, <1>2, <2>1 DEF VlansApart
      <3> QED
        BY <3>2, <3>3
    <2>3. VlanSets(g) \in SUBSET Seq(Nat)
      BY <1>3, VlanSetsType
    <2> QED
      BY <1>5, <2>1, <2>2, <2>3, ReachesAgain
  <1>9. Consistent(gs, u, DeleteTpids(f, g), e)
    BY <1>1, <1>2, <1>4, <1>5, <1>6, <1>7, <1>8 DEF Consistent
  <1> QED
    BY <1>9 DEF u

\* What a device learns or forgets changes nothing about the tables.
LEMMA CachesChange ==
    ASSUME NEW gs, NEW t, NEW f, NEW e, Consistent(gs, t, f, e),
           NEW ds \in [DOMAIN t.devs -> DeviceType],
           \A o \in DOMAIN ds : ds[o].key = t.devs[o].key
    PROVE  Consistent(gs, [devs |-> ds, list |-> t.list, bcast |-> t.bcast], f, e)
  <1> DEFINE u == [devs |-> ds, list |-> t.list, bcast |-> t.bcast]
  <1>1. u.devs = ds /\ u.list = t.list /\ u.bcast = t.bcast /\ DOMAIN ds = DOMAIN t.devs
    OBVIOUS
  <1>2. TablesInv(t)
    BY DEF Consistent
  <1>3. /\ DOMAIN t.devs \in SUBSET Nat /\ IsFiniteSet(DOMAIN t.devs)
        /\ DOMAIN t.list \in SUBSET DeviceKeys /\ t.list \in [DOMAIN t.list -> Nat]
        /\ t.bcast \in Seq([vlans : Seq(Nat), dev : Nat])
    BY <1>2, TypedTables DEF TablesInv
  <1>4. Typed(u)
    BY <1>3, TablesTyped
  <1> HIDE DEF u
  <1>5. Paired(u) /\ Distinct(u) /\ InOwnVlans(u)
    BY <1>1, <1>2 DEF TablesInv, Paired, Distinct, InOwnVlans
  <1>6. \A vlans : EntriesIn(u, vlans) = EntriesIn(t, vlans) /\ DevicesIn(u, vlans) = DevicesIn(t, vlans)
    BY <1>1 DEF EntriesIn, DevicesIn
  <1>7. Balanced(u)
    BY <1>2, <1>6 DEF TablesInv, Balanced
  <1>8. FoundInVlan(t) => FoundInVlan(u)
    BY <1>1 DEF FoundInVlan
  <1>9. Reaches(t, {}) => Reaches(u, {})
    BY <1>1 DEF Reaches
  <1>10. Consistent(gs, u, f, e)
    BY <1>1, <1>4, <1>5, <1>7, <1>8, <1>9 DEF Consistent, TablesInv
  <1> QED
    BY <1>10 DEF u

-----------------------------------------------------------------------------
(* The invariant, action by action.                                          *)

\* Caches after an address was learned, asked for or forgotten.
LEMMA CachesType ==
    /\ <<>> \in Caches
    /\ \A arp \in Caches : Put(arp, Peer, 0) \in Caches /\ Put(arp, Peer, 1) \in Caches
    /\ \A arp \in Caches : Forget(arp, TRUE) \in Caches /\ Forget(arp, FALSE) \in Caches
  <1>1. ASSUME NEW ips \in SUBSET {Peer}, NEW arp \in [ips -> {0, 1}] PROVE arp \in Caches
    BY DEF Caches
  <1>2. ASSUME NEW arp \in Caches PROVE DOMAIN arp \in SUBSET {Peer} /\ arp \in [DOMAIN arp -> {0, 1}]
    BY DEF Caches
  <1>3. <<>> \in [{} -> {0, 1}]
    OBVIOUS
  <1>4. ASSUME NEW arp \in Caches, NEW v \in {0, 1} PROVE Put(arp, Peer, v) \in Caches
    <2>1. Put(arp, Peer, v) \in [DOMAIN arp \cup {Peer} -> {0, 1}]
      BY <1>2 DEF Put
    <2>2. DOMAIN arp \cup {Peer} \in SUBSET {Peer}
      BY <1>2
    <2> QED
      BY <1>1, <2>1, <2>2
  <1>5. ASSUME NEW arp \in Caches, NEW b \in BOOLEAN PROVE Forget(arp, b) \in Caches
    <2> DEFINE ips == {i \in DOMAIN arp : b /\ arp[i] # 0}
    <2>1. Forget(arp, b) \in [ips -> {0, 1}]
      BY <1>2 DEF Forget
    <2>2. ips \in SUBSET {Peer}
      BY <1>2
    <2> QED
      BY <1>1, <2>1, <2>2
  <1> QED
    BY <1>1, <1>3, <1>4, <1>5

\* What the invariant says of the devices.
LEMMA DevicesTyped ==
    ASSUME DeviceInv
    PROVE  /\ devs \in [DOMAIN devs -> DeviceType]
           /\ \A o \in DOMAIN devs : devs[o].arp \in Caches /\ devs[o] =
                 [key |-> devs[o].key, ip |-> devs[o].ip, arp |-> devs[o].arp]
           /\ Tables.devs = devs /\ Tables.list = list /\ Tables.bcast = bcast
           /\ TablesInv(Tables) /\ FoundInVlan(Tables)
           /\ groups \in [DOMAIN groups -> Groups]
           /\ Consistent(groups, Tables, tpids, excuse)
  <1>1. Tables.devs = devs /\ Tables.list = list /\ Tables.bcast = bcast
    BY DEF Tables
  <1>2. TablesInv(Tables) /\ FoundInVlan(Tables) /\ groups \in [DOMAIN groups -> Groups]
        /\ Consistent(groups, Tables, tpids, excuse)
    BY DEF DeviceInv, Consistent
  <1>3. devs \in [DOMAIN devs -> DeviceType]
    BY <1>1, <1>2, TypedTables DEF TablesInv
  <1>4. ASSUME NEW o \in DOMAIN devs
        PROVE  devs[o].arp \in Caches /\ devs[o] =
                 [key |-> devs[o].key, ip |-> devs[o].ip, arp |-> devs[o].arp]
    <2>1. devs[o] \in DeviceType
      BY <1>3
    <2> QED
      BY <2>1 DEF DeviceType
  <1> QED
    BY <1>1, <1>2, <1>3, <1>4

\* A state in which the same packet is under way is consistent if its groups, tables,
\* counts and excuse are.
LEMMA ConsistentAfter ==
    ASSUME NEW gs, NEW t, NEW f, NEW e, Consistent(gs, t, f, e),
           groups' = gs, tpids' = f, excuse' = e, rx' = rx,
           devs' = t.devs, list' = t.list, bcast' = t.bcast
    PROVE  Consistent(groups, Tables, tpids, excuse)'
  <1>1. t = [devs |-> t.devs, list |-> t.list, bcast |-> t.bcast]
    BY TypedTables DEF Consistent, TablesInv
  <1>2. Tables' = t
    BY <1>1 DEF Tables
  <1>3. FoundInVlan(t)
    BY DEF Consistent
  <1>4. FoundInVlan(Tables)'
    BY <1>2, <1>3 DEF FoundInVlan
  <1>5. /\ gs \in [DOMAIN gs -> Groups] /\ Counted(f, gs) /\ TablesInv(t)
        /\ "key" \notin e => KeysApart(gs, DOMAIN t.list)
        /\ "vlan" \notin e => VlansApart(gs)
        /\ e \cap {"key", "vlan"} = {} => Reaches(t, {})
    BY DEF Consistent
  <1> QED
    BY <1>2, <1>4, <1>5 DEF Consistent

\* addDeviceGroup()
LEMMA AddDeviceGroupKeeps ==
    ASSUME DeviceInv, AddDeviceGroup, DeviceAssumption
    PROVE  DeviceInv' /\ LearnsInVlan
  <1>1. PICK id \in GroupIds \ DOMAIN groups, mac \in FirstMacs :
           /\ groups' = Put(groups, id, NewGroup(mac))
           /\ SetTables(Added(Tables, NewGroup(mac)))
           /\ tpids' = AddTpids(tpids, NewGroup(mac))
           /\ excuse' = excuse \cup Meets(NewGroup(mac), Others(id))
           /\ doing' = IF groups = <<>> THEN "start" ELSE "idle"
    BY DEF AddDeviceGroup
  <1> DEFINE g == NewGroup(mac)
             t == Added(Tables, g)
  <1>2. g \in Groups
    <2>1. <<>> \in Seq(Levels) /\ mac \in Nat
      BY DEF DeviceAssumption
    <2> QED
      BY <2>1 DEF NewGroup, Groups, NoIp
  <1>3. rx.found \in Seq(Nat) /\ DOMAIN rx = {"tags", "tgt", "found"} /\ rx' = rx
    BY DEF DeviceInv, AddDeviceGroup
  <1>4. /\ Tables.devs = devs /\ TablesInv(Tables)
        /\ groups \in [DOMAIN groups -> Groups]
        /\ Consistent(groups, Tables, tpids, excuse)
    BY DevicesTyped
  <1>5. Others(id) = ConfigsOf(groups)
    BY <1>1 DEF Others, ConfigsOf
  <1> HIDE DEF g
  <1>6. /\ Put(groups, id, g) \in [DOMAIN groups \cup {id} -> Groups]
        /\ Put(groups, id, g)[id] = g
        /\ \A i \in DOMAIN groups : Put(groups, id, g)[i] = groups[i]
    BY <1>1, <1>2, <1>4 DEF Put
  <1>7. Consistent(Put(groups, id, g), t, AddTpids(tpids, g), excuse \cup Meets(g, Others(id)))
    <2> DEFINE hs == Put(groups, id, g)
               os == Others(id)
    <2>1. /\ rx.found \in Seq(Nat) /\ Consistent(groups, Tables, tpids, excuse)
          /\ id \notin DOMAIN groups /\ g \in Groups
          /\ hs \in [DOMAIN groups \cup {id} -> Groups] /\ hs[id] = g
          /\ \A i \in DOMAIN groups : hs[i] = groups[i]
          /\ os = ConfigsOf(groups)
      BY <1>1, <1>2, <1>3, <1>4, <1>5, <1>6
    <2> HIDE DEF hs, os
    <2>2. Consistent(hs, Added(Tables, g), AddTpids(tpids, g), excuse \cup Meets(g, os))
      BY ONLY <2>1, GroupAdded
    <2> QED
      BY <2>2 DEF hs, os
  <1>8. devs' = t.devs /\ list' = t.list /\ bcast' = t.bcast
    BY <1>1 DEF SetTables, g
  <1>9. \A x \in DOMAIN t.devs : (x \in DOMAIN devs /\ t.devs[x] = devs[x]) \/ t.devs[x].arp = <<>>
    BY <1>2, <1>3, <1>4, AddedKeeps
  <1> HIDE DEF t
  <1>10. Consistent(groups, Tables, tpids, excuse)'
    BY <1>1, <1>3, <1>7, <1>8, ConsistentAfter DEF g
  <1>11. GatewaysAsked'
    BY <1>1 DEF GatewaysAsked
  <1>12. LearnsInVlan
    BY <1>8, <1>9 DEF LearnsInVlan, Known
  <1> QED
    BY <1>3, <1>10, <1>11, <1>12 DEF DeviceInv

\* deleteDeviceGroup()
LEMMA DeleteDeviceGroupKeeps ==
    ASSUME DeviceInv, DeleteDeviceGroup
    PROVE  DeviceInv' /\ LearnsInVlan
  <1>1. PICK id \in DOMAIN groups :
           /\ groups' = Drop(groups, id)
           /\ SetTables(Deleted(Tables, groups[id]))
           /\ tpids' = DeleteTpids(tpids, groups[id])
           /\ doing' = IF DOMAIN groups = {id} THEN "stop" ELSE "idle"
    BY DEF DeleteDeviceGroup
  <1> DEFINE g == groups[id]
             t == Deleted(Tables, g)
  <1>2. /\ rx.found \in Seq(Nat) /\ DOMAIN rx = {"tags", "tgt", "found"}
        /\ rx' = rx /\ excuse' = excuse
    BY DEF DeviceInv, DeleteDeviceGroup
  <1>3. /\ Tables.devs = devs /\ TablesInv(Tables)
        /\ groups \in [DOMAIN groups -> Groups]
        /\ Consistent(groups, Tables, tpids, excuse)
    BY DevicesTyped
  <1>4. g \in Groups /\ g = groups[id]
    BY <1>3
  <1> HIDE DEF g
  <1>5. /\ Drop(groups, id) \in [DOMAIN groups \ {id} -> Groups]
        /\ \A i \in DOMAIN Drop(groups, id) : Drop(groups, id)[i] = groups[i]
    BY <1>3 DEF Drop
  <1>6. Consistent(Drop(groups, id), t, DeleteTpids(tpids, g), excuse)
    BY <1>3, <1>4, <1>5, GroupDeleted
  <1>7. devs' = t.devs /\ list' = t.list /\ bcast' = t.bcast
    BY <1>1, <1>4 DEF SetTables
  <1>8. \A x \in DOMAIN t.devs : x \in DOMAIN devs /\ t.devs[x] = devs[x]
    BY <1>3, <1>4, DeletedKeeps
  <1> HIDE DEF t
  <1>9. Consistent(groups, Tables, tpids, excuse)'
    BY <1>1, <1>2, <1>4, <1>6, <1>7, ConsistentAfter
  <1>10. GatewaysAsked'
    BY <1>1 DEF GatewaysAsked
  <1>11. LearnsInVlan
    BY <1>7, <1>8 DEF LearnsInVlan
  <1> QED
    BY <1>2, <1>9, <1>10, <1>11 DEF DeviceInv

\* modifyDeviceGroup()
LEMMA ModifyDeviceGroupKeeps ==
    ASSUME DeviceInv, ModifyDeviceGroup, DeviceAssumption
    PROVE  DeviceInv' /\ LearnsInVlan
  <1> DEFINE H(c) == IF c.step = 0 THEN [c EXCEPT !.step = 1] ELSE c
  <1>1. PICK id \in DOMAIN groups, c \in Configs :
           /\ groups' = [groups EXCEPT ![id] = H(c)]
           /\ SetTables(Added(Deleted(Tables, groups[id]), H(c)))
           /\ tpids' = AddTpids(DeleteTpids(tpids, groups[id]), H(c))
           /\ excuse' = excuse \cup Meets(H(c), Others(id))
    BY DEF ModifyDeviceGroup
  <1> DEFINE h == H(c)
             g == groups[id]
             gs == Drop(groups, id)
             hs == [groups EXCEPT ![id] = h]
             t == Deleted(Tables, g)
             u == Added(t, h)
             f == DeleteTpids(tpids, g)
  <1>2. h \in Groups
    <2>1. c \in Groups
      BY DEF DeviceAssumption
    <2>2. [c EXCEPT !.step = 1] \in Groups
      BY <2>1 DEF Groups
    <2> QED
      BY <2>1, <2>2
  <1>3. /\ rx.found \in Seq(Nat) /\ DOMAIN rx = {"tags", "tgt", "found"}
        /\ rx' = rx /\ doing' = doing /\ doing = "idle"
    BY DEF DeviceInv, ModifyDeviceGroup, Request
  <1>4. /\ Tables.devs = devs /\ TablesInv(Tables)
        /\ groups \in [DOMAIN groups -> Groups]
        /\ Consistent(groups, Tables, tpids, excuse)
    BY DevicesTyped
  <1>5. g \in Groups /\ g = groups[id]
    BY <1>4
  <1> HIDE DEF H, h, g
  <1>6. /\ gs \in [DOMAIN groups \ {id} -> Groups] /\ DOMAIN gs = DOMAIN groups \ {id}
        /\ \A i \in DOMAIN gs : gs[i] = groups[i]
    BY <1>4 DEF Drop
  <1>7. Others(id) = ConfigsOf(gs)
    BY <1>6 DEF Others, ConfigsOf
  <1>8. /\ hs \in [DOMAIN gs \cup {id} -> Groups] /\ hs[id] = h
        /\ \A i \in DOMAIN gs : hs[i] = gs[i]
    BY <1>2, <1>4, <1>6
  <1> HIDE DEF gs, hs
  <1>9. Consistent(gs, t, f, excuse)
    BY <1>4, <1>5, <1>6, GroupDeleted
  <1>10. TablesInv(t)
    BY <1>9 DEF Consistent
  <1>11. \A x \in DOMAIN t.devs : x \in DOMAIN devs /\ t.devs[x] = devs[x]
    BY <1>4, <1>5, DeletedKeeps
  <1> HIDE DEF t, f
  <1>12. id \notin DOMAIN gs
    BY <1>6
  <1>13. Consistent(hs, u, AddTpids(f, h), excuse \cup Meets(h, Others(id)))
    <2> DEFINE os == Others(id)
    <2>1. /\ rx.found \in Seq(Nat) /\ Consistent(gs, t, f, excuse)
          /\ id \notin DOMAIN gs /\ h \in Groups
          /\ hs \in [DOMAIN gs \cup {id} -> Groups] /\ hs[id] = h
          /\ \A i \in DOMAIN gs : hs[i] = gs[i]
          /\ os = ConfigsOf(gs)
      BY <1>2, <1>3, <1>7, <1>8, <1>9, <1>12
    <2> HIDE DEF os
    <2>2. Consistent(hs, Added(t, h), AddTpids(f, h), excuse \cup Meets(h, os))
      BY ONLY <2>1, GroupAdded
    <2> QED
      BY <2>2 DEF os
  <1>14. \A x \in DOMAIN u.devs : (x \in DOMAIN t.devs /\ u.devs[x] = t.devs[x]) \/ u.devs[x].arp = <<>>
    BY <1>2, <1>3, <1>10, AddedKeeps
  <1>15. /\ devs' = u.devs /\ list' = u.list /\ bcast' = u.bcast
         /\ groups' = hs /\ tpids' = AddTpids(f, h) /\ excuse' = excuse \cup Meets(h, Others(id))
    BY <1>1 DEF SetTables, h, g, hs, t, f
  <1> HIDE DEF u
  <1>16. Consistent(groups, Tables, tpids, excuse)'
    BY <1>3, <1>13, <1>15, ConsistentAfter
  <1>17. GatewaysAsked'
    BY <1>3 DEF GatewaysAsked
  <1>18. LearnsInVlan
    BY <1>11, <1>14, <1>15 DEF LearnsInVlan, Known
  <1> QED
    BY <1>3, <1>16, <1>17, <1>18 DEF DeviceInv

\* Steps that change the caches of devices at most, and no group, table or packet.
LEMMA CachesStep ==
    ASSUME DeviceInv, NEW ds \in [DOMAIN devs -> DeviceType], devs' = ds,
           \A o \in DOMAIN ds : ds[o].key = devs[o].key,
           list' = list, bcast' = bcast, groups' = groups, tpids' = tpids, excuse' = excuse,
           rx' = rx
    PROVE  Consistent(groups, Tables, tpids, excuse)' /\ rx'.found \in Seq(Nat)
           /\ DOMAIN rx' = {"tags", "tgt", "found"}
  <1> DEFINE t == Tables
             u == [devs |-> ds, list |-> t.list, bcast |-> t.bcast]
  <1>1. /\ t.devs = devs /\ t.list = list /\ t.bcast = bcast
        /\ Consistent(groups, t, tpids, excuse)
    BY DevicesTyped
  <1> HIDE DEF t
  <1>2. Consistent(groups, u, tpids, excuse)
    BY <1>1, CachesChange
  <1>3. devs' = u.devs /\ list' = u.list /\ bcast' = u.bcast
    BY <1>1
  <1> HIDE DEF u
  <1>4. Consistent(groups, Tables, tpids, excuse)'
    BY <1>2, <1>3, ConsistentAfter
  <1> QED
    BY <1>4 DEF DeviceInv

\* The devices with other caches.
LEMMA OtherCaches ==
    ASSUME DeviceInv, NEW arps \in [DOMAIN devs -> Caches],
           NEW ds, ds = [o \in DOMAIN devs |-> [devs[o] EXCEPT !.arp = arps[o]]]
    PROVE  /\ ds \in [DOMAIN devs -> DeviceType]
           /\ \A o \in DOMAIN devs :
                 ds[o].key = devs[o].key /\ ds[o].ip = devs[o].ip /\ ds[o].arp = arps[o]
  <1> DEFINE d(o) == [devs[o] EXCEPT !.arp = arps[o]]
  <1>1. ASSUME NEW o \in DOMAIN devs
        PROVE  /\ d(o) \in DeviceType
               /\ d(o).key = devs[o].key /\ d(o).ip = devs[o].ip /\ d(o).arp = arps[o]
    <2>1. devs[o] \in DeviceType
      BY DevicesTyped
    <2>2. arps[o] \in Caches
      OBVIOUS
    <2> QED
      BY <2>1, <2>2 DEF DeviceType
  <1> HIDE DEF d
  <1>2. ds = [o \in DOMAIN devs |-> d(o)]
    BY DEF d
  <1> QED
    BY <1>1, <1>2

\* clearDeviceNeighbors()
LEMMA ClearDeviceNeighborsKeeps ==
    ASSUME DeviceInv, ClearDeviceNeighbors
    PROVE  DeviceInv' /\ LearnsInVlan
  <1> DEFINE arps == [o \in DOMAIN devs |-> Forget(devs[o].arp, FALSE)]
             ds == [o \in DOMAIN devs |-> [devs[o] EXCEPT !.arp = arps[o]]]
  <1>1. devs' = ds
    BY DEF ClearDeviceNeighbors
  <1>2. /\ list' = list /\ bcast' = bcast /\ groups' = groups /\ tpids' = tpids
        /\ excuse' = excuse /\ rx' = rx /\ doing' = doing /\ doing = "idle"
    BY DEF ClearDeviceNeighbors, Request
  <1>3. arps \in [DOMAIN devs -> Caches]
    BY DevicesTyped, CachesType
  <1>4. \A o \in DOMAIN devs : DOMAIN arps[o] = {}
    BY DEF Forget
  <1> HIDE DEF arps
  <1>5. /\ ds \in [DOMAIN devs -> DeviceType]
        /\ \A o \in DOMAIN devs :
              ds[o].key = devs[o].key /\ ds[o].ip = devs[o].ip /\ ds[o].arp = arps[o]
    BY <1>3, OtherCaches
  <1> HIDE DEF ds
  <1>6. Consistent(groups, Tables, tpids, excuse)' /\ rx'.found \in Seq(Nat)
        /\ DOMAIN rx' = {"tags", "tgt", "found"}
    BY <1>1, <1>2, <1>5, CachesStep
  <1>7. GatewaysAsked'
    BY <1>2 DEF GatewaysAsked
  <1>8. LearnsInVlan
    BY <1>1, <1>5, <1>4 DEF LearnsInVlan, Known
  <1> QED
    BY <1>6, <1>7, <1>8 DEF DeviceInv

\* resolveDeviceNeighbors(): every device with an address is to be visited.
LEMMA ResolveDeviceNeighborsKeeps ==
    ASSUME DeviceInv, ResolveDeviceNeighbors
    PROVE  DeviceInv' /\ LearnsInVlan
  <1> DEFINE arps == [o \in DOMAIN devs |-> Forget(devs[o].arp, TRUE)]
             ds == [o \in DOMAIN devs |-> [devs[o] EXCEPT !.arp = arps[o]]]
  <1>1. devs' = ds /\ todo' = {o \in DOMAIN devs : devs[o].ip # NoIp}
    BY DEF ResolveDeviceNeighbors
  <1>2. /\ list' = list /\ bcast' = bcast /\ groups' = groups /\ tpids' = tpids
        /\ excuse' = excuse /\ rx' = rx
    BY DEF ResolveDeviceNeighbors
  <1>3. arps \in [DOMAIN devs -> Caches]
    BY DevicesTyped, CachesType
  <1>4. \A o \in DOMAIN devs : \A i \in DOMAIN arps[o] :
           i \in DOMAIN devs[o].arp /\ arps[o][i] = devs[o].arp[i]
    BY DEF Forget
  <1> HIDE DEF arps
  <1>5. /\ ds \in [DOMAIN devs -> DeviceType] /\ DOMAIN ds = DOMAIN devs
        /\ \A o \in DOMAIN devs :
              ds[o].key = devs[o].key /\ ds[o].ip = devs[o].ip /\ ds[o].arp = arps[o]
    BY <1>3, OtherCaches
  <1> HIDE DEF ds
  <1>6. Consistent(groups, Tables, tpids, excuse)' /\ rx'.found \in Seq(Nat)
        /\ DOMAIN rx' = {"tags", "tgt", "found"}
    BY <1>1, <1>2, <1>5, CachesStep
  <1>7. GatewaysAsked'
    BY <1>1, <1>5 DEF GatewaysAsked
  <1>8. LearnsInVlan
    BY <1>1, <1>4, <1>5 DEF LearnsInVlan, Known
  <1> QED
    BY <1>6, <1>7, <1>8 DEF DeviceInv

\* The next device, which has its gateway already, or is to ask for it.
LEMMA ResolveGatewayKeeps ==
    ASSUME DeviceInv, ResolveGateway
    PROVE  DeviceInv' /\ LearnsInVlan
  <1>1. UNCHANGED <<tables, rx, excuse>>
    BY DEF ResolveGateway
  <1>2. groups' = groups /\ devs' = devs /\ list' = list /\ bcast' = bcast /\ tpids' = tpids
        /\ rx' = rx /\ excuse' = excuse
    BY <1>1 DEF tables
  <1>3. devs \in [DOMAIN devs -> DeviceType]
    BY DevicesTyped
  <1>4. Consistent(groups, Tables, tpids, excuse)' /\ rx'.found \in Seq(Nat)
        /\ DOMAIN rx' = {"tags", "tgt", "found"}
    BY <1>2, <1>3, CachesStep
  <1>5. GatewaysAsked'
    <2>1. \A o \in DOMAIN devs \ todo : devs[o].ip # NoIp => Peer \in DOMAIN devs[o].arp
      BY DEF DeviceInv, GatewaysAsked, ResolveGateway
    <2>2. CASE todo = {}
      <3>1. doing' = "idle"
        BY <2>2 DEF ResolveGateway
      <3> QED
        BY <3>1 DEF GatewaysAsked
    <2>3. CASE todo # {}
      <3> DEFINE o == Min(todo)
      <3>1. \/ Peer \in DOMAIN devs[o].arp /\ todo' = todo \ {o}
            \/ todo' = todo
        BY <2>3 DEF ResolveGateway
      <3> HIDE DEF o
      <3>2. \A x \in DOMAIN devs \ todo' : devs[x].ip # NoIp => Peer \in DOMAIN devs[x].arp
        BY <2>1, <3>1
      <3> QED
        BY <1>2, <3>2 DEF GatewaysAsked
    <2> QED
      BY <2>2, <2>3
  <1>6. LearnsInVlan
    BY <1>2 DEF LearnsInVlan
  <1> QED
    BY <1>4, <1>5, <1>6 DEF DeviceInv

\* The devices when one of them has an entry v for the peer.
Entered(o, v) == [devs EXCEPT ![o].arp = Put(@, Peer, v)]

\* One device more, or none, has an entry for the peer: what it was, or this one.
LEMMA OneCache ==
    ASSUME DeviceInv, NEW o, NEW v \in {0, 1},
           NEW ds, ds = Entered(o, v)
    PROVE  /\ ds \in [DOMAIN devs -> DeviceType]
           /\ \A x \in DOMAIN devs :
                 /\ ds[x].key = devs[x].key /\ ds[x].ip = devs[x].ip
                 /\ x # o => ds[x] = devs[x]
                 /\ x = o => ds[x].arp = Put(devs[x].arp, Peer, v)
  <1> DEFINE arps == [x \in DOMAIN devs |->
                         IF x = o THEN Put(devs[x].arp, Peer, v) ELSE devs[x].arp]
             e == [x \in DOMAIN devs |-> [devs[x] EXCEPT !.arp = arps[x]]]
  <1>1. arps \in [DOMAIN devs -> Caches]
    BY DevicesTyped, CachesType
  <1>2. \A x \in DOMAIN devs : arps[x] =
           IF x = o THEN Put(devs[x].arp, Peer, v) ELSE devs[x].arp
    OBVIOUS
  <1> HIDE DEF arps
  <1>3. /\ e \in [DOMAIN devs -> DeviceType]
        /\ \A x \in DOMAIN devs :
              e[x].key = devs[x].key /\ e[x].ip = devs[x].ip /\ e[x].arp = arps[x]
    BY <1>1, OtherCaches
  <1>4. ASSUME NEW x \in DOMAIN devs, x # o PROVE e[x] = devs[x]
    <2>1. devs[x] \in DeviceType
      BY DevicesTyped
    <2> QED
      BY <1>2, <1>4, <2>1 DEF DeviceType
  <1>5. ASSUME NEW x \in DOMAIN devs PROVE ds[x] = e[x]
    <2>1. CASE x = o
      BY <1>2, <2>1 DEF Entered
    <2>2. CASE x # o
      BY <1>4, <2>2 DEF Entered
    <2> QED
      BY <2>1, <2>2
  <1>6. ds = [x \in DOMAIN devs |-> ds[x]]
    BY DEF Entered
  <1>7. e = [x \in DOMAIN devs |-> e[x]]
    OBVIOUS
  <1> HIDE DEF e
  <1>8. ds = e
    BY <1>5, <1>6, <1>7
  <1>9. e \in [DOMAIN devs -> DeviceType]
    BY <1>3
  <1>10. ASSUME NEW x \in DOMAIN devs
         PROVE  /\ e[x].key = devs[x].key /\ e[x].ip = devs[x].ip
                /\ x # o => e[x] = devs[x]
                /\ x = o => e[x].arp = Put(devs[x].arp, Peer, v)
    BY <1>2, <1>3, <1>4
  <1> QED
    BY <1>8, <1>9, <1>10

\* The request was sent: the device has an entry for its gateway, which it does not know.
LEMMA EnterUnresolvedKeeps ==
    ASSUME DeviceInv, EnterUnresolved
    PROVE  DeviceInv' /\ LearnsInVlan
  <1> DEFINE o == Min(todo)
             ds == Entered(o, 0)
  <1>1. /\ devs' = ds /\ todo' = todo \ {o}
        /\ list' = list /\ bcast' = bcast /\ groups' = groups /\ tpids' = tpids
        /\ excuse' = excuse /\ rx' = rx
    BY DEF EnterUnresolved, Entered
  <1>2. \A x \in DOMAIN devs \ todo : devs[x].ip # NoIp => Peer \in DOMAIN devs[x].arp
    BY DEF DeviceInv, GatewaysAsked, EnterUnresolved
  <1> HIDE DEF o
  <1>3. /\ ds \in [DOMAIN devs -> DeviceType] /\ DOMAIN ds = DOMAIN devs
        /\ \A x \in DOMAIN devs :
              /\ ds[x].key = devs[x].key /\ ds[x].ip = devs[x].ip
              /\ x # o => ds[x] = devs[x]
              /\ x = o => ds[x].arp = Put(devs[x].arp, Peer, 0)
    <2>1. DOMAIN ds = DOMAIN devs /\ 0 \in {0, 1}
      BY DEF Entered
    <2> DEFINE v == 0
    <2>2. v \in {0, 1} /\ ds = Entered(o, v)
      OBVIOUS
    <2> HIDE DEF ds, v
    <2>3. /\ ds \in [DOMAIN devs -> DeviceType]
          /\ \A x \in DOMAIN devs :
                /\ ds[x].key = devs[x].key /\ ds[x].ip = devs[x].ip
                /\ x # o => ds[x] = devs[x]
                /\ x = o => ds[x].arp = Put(devs[x].arp, Peer, v)
      BY <2>2, OneCache
    <2> QED
      BY <2>1, <2>3 DEF v
  <1> HIDE DEF ds
  <1>4. Consistent(groups, Tables, tpids, excuse)' /\ rx'.found \in Seq(Nat)
        /\ DOMAIN rx' = {"tags", "tgt", "found"}
    BY <1>1, <1>3, CachesStep
  <1>5. \A arp : Peer \in DOMAIN Put(arp, Peer, 0) /\ Put(arp, Peer, 0)[Peer] = 0
    BY DEF Put
  <1>6. GatewaysAsked'
    <2>1. ASSUME NEW x \in DOMAIN ds \ todo', ds[x].ip # NoIp PROVE Peer \in DOMAIN ds[x].arp
      <3>1. CASE x = o
        BY <1>3, <1>5, <3>1
      <3>2. CASE x # o
        BY <1>1, <1>2, <1>3, <2>1, <3>2
      <3> QED
        BY <3>1, <3>2
    <2> QED
      BY <1>1, <2>1 DEF GatewaysAsked
  <1>7. LearnsInVlan
    <2>1. \A x \in DOMAIN devs : Known(ds[x]) => Known(devs[x])
      BY <1>3, <1>5 DEF Known
    <2> QED
      BY <1>1, <1>3, <2>1 DEF LearnsInVlan
  <1> QED
    BY <1>4, <1>6, <1>7 DEF DeviceInv

\* receivePacket(): what was found for the packet is in its VLANs.
LEMMA RxPacketKeeps ==
    ASSUME DeviceInv, RxPacket
    PROVE  DeviceInv' /\ LearnsInVlan
  <1>1. PICK p \in Packets :
           rx' = [tags |-> p.tags, found |-> Lookup(p),
                  tgt |-> IF Parsed(p.tags) = p.tags THEN p.tgt ELSE NoIp]
    BY DEF RxPacket
  <1>2. UNCHANGED <<tables, doing, todo, excuse>>
    BY DEF RxPacket
  <1>3. /\ groups' = groups /\ devs' = devs /\ list' = list /\ bcast' = bcast
        /\ tpids' = tpids /\ doing' = doing /\ todo' = todo /\ excuse' = excuse
    BY <1>2 DEF tables
  <1>4. TablesInv(Tables) /\ Tables.devs = devs /\ Consistent(groups, Tables, tpids, excuse)
    BY DevicesTyped
  <1>5. Lookup(p) \in InVlan(TagIds(Parsed(p.tags)))
    BY <1>4, LookupInVlan
  <1>6. /\ rx'.found = Lookup(p) /\ rx'.tags = p.tags /\ DOMAIN rx' = {"tags", "tgt", "found"}
        /\ rx'.tgt # NoIp => Parsed(p.tags) = p.tags
    BY <1>1
  <1>7. rx'.found \in Seq(Nat)
    BY <1>5, <1>6 DEF InVlan
  <1>8. Tables' = Tables
    BY <1>3 DEF Tables
  <1>9. FoundInVlan(Tables)'
    BY <1>4, <1>5, <1>6, <1>8 DEF FoundInVlan, InVlan, TagIds
  <1>10. Consistent(groups, Tables, tpids, excuse)'
    BY <1>3, <1>4, <1>8, <1>9 DEF Consistent
  <1>11. GatewaysAsked'
    BY <1>3 DEF DeviceInv, GatewaysAsked
  <1>12. LearnsInVlan
    BY <1>3 DEF LearnsInVlan
  <1> QED
    BY <1>6, <1>7, <1>10, <1>11, <1>12 DEF DeviceInv

\* The packet is done with.
LEMMA RxCheckKeeps ==
    ASSUME DeviceInv, RxCheck
    PROVE  DeviceInv' /\ LearnsInVlan
  <1>1. UNCHANGED <<tables, doing, todo, excuse>> /\ rx' = NoPacket
    BY DEF RxCheck
  <1>2. /\ groups' = groups /\ devs' = devs /\ list' = list /\ bcast' = bcast
        /\ tpids' = tpids /\ doing' = doing /\ todo' = todo /\ excuse' = excuse
    BY <1>1 DEF tables
  <1>3. rx'.found = <<>> /\ DOMAIN rx' = {"tags", "tgt", "found"}
    BY <1>1 DEF NoPacket
  <1>4. <<>> \in Seq(Nat) /\ DOMAIN <<>> = {}
    OBVIOUS
  <1>5. Consistent(groups, Tables, tpids, excuse)
    BY DevicesTyped
  <1>6. Tables' = Tables
    BY <1>2 DEF Tables
  <1>7. FoundInVlan(Tables)'
    BY <1>3, <1>4 DEF FoundInVlan
  <1>8. Consistent(groups, Tables, tpids, excuse)'
    BY <1>2, <1>5, <1>6, <1>7 DEF Consistent
  <1>9. GatewaysAsked'
    BY <1>2 DEF DeviceInv, GatewaysAsked
  <1>10. LearnsInVlan
    BY <1>2 DEF LearnsInVlan
  <1> QED
    BY <1>3, <1>4, <1>8, <1>9, <1>10 DEF DeviceInv

\* receiveArp(): the device found for the packet, if it still exists, is in its VLAN.
LEMMA RxDeliverKeeps ==
    ASSUME DeviceInv, RxDeliver
    PROVE  DeviceInv' /\ LearnsInVlan
  <1> DEFINE o == rx.found[1]
             hit == o \in DOMAIN devs /\ devs[o].ip = rx.tgt /\ rx.tgt # NoIp
             ds == Entered(o, 1)
  <1>1. /\ devs' = IF hit THEN ds ELSE devs
        /\ rx' = [rx EXCEPT !.found = Tail(@)] /\ rx.found # <<>>
        /\ list' = list /\ bcast' = bcast /\ groups' = groups /\ tpids' = tpids
        /\ doing' = doing /\ todo' = todo /\ excuse' = excuse
    BY DEF RxDeliver, Entered
  <1>2. /\ FoundInVlan(Tables) /\ Tables.devs = devs /\ Tables.list = list /\ Tables.bcast = bcast
        /\ devs \in [DOMAIN devs -> DeviceType]
        /\ Consistent(groups, Tables, tpids, excuse)
    BY DevicesTyped
  <1>3. rx.found \in Seq(Nat) /\ DOMAIN rx = {"tags", "tgt", "found"}
    BY DEF DeviceInv
  <1>4. 1 \in DOMAIN rx.found /\ Tail(rx.found) \in Seq(Nat)
        /\ \A n \in DOMAIN Tail(rx.found) :
              n + 1 \in DOMAIN rx.found /\ Tail(rx.found)[n] = rx.found[n + 1]
    <2> DEFINE s == rx.found
    <2>1. s \in Seq(Nat) /\ s # <<>>
      BY <1>1, <1>3
    <2> HIDE DEF s
    <2>2. Len(s) \in Nat \ {0} /\ DOMAIN s = 1 .. Len(s)
      BY <2>1
    <2>3. Tail(s) \in Seq(Nat) /\ Len(Tail(s)) = Len(s) - 1
          /\ \A n \in 1 .. Len(s) - 1 : Tail(s)[n] = s[n + 1]
      BY <2>1, HeadTailProperties
    <2>4. DOMAIN Tail(s) = 1 .. Len(s) - 1
      BY <2>3
    <2>5. \A n \in 1 .. Len(s) - 1 : n + 1 \in 1 .. Len(s)
      BY <2>2
    <2>6. 1 \in 1 .. Len(s)
      BY <2>2
    <2> QED
      BY <2>2, <2>3, <2>4, <2>5, <2>6 DEF s
  <1>5. /\ ds \in [DOMAIN devs -> DeviceType]
        /\ \A x \in DOMAIN devs :
              /\ ds[x].key = devs[x].key /\ ds[x].ip = devs[x].ip
              /\ x # o => ds[x] = devs[x]
              /\ x = o => ds[x].arp = Put(devs[x].arp, Peer, 1)
    <2> DEFINE v == 1
    <2>1. v \in {0, 1} /\ ds = Entered(o, v)
      OBVIOUS
    <2> HIDE DEF ds, v, o
    <2>2. /\ ds \in [DOMAIN devs -> DeviceType]
          /\ \A x \in DOMAIN devs :
                /\ ds[x].key = devs[x].key /\ ds[x].ip = devs[x].ip
                /\ x # o => ds[x] = devs[x]
                /\ x = o => ds[x].arp = Put(devs[x].arp, Peer, v)
      BY <2>1, OneCache
    <2> QED
      BY <2>2 DEF v
  <1>6. hit => devs[o].key.vlans = TagIds(rx.tags)
    BY <1>2, <1>4 DEF FoundInVlan
  <1>7. /\ rx'.found = Tail(rx.found) /\ rx'.tags = rx.tags /\ rx'.tgt = rx.tgt
        /\ DOMAIN rx' = {"tags", "tgt", "found"}
    BY <1>1, <1>3
  <1> DEFINE es == IF hit THEN ds ELSE devs
             u == [devs |-> es, list |-> Tables.list, bcast |-> Tables.bcast]
  <1>8. devs' = es
    BY <1>1
  <1> HIDE DEF ds
  <1>9. es \in [DOMAIN Tables.devs -> DeviceType] /\ DOMAIN es = DOMAIN devs
        /\ \A x \in DOMAIN es : es[x].key = Tables.devs[x].key
    BY <1>2, <1>5
  <1>10. \A x \in DOMAIN devs : es[x] # devs[x] => hit /\ x = o
    BY <1>5
  <1>11. \A x \in DOMAIN devs :
            es[x].ip = devs[x].ip /\ (Peer \in DOMAIN devs[x].arp => Peer \in DOMAIN es[x].arp)
    <2>1. \A arp : Peer \in DOMAIN Put(arp, Peer, 1)
      BY DEF Put
    <2> QED
      BY <1>5, <2>1
  <1> HIDE DEF es
  <1>12. Consistent(groups, u, tpids, excuse)
    BY <1>2, <1>9, CachesChange
  <1>13. Tables' = u
    BY <1>1, <1>2, <1>8 DEF Tables
  <1>14. FoundInVlan(Tables)'
    <2>1. FoundInVlan(u)
      BY <1>12 DEF Consistent
    <2> HIDE DEF u
    <2> QED
      BY <1>4, <1>7, <1>13, <2>1 DEF FoundInVlan
  <1> HIDE DEF u
  <1>15. Consistent(groups, Tables, tpids, excuse)'
    BY <1>1, <1>12, <1>13, <1>14 DEF Consistent
  <1>16. GatewaysAsked'
    BY <1>1, <1>8, <1>9, <1>11 DEF DeviceInv, GatewaysAsked
  <1>17. LearnsInVlan
    <2> SUFFICES ASSUME NEW x \in DOMAIN devs \cap DOMAIN devs',
                        Known(devs'[x]), ~Known(devs[x])
                 PROVE  devs[x].key.vlans = TagIds(rx.tags) /\ devs[x].ip = rx.tgt
      BY DEF LearnsInVlan
    <2>1. hit /\ x = o
      BY <1>8, <1>10
    <2> QED
      BY <1>6, <2>1
  <1> QED
    BY <1>4, <1>7, <1>15, <1>16, <1>17 DEF DeviceInv

\* Everything else leaves the tables, the packet and the devices to be visited alone.
LEMMA OthersKeep ==
    ASSUME DeviceInv, UNCHANGED <<tables, rx, excuse, todo>>,
           doing' = doing \/ doing' \notin {"resolve", "requested"}
    PROVE  DeviceInv' /\ LearnsInVlan
  <1>1. groups' = groups /\ devs' = devs /\ list' = list /\ bcast' = bcast /\ tpids' = tpids
        /\ rx' = rx /\ excuse' = excuse /\ todo' = todo
    BY DEF tables
  <1>2. devs \in [DOMAIN devs -> DeviceType]
    BY DevicesTyped
  <1>3. Consistent(groups, Tables, tpids, excuse)' /\ rx'.found \in Seq(Nat)
        /\ DOMAIN rx' = {"tags", "tgt", "found"}
    BY <1>1, <1>2, CachesStep
  <1>4. GatewaysAsked'
    BY <1>1 DEF DeviceInv, GatewaysAsked
  <1>5. LearnsInVlan
    BY <1>1 DEF LearnsInVlan
  <1> QED
    BY <1>3, <1>4, <1>5 DEF DeviceInv

\* The initial state.
LEMMA DeviceInitKeeps ==
    ASSUME DeviceInit
    PROVE  DeviceInv
  <1> DEFINE t == Tables
  <1>1. groups = <<>> /\ devs = <<>> /\ list = <<>> /\ bcast = <<>> /\ tpids = <<>>
        /\ rx = NoPacket /\ excuse = {} /\ doing = "idle"
    BY DEF DeviceInit
  <1>2. DOMAIN <<>> = {} /\ \A S : <<>> \in [{} -> S] /\ <<>> \in Seq(S)
    OBVIOUS
  <1>3. t = [devs |-> <<>>, list |-> <<>>, bcast |-> <<>>]
    BY <1>1 DEF Tables
  <1>4. t.devs = <<>> /\ t.list = <<>> /\ t.bcast = <<>>
    BY <1>3
  <1>5. Typed(t)
    <2> DEFINE F == <<>>
    <2>1. /\ {} \in SUBSET Nat /\ IsFiniteSet({}) /\ {} \in SUBSET DeviceKeys
          /\ F \in [{} -> DeviceType] /\ F \in [{} -> Nat]
          /\ F \in Seq([vlans : Seq(Nat), dev : Nat])
      BY <1>2, FS_EmptySet
    <2> HIDE DEF F
    <2>2. Typed([devs |-> F, list |-> F, bcast |-> F])
      BY <2>1, TablesTyped
    <2> QED
      BY <1>3, <2>2 DEF F
  <1> HIDE DEF t
  <1>6. Paired(t) /\ Distinct(t) /\ InOwnVlans(t) /\ Reaches(t, {})
    BY <1>2, <1>4 DEF Paired, Distinct, InOwnVlans, Reaches
  <1>7. \A vlans : EntriesIn(t, vlans) = {} /\ DevicesIn(t, vlans) = {}
    BY <1>2, <1>4 DEF EntriesIn, DevicesIn
  <1>8. Balanced(t)
    BY <1>7 DEF Balanced
  <1>9. rx.found = <<>> /\ DOMAIN rx = {"tags", "tgt", "found"}
    BY <1>1 DEF NoPacket
  <1>10. FoundInVlan(t)
    BY <1>2, <1>9 DEF FoundInVlan
  <1>11. Counted(tpids, groups)
    BY <1>1, <1>2 DEF Counted, TpidsOf
  <1>12. KeysApart(groups, DOMAIN t.list) /\ VlansApart(groups)
    BY <1>1, <1>2, <1>4 DEF KeysApart, VlansApart
  <1>13. groups \in [DOMAIN groups -> Groups]
    BY <1>1, <1>2
  <1>14. Consistent(groups, t, tpids, excuse)
    BY <1>5, <1>6, <1>8, <1>10, <1>11, <1>12, <1>13 DEF Consistent, TablesInv
  <1>15. GatewaysAsked
    BY <1>1 DEF GatewaysAsked
  <1> QED
    BY <1>2, <1>9, <1>14, <1>15 DEF DeviceInv, t

-----------------------------------------------------------------------------
(* The theorems.                                                             *)

\* A step keeps the invariant, and a device learns only in its own VLAN.
LEMMA DeviceStep ==
    ASSUME DeviceAssumption, DeviceInv, [DeviceNext]_deviceVars
    PROVE  DeviceInv' /\ LearnsInVlan
  <1>1. CASE Service
    <2>1. CASE EmulationStart
      BY <2>1, OthersKeep DEF EmulationStart
    <2>2. CASE EmulationStarted
      BY <2>2, OthersKeep DEF EmulationStarted
    <2>3. CASE EmulationStop
      BY <2>3, OthersKeep DEF EmulationStop
    <2>4. CASE EmulationStopped
      BY <2>4, OthersKeep DEF EmulationStopped
    <2>5. CASE ResolveGateway
      BY <2>5, ResolveGatewayKeeps
    <2>6. CASE EnterUnresolved
      BY <2>6, EnterUnresolvedKeeps
    <2> QED
      BY <1>1, <2>1, <2>2, <2>3, <2>4, <2>5, <2>6 DEF Service
  <1>2. CASE Client
    <2>1. CASE AddDeviceGroup
      BY <2>1, AddDeviceGroupKeeps
    <2>2. CASE DeleteDeviceGroup
      BY <2>2, DeleteDeviceGroupKeeps
    <2>3. CASE ModifyDeviceGroup
      BY <2>3, ModifyDeviceGroupKeeps
    <2>4. CASE ClearDeviceNeighbors
      BY <2>4, ClearDeviceNeighborsKeeps
    <2>5. CASE ResolveDeviceNeighbors
      BY <2>5, ResolveDeviceNeighborsKeeps
    <2> QED
      BY <1>2, <2>1, <2>2, <2>3, <2>4, <2>5 DEF Client
  <1>3. CASE Receiver
    <2>1. CASE RxOpen
      BY <2>1, OthersKeep DEF RxOpen
    <2>2. CASE RxDeliver
      BY <2>2, RxDeliverKeeps
    <2>3. CASE RxCheck
      BY <2>3, RxCheckKeeps
    <2>4. CASE RxClose
      BY <2>4, OthersKeep DEF RxClose
    <2>5. CASE RxEnd
      BY <2>5, OthersKeep DEF RxEnd
    <2> QED
      BY <1>3, <2>1, <2>2, <2>3, <2>4, <2>5 DEF Receiver
  <1>4. CASE RxPacket
    BY <1>4, RxPacketKeeps
  <1>5. CASE RxError
    BY <1>5, OthersKeep DEF RxError
  <1>6. CASE UNCHANGED deviceVars
    BY <1>6, OthersKeep DEF deviceVars
  <1> QED
    BY <1>1, <1>2, <1>3, <1>4, <1>5, <1>6 DEF DeviceNext

\* The inductive invariant holds always.
THEOREM DeviceInvHolds == DeviceSpec => []DeviceInv
  <1>1. DeviceInit => DeviceInv
    BY DeviceInitKeeps
  <1>2. DeviceInv /\ [DeviceNext]_deviceVars => DeviceInv'
    BY DeviceAssumption, DeviceStep
  <1> QED
    BY <1>1, <1>2, PTL DEF DeviceSpec

\* There are as many devices as keys.
LEMMA AsManyDevices ==
    ASSUME NEW t, TablesInv(t)
    PROVE  Cardinality(DOMAIN t.devs) = Cardinality(DOMAIN t.list)
  <1> DEFINE S == DOMAIN t.devs
             K == DOMAIN t.list
             f == [o \in S |-> t.devs[o].key]
  <1>1. IsFiniteSet(S)
    BY TypedTables DEF TablesInv
  <1>2. f \in Bijection(S, K)
    <2>1. \A o \in S : f[o] = t.devs[o].key /\ f[o] \in K /\ t.list[f[o]] = o
      BY DEF TablesInv, Paired
    <2>2. \A key \in K : t.list[key] \in S /\ f[t.list[key]] = key
      BY DEF TablesInv, Paired
    <2>3. f \in [S -> K]
      BY <2>1
    <2>4. \A o, x \in S : f[o] = f[x] => o = x
      BY <2>1
    <2>5. \A key \in K : \E o \in S : f[o] = key
      BY <2>2
    <2> HIDE DEF f, S, K
    <2> QED
      BY <2>3, <2>4, <2>5 DEF Bijection, Injection, Surjection, IsInjective
  <1> HIDE DEF f
  <1> QED
    BY <1>1, <1>2, FS_Bijection DEF ExistsBijection

\* The devices are those of the groups and the TPIDs those in use, after any sequence of
\* requests, whatever the groups (enumerateDevices(), insertDevice(), deleteDevice()).
THEOREM DevicesOfGroupsHolds == DeviceSpec => []DevicesOfGroups
  <1>1. ASSUME DeviceInv PROVE DevicesOfGroups
    <2>1. /\ Tables.devs = devs /\ Tables.list = list /\ TablesInv(Tables)
          /\ Consistent(groups, Tables, tpids, excuse)
      BY <1>1, DevicesTyped
    <2>2. ASSUME "key" \notin excuse PROVE DOMAIN list = AllKeys
      BY <2>1, <2>2 DEF Consistent, KeysApart, AllKeys
    <2>3. \A key \in DOMAIN list : list[key] \in DOMAIN devs /\ devs[list[key]].key = key
      BY <2>1 DEF TablesInv, Paired
    <2>4. Cardinality(DOMAIN devs) = Cardinality(DOMAIN list)
      BY <2>1, AsManyDevices
    <2>5. DOMAIN tpids = UNION {Tpids(groups[id]) : id \in DOMAIN groups}
      BY <2>1 DEF Consistent, Counted, TpidsOf
    <2> QED
      BY <2>2, <2>3, <2>4, <2>5 DEF DevicesOfGroups
  <1> QED
    BY <1>1, DeviceInvHolds, PTL

\* A broadcast reaches every device of its VLAN once and nobody else, as long as no two
\* groups share a VLAN, although take() may remove another device's entry.
THEOREM BroadcastReachesDevicesHolds == DeviceSpec => []BroadcastReachesDevices
  <1>1. ASSUME DeviceInv PROVE BroadcastReachesDevices
    <2> SUFFICES ASSUME excuse \cap {"key", "vlan"} = {}
                 PROVE  /\ \A n \in DOMAIN bcast :
                              /\ bcast[n].dev \in DOMAIN devs
                              /\ devs[bcast[n].dev].key.vlans = bcast[n].vlans
                        /\ \A o \in DOMAIN devs :
                              Cardinality({n \in DOMAIN bcast : bcast[n].dev = o}) = 1
      BY DEF BroadcastReachesDevices
    <2>1. /\ Tables.devs = devs /\ Tables.bcast = bcast /\ TablesInv(Tables)
          /\ Reaches(Tables, {})
      BY <1>1, DevicesTyped DEF Consistent
    <2>2. /\ \A n \in DOMAIN bcast : bcast[n].dev \in DOMAIN devs
          /\ \A o \in DOMAIN devs : \E n \in DOMAIN bcast : bcast[n].dev = o
      BY <2>1 DEF Reaches
    <2>3. \A n \in DOMAIN bcast : devs[bcast[n].dev].key.vlans = bcast[n].vlans
      BY <2>1, <2>2 DEF TablesInv, InOwnVlans
    <2>4. ASSUME NEW o \in DOMAIN devs
          PROVE  Cardinality({n \in DOMAIN bcast : bcast[n].dev = o}) = 1
      <3>1. PICK m \in DOMAIN bcast : bcast[m].dev = o
        BY <2>2
      <3>2. {n \in DOMAIN bcast : bcast[n].dev = o} = {m}
        BY <2>1, <3>1 DEF TablesInv, Distinct
      <3> QED
        BY <3>2, FS_Singleton
    <2> QED
      BY <2>2, <2>3, <2>4
  <1> QED
    BY <1>1, DeviceInvHolds, PTL

\* A resolution leaves no device without an entry for its gateway, whatever the receiver
\* learns in between (resolveDeviceNeighbors()).
THEOREM GatewaysAskedHolds == DeviceSpec => []GatewaysAsked
  <1>1. DeviceInv => GatewaysAsked
    BY DEF DeviceInv
  <1> QED
    BY <1>1, DeviceInvHolds, PTL

\* A device learns only from packets for its address in its own VLAN, whatever happens to
\* the tables while the packet is on its way (receivePacket(), receiveArp()).
THEOREM LearnsInOwnVlanHolds == DeviceSpec => LearnsInOwnVlan
  <1> DEFINE Step ==
                \A o \in DOMAIN devs \cap DOMAIN devs' :
                    Known(devs'[o]) /\ ~Known(devs[o]) =>
                        devs[o].key.vlans = TagIds(rx.tags) /\ devs[o].ip = rx.tgt
  <1>1. DeviceInv /\ [DeviceNext]_deviceVars => [Step]_deviceVars
    BY DeviceAssumption, DeviceStep DEF LearnsInVlan
  <1>2. LearnsInOwnVlan <=> [][Step]_deviceVars
    BY DEF LearnsInOwnVlan
  <1> HIDE DEF Step
  <1>3. DeviceSpec => [][Step]_deviceVars
    BY <1>1, DeviceInvHolds, PTL DEF DeviceSpec
  <1> QED
    BY <1>2, <1>3

=============================================================================
