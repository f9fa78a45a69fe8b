----------------------------- MODULE PortService -----------------------------
(***************************************************************************)
(* MyService's handlers for one port, called by several connections at       *)
(* once.  Every connection has a thread of its own and runs one request to   *)
(* its reply before it takes the next; the port has a read-write lock        *)
(* (portLock), a dirty flag (isSendQueueDirty_) that says that the packet    *)
(* list has to be rebuilt before it is transmitted, and a transmitter, used   *)
(* here through what Transmitter.tla promises of it: it runs or does not,    *)
(* ends by itself at any time, and stop returns when it has ended.           *)
(*                                                                          *)
(* Requests that name several ports or ids repeat the same steps for each;   *)
(* one port and one id stand for all of them.                                *)
(***************************************************************************)
EXTENDS Integers, Sequences, FiniteSets

CONSTANTS Conns,         \* connections
          StreamIds,     \* ids a stream may be given
          Ops,           \* the requests the clients send, a subset of AllOps
          Budgets        \* bound: what each client may send, [Conns -> [n, ops]]

NoConn == "none"

StreamOps   == {"addStream", "deleteStream", "modifyStream"}
TransmitOps == {"startTransmit", "stopTransmit", "build"}
AllOps == StreamOps \cup TransmitOps
            \cup {"modifyPort", "deviceNeighbors", "deviceGroup", "read"}

\* requests that look at isTransmitOn() before they take the lock
GuardedOps == StreamOps \cup {"build", "deviceGroup"}

ASSUME ServiceAssumption ==
    /\ Ops \subseteq AllOps
    /\ NoConn \notin Conns
    /\ Budgets \subseteq [Conns -> [n : Nat, ops : SUBSET Ops]]

Modes == {"sequential", "interleaved"}    \* the parameters canModify() looks at
\* What a stream may be: 0 as addStream makes it, not enabled; 1 enabled, with packets.
Versions == {0, 1}

VARIABLES
    streams,    \* streamList_: [id, ver]
    mode,       \* data_.transmit_mode()
    dirty,      \* isSendQueueDirty_
    built,      \* the streams and mode the packet list was built from
    running,    \* isTransmitOn()
    writer,     \* who holds portLock for writing
    readers,    \* who holds it for reading
    pc,         \* where the handler of a connection is
    req,        \* its request [op, id, ver, mode]
    reply,      \* its last reply: "success", "error" (Ack), "failed" (SetFailed)
    left,       \* bound: how many requests a client may still send, and which
    late,       \* history: the requests that wait for the lock with tests of before
                \* a start, a build or a modifyPort
    lateMode    \* history: a late request has changed the mode last

history == <<late, lateMode>>
vars == <<streams, mode, dirty, built, running, writer, readers, pc, req, reply, left, history>>
config == <<streams, mode, dirty, built>>
handler == <<req, left>>

\* What a request does not look at is fixed.
NoRequest == [op |-> "read", id |-> CHOOSE i \in StreamIds : TRUE, ver |-> 0,
              mode |-> "sequential"]
Requests ==
    {r \in [op : Ops, id : StreamIds, ver : Versions, mode : Modes] :
        /\ r.op \notin StreamOps => r.id = NoRequest.id
        /\ r.op # "modifyStream" => r.ver = NoRequest.ver
        /\ r.op # "modifyPort" => r.mode = NoRequest.mode}

Ids == {streams[n].id : n \in 1 .. Len(streams)}
Config == [streams |-> streams, mode |-> mode]

\* Does run() get past its first lines?  It leaves at once, and never sets kRunning, when
\* the packet list has nothing in it.
Sends(list) == \E n \in 1 .. Len(list.streams) : list.streams[n].ver # 0

Init ==
    /\ streams = <<>> /\ mode = "sequential"
    /\ dirty = FALSE /\ built = [streams |-> <<>>, mode |-> "sequential"]
    /\ running = FALSE
    /\ writer = NoConn /\ readers = {}
    /\ pc = [c \in Conns |-> "idle"]
    /\ req = [c \in Conns |-> NoRequest]
    /\ reply = [c \in Conns |-> "success"]
    /\ left \in Budgets
    /\ late = {} /\ lateMode = FALSE

Goto(c, to) == pc' = [pc EXCEPT ![c] = to]
Answer(c, status) == reply' = [reply EXCEPT ![c] = status]

\* What c does under the lock, the requests that have made their tests do not see.
Overtake(c) ==
    late' = late \cup {d \in Conns \ {c} : /\ pc[d] \in {"wantLock", "markAllowed"}
                                          /\ req[d].op \in GuardedOps \cup {"modifyPort"}}

-----------------------------------------------------------------------------
(* Before the lock                                                         *)

Receive(c) ==
    /\ pc[c] = "idle" /\ left[c].n > 0
    /\ \E r \in Requests : r.op \in left[c].ops /\ req' = [req EXCEPT ![c] = r]
    /\ left' = [left EXCEPT ![c].n = @ - 1]
    /\ Goto(c, "received")
    /\ UNCHANGED <<config, running, writer, readers, reply, history>>

\* Mutants: the test is forgotten, or waits for the transmission to end.
CheckBusyNever(c) ==
    /\ pc[c] = "received" /\ req[c].op \in GuardedOps
    /\ Goto(c, "wantLock")
    /\ UNCHANGED <<config, running, writer, readers, handler, reply, history>>
CheckBusyWaits(c) ==
    /\ pc[c] = "received" /\ req[c].op \in GuardedOps /\ ~running
    /\ Goto(c, "wantLock")
    /\ UNCHANGED <<config, running, writer, readers, handler, reply, history>>

\* addStream, deleteStream, modifyStream, build and the device group requests
\* are refused on a transmitting port; isTransmitOn() is read without the lock.
CheckBusy(c) ==
    /\ pc[c] = "received" /\ req[c].op \in GuardedOps
    /\ IF running THEN Goto(c, "idle") /\ Answer(c, "failed")
       ELSE Goto(c, "wantLock") /\ UNCHANGED reply
    /\ UNCHANGED <<config, running, writer, readers, handler, history>>

NoCheck(c) ==
    /\ pc[c] = "received" /\ req[c].op \notin GuardedOps \cup {"modifyPort"}
    /\ Goto(c, "wantLock")
    /\ UNCHANGED <<config, running, writer, readers, handler, reply, history>>

\* canModify(): a change of mode makes the port dirty and is allowed only while
\* nothing is transmitted - both decided without the lock.
CanModify(c) ==
    /\ pc[c] = "received" /\ req[c].op = "modifyPort"
    /\ Goto(c, IF req[c].mode = mode THEN "wantLock"
               ELSE IF running THEN "markRefused" ELSE "markAllowed")
    /\ UNCHANGED <<config, running, writer, readers, handler, reply, history>>

\* Its last assignment sets the dirty flag, also for a change it refuses.
MarkDirty(c) ==
    /\ pc[c] \in {"markRefused", "markAllowed"}
    /\ dirty' = TRUE
    /\ IF pc[c] = "markRefused" THEN Goto(c, "idle") /\ Answer(c, "error")
       ELSE Goto(c, "wantLock") /\ UNCHANGED reply
    /\ UNCHANGED <<streams, mode, built, running, writer, readers, handler, history>>

LockForWrite(c) ==
    /\ pc[c] = "wantLock" /\ req[c].op # "read"
    /\ writer = NoConn /\ readers = {}
    /\ writer' = c
    /\ Goto(c, IF req[c].op = "build" THEN "startTransmit" ELSE req[c].op)
    /\ UNCHANGED <<config, running, readers, handler, reply, history>>

\* Mutant: readers do not wait for the writer.
LockForReadAlways(c) ==
    /\ pc[c] = "wantLock" /\ req[c].op = "read"
    /\ readers' = readers \cup {c} /\ Goto(c, "read")
    /\ UNCHANGED <<config, running, writer, handler, reply, history>>

LockForRead(c) ==
    /\ pc[c] = "wantLock" /\ req[c].op = "read"
    /\ writer = NoConn
    /\ readers' = readers \cup {c}
    /\ Goto(c, "read")
    /\ UNCHANGED <<config, running, writer, handler, reply, history>>

-----------------------------------------------------------------------------
(* Under the write lock                                                    *)

\* Mutant: an id that is taken is given again.
AddStreamAnyId(c) ==
    /\ pc[c] = "addStream"
    /\ streams' = Append(streams, [id |-> req[c].id, ver |-> 0])
    /\ dirty' = TRUE /\ Answer(c, "success") /\ Goto(c, "unlock")
    /\ UNCHANGED <<mode, built, running, writer, readers, handler, history>>

AddStream(c) ==
    /\ pc[c] = "addStream"
    /\ IF req[c].id \in Ids
       THEN UNCHANGED config /\ Answer(c, "error")
       ELSE /\ streams' = Append(streams, [id |-> req[c].id, ver |-> 0])
            /\ dirty' = TRUE /\ Answer(c, "success")
            /\ UNCHANGED <<mode, built>>
    /\ Goto(c, "unlock")
    /\ UNCHANGED <<running, writer, readers, handler, history>>

\* Mutant: a deleted stream does not make the port dirty.
DeleteStreamStaysClean(c) ==
    /\ pc[c] = "deleteStream"
    /\ streams' = SelectSeq(streams, LAMBDA s : s.id # req[c].id)
    /\ Answer(c, "success") /\ Goto(c, "unlock")
    /\ UNCHANGED <<mode, dirty, built, running, writer, readers, handler, history>>

DeleteStream(c) ==
    /\ pc[c] = "deleteStream"
    /\ IF req[c].id \notin Ids
       THEN UNCHANGED config /\ Answer(c, "error")
       ELSE /\ \E n \in 1 .. Len(streams) :
                  /\ streams[n].id = req[c].id
                  /\ streams' = SubSeq(streams, 1, n - 1)
                                  \o SubSeq(streams, n + 1, Len(streams))
            /\ dirty' = TRUE /\ Answer(c, "success")
            /\ UNCHANGED <<mode, built>>
    /\ Goto(c, "unlock")
    /\ UNCHANGED <<running, writer, readers, handler, history>>

ModifyStream(c) ==
    /\ pc[c] = "modifyStream"
    /\ IF req[c].id \notin Ids
       THEN UNCHANGED config /\ Answer(c, "error")
       ELSE /\ streams' = [n \in 1 .. Len(streams) |->
                              IF streams[n].id = req[c].id
                              THEN [streams[n] EXCEPT !.ver = req[c].ver]
                              ELSE streams[n]]
            /\ dirty' = TRUE /\ Answer(c, "success")
            /\ UNCHANGED <<mode, built>>
    /\ Goto(c, "unlock")
    /\ UNCHANGED <<running, writer, readers, handler, history>>

ModifyPort(c) ==
    /\ pc[c] = "modifyPort"
    /\ mode' = req[c].mode
    /\ Goto(c, "unlock") /\ Answer(c, "success")
    /\ Overtake(c)
    /\ lateMode' = IF req[c].mode = mode THEN lateMode ELSE c \in late
    /\ UNCHANGED <<streams, dirty, built, running, writer, readers, handler>>

\* resolveDeviceNeighbors and clearDeviceNeighbors: allowed on a transmitting port.
DeviceNeighbors(c) ==
    /\ pc[c] = "deviceNeighbors"
    /\ dirty' = TRUE
    /\ Goto(c, "unlock") /\ Answer(c, "success")
    /\ UNCHANGED <<streams, mode, built, running, writer, readers, handler, history>>

\* addDeviceGroup, deleteDeviceGroup, modifyDeviceGroup leave the streams alone.
DeviceGroup(c) ==
    /\ pc[c] = "deviceGroup"
    /\ Goto(c, "unlock") /\ Answer(c, "success")
    /\ UNCHANGED <<config, running, writer, readers, handler, history>>

\* startTransmit and build rebuild the list of a dirty port ...
TestDirty(c) ==
    /\ pc[c] = "startTransmit"
    /\ Goto(c, IF dirty THEN "building"
               ELSE IF req[c].op = "build" THEN "unlock" ELSE "start")
    /\ Answer(c, "success")
    /\ UNCHANGED <<config, running, writer, readers, handler, history>>

\* ... clearPacketList(), the appends, and the flag last ...
UpdatePacketList(c) ==
    /\ pc[c] = "building"
    /\ built' = Config /\ dirty' = FALSE
    /\ Goto(c, IF req[c].op = "build" THEN "unlock" ELSE "start")
    /\ Overtake(c) /\ lateMode' = FALSE
    /\ UNCHANGED <<streams, mode, running, writer, readers, handler, reply>>

\* ... and startTransmit starts, unless it runs already or the list is empty.
Start(c) ==
    /\ pc[c] = "start"
    /\ running' = (running \/ Sends(built))
    /\ Goto(c, "unlock")
    /\ Overtake(c)
    /\ UNCHANGED <<config, writer, readers, handler, reply, lateMode>>

\* stop() holds the lock until the thread has ended.
StopTransmit(c) ==
    /\ pc[c] = "stopTransmit"
    /\ ~running
    /\ Goto(c, "unlock") /\ Answer(c, "success")
    /\ UNCHANGED <<config, running, writer, readers, handler, history>>

Unlock(c) ==
    /\ pc[c] = "unlock" /\ writer = c
    /\ writer' = NoConn
    /\ Goto(c, "idle")
    /\ late' = late \ {c}
    /\ UNCHANGED <<config, running, readers, handler, reply, lateMode>>

\* getStats, getStreamIdList, getStreamConfig and the like.
Read(c) ==
    /\ pc[c] = "read"
    /\ readers' = readers \ {c}
    /\ Goto(c, "idle") /\ Answer(c, "success")
    /\ UNCHANGED <<config, running, writer, handler, history>>

\* The end of a transmission: the list is through, or somebody stops it.
TransmitEnds ==
    /\ running
    /\ running' = FALSE
    /\ UNCHANGED <<config, writer, readers, pc, handler, reply, history>>

-----------------------------------------------------------------------------
Handle(c) ==
    \/ CheckBusy(c) \/ NoCheck(c) \/ CanModify(c) \/ MarkDirty(c)
    \/ LockForWrite(c) \/ LockForRead(c)
    \/ AddStream(c) \/ DeleteStream(c) \/ ModifyStream(c)
    \/ ModifyPort(c) \/ DeviceNeighbors(c) \/ DeviceGroup(c)
    \/ TestDirty(c) \/ UpdatePacketList(c) \/ Start(c) \/ StopTransmit(c)
    \/ Unlock(c) \/ Read(c)

Finished ==
    /\ \A c \in Conns : pc[c] = "idle" /\ left[c].n = 0
    /\ ~running
    /\ UNCHANGED vars

Next == (\E c \in Conns : Receive(c) \/ Handle(c)) \/ TransmitEnds \/ Finished

\* Threads with something to do are run, and a transmission that somebody waits
\* to stop ends (TxThread: CallsReturn, which says when it does not); a looping one
\* need not end otherwise.
Stopping == \E c \in Conns : pc[c] = "stopTransmit"
Fairness ==
    /\ \A c \in Conns : WF_vars(Handle(c))
    /\ WF_vars(Stopping /\ TransmitEnds)

Spec == Init /\ [][Next]_vars /\ Fairness

-----------------------------------------------------------------------------
(***************************************************************************)
(* Properties                                                              *)
(***************************************************************************)
Locked == {"addStream", "deleteStream", "modifyStream", "modifyPort",
           "deviceNeighbors", "deviceGroup", "startTransmit", "building",
           "start", "stopTransmit", "unlock"}

\* portLock: the connections inside the port's configuration, its list and its
\* transmitter are one writer, or readers only.
LockDiscipline ==
    \A c \in Conns :
        /\ pc[c] \in Locked <=> writer = c
        /\ pc[c] = "read" <=> c \in readers
        /\ writer = c => readers = {}

\* No two streams of a port have the same id, although addStream of two clients
\* may have found the port idle at the same time.
StreamIdsUnique ==
    \A m, n \in 1 .. Len(streams) : streams[m].id = streams[n].id => m = n

\* The dirty flag can be relied on: a port that is not dirty has the packet list of its
\* streams, whoever changes them when, and of its mode, unless that was changed by a
\* modifyPort whose canModify() was overtaken by another client's build or change of mode.
CleanMeansBuilt ==
    ~dirty => built.streams = streams /\ (built.mode = mode \/ lateMode)

\* pcapport.h:66, Q_ASSERT(!isDirty()): startTransmit() is called on a port whose
\* list is up to date.
NotDirtyAtStart == \A c \in Conns : pc[c] = "start" => ~dirty

\* pcaptxthread.cpp:91, Q_ASSERT(!isRunning()): the list is cleared and rebuilt only
\* while nothing is transmitted.
RebuildOnlyWhenStopped == \A c \in Conns : pc[c] = "building" => ~running

\* What the isTransmitOn() tests are for: while a port transmits, its streams and its
\* mode stay what they were.  The tests come before the lock; only a request that was
\* overtaken between the two may change a transmitting port.
ConfigStableWhileRunning ==
    [][running => \/ streams' = streams /\ mode' = mode
                  \/ \E c \in late : pc[c] \in StreamOps \cup {"modifyPort"}]_vars

\* Every request is answered: no handler waits forever for the lock or for the
\* transmission it stops.
EveryRequestAnswered == \A c \in Conns : pc[c] = "received" ~> pc[c] = "idle"

=============================================================================
