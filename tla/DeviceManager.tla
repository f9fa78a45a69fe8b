---------------------------- MODULE DeviceManager ----------------------------
(***************************************************************************)
(* The emulated devices of a port: the device groups a client configures,    *)
(* the devices they are enumerated into, the tables the devices are found    *)
(* by, the devices' ARP caches, and the thread that receives packets for     *)
(* them.                                                                     *)
(*                                                                          *)
(* Requests hold the port's write lock and run one at a time.  The receiver   *)
(* takes no lock: it finds the devices of a packet in one step and hands      *)
(* the packet to them in later ones.  A port that transmits (which refuses    *)
(* these requests, see PortService), host devices, IPv6, which has a cache    *)
(* of its own with the same steps, and the answers the devices send to the    *)
(* network are left out.                                                      *)
(***************************************************************************)
EXTENDS Integers, Sequences, FiniteSets, SequencesExt, FiniteSetsExt

CONSTANTS GroupIds,     \* ids of device groups
          Configs,      \* what a client may make of a group
          FirstMacs,    \* random address a new group gets
          Packets,      \* what the network may send
          Peer,         \* the neighbor: source of the packets and everybody's gateway
          MaxRequests, MaxPackets

\* A group: levels of VLAN tags, then device_count devices in each VLAN.
Levels == [tpid : Nat, id : Nat, count : Nat \ {0}, step : Nat]
Groups == [tags : Seq(Levels), mac : Nat, step : Nat, count : Nat, ip : Nat]

ASSUME DeviceAssumption ==
    /\ MaxRequests \in Nat /\ MaxPackets \in Nat
    /\ Configs \subseteq Groups /\ FirstMacs \subseteq Nat
    /\ Packets \subseteq [dst : Nat, tags : Seq([tpid : Nat, id : Nat]), tgt : Nat]

Bcast == 65535   \* kBcastMac
NoIp == 0

VARIABLES
    groups,     \* deviceGroupList_: id -> configuration
    devs,       \* the device objects that exist: object -> [key, ip, arp]
    list,       \* deviceList_: key -> object
    bcast,      \* bcastList_: [vlans, dev] in the order of insertion
    tpids,      \* tpidList_: TPID -> how often it is used
    doing,      \* where the request under way is
    todo,       \* devices it has still to visit
    state_, stop_, thread,   \* EmulationTransceiver: its state, and where its thread is
    rx,         \* the packet the receiver has, and the devices it has found for it
    excuse,     \* ghost: groups that are not apart
    requests, packets   \* used up of the bounds

tables == <<groups, devs, list, bcast, tpids>>
xcvr == <<state_, stop_, thread>>
deviceVars == <<tables, doing, todo, xcvr, rx, excuse, requests, packets>>

NoPacket == [tags |-> <<>>, tgt |-> NoIp, found |-> <<>>]

DeviceInit ==
    /\ groups = <<>> /\ devs = <<>> /\ list = <<>> /\ bcast = <<>> /\ tpids = <<>>
    /\ doing = "idle" /\ todo = {}
    /\ state_ = "kNotStarted" /\ stop_ = FALSE /\ thread = "none"
    /\ rx = NoPacket /\ excuse = {}
    /\ requests = 0 /\ packets = 0

-----------------------------------------------------------------------------
(* enumerateDevices()                                                        *)

\* vlanCount: how many VLANs there are from level j inwards.
VlanCount(g, j) ==
    LET count[l \in 0 .. Len(g.tags)] ==   \* of the l innermost levels
            IF l = 0 THEN 1 ELSE g.tags[Len(g.tags) + 1 - l].count * count[l - 1]
    IN  count[Len(g.tags) + 1 - j]

\* A device's key has kMaxVlan slots for VLAN ids, filled with 0; what does not fit is left
\* out, so that four levels of tags tell devices apart and id 0 is no tag.
MaxVlan == 4
Slots(ids) == [j \in 1 .. MaxVlan |-> IF j \in DOMAIN ids THEN ids[j] ELSE 0]

\* The ids of the i-th VLAN, counted from 0: the innermost level changes first.
Vlans(g, i) ==
    Slots([j \in DOMAIN g.tags |->
              LET t == g.tags[j]
              IN  (t.id + ((i \div VlanCount(g, j + 1)) % t.count) * t.step) % 65536])

\* The devices, in the order of the two loops.  The key leaves out the TPIDs.
Devices(g) ==
    [n \in 1 .. VlanCount(g, 1) * g.count |->
        LET k == (n - 1) % g.count
        IN  [key |-> [vlans |-> Vlans(g, (n - 1) \div g.count), mac |-> g.mac + k * g.step],
             ip |-> IF g.ip = NoIp THEN NoIp ELSE g.ip + k,
             arp |-> <<>>]]

Keys(g) == {Devices(g)[n].key : n \in DOMAIN Devices(g)}
VlanSets(g) == {key.vlans : key \in Keys(g)}

Put(f, x, v) == [y \in DOMAIN f \cup {x} |-> IF y = x THEN v ELSE f[y]]
Drop(f, x) == [y \in DOMAIN f \ {x} |-> f[y]]

\* A new object is none that exists or is still pointed at.
NewObject(t) == Max({-1} \cup DOMAIN t.devs \cup Range(rx.found)
                        \cup {t.bcast[n].dev : n \in DOMAIN t.bcast}) + 1

\* insertDevice(), unless there is a device with that key.
Insert(t, d) ==
    IF d.key \in DOMAIN t.list THEN t
    ELSE LET o == NewObject(t)
         IN  [devs |-> Put(t.devs, o, d), list |-> Put(t.list, d.key, o),
              bcast |-> Append(t.bcast, [vlans |-> d.key.vlans, dev |-> o])]

\* Mutant: the entry for broadcasts is left behind.
DeleteKeepsBcast(t, d) ==
    IF d.key \notin DOMAIN t.list THEN t
    ELSE [devs |-> Drop(t.devs, t.list[d.key]), list |-> Drop(t.list, d.key), bcast |-> t.bcast]

\* deleteDevice(): of the entries for broadcasts in the device's VLANs, take()
\* removes the latest, whichever device it is of.
Delete(t, d) ==
    IF d.key \notin DOMAIN t.list THEN t
    ELSE LET latest == Max({0} \cup {n \in DOMAIN t.bcast : t.bcast[n].vlans = d.key.vlans})
         IN  [devs |-> Drop(t.devs, t.list[d.key]), list |-> Drop(t.list, d.key),
              bcast |-> IF latest = 0 THEN t.bcast ELSE RemoveAt(t.bcast, latest)]

Uses(g, tpid) == Cardinality({j \in DOMAIN g.tags : g.tags[j].tpid = tpid})
Tpids(g) == {g.tags[j].tpid : j \in DOMAIN g.tags}
Count(f, x) == IF x \in DOMAIN f THEN f[x] ELSE 0

AddTpids(f, g) == [x \in DOMAIN f \cup Tpids(g) |-> Count(f, x) + Uses(g, x)]
DeleteTpids(f, g) ==
    [x \in {y \in DOMAIN f : f[y] # Uses(g, y)} |-> f[x] - Uses(g, x)]

\* The tables after the devices of a group have been added or deleted, one by one.
Added(t, g) ==
    LET ds == Devices(g)
        added[n \in 0 .. Len(ds)] == IF n = 0 THEN t ELSE Insert(added[n - 1], ds[n])
    IN  added[Len(ds)]
Deleted(t, g) ==
    LET ds == Devices(g)
        deleted[n \in 0 .. Len(ds)] == IF n = 0 THEN t ELSE Delete(deleted[n - 1], ds[n])
    IN  deleted[Len(ds)]

Tables == [devs |-> devs, list |-> list, bcast |-> bcast]
SetTables(t) == devs' = t.devs /\ list' = t.list /\ bcast' = t.bcast

\* Whether other groups have devices with the keys, or in the VLANs, of g.
Meets(g, others) ==
    (IF \E h \in others : Keys(g) \cap Keys(h) # {} THEN {"key"} ELSE {})
    \cup (IF \E h \in others : VlanSets(g) \cap VlanSets(h) # {} THEN {"vlan"} ELSE {})
    \cup (IF Cardinality(Keys(g)) # VlanCount(g, 1) * g.count THEN {"key"} ELSE {})

-----------------------------------------------------------------------------
(* The requests, under the port's write lock.                                *)

Request == doing = "idle" /\ requests < MaxRequests /\ requests' = requests + 1

\* newDeviceGroup(): one device without VLANs, at a random address.
NewGroup(mac) == [tags |-> <<>>, mac |-> mac, step |-> 1, count |-> 1, ip |-> NoIp]

Others(id) == {groups[i] : i \in DOMAIN groups \ {id}}

\* The first group starts the emulation.
AddDeviceGroup ==
    /\ Request
    /\ \E id \in GroupIds \ DOMAIN groups, mac \in FirstMacs :
          LET g == NewGroup(mac)
          IN  /\ groups' = Put(groups, id, g)
              /\ SetTables(Added(Tables, g))
              /\ tpids' = AddTpids(tpids, g)
              /\ excuse' = excuse \cup Meets(g, Others(id))
              /\ doing' = IF groups = <<>> THEN "start" ELSE "idle"
    /\ UNCHANGED <<todo, xcvr, rx, packets>>

\* The last group stops it.
DeleteDeviceGroup ==
    /\ Request
    /\ \E id \in DOMAIN groups :
          LET g == groups[id]
          IN  /\ groups' = Drop(groups, id)
              /\ SetTables(Deleted(Tables, g))
              /\ tpids' = DeleteTpids(tpids, g)
              /\ doing' = IF DOMAIN groups = {id} THEN "stop" ELSE "idle"
    /\ UNCHANGED <<todo, xcvr, rx, excuse, packets>>

\* Mutant: the devices of the old configuration are not deleted.
ModifyDeviceGroupKeepsOld ==
    /\ Request
    /\ \E id \in DOMAIN groups, g \in Configs :
          LET h == IF g.step = 0 THEN [g EXCEPT !.step = 1] ELSE g
          IN  /\ groups' = [groups EXCEPT ![id] = h]
              /\ SetTables(Added(Tables, h))
              /\ tpids' = AddTpids(DeleteTpids(tpids, groups[id]), h)
              /\ excuse' = excuse \cup Meets(h, Others(id))
    /\ UNCHANGED <<doing, todo, xcvr, rx, packets>>

\* The old devices are deleted, with what they had learned, and the new ones added.
\* A step of 0 becomes 1.
ModifyDeviceGroup ==
    /\ Request
    /\ \E id \in DOMAIN groups, g \in Configs :
          LET h == IF g.step = 0 THEN [g EXCEPT !.step = 1] ELSE g
          IN  /\ groups' = [groups EXCEPT ![id] = h]
              /\ SetTables(Added(Deleted(Tables, groups[id]), h))
              /\ tpids' = AddTpids(DeleteTpids(tpids, groups[id]), h)
              /\ excuse' = excuse \cup Meets(h, Others(id))
    /\ UNCHANGED <<doing, todo, xcvr, rx, packets>>

\* EmulationTransceiver::start().  QThread::start() does nothing when the thread of
\* the last time has set its state and not ended yet.
EmulationStart ==
    /\ doing = "start"
    /\ IF state_ = "kRunning"
       THEN doing' = "idle" /\ UNCHANGED xcvr
       ELSE /\ state_' = "kNotStarted" /\ doing' = "started"
            /\ thread' = IF thread = "none" THEN "open" ELSE thread
            /\ UNCHANGED stop_
    /\ UNCHANGED <<tables, todo, rx, excuse, requests, packets>>
EmulationStarted ==
    /\ doing = "started" /\ state_ # "kNotStarted"
    /\ doing' = "idle"
    /\ UNCHANGED <<tables, todo, xcvr, rx, excuse, requests, packets>>

EmulationStop ==
    /\ doing = "stop"
    /\ IF state_ = "kRunning" THEN stop_' = TRUE /\ doing' = "stopping"
       ELSE doing' = "idle" /\ UNCHANGED stop_
    /\ UNCHANGED <<tables, todo, state_, thread, rx, excuse, requests, packets>>
EmulationStopped ==
    /\ doing = "stopping" /\ state_ # "kRunning"
    /\ doing' = "idle"
    /\ UNCHANGED <<tables, todo, xcvr, rx, excuse, requests, packets>>

Forget(arp, unresolved) ==
    [ip \in {i \in DOMAIN arp : unresolved /\ arp[i] # 0} |-> arp[ip]]

\* clearDeviceNeighbors()
ClearDeviceNeighbors ==
    /\ Request
    /\ devs' = [o \in DOMAIN devs |-> [devs[o] EXCEPT !.arp = Forget(@, FALSE)]]
    /\ UNCHANGED <<groups, list, bcast, tpids, doing, todo, xcvr, rx, excuse, packets>>

\* resolveDeviceNeighbors(): unresolved entries are forgotten, so that ...  (Behind the
\* gateways the code asks for the neighbors of every frame of the streams.  Everybody's
\* neighbor is Peer here, and asked for; and the port is marked dirty, see PortService.)
ResolveDeviceNeighbors ==
    /\ Request
    /\ devs' = [o \in DOMAIN devs |-> [devs[o] EXCEPT !.arp = Forget(@, TRUE)]]
    /\ todo' = {o \in DOMAIN devs : devs[o].ip # NoIp} /\ doing' = "resolve"
    /\ UNCHANGED <<groups, list, bcast, tpids, xcvr, rx, excuse, packets>>

\* ... every device asks for its gateway if it is not in the cache, ...
ResolveGateway ==
    /\ doing = "resolve"
    /\ IF todo = {} THEN doing' = "idle" /\ UNCHANGED todo
       ELSE LET o == Min(todo)
            IN  IF Peer \in DOMAIN devs[o].arp
                THEN todo' = todo \ {o} /\ UNCHANGED doing
                ELSE doing' = "requested" /\ UNCHANGED todo
    /\ UNCHANGED <<tables, xcvr, rx, excuse, requests, packets>>

\* Mutant: the address asked for is not entered.
EnterUnresolvedNot ==
    /\ doing = "requested"
    /\ todo' = todo \ {Min(todo)} /\ doing' = "resolve"
    /\ UNCHANGED <<tables, xcvr, rx, excuse, requests, packets>>

\* ... and enters it as unresolved after the request was sent.
EnterUnresolved ==
    /\ doing = "requested"
    /\ devs' = [devs EXCEPT ![Min(todo)].arp = Put(@, Peer, 0)]
    /\ todo' = todo \ {Min(todo)} /\ doing' = "resolve"
    /\ UNCHANGED <<groups, list, bcast, tpids, xcvr, rx, excuse, requests, packets>>

-----------------------------------------------------------------------------
(* The receiver's thread.                                                    *)

\* The device is opened, or cannot be.
RxOpen ==
    /\ thread = "open"
    /\ \/ state_' = "kRunning" /\ thread' = "loop"
       \/ state_' = "kFinished" /\ thread' = "end"
    /\ UNCHANGED <<tables, doing, todo, stop_, rx, excuse, requests, packets>>

\* The tags are taken off while their TPID is one of a device's.
Parsed(tags) ==
    LET unknown == SelectInSeq(tags, LAMBDA t : t.tpid \notin DOMAIN tpids)
    IN  IF unknown = 0 THEN tags ELSE SubSeq(tags, 1, unknown - 1)
TagIds(tags) == Slots([j \in DOMAIN tags |-> tags[j].id])

\* Mutant: tags are not looked at.
LookupUntagged(p) ==
    IF p.dst = Bcast
    THEN Reverse([n \in DOMAIN bcast |-> bcast[n].dev])
    ELSE IF [vlans |-> TagIds(<<>>), mac |-> p.dst] \in DOMAIN list
    THEN <<list[[vlans |-> TagIds(<<>>), mac |-> p.dst]]>> ELSE <<>>

\* The devices a packet is for, the latest first.
Lookup(p) ==
    LET vlans == TagIds(Parsed(p.tags))
        reached[n \in 0 .. Len(bcast)] ==
            IF n = 0 THEN <<>>
            ELSE IF bcast[n].vlans = vlans THEN <<bcast[n].dev>> \o reached[n - 1]
            ELSE reached[n - 1]
        key == [vlans |-> vlans, mac |-> p.dst]
    IN  IF p.dst = Bcast THEN reached[Len(bcast)]
        ELSE IF key \in DOMAIN list THEN <<list[key]>> ELSE <<>>

\* A packet that has a tag left over is none of ARP or IP.
RxPacket ==
    /\ thread = "loop" /\ rx = NoPacket /\ packets < MaxPackets
    /\ packets' = packets + 1
    /\ \E p \in Packets :
          rx' = [tags |-> p.tags, found |-> Lookup(p),
                 tgt |-> IF Parsed(p.tags) = p.tags THEN p.tgt ELSE NoIp]
    /\ thread' = "deliver"
    /\ UNCHANGED <<tables, doing, todo, state_, stop_, excuse, requests>>

\* receiveArp(): a request or a response for the device's address is learned.  A device
\* that was deleted since it was found is used all the same; its memory is nobody's.
RxDeliver ==
    /\ thread = "deliver" /\ rx.found # <<>>
    /\ LET o == rx.found[1]
       IN  devs' = IF o \in DOMAIN devs /\ devs[o].ip = rx.tgt /\ rx.tgt # NoIp
                   THEN [devs EXCEPT ![o].arp = Put(@, Peer, 1)] ELSE devs
    /\ rx' = [rx EXCEPT !.found = Tail(@)]
    /\ UNCHANGED <<groups, list, bcast, tpids, doing, todo, xcvr, excuse, requests, packets>>

\* Mutant: stop_ is looked at only when no packet comes and none was ever received.
RxCheckIgnoresStop ==
    /\ \/ thread = "deliver" /\ rx.found = <<>> /\ thread' = "loop"
       \/ thread = "loop" /\ stop_ /\ packets = 0 /\ thread' = "close"
    /\ rx' = NoPacket
    /\ UNCHANGED <<tables, doing, todo, state_, stop_, excuse, requests, packets>>

\* Between two packets, and when none comes for a while, the thread looks at stop_.
RxCheck ==
    /\ \/ thread = "deliver" /\ rx.found = <<>>
       \/ thread = "loop" /\ stop_
    /\ rx' = NoPacket
    /\ IF stop_ THEN thread' = "close" ELSE thread' = "loop"
    /\ UNCHANGED <<tables, doing, todo, state_, stop_, excuse, requests, packets>>

\* An error of the capture library ends the thread.
RxError ==
    /\ thread = "loop" /\ packets < MaxPackets /\ packets' = packets + 1
    /\ stop_' = TRUE /\ thread' = "close"
    /\ UNCHANGED <<tables, doing, todo, state_, rx, excuse, requests>>

\* postRun() waits for the signal that stop() sends after it has set stop_: a thread that
\* ended by an error stays, and counts as running, until it is stopped.
RxClose ==
    /\ thread = "close" /\ doing = "stopping"
    /\ stop_' = FALSE /\ state_' = "kFinished" /\ thread' = "end"
    /\ UNCHANGED <<tables, doing, todo, rx, excuse, requests, packets>>

RxEnd ==
    /\ thread = "end" /\ thread' = "none"
    /\ UNCHANGED <<tables, doing, todo, state_, stop_, rx, excuse, requests, packets>>

-----------------------------------------------------------------------------
Service ==
    \/ EmulationStart \/ EmulationStarted \/ EmulationStop \/ EmulationStopped
    \/ ResolveGateway \/ EnterUnresolved

Client == AddDeviceGroup \/ DeleteDeviceGroup \/ ModifyDeviceGroup
              \/ ClearDeviceNeighbors \/ ResolveDeviceNeighbors

Receiver == RxOpen \/ RxDeliver \/ RxCheck \/ RxClose \/ RxEnd

DeviceNext == Service \/ Client \/ Receiver \/ RxPacket \/ RxError

\* Both threads are run, and a request under way is not abandoned.
DeviceFairness == WF_deviceVars(Service) /\ WF_deviceVars(Receiver)

DeviceSpec == DeviceInit /\ [][DeviceNext]_deviceVars /\ DeviceFairness

-----------------------------------------------------------------------------
(***************************************************************************)
(* Properties                                                              *)
(***************************************************************************)
Known(d) == Peer \in DOMAIN d.arp /\ d.arp[Peer] # 0
AllKeys == UNION {Keys(groups[id]) : id \in DOMAIN groups}

\* After any sequence of adding, modifying and deleting groups the devices are those of
\* the groups, each found by its own key, as long as no two groups have a device with
\* the same VLANs and address; and a TPID is known exactly as long as a group uses it,
\* however many use it: else tagged packets are not recognised.
DevicesOfGroups ==
    /\ "key" \notin excuse =>
          /\ DOMAIN list = AllKeys
          /\ \A key \in DOMAIN list : list[key] \in DOMAIN devs /\ devs[list[key]].key = key
          /\ Cardinality(DOMAIN devs) = Cardinality(AllKeys)
    /\ DOMAIN tpids = UNION {Tpids(groups[id]) : id \in DOMAIN groups}

\* As long as no two groups share a VLAN, a broadcast reaches the devices of its VLAN,
\* each once, and nothing that was deleted.
BroadcastReachesDevices ==
    excuse \cap {"key", "vlan"} = {} =>
        /\ \A n \in DOMAIN bcast :
              bcast[n].dev \in DOMAIN devs /\ devs[bcast[n].dev].key.vlans = bcast[n].vlans
        /\ \A o \in DOMAIN devs : Cardinality({n \in DOMAIN bcast : bcast[n].dev = o}) = 1

\* A resolution leaves no device without an entry for its gateway, resolved or asked
\* for, whatever the receiver learns in between: "IP not in cache - send ARP/NDP request"
\* (abstractport.cpp:758).
GatewaysAsked ==
    doing \in {"resolve", "requested"} =>
        \A o \in DOMAIN devs \ todo : devs[o].ip # NoIp => Peer \in DOMAIN devs[o].arp

\* A device learns only from packets for its address in its own VLAN, also when the
\* tables change while the packet is on its way to it.
LearnsInOwnVlan ==
    [][\A o \in DOMAIN devs \cap DOMAIN devs' :
          Known(devs'[o]) /\ ~Known(devs[o]) =>
              devs[o].key.vlans = TagIds(rx.tags) /\ devs[o].ip = rx.tgt]_deviceVars

\* A request ends, and with it the port's write lock is free again - unless the thread
\* of the last emulation had not ended when the next one was started, which then waits
\* for a thread that is not there.
RequestEnds ==
    doing # "idle" ~> (doing = "idle" \/ (doing = "started" /\ thread \in {"end", "none"}))

=============================================================================
