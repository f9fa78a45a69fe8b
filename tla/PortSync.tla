------------------------------- MODULE PortSync -------------------------------
(***************************************************************************)
(* The controller's copy of a port of the drone: how PortGroup fetches it   *)
(* at connect, how the user edits it, how "Apply" sends the differences,    *)
(* and what a lost connection and the reconnect timer do to it.             *)
(*                                                                         *)
(* Source: src/client/portgroup.cpp and port.cpp, with the drone's side of  *)
(* the requests (src/server/myservice.cpp) as one step each.  The channel   *)
(* is the one RpcChannel models: calls wait in a queue, the first is at the *)
(* drone, answers and notifications arrive in the order they were sent.     *)
(* A port group has one port here.  Streams and device groups follow the    *)
(* same protocol; where they differ the kind is tested.  An item is an id   *)
(* with a content.  Calls whose answers change nothing modelled (resolving  *)
(* neighbors, device lists, capture, clearing counters) are left out.       *)
(***************************************************************************)
EXTENDS Integers, Sequences, FiniteSets, SequencesExt, FiniteSetsExt

CONSTANTS Kinds,        \* kinds of items a port has
          Session,      \* contents of a session file opened for the group, or NoSession
          NoSession,
          FirstItems,   \* [Kinds -> contents]: what the drone has at the start
          MaxEdits,     \* bound: edits, requests and other controllers' changes
          MaxLosses,    \* bound: connections lost or refused
          MinWait, MaxWait   \* kMinReconnectWaitTime, kMaxReconnectWaitTime

ASSUME PortSyncAssumption ==
    /\ Kinds \subseteq {"stream", "devgrp"} /\ "stream" \in Kinds
    /\ MaxEdits \in Nat /\ MaxLosses \in Nat
    /\ MinWait \in Nat /\ MaxWait \in Nat /\ MinWait <= MaxWait

VARIABLES
    sock,         \* state of the channel's socket
    reconnect,    \* should a lost connection be made again?
    timer,        \* is reconnectTimer running?
    wait,         \* reconnectAfter
    compat,       \* what is known of the drone's version
    port,         \* mPorts[0], or NoPort
    atConnect,    \* atConnectPortConfig_[0]: the session's content is still to be sent
    nextId,       \* mAllocStreamId, allocDeviceGroupId_
    statsPending, \* isGetStatsPending_
    window,       \* is the main window enabled?
    calls,        \* the channel's outstanding call and those behind it
    inbox,        \* what the drone has sent and the controller has not read
    drone,        \* the port at the drone
    notify,       \* has the drone checked this connection's version?
    excuse,       \* ghost: why copy and port may differ since the last connect
    edits, losses \* used up of the bounds

net == <<sock, reconnect, timer, wait, compat>>
local == <<port, atConnect, nextId, statsPending, window>>
wire == <<calls, inbox, notify>>
vars == <<net, local, wire, drone, excuse, edits, losses>>

\* Contents are numbers: that of a new item, of the drone's configuration at first, and
\* the numbers of the edits.
Default == 0
FirstCfg == -1

NoPort == [up |-> FALSE]
NewPort == [up |-> TRUE, fetched |-> FALSE, dirty |-> FALSE, tx |-> FALSE, cfg |-> Default,
            items |-> [k \in Kinds |-> <<>>],       \* mStreams, deviceGroups_
            last |-> [k \in Kinds |-> {}],          \* mLastSyncStreamList, ...
            modified |-> [k \in Kinds |-> {}]]      \* modifiedDeviceGroupList_

\* Contents of a list of items: the last of several with one id is the one that counts.
Ids(items) == {items[n].id : n \in DOMAIN items}
Contents(items) ==
    [i \in Ids(items) |-> items[Max({n \in DOMAIN items : items[n].id = i})].cfg]
\* Items of the ids, without contents.
AsItems(ids) == LET s == SetToSeq(ids)
                IN  [n \in DOMAIN s |-> [id |-> s[n], cfg |-> Default]]

\* Ids are unsigned numbers, and each has a content.
ASSUME IdsAssumption ==
    /\ DOMAIN FirstItems = Kinds
    /\ \A k \in Kinds : LET ids == DOMAIN FirstItems[k]
                         IN  /\ ids \subseteq Nat /\ IsFiniteSet(ids)
                             /\ FirstItems[k] = [i \in ids |-> FirstItems[k][i]]
    /\ Session # NoSession => \A k \in Kinds :
          Ids(Session.items[k]) \subseteq Nat /\ IsFiniteSet(Ids(Session.items[k]))

\* A call: what is asked, of which kind of item, with what argument.
Nothing == [nothing |-> TRUE]
Call(op, k, arg) == [op |-> op, k |-> k, arg |-> arg]
\* One that is made only if it has something to say.
CallIf(cond, op, k, arg) == IF cond THEN <<Call(op, k, arg)>> ELSE <<>>

Reply(data) == [t |-> "reply", data |-> data]
Notification == [t |-> "notification", data |-> Nothing]

\* PortGroup::state()
Connected == sock = "connected" /\ compat # "bad"

Init ==
    /\ sock = "connecting" /\ reconnect = TRUE /\ timer = FALSE
    /\ wait = MinWait /\ compat = "unknown"
    /\ port = NoPort /\ atConnect = FALSE
    /\ nextId = [k \in Kinds |-> IF k = "stream" THEN 0 ELSE 1]
    /\ statsPending = FALSE /\ window = TRUE
    /\ calls = <<>> /\ inbox = <<>> /\ notify = FALSE
    /\ drone = [items |-> FirstItems, cfg |-> FirstCfg, tx |-> FALSE]
    /\ excuse = {} /\ edits = 0 /\ losses = 0

-----------------------------------------------------------------------------
(* Connecting, and losing the connection.                                   *)

\* The menu's Connect: enabled while the socket is unconnected, timer or not.
UserConnect ==
    /\ window /\ sock = "unconnected" /\ edits < MaxEdits
    /\ sock' = "connecting" /\ reconnect' = TRUE /\ compat' = "unknown"
    /\ edits' = edits + 1
    /\ UNCHANGED <<timer, wait, local, wire, drone, excuse, losses>>

\* Nothing stops the timer: it may fire when the user has connected, or
\* disconnected, in the meantime.  A connected socket ignores connectToHost().
ReconnectTimeout ==
    /\ timer
    /\ timer' = FALSE
    /\ wait' = Min({2 * wait, MaxWait})
    /\ reconnect' = TRUE /\ compat' = "unknown"
    /\ sock' = IF sock = "unconnected" THEN "connecting" ELSE sock
    /\ UNCHANGED <<local, wire, drone, excuse, edits, losses>>

\* Connected: the first call asks the drone for its version.
OnConnected ==
    /\ sock = "connecting" /\ reconnect
    /\ sock' = "connected" /\ wait' = MinWait
    /\ calls' = Append(calls, Call("checkVersion", "none", Nothing))
    /\ excuse' = {} /\ notify' = FALSE
    /\ UNCHANGED <<reconnect, timer, compat, local, inbox, drone, edits, losses>>

\* The attempt fails.  After a disconnectFromHost() while connecting the socket
\* ends unconnected either way, and reconnect is FALSE.
OnError ==
    /\ sock = "connecting" /\ (losses < MaxLosses \/ ~reconnect)
    /\ losses' = IF reconnect THEN losses + 1 ELSE losses
    /\ sock' = "unconnected" /\ timer' = (timer \/ reconnect)
    /\ UNCHANGED <<reconnect, wait, compat, local, wire, drone, excuse, edits>>

\* Mutants: an outstanding request for statistics stays marked; the calls wait for the
\* next connection.
HangUpStatsPending(again) ==
    /\ sock' = "unconnected" /\ timer' = (timer \/ again)
    /\ port' = NoPort /\ atConnect' = FALSE
    /\ calls' = <<>> /\ inbox' = <<>>
    /\ UNCHANGED <<wait, compat, nextId, statsPending, window, notify>>
HangUpKeepsCalls(again) ==
    /\ sock' = "unconnected" /\ timer' = (timer \/ again)
    /\ port' = NoPort /\ atConnect' = FALSE /\ statsPending' = FALSE
    /\ inbox' = <<>>
    /\ calls' = SelectSeq(calls, LAMBDA c : c.op # "stats")
    /\ UNCHANGED <<wait, compat, nextId, window, notify>>

\* Mutant: the timer is started for a refused connection only.
HangUpNoTimer(again) ==
    /\ sock' = "unconnected"
    /\ port' = NoPort /\ atConnect' = FALSE /\ statsPending' = FALSE
    /\ calls' = <<>> /\ inbox' = <<>>
    /\ UNCHANGED <<timer, wait, compat, nextId, window, notify>>

\* PbRpcChannel and PortGroup at disconnected(): calls are dropped without an
\* answer, the ports are deleted, the timer is started if wanted.
HangUp(again) ==
    /\ sock' = "unconnected" /\ timer' = (timer \/ again)
    /\ port' = NoPort /\ atConnect' = FALSE /\ statsPending' = FALSE
    /\ calls' = <<>> /\ inbox' = <<>>
    /\ UNCHANGED <<wait, compat, nextId, window, notify>>

\* The remote host closes the connection: a drone that was stopped, one that
\* restarted with empty ports, or one that found the versions incompatible.
RemoteClosed ==
    /\ sock = "connected" /\ (losses < MaxLosses \/ compat = "bad")
    /\ losses' = IF compat = "bad" THEN losses ELSE losses + 1
    /\ reconnect' = FALSE
    /\ HangUp(FALSE)
    /\ \/ UNCHANGED drone
       \/ drone' = [items |-> [k \in Kinds |-> <<>>], cfg |-> FirstCfg, tx |-> FALSE]
    /\ UNCHANGED <<excuse, edits>>

\* Any other error of a connection that was up.
NetworkError ==
    /\ sock = "connected" /\ losses < MaxLosses
    /\ losses' = losses + 1
    /\ HangUp(reconnect)
    /\ UNCHANGED <<reconnect, drone, excuse, edits>>

\* The menu's Disconnect.
UserDisconnect ==
    /\ window /\ sock \in {"connecting", "connected"} /\ edits < MaxEdits
    /\ edits' = edits + 1 /\ reconnect' = FALSE
    /\ IF sock = "connected"
       THEN HangUp(FALSE)
       ELSE UNCHANGED <<sock, timer, wait, compat, local, wire>>
    /\ UNCHANGED <<drone, excuse, losses>>

-----------------------------------------------------------------------------
(* The user at the controller's copy.  The main window must be enabled.      *)

\* Editing before the drone's list has arrived is an excuse for differences.
Edited(p) ==
    /\ window /\ edits < MaxEdits
    /\ edits' = edits + 1
    /\ port' = p
    /\ excuse' = excuse \cup (IF port.fetched THEN {} ELSE {"early"})
    /\ UNCHANGED <<net, atConnect, statsPending, window, wire, drone, losses>>

\* newStreamAt(), newDeviceGroupAt(): ids come from a counter shared by all ports.
NewItem(k) ==
    /\ port.up
    /\ Edited([port EXCEPT !.items[k] = Append(@, [id |-> nextId[k], cfg |-> edits + 1]),
                           !.modified[k] = @ \cup {nextId[k]}, !.dirty = TRUE])
    /\ nextId' = [nextId EXCEPT ![k] = @ + 1]

\* deleteStreamAt(), deleteDeviceGroupAt()
DeleteItem(k) ==
    port.up /\ \E n \in DOMAIN port.items[k] :
        /\ Edited([port EXCEPT !.items[k] = RemoveAt(@, n),
                               !.modified[k] = @ \ {port.items[k][n].id}, !.dirty = TRUE])
        /\ UNCHANGED nextId

\* The dialogs of a stream and of a device group, accepted.
EditItem(k) ==
    port.up /\ \E n \in DOMAIN port.items[k] :
        /\ Edited([port EXCEPT !.items[k][n].cfg = edits + 1,
                               !.modified[k] = @ \cup {port.items[k][n].id}, !.dirty = TRUE])
        /\ UNCHANGED nextId

\* A transmission is started or stopped from the statistics window.
Transmit(op) ==
    /\ window /\ Connected /\ port.up /\ edits < MaxEdits
    /\ edits' = edits + 1
    /\ calls' = Append(calls, Call(op, "none", Nothing))
    /\ UNCHANGED <<net, local, inbox, notify, drone, excuse, losses>>

\* modifyPort(): the port's own configuration, sent at once.
ModifyPort ==
    /\ window /\ Connected /\ port.up /\ edits < MaxEdits
    /\ edits' = edits + 1
    /\ window' = FALSE
    /\ calls' = calls \o <<Call("modifyPort", "none", [cfg |-> edits + 1]),
                           Call("modifyBuild", "none", Nothing)>>
    /\ UNCHANGED <<net, port, atConnect, nextId, statsPending, inbox, notify, drone,
                   excuse, losses>>

\* Of the streams all are sent as modified.
Modified(k) == {i \in Ids(port.items[k]) : k = "stream" \/ i \in port.modified[k]}

\* Mutant: items deleted since the last synchronisation are not sent.
ChangesNoDelete(k) ==
    LET sent == Restrict(Contents(port.items[k]), Modified(k))
        new == Ids(port.items[k]) \ port.last[k]
    IN  CallIf(new # {}, "add", k, [ids |-> new])
        \o CallIf(Modified(k) # {}, "mod", k, [items |-> sent])

\* get{Deleted,New,Modified}...SinceLastSync()
Changes(k) ==
    LET ids == Ids(port.items[k])
        sent == Restrict(Contents(port.items[k]), Modified(k))
    IN  CallIf(port.last[k] \ ids # {}, "del", k, [ids |-> port.last[k] \ ids])
        \o CallIf(ids \ port.last[k] # {}, "add", k, [ids |-> ids \ port.last[k]])
        \o CallIf(Modified(k) # {}, "mod", k, [items |-> sent])

\* The calls for the device groups come first, here and in the session's content.
ForKinds(asked) == (IF "devgrp" \in Kinds THEN asked["devgrp"] ELSE <<>>)
                        \o (IF "stream" \in Kinds THEN asked["stream"] ELSE <<>>)

\* on_pbApply_clicked(), which looks at the statistics as last polled, and
\* when_configApply().  Streams whose contents have not arrived are sent all the same;
\* an edit of a device group whose contents have not arrived is sent, and then lost here.
Apply ==
    /\ window /\ port.up /\ ~port.tx /\ Connected
    /\ window' = FALSE
    /\ calls' = calls \o ForKinds([k \in Kinds |-> Changes(k)])
                       \o <<Call("applyBuild", "none", Nothing)>>
    /\ excuse' = excuse \cup
           (IF \E n \in DOMAIN calls : calls[n].op = "cfgs" THEN {"raw"} ELSE {})
    /\ UNCHANGED <<net, port, atConnect, nextId, statsPending, inbox, notify, drone,
                   edits, losses>>

\* getPortStats(), called by a timer.
PollStats ==
    /\ Connected /\ port.up /\ ~statsPending
    /\ statsPending' = TRUE
    /\ calls' = Append(calls, Call("stats", "none", Nothing))
    /\ UNCHANGED <<net, port, atConnect, nextId, window, inbox, notify, drone, excuse,
                   edits, losses>>

-----------------------------------------------------------------------------
(* The drone: it answers the first call, then takes the next.                *)

AtDrone(ops) ==
    /\ sock = "connected" /\ calls # <<>> /\ calls[1].op \in ops
    /\ \A n \in DOMAIN inbox : inbox[n].t # "reply"

Answer(data) == inbox' = Append(inbox, Reply(data))

ServeVersion ==
    /\ AtDrone({"checkVersion"})
    /\ \/ Answer([result |-> "ok"]) /\ notify' = TRUE /\ UNCHANGED losses
       \/ /\ losses < MaxLosses /\ losses' = losses + 1
          /\ Answer([result |-> "bad"]) /\ UNCHANGED notify
    /\ UNCHANGED <<net, local, calls, drone, excuse, edits>>

ServeRead ==
    /\ AtDrone({"portIds", "portCfg", "newCfg", "ids", "cfgs", "stats"})
    /\ LET c == calls[1]
       IN  Answer(CASE c.op = "portIds" -> Nothing
                    [] c.op \in {"portCfg", "newCfg"} -> [cfg |-> drone.cfg]
                    [] c.op = "ids" -> [ids |-> DOMAIN drone.items[c.k]]
                    [] c.op = "cfgs" ->
                          [items |-> Restrict(drone.items[c.k],
                                              DOMAIN drone.items[c.k] \cap c.arg.ids)]
                    [] c.op = "stats" -> [tx |-> drone.tx])
    /\ UNCHANGED <<net, local, calls, notify, drone, excuse, edits, losses>>

\* add, delete and modify requests and their effect on an idle port.
Changed(items, c) ==
    CASE c.op = "add" -> [i \in DOMAIN items \cup c.arg.ids |->
                             IF i \in DOMAIN items THEN items[i] ELSE Default]
      [] c.op = "del" -> Restrict(items, DOMAIN items \ c.arg.ids)
      [] c.op = "mod" -> [i \in DOMAIN items |-> IF i \in DOMAIN c.arg.items THEN c.arg.items[i]
                                                                        ELSE items[i]]

\* A transmitting port refuses them.
ServeChange ==
    /\ AtDrone({"add", "del", "mod"})
    /\ LET c == calls[1]
       IN  drone' = IF drone.tx THEN drone
                    ELSE [drone EXCEPT !.items[c.k] = Changed(@, c)]
    /\ excuse' = excuse \cup (IF drone.tx THEN {"busy"} ELSE {})
    /\ Answer(Nothing)
    /\ UNCHANGED <<net, local, calls, notify, edits, losses>>

\* Mutant: the controller that made the change is not notified.
ServeModifyPortSilent ==
    /\ AtDrone({"modifyPort"})
    /\ \/ drone.tx /\ UNCHANGED drone
       \/ drone' = [drone EXCEPT !.cfg = calls[1].arg.cfg]
    /\ Answer(Nothing)
    /\ UNCHANGED <<net, local, calls, notify, excuse, edits, losses>>

\* The answer first, then the notification, to this controller as well.  A transmitting
\* port refuses a change of its mode, and no other.
ServeModifyPort ==
    /\ AtDrone({"modifyPort"})
    /\ \/ drone.tx /\ UNCHANGED drone /\ Answer(Nothing)
       \/ /\ drone' = [drone EXCEPT !.cfg = calls[1].arg.cfg]
          /\ inbox' = inbox \o <<Reply(Nothing)>>
                            \o (IF notify THEN <<Notification>> ELSE <<>>)
    /\ UNCHANGED <<net, local, calls, notify, excuse, edits, losses>>

\* build is here for its place in the queue; its answer does not depend on the port.
ServeTransmit ==
    /\ AtDrone({"startTx", "stopTx", "build", "modifyBuild", "applyBuild"})
    /\ drone' = [drone EXCEPT !.tx = CASE calls[1].op = "startTx" -> TRUE
                                       [] calls[1].op = "stopTx" -> FALSE
                                       [] OTHER -> @]
    /\ Answer(Nothing)
    /\ UNCHANGED <<net, local, calls, notify, excuse, edits, losses>>

TransmitEnds ==
    /\ drone.tx /\ drone' = [drone EXCEPT !.tx = FALSE]
    /\ UNCHANGED <<net, local, wire, excuse, edits, losses>>

\* Another controller at the same port: everything it can change.
OtherController ==
    /\ edits < MaxEdits /\ edits' = edits + 1
    /\ \/ /\ ~drone.tx
          /\ \E k \in Kinds : \E i \in DOMAIN drone.items[k] :
                drone' = [drone EXCEPT !.items[k] = Restrict(@, DOMAIN @ \ {i})]
          /\ excuse' = excuse \cup {"other"} /\ UNCHANGED inbox
       \/ /\ drone' = [drone EXCEPT !.cfg = edits + 1]
          /\ inbox' = IF notify /\ sock = "connected" THEN Append(inbox, Notification)
                                                     ELSE inbox
          /\ UNCHANGED excuse
       \/ /\ drone' = [drone EXCEPT !.tx = TRUE] /\ UNCHANGED <<inbox, excuse>>
    /\ UNCHANGED <<net, local, calls, notify, losses>>

-----------------------------------------------------------------------------
(* The callbacks, run as the answers arrive.                                 *)

\* The answer to the first call has arrived.
Answered(ops) ==
    /\ inbox # <<>> /\ inbox[1].t = "reply"
    /\ calls # <<>> /\ calls[1].op \in ops

\* It is taken, and new calls go to the end of the queue.
Done(new) ==
    /\ inbox' = Tail(inbox) /\ calls' = Tail(calls) \o new
    /\ UNCHANGED <<notify, drone, edits, losses>>

ProcessVersionCompatibility ==
    /\ Answered({"checkVersion"})
    /\ compat' = inbox[1].data.result
    /\ Done(CallIf(inbox[1].data.result = "ok", "portIds", "none", Nothing))
    /\ UNCHANGED <<sock, reconnect, timer, wait, local, excuse>>

ProcessPortIdList ==
    /\ Answered({"portIds"})
    /\ port' = NewPort /\ atConnect' = FALSE
    /\ Done(<<Call("portCfg", "none", Nothing)>>)
    /\ UNCHANGED <<net, nextId, statsPending, window, excuse>>

GetIds(k) == <<Call("ids", k, Nothing)>>

\* Device groups are asked for before streams: the code for sessions relies on it.
\* A port that another user has reserved is not modelled.
ProcessPortConfigList ==
    /\ Answered({"portCfg"})
    /\ port' = [port EXCEPT !.cfg = inbox[1].data.cfg]
    /\ atConnect' = (Session # NoSession)
    /\ Done(ForKinds([k \in Kinds |-> GetIds(k)]))
    /\ UNCHANGED <<net, nextId, statsPending, window, excuse>>

\* insertStream() and insertDeviceGroup(), for every id: only the second looks
\* whether there is an item with that id.
Inserted(p, k, ids) ==
    LET new == {i \in ids : k = "stream" \/ i \notin Ids(p.items[k])}
    IN  [p EXCEPT !.items[k] = @ \o AsItems(new)]

NextIdAfter(k, ids) == Max({nextId[k]} \cup {i + 1 : i \in ids})

\* when_syncComplete()
Synced(p) ==
    [p EXCEPT !.last = [k \in Kinds |-> Ids(p.items[k])],
              !.modified = [k \in Kinds |-> {}],
              !.dirty = FALSE]

\* get...ConfigList(): asked for if there is an item.
GetConfigs(k, items) == CallIf(items # <<>>, "cfgs", k, [ids |-> Ids(items)])

\* The list of streams is the last to arrive: the port counts as synchronised.
ProcessIdList(k) ==
    /\ Answered({"ids"}) /\ calls[1].k = k /\ ~atConnect
    /\ LET p == Inserted(port, k, inbox[1].data.ids)
       IN  /\ port' = IF k = "stream" THEN [Synced(p) EXCEPT !.fetched = TRUE] ELSE p
           /\ Done(GetConfigs(k, p.items[k]))
    /\ nextId' = [nextId EXCEPT ![k] = NextIdAfter(k, inbox[1].data.ids)]
    /\ UNCHANGED <<net, atConnect, statsPending, window, excuse>>

DeleteAll(k) == CallIf(inbox[1].data.ids # {}, "del", k, inbox[1].data)

\* The device groups found are deleted to make room for those of the session.
ProcessDeviceGroupIdListSession ==
    /\ Answered({"ids"}) /\ calls[1].k = "devgrp" /\ atConnect
    /\ Done(DeleteAll("devgrp"))
    /\ UNCHANGED <<net, local, excuse>>

Restore(k) ==
    LET items == Session.items[k]
    IN  CallIf(items # <<>>, "add", k, [ids |-> Ids(items)])
        \o CallIf(items # <<>>, "mod", k, [items |-> Contents(items)])

\* The session's content is sent, and the lists are asked for again.
ProcessStreamIdListSession ==
    /\ Answered({"ids"}) /\ calls[1].k = "stream" /\ atConnect
    /\ Done(DeleteAll("stream")
              \o CallIf(Session.cfg # port.cfg, "modifyPort", "none", [cfg |-> Session.cfg])
              \o ForKinds([k \in Kinds |-> Restore(k)]) \o <<Call("build", "none", Nothing)>>
              \o ForKinds([k \in Kinds |-> GetIds(k)]))
    /\ atConnect' = FALSE
    /\ UNCHANGED <<net, port, nextId, statsPending, window, excuse>>

\* updateStream(), updateDeviceGroup(): of several with an id the first; an edit made
\* since the ids arrived is lost.
ProcessConfigList ==
    /\ Answered({"cfgs"})
    /\ LET new == inbox[1].data.items
       IN  port' = [port EXCEPT !.items[calls[1].k] =
                      [n \in DOMAIN @ |->
                         IF @[n].id \in DOMAIN new /\ \A m \in 1 .. n - 1 : @[m].id # @[n].id
                         THEN [id |-> @[n].id, cfg |-> new[@[n].id]] ELSE @[n]]]
    /\ Done(<<>>)
    /\ UNCHANGED <<net, atConnect, nextId, statsPending, window, excuse>>

\* Failures are logged and change nothing.
ProcessAck ==
    /\ Answered({"add", "del", "mod", "modifyPort", "build", "startTx", "stopTx"})
    /\ Done(<<>>)
    /\ UNCHANGED <<net, local, excuse>>

\* Mutant: the window is left disabled.
ProcessModifyPortBuildAckUi ==
    /\ Answered({"modifyBuild"})
    /\ Done(<<>>)
    /\ UNCHANGED <<net, local, excuse>>

ProcessModifyPortBuildAck ==
    /\ Answered({"modifyBuild"})
    /\ window' = TRUE
    /\ Done(<<>>)
    /\ UNCHANGED <<net, port, atConnect, nextId, statsPending, excuse>>

\* The last answer of an Apply, whatever the ones before it said.
ProcessApplyBuildAck ==
    /\ Answered({"applyBuild"})
    /\ port' = Synced(port) /\ window' = TRUE
    /\ Done(<<>>)
    /\ UNCHANGED <<net, atConnect, nextId, statsPending, excuse>>

ProcessUpdatedPortConfig ==
    /\ Answered({"newCfg"})
    /\ port' = [port EXCEPT !.cfg = inbox[1].data.cfg]
    /\ Done(<<>>)
    /\ UNCHANGED <<net, atConnect, nextId, statsPending, window, excuse>>

ProcessPortStatsList ==
    /\ Answered({"stats"})
    /\ port' = [port EXCEPT !.tx = inbox[1].data.tx] /\ statsPending' = FALSE
    /\ Done(<<>>)
    /\ UNCHANGED <<net, atConnect, nextId, window, excuse>>

OnNotification ==
    /\ inbox # <<>> /\ inbox[1].t = "notification"
    /\ inbox' = Tail(inbox)
    /\ calls' = Append(calls, Call("newCfg", "none", Nothing))
    /\ UNCHANGED <<net, local, notify, drone, excuse, edits, losses>>

-----------------------------------------------------------------------------
Connection ==
    \/ UserConnect \/ ReconnectTimeout \/ OnConnected \/ OnError
    \/ RemoteClosed \/ NetworkError \/ UserDisconnect

Edit(k) == NewItem(k) \/ DeleteItem(k) \/ EditItem(k)

User == (\E k \in Kinds : Edit(k)) \/ ModifyPort \/ Apply
            \/ (\E op \in {"startTx", "stopTx"} : Transmit(op))

Drone == ServeVersion \/ ServeRead \/ ServeChange \/ ServeModifyPort \/ ServeTransmit

Callback ==
    \/ ProcessVersionCompatibility \/ ProcessPortIdList \/ ProcessPortConfigList
    \/ (\E k \in Kinds : ProcessIdList(k))
    \/ ProcessDeviceGroupIdListSession \/ ProcessStreamIdListSession
    \/ ProcessConfigList \/ ProcessAck \/ ProcessModifyPortBuildAck
    \/ ProcessApplyBuildAck \/ ProcessUpdatedPortConfig \/ ProcessPortStatsList
    \/ OnNotification

Next == Connection \/ User \/ PollStats \/ Drone \/ Callback
            \/ TransmitEnds \/ OtherController

\* The drone answers, the event loop delivers, a timer that runs fires, and an attempt
\* to connect ends one way or the other.  Users and networks need not do anything.
Fairness ==
    /\ WF_vars(Drone) /\ WF_vars(Callback)
    /\ WF_vars(ReconnectTimeout) /\ WF_vars(OnConnected \/ OnError)

Spec == Init /\ [][Next]_vars /\ Fairness

-----------------------------------------------------------------------------
(***************************************************************************)
(* Properties                                                              *)
(***************************************************************************)
\* What the controller shows and what the drone has.
SameContents == \A k \in Kinds : Contents(port.items[k]) = drone.items[k]

\* A port that shows no changes to apply shows what the drone has, once no call is
\* outstanding - through any order of fetching, editing, applying, restoring a session
\* and reconnecting, unless another controller changed the port, the port transmitted
\* when the changes came, or the user did not wait at connect: edited before the lists
\* had arrived, or applied before the contents had.  Ids must be unique for that: two
\* streams with one id are one to the requests.
CleanMeansSynced ==
    port.up /\ excuse = {} =>
        (port.fetched /\ ~port.dirty /\ calls = <<>> => SameContents)

\* What the hint under the streams says - "Configuration activated" - when the port is
\* not dirty and the user has waited and is alone: the changes are at the drone.
ActivatedMeansApplied ==
    port.up /\ excuse \subseteq {"busy"} =>
        (port.fetched /\ ~port.dirty /\ calls = <<>> => SameContents)

\* The callbacks index mPorts[] with what the answer says: when one arrives the port it
\* is about is there, also after the ports were deleted by a lost connection.
CallbackHasPort ==
    inbox # <<>> /\ inbox[1].t = "reply" =>
        calls # <<>> /\ (calls[1].op \notin {"checkVersion", "portIds"} => port.up)

\* isGetStatsPending_ is set exactly while a request for statistics is under way: set
\* too long, statistics are never polled again; reset early, requests pile up.
StatsPendingIffCalled ==
    /\ statsPending <=> \E n \in DOMAIN calls : calls[n].op = "stats"
    /\ \A m, n \in DOMAIN calls : calls[m].op = "stats" /\ calls[n].op = "stats" => m = n

\* When nothing is outstanding the port's configuration is the drone's, whoever changed
\* it, and whether the notification came before, after or during the first fetch.
PortConfigConverges ==
    port.up /\ calls = <<>> /\ inbox = <<>> => port.cfg = drone.cfg

\* A group that wants to be connected and is not has a timer or an attempt running.
RetryPending == reconnect /\ sock = "unconnected" => timer

\* The main window, disabled by Apply and by a change of the port's configuration, is
\* enabled again behind whatever else is in the queue, if the connection holds.  (If it
\* does not, nothing enables it, neither then nor when the connection is back.)
WindowReturns ==
    (\E n \in DOMAIN calls : calls[n].op \in {"applyBuild", "modifyBuild"})
        ~> (window \/ sock # "connected")

=============================================================================
