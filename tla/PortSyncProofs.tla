---------------------------- MODULE PortSyncProofs ----------------------------
(* For any items, sessions and bounds: a group that wants to be connected has  *)
(* a retry pending, isGetStatsPending_ tells the truth, a callback finds its   *)
(* port, the controller's copy of the port's configuration converges, and its  *)
(* copy of the items, without changes to apply and with nothing outstanding,   *)
(* is what the drone has.                                                     *)
EXTENDS PortSync, SequenceTheorems, FiniteSetTheorems, WellFoundedInduction, TLAPS

-----------------------------------------------------------------------------
(* Sequences of calls and of messages, of which nothing is known but that they *)
(* are sequences.                                                             *)

IsSeq(s) == s \in Seq(Range(s))

\* Whatever its elements are.
LEMMA SeqIsSeq ==
    ASSUME NEW S, NEW s \in Seq(S)
    PROVE  IsSeq(s)
  BY SeqOfRange DEF IsSeq

\* A sequence has a length, and its indices go up to it.
LEMMA SeqLength ==
    ASSUME NEW s, IsSeq(s)
    PROVE  /\ Len(s) \in Nat
           /\ DOMAIN s = 1 .. Len(s)
           /\ s = <<>> <=> Len(s) = 0
  BY LenProperties, EmptySeq DEF IsSeq

\* The queue of a channel that has nothing to do.
LEMMA EmptyIsSeq == IsSeq(<<>>) /\ Len(<<>>) = 0
  <1>1. <<>> \in Seq({})
    BY EmptySeq
  <1> QED
    BY <1>1, SeqIsSeq

\* The sequences a handler appends.
LEMMA OneIsSeq ==
    ASSUME NEW c
    PROVE  IsSeq(<<c>>) /\ Len(<<c>>) = 1 /\ <<c>>[1] = c
  <1>1. <<c>> \in Seq({c})
    OBVIOUS
  <1> QED
    BY <1>1, SeqIsSeq

\* s \o t has the elements of s at their places, and then those of t.
LEMMA Concat ==
    ASSUME NEW s, NEW t, IsSeq(s), IsSeq(t)
    PROVE  /\ IsSeq(s \o t)
           /\ Len(s \o t) = Len(s) + Len(t)
           /\ \A n \in DOMAIN s : (s \o t)[n] = s[n]
           /\ \A n \in DOMAIN t : (s \o t)[Len(s) + n] = t[n]
           /\ \A n \in DOMAIN (s \o t) : n \in DOMAIN s \/ n - Len(s) \in DOMAIN t
  <1> DEFINE R == Range(s) \cup Range(t)
  <1>1. s \in Seq(R) /\ t \in Seq(R)
    BY SeqMonotonic DEF IsSeq
  <1>2. /\ s \o t \in Seq(R)
        /\ Len(s \o t) = Len(s) + Len(t)
        /\ \A i \in 1 .. Len(s) + Len(t) :
              (s \o t)[i] = IF i <= Len(s) THEN s[i] ELSE t[i - Len(s)]
    BY <1>1, ConcatProperties
  <1>3. IsSeq(s \o t)
    BY <1>2, SeqIsSeq
  <1>4. /\ Len(s) \in Nat /\ DOMAIN s = 1 .. Len(s)
        /\ Len(t) \in Nat /\ DOMAIN t = 1 .. Len(t)
        /\ DOMAIN (s \o t) = 1 .. Len(s) + Len(t)
    BY <1>2, <1>3, SeqLength
  <1> HIDE DEF R
  <1>5. \A n \in DOMAIN s : (s \o t)[n] = s[n]
    BY <1>2, <1>4
  <1>6. \A n \in DOMAIN t : (s \o t)[Len(s) + n] = t[n]
    <2> SUFFICES ASSUME NEW n \in 1 .. Len(t)
                 PROVE  (s \o t)[Len(s) + n] = t[n]
      BY <1>4
    <2>1. Len(s) + n \in 1 .. Len(s) + Len(t) /\ ~(Len(s) + n <= Len(s))
      BY <1>4
    <2>2. (Len(s) + n) - Len(s) = n
      BY <1>4
    <2> QED
      BY <1>2, <2>1, <2>2
  <1>7. \A n \in DOMAIN (s \o t) : n \in DOMAIN s \/ n - Len(s) \in DOMAIN t
    BY <1>4
  <1> QED
    BY <1>2, <1>3, <1>5, <1>6, <1>7

\* Append(), as a concatenation.
LEMMA AppendIsOne ==
    ASSUME NEW s, NEW c, IsSeq(s)
    PROVE  Append(s, c) = s \o <<c>>
  <1>1. s \in Seq(Range(s) \cup {c})
    BY SeqMonotonic DEF IsSeq
  <1> QED
    BY <1>1, AppendIsConcat

\* What is left when the first is taken.
LEMMA TailOf ==
    ASSUME NEW s, IsSeq(s), s # <<>>
    PROVE  /\ IsSeq(Tail(s))
           /\ Len(Tail(s)) = Len(s) - 1
           /\ \A n \in DOMAIN Tail(s) : n + 1 \in DOMAIN s /\ Tail(s)[n] = s[n + 1]
           /\ \A n \in DOMAIN s : n # 1 => n - 1 \in DOMAIN Tail(s) /\ Tail(s)[n - 1] = s[n]
  <1>1. /\ Tail(s) \in Seq(Range(s))
        /\ Len(Tail(s)) = Len(s) - 1
        /\ \A i \in 1 .. Len(Tail(s)) : Tail(s)[i] = s[i + 1]
    BY HeadTailProperties DEF IsSeq
  <1>2. IsSeq(Tail(s))
    BY <1>1, SeqIsSeq
  <1>3. /\ Len(s) \in Nat /\ DOMAIN s = 1 .. Len(s)
        /\ DOMAIN Tail(s) = 1 .. Len(s) - 1
    BY <1>1, <1>2, SeqLength
  <1>4. \A n \in DOMAIN Tail(s) : n + 1 \in DOMAIN s /\ Tail(s)[n] = s[n + 1]
    BY <1>1, <1>3
  <1>5. ASSUME NEW n \in DOMAIN s, n # 1
        PROVE  n - 1 \in DOMAIN Tail(s) /\ Tail(s)[n - 1] = s[n]
    <2>1. n - 1 \in 1 .. Len(s) - 1 /\ (n - 1) + 1 = n
      BY <1>3, <1>5
    <2> QED
      BY <1>1, <1>3, <2>1
  <1> QED
    BY <1>1, <1>2, <1>4, <1>5


-----------------------------------------------------------------------------
(* Reconnecting.                                                              *)

\* A group that wants to be connected and is not has a timer or an attempt running
\* (on_rpcChannel_disconnected, on_rpcChannel_error, on_reconnectTimer_timeout).
THEOREM RetryPendingHolds == Spec => []RetryPending
  <1>1. Init => RetryPending
    BY DEF Init, RetryPending
  <1>2. ASSUME RetryPending, [Next]_vars
        PROVE  RetryPending'
    <2> USE <1>2 DEF RetryPending
    <2>1. CASE UserConnect \/ ReconnectTimeout \/ OnConnected
      BY <2>1 DEF UserConnect, ReconnectTimeout, OnConnected
    <2>2. CASE OnError
      BY <2>2 DEF OnError
    <2>3. CASE RemoteClosed
      BY <2>3 DEF RemoteClosed
    <2>4. CASE NetworkError
      BY <2>4 DEF NetworkError, HangUp
    <2>5. CASE UserDisconnect
      BY <2>5 DEF UserDisconnect
    <2>6. ASSUME User \/ PollStats \/ Drone \/ TransmitEnds \/ OtherController
          PROVE  UNCHANGED net
      BY <2>6 DEF User, Edit, NewItem, DeleteItem, EditItem, Edited, ModifyPort, Apply,
            Transmit, PollStats, Drone, ServeVersion, ServeRead, ServeChange,
            ServeModifyPort, ServeTransmit, TransmitEnds, OtherController
    <2>7. ASSUME Callback
          PROVE  UNCHANGED <<sock, reconnect, timer>>
      BY <2>7 DEF Callback, ProcessVersionCompatibility, ProcessPortIdList,
            ProcessPortConfigList, ProcessIdList, ProcessDeviceGroupIdListSession,
            ProcessStreamIdListSession, ProcessConfigList, ProcessAck,
            ProcessModifyPortBuildAck, ProcessApplyBuildAck, ProcessUpdatedPortConfig,
            ProcessPortStatsList, OnNotification, net
    <2> QED
      BY <2>1, <2>2, <2>3, <2>4, <2>5, <2>6, <2>7 DEF Next, Connection, net, vars
  <1> QED
    BY <1>1, <1>2, PTL DEF Spec

-----------------------------------------------------------------------------
(* The calls that are made: sequences without a request for statistics, which *)
(* getPortStats() makes on its own.                                           *)

NewCalls(new) == IsSeq(new) /\ \A n \in DOMAIN new : new[n].op # "stats"

\* A handler that asks for nothing.
LEMMA NoNewCalls == NewCalls(<<>>)
  <1>1. DOMAIN <<>> = 1 .. 0
    BY EmptyIsSeq, SeqLength
  <1> QED
    BY <1>1, EmptyIsSeq DEF NewCalls

\* One that makes a call.
LEMMA OneNewCall ==
    ASSUME NEW op, NEW k, NEW arg, op # "stats"
    PROVE  NewCalls(<<Call(op, k, arg)>>)
  <1> DEFINE c == Call(op, k, arg)
  <1>1. IsSeq(<<c>>) /\ Len(<<c>>) = 1 /\ <<c>>[1] = c
    BY OneIsSeq
  <1>2. DOMAIN <<c>> = 1 .. 1
    BY <1>1, SeqLength
  <1>3. c.op = op
    BY DEF Call
  <1> HIDE DEF c
  <1>4. NewCalls(<<c>>)
    BY <1>1, <1>2, <1>3 DEF NewCalls
  <1> QED
    BY <1>4 DEF c

\* One that makes it if it has something to say.
LEMMA NewCallsIf ==
    ASSUME NEW cond, NEW op, NEW k, NEW arg, op # "stats"
    PROVE  NewCalls(CallIf(cond, op, k, arg))
  <1>1. CASE cond
    BY <1>1, OneNewCall DEF CallIf
  <1>2. CASE ~cond
    BY <1>2, NoNewCalls DEF CallIf
  <1> QED
    BY <1>1, <1>2

\* One that makes several.
LEMMA NewCallsConcat ==
    ASSUME NEW s, NEW t, NewCalls(s), NewCalls(t)
    PROVE  NewCalls(s \o t)
  <1>1. IsSeq(s) /\ IsSeq(t) /\ IsSeq(s \o t)
    BY Concat DEF NewCalls
  <1>2. ASSUME NEW n \in DOMAIN (s \o t)
        PROVE  (s \o t)[n].op # "stats"
    <2>1. CASE n \in DOMAIN s
      <3>1. (s \o t)[n] = s[n]
        BY <2>1, <1>1, Concat
      <3> QED
        BY <2>1, <3>1 DEF NewCalls
    <2>2. CASE n - Len(s) \in DOMAIN t
      <3>1. Len(s) \in Nat /\ n \in Nat
        BY <1>1, SeqLength
      <3>2. (s \o t)[Len(s) + (n - Len(s))] = t[n - Len(s)]
        BY <2>2, <1>1, Concat
      <3>3. Len(s) + (n - Len(s)) = n
        BY <3>1
      <3> QED
        BY <2>2, <3>2, <3>3 DEF NewCalls
    <2> QED
      BY <1>1, <2>1, <2>2, Concat
  <1> QED
    BY <1>1, <1>2 DEF NewCalls

\* One that makes the same for all kinds of items.
LEMMA NewCallsForKinds ==
    ASSUME NEW asked, \A k \in Kinds : NewCalls(asked[k])
    PROVE  NewCalls(ForKinds(asked))
  <1>1. /\ NewCalls(IF "devgrp" \in Kinds THEN asked["devgrp"] ELSE <<>>)
        /\ NewCalls(IF "stream" \in Kinds THEN asked["stream"] ELSE <<>>)
    BY NoNewCalls
  <1> QED
    BY <1>1, NewCallsConcat DEF ForKinds

\* The changes of one kind of items (Port::get...SinceLastSync).
LEMMA ChangesAreNew ==
    ASSUME NEW k
    PROVE  NewCalls(Changes(k))
  <1> DEFINE ids == Ids(port.items[k])
             del == CallIf(port.last[k] \ ids # {}, "del", k, [ids |-> port.last[k] \ ids])
             add == CallIf(ids \ port.last[k] # {}, "add", k, [ids |-> ids \ port.last[k]])
             sent == Restrict(Contents(port.items[k]), Modified(k))
             mod == CallIf(Modified(k) # {}, "mod", k, [items |-> sent])
  <1>1. NewCalls(del) /\ NewCalls(add) /\ NewCalls(mod)
    BY NewCallsIf
  <1>2. Changes(k) = (del \o add) \o mod
    BY DEF Changes
  <1> HIDE DEF del, add, mod
  <1> QED
    BY <1>1, <1>2, NewCallsConcat

\* A session's items of one kind.
LEMMA RestoreIsNew ==
    ASSUME NEW k
    PROVE  NewCalls(Restore(k))
  <1> DEFINE items == Session.items[k]
             add == CallIf(items # <<>>, "add", k, [ids |-> Ids(items)])
             mod == CallIf(items # <<>>, "mod", k, [items |-> Contents(items)])
  <1>1. NewCalls(add) /\ NewCalls(mod)
    BY NewCallsIf
  <1>2. Restore(k) = add \o mod
    BY DEF Restore
  <1> HIDE DEF add, mod
  <1> QED
    BY <1>1, <1>2, NewCallsConcat

\* What the callbacks ask for.
LEMMA OthersAreNew ==
    /\ \A k : NewCalls(GetIds(k)) /\ NewCalls(DeleteAll(k))
    /\ \A k, items : NewCalls(GetConfigs(k, items))
  BY OneNewCall, NewCallsIf DEF GetIds, DeleteAll, GetConfigs

\* What the user and the callbacks ask of the drone for all kinds of items.
LEMMA KindsAreNew ==
    /\ NewCalls(ForKinds([k \in Kinds |-> Changes(k)]))
    /\ NewCalls(ForKinds([k \in Kinds |-> Restore(k)]))
    /\ NewCalls(ForKinds([k \in Kinds |-> GetIds(k)]))
  BY NewCallsForKinds, ChangesAreNew, RestoreIsNew, OthersAreNew

-----------------------------------------------------------------------------
(* The steps, as far as the theorems below are concerned.                     *)

PortType ==
    /\ port.up \in BOOLEAN /\ "up" \in DOMAIN port
    /\ port.up => {"cfg", "tx", "items", "last", "modified", "dirty", "fetched"}
                     \subseteq DOMAIN port

\* A port that was deleted.
LEMMA NoPortType ==
    /\ port = NoPort => PortType
    /\ port' = NoPort => PortType'
  <1>1. NoPort.up = FALSE /\ DOMAIN NoPort = {"up"}
    BY DEF NoPort
  <1>2. port = NoPort => PortType
    BY <1>1 DEF PortType
  <1>3. port' = NoPort => PortType'
    BY <1>1 DEF PortType
  <1> QED
    BY <1>2, <1>3

\* The port stays, with the configuration it has.
PortStays == port.up /\ port'.up /\ port'.cfg = port.cfg /\ PortType'

\* Calls are put behind the others.
Asked == \E new : NewCalls(new) /\ calls' = calls \o new

\* A step that leaves the channel alone.
LEMMA AskedNothing ==
    ASSUME IsSeq(calls), calls' = calls
    PROVE  Asked
  <1>1. calls \o <<>> = calls
    BY ConcatEmptySeq DEF IsSeq
  <1> QED
    BY <1>1, NoNewCalls DEF Asked

\* Editing does not touch the channel, nor the port's configuration.
LEMMA EditStep ==
    ASSUME NEW k, Edit(k), PortType, IsSeq(calls)
    PROVE  PortStays /\ Asked /\ UNCHANGED <<net, inbox, notify, statsPending, drone>>
  <1>1. /\ port.up
        /\ UNCHANGED <<net, inbox, notify, statsPending, drone, calls>>
    BY DEF Edit, NewItem, DeleteItem, EditItem, Edited, wire, net
  <1>2. Asked
    BY <1>1, AskedNothing
  <1>3. ASSUME NEW items, NEW modified,
               port' = [[[port EXCEPT !.items = items] EXCEPT !.modified = modified]
                          EXCEPT !.dirty = TRUE]
        PROVE  PortStays
    <2>1. "items" # "up" /\ "items" # "cfg" /\ "modified" # "up" /\ "modified" # "cfg"
            /\ "dirty" # "up" /\ "dirty" # "cfg"
      OBVIOUS
    <2> QED
      BY <1>1, <1>3, <2>1 DEF PortStays, PortType
  <1>4. ASSUME NewItem(k)
        PROVE  PortStays
    <2> DEFINE items == [port.items EXCEPT ![k] =
                            Append(port.items[k], [id |-> nextId[k], cfg |-> edits + 1])]
               modified == [[port EXCEPT !.items = items].modified EXCEPT
                               ![k] = port.modified[k] \cup {nextId[k]}]
    <2>1. port' = [[[port EXCEPT !.items = items] EXCEPT !.modified = modified]
                     EXCEPT !.dirty = TRUE]
      BY <1>4 DEF NewItem, Edited
    <2> HIDE DEF items, modified
    <2> QED
      BY <1>3, <2>1
  <1>5. ASSUME DeleteItem(k)
        PROVE  PortStays
    <2>1. PICK n \in DOMAIN port.items[k] :
             port' = [port EXCEPT !.items[k] = RemoveAt(@, n),
                               !.modified[k] = @ \ {port.items[k][n].id}, !.dirty = TRUE]
      BY <1>5 DEF DeleteItem, Edited
    <2> DEFINE items == [port.items EXCEPT ![k] = RemoveAt(port.items[k], n)]
               modified == [[port EXCEPT !.items = items].modified EXCEPT
                               ![k] = port.modified[k] \ {port.items[k][n].id}]
    <2>2. port' = [[[port EXCEPT !.items = items] EXCEPT !.modified = modified]
                     EXCEPT !.dirty = TRUE]
      BY <2>1
    <2> HIDE DEF items, modified
    <2> QED
      BY <1>3, <2>2
  <1>6. ASSUME EditItem(k)
        PROVE  PortStays
    <2>1. PICK n \in DOMAIN port.items[k] :
             port' = [port EXCEPT !.items[k][n].cfg = edits + 1,
                               !.modified[k] = @ \cup {port.items[k][n].id}, !.dirty = TRUE]
      BY <1>6 DEF EditItem, Edited
    <2> DEFINE items == [port.items EXCEPT ![k] = [port.items[k] EXCEPT
                            ![n] = [port.items[k][n] EXCEPT !.cfg = edits + 1]]]
               modified == [[port EXCEPT !.items = items].modified EXCEPT
                               ![k] = port.modified[k] \cup {port.items[k][n].id}]
    <2>2. port' = [[[port EXCEPT !.items = items] EXCEPT !.modified = modified]
                     EXCEPT !.dirty = TRUE]
      BY <2>1
    <2> HIDE DEF items, modified
    <2> QED
      BY <1>3, <2>2
  <1> QED
    BY <1>1, <1>2, <1>4, <1>5, <1>6 DEF Edit


\* A step that makes one call.
LEMMA AskOneMore ==
    ASSUME NEW op, NEW k, NEW arg, op # "stats", IsSeq(calls),
           calls' = Append(calls, Call(op, k, arg))
    PROVE  Asked
  <1>1. calls' = calls \o <<Call(op, k, arg)>>
    BY AppendIsOne
  <1> QED
    BY <1>1, OneNewCall DEF Asked

\* The user asks, and the port's configuration stays until the drone tells.
LEMMA UserStep ==
    ASSUME User, PortType, IsSeq(calls)
    PROVE  PortStays /\ Asked /\ UNCHANGED <<net, inbox, notify, statsPending, drone>>
  <1>1. ASSUME NEW k \in Kinds, Edit(k)
        PROVE  PortStays /\ Asked /\ UNCHANGED <<net, inbox, notify, statsPending, drone>>
    BY <1>1, EditStep
  <1>2. CASE ModifyPort
    <2> DEFINE c == Call("modifyPort", "none", [cfg |-> edits + 1])
               d == Call("modifyBuild", "none", Nothing)
    <2>1. NewCalls(<<c>>) /\ NewCalls(<<d>>)
      BY OneNewCall
    <2>2. calls' = calls \o <<c, d>> /\ <<c, d>> = <<c>> \o <<d>>
      BY <1>2 DEF ModifyPort
    <2> HIDE DEF c, d
    <2>3. Asked
      BY <2>1, <2>2, NewCallsConcat DEF Asked
    <2> QED
      BY <1>2, <2>3 DEF ModifyPort, PortStays, PortType
  <1>3. CASE Apply
    <2> DEFINE changes == ForKinds([k \in Kinds |-> Changes(k)])
               build == <<Call("applyBuild", "none", Nothing)>>
    <2>1. NewCalls(changes) /\ NewCalls(build)
      BY KindsAreNew, OneNewCall
    <2>2. calls' = (calls \o changes) \o build
      BY <1>3 DEF Apply
    <2> HIDE DEF changes, build
    <2>3. (calls \o changes) \o build = calls \o (changes \o build)
      <3> DEFINE R == Range(calls) \cup Range(changes) \cup Range(build)
      <3>1. calls \in Seq(R) /\ changes \in Seq(R) /\ build \in Seq(R)
        BY <2>1, SeqMonotonic DEF IsSeq, NewCalls
      <3> HIDE DEF R
      <3> QED
        BY <3>1, ConcatAssociative
    <2>4. Asked
      BY <2>1, <2>2, <2>3, NewCallsConcat DEF Asked
    <2> QED
      BY <1>3, <2>4 DEF Apply, PortStays, PortType
  <1>4. ASSUME NEW op \in {"startTx", "stopTx"}, Transmit(op)
        PROVE  PortStays /\ Asked /\ UNCHANGED <<net, inbox, notify, statsPending, drone>>
    <2>1. calls' = Append(calls, Call(op, "none", Nothing)) /\ op # "stats"
      BY <1>4 DEF Transmit
    <2>2. Asked
      BY <2>1, AskOneMore
    <2> QED
      BY <1>4, <2>2 DEF Transmit, local, PortStays, PortType
  <1> QED
    BY <1>1, <1>2, <1>3, <1>4 DEF User

\* A callback takes the answered call and its answer, and asks for more.
Taken == \E new : NewCalls(new) /\ Done(new)

\* The forms the callbacks' new calls have.
LEMMA TakenAndAsked ==
    /\ Done(<<>>) => Taken
    /\ \A cond, op, k, arg : op # "stats" /\ Done(CallIf(cond, op, k, arg)) => Taken
    /\ \A op, k, arg : op # "stats" /\ Done(<<Call(op, k, arg)>>) => Taken
    /\ Done(ForKinds([k \in Kinds |-> GetIds(k)])) => Taken
    /\ \A k, items : Done(GetConfigs(k, items)) => Taken
    /\ \A k : Done(DeleteAll(k)) => Taken
  BY NoNewCalls, NewCallsIf, OneNewCall, KindsAreNew, OthersAreNew DEF Taken

\* A callback takes the first call and its answer, and one of them resets
\* isGetStatsPending_.
LEMMA CallbackTakes ==
    ASSUME Callback, ~OnNotification
    PROVE  /\ Taken /\ sock' = sock
           /\ inbox # <<>> /\ inbox[1].t = "reply" /\ calls # <<>>
           /\ \/ calls[1].op # "stats" /\ statsPending' = statsPending
              \/ calls[1].op = "stats" /\ statsPending' = FALSE /\ Done(<<>>)
  <1>1. CASE ProcessVersionCompatibility
    BY <1>1, TakenAndAsked DEF ProcessVersionCompatibility, Answered, local
  <1>2. CASE ProcessPortIdList
    BY <1>2, TakenAndAsked DEF ProcessPortIdList, Answered, net
  <1>3. CASE ProcessPortConfigList
    BY <1>3, TakenAndAsked DEF ProcessPortConfigList, Answered, net
  <1>4. ASSUME NEW k \in Kinds, ProcessIdList(k)
        PROVE  /\ Taken /\ sock' = sock
               /\ inbox # <<>> /\ inbox[1].t = "reply" /\ calls # <<>>
               /\ calls[1].op # "stats" /\ statsPending' = statsPending
    <2>1. \E items : Done(GetConfigs(k, items))
      BY <1>4 DEF ProcessIdList
    <2>2. Taken
      BY <2>1, TakenAndAsked
    <2> QED
      BY <1>4, <2>2 DEF ProcessIdList, Answered, net
  <1>5. CASE ProcessDeviceGroupIdListSession
    BY <1>5, TakenAndAsked DEF ProcessDeviceGroupIdListSession, Answered, net, local
  <1>6. CASE ProcessStreamIdListSession
    <2> DEFINE a == DeleteAll("stream")
               b == CallIf(Session.cfg # port.cfg, "modifyPort", "none", [cfg |-> Session.cfg])
               c == ForKinds([k \in Kinds |-> Restore(k)])
               d == <<Call("build", "none", Nothing)>>
               e == ForKinds([k \in Kinds |-> GetIds(k)])
    <2>1. NewCalls(a) /\ NewCalls(b) /\ NewCalls(c) /\ NewCalls(d) /\ NewCalls(e)
      BY KindsAreNew, OthersAreNew, NewCallsIf, OneNewCall
    <2>2. Done(a \o b \o c \o d \o e)
      BY <1>6 DEF ProcessStreamIdListSession
    <2> HIDE DEF a, b, c, d, e
    <2>3. NewCalls(a \o b)
      BY <2>1, NewCallsConcat
    <2>4. NewCalls(a \o b \o c)
      BY <2>1, <2>3, NewCallsConcat
    <2>5. NewCalls(a \o b \o c \o d)
      BY <2>1, <2>4, NewCallsConcat
    <2>6. NewCalls(a \o b \o c \o d \o e)
      BY <2>1, <2>5, NewCallsConcat
    <2>7. Taken
      BY <2>2, <2>6 DEF Taken
    <2> QED
      BY <1>6, <2>7 DEF ProcessStreamIdListSession, Answered, net
  <1>7. CASE ProcessConfigList
    BY <1>7, TakenAndAsked DEF ProcessConfigList, Answered, net
  <1>8. CASE ProcessAck
    BY <1>8, TakenAndAsked DEF ProcessAck, Answered, net, local
  <1>9. CASE ProcessModifyPortBuildAck \/ ProcessApplyBuildAck \/ ProcessUpdatedPortConfig
    BY <1>9, TakenAndAsked DEF ProcessModifyPortBuildAck, ProcessApplyBuildAck,
          ProcessUpdatedPortConfig, Answered, net
  <1>10. CASE ProcessPortStatsList
    BY <1>10, TakenAndAsked DEF ProcessPortStatsList, Answered, net
  <1> QED
    BY <1>1, <1>2, <1>3, <1>4, <1>5, <1>6, <1>7, <1>8, <1>9, <1>10 DEF Callback


\* p is the port with other items or statistics.
Like(p) == /\ DOMAIN p = DOMAIN port /\ p.up = port.up
           /\ port.up => p.cfg = port.cfg

\* It is still a port.
LEMMA LikeType ==
    ASSUME PortType, Like(port')
    PROVE  PortType'
  BY DEF PortType, Like

\* Changing anything but the configuration.
LEMMA LikeExcept ==
    ASSUME NEW p, NEW v, PortType, Like(p)
    PROVE  /\ Like([p EXCEPT !.items = v]) /\ Like([p EXCEPT !.last = v])
           /\ Like([p EXCEPT !.modified = v]) /\ Like([p EXCEPT !.dirty = v])
           /\ Like([p EXCEPT !.fetched = v]) /\ Like([p EXCEPT !.tx = v])
  BY DEF Like, PortType

\* when_syncComplete() leaves the configuration alone.
LEMMA LikeSynced ==
    ASSUME NEW p, PortType, Like(p)
    PROVE  Like(Synced(p))
  <1> DEFINE last == [k \in Kinds |-> Ids(p.items[k])]
             modified == [k \in Kinds |-> {}]
             q == [p EXCEPT !.last = last]
             r == [q EXCEPT !.modified = modified]
  <1>1. Synced(p) = [r EXCEPT !.dirty = FALSE]
    BY DEF Synced
  <1> HIDE DEF last, modified
  <1>2. Like(q)
    BY LikeExcept
  <1> HIDE DEF q
  <1>3. Like(r)
    BY <1>2, LikeExcept
  <1> HIDE DEF r
  <1>4. Like([r EXCEPT !.dirty = FALSE])
    BY <1>3, LikeExcept
  <1> QED
    BY <1>1, <1>4

\* And so do insertStream() and insertDeviceGroup().
LEMMA LikeInserted ==
    ASSUME NEW p, NEW k, NEW ids, PortType, Like(p)
    PROVE  Like(Inserted(p, k, ids))
  <1>1. PICK items : Inserted(p, k, ids) = [p EXCEPT !.items = items]
    BY DEF Inserted
  <1>2. Like([p EXCEPT !.items = items])
    BY LikeExcept
  <1> QED
    BY <1>1, <1>2

\* The configuration changes with the answers about it, everything else with the others.
LEMMA CallbackPort ==
    ASSUME Callback, ~OnNotification, PortType
    PROVE  /\ PortType'
           /\ \/ calls[1].op = "portIds" /\ port' = NewPort
                  /\ Done(<<Call("portCfg", "none", Nothing)>>)
              \/ calls[1].op \in {"portCfg", "newCfg"} /\ port'.up = port.up
                  /\ (port.up => port'.cfg = inbox[1].data.cfg)
              \/ calls[1].op \notin {"portIds", "portCfg", "newCfg"} /\ Like(port')
  <1>1. Like(port)
    BY DEF Like
  <1>2. ASSUME NEW v, port' = [port EXCEPT !.cfg = v]
        PROVE  port'.up = port.up /\ (port.up => port'.cfg = v) /\ PortType'
    BY <1>2 DEF PortType
  <1>3. CASE ProcessPortIdList
    BY <1>3 DEF ProcessPortIdList, Answered, PortType, NewPort
  <1>4. CASE ProcessPortConfigList
    BY <1>2, <1>4 DEF ProcessPortConfigList, Answered
  <1>5. CASE ProcessUpdatedPortConfig
    BY <1>2, <1>5 DEF ProcessUpdatedPortConfig, Answered
  <1> DEFINE Other == calls[1].op \notin {"portIds", "portCfg", "newCfg"} /\ Like(port')
  <1>6. ASSUME ProcessVersionCompatibility \/ ProcessDeviceGroupIdListSession \/ ProcessAck
        PROVE  Other
    BY <1>1, <1>6 DEF ProcessVersionCompatibility, ProcessDeviceGroupIdListSession,
          ProcessAck, Answered, local
  <1>7. ASSUME ProcessStreamIdListSession \/ ProcessModifyPortBuildAck
        PROVE  Other
    BY <1>1, <1>7 DEF ProcessStreamIdListSession, ProcessModifyPortBuildAck, Answered
  <1>8. ASSUME NEW k \in Kinds, ProcessIdList(k)
        PROVE  Other
    <2> DEFINE p == Inserted(port, k, inbox[1].data.ids)
    <2>1. calls[1].op = "ids"
            /\ port' = IF k = "stream" THEN [Synced(p) EXCEPT !.fetched = TRUE] ELSE p
      BY <1>8 DEF ProcessIdList, Answered
    <2> HIDE DEF p
    <2>2. Like(p) /\ Like([Synced(p) EXCEPT !.fetched = TRUE])
      BY <1>1, LikeInserted, LikeSynced, LikeExcept DEF p
    <2> QED
      BY <2>1, <2>2
  <1>9. ASSUME ProcessConfigList
        PROVE  Other
    <2>1. PICK items : port' = [port EXCEPT !.items = items]
      BY <1>9 DEF ProcessConfigList
    <2>2. Like([port EXCEPT !.items = items])
      BY <1>1, LikeExcept
    <2> QED
      BY <1>9, <2>1, <2>2 DEF ProcessConfigList, Answered
  <1>10. ASSUME ProcessApplyBuildAck
         PROVE  Other
    BY <1>1, <1>10, LikeSynced DEF ProcessApplyBuildAck, Answered
  <1>11. ASSUME ProcessPortStatsList
         PROVE  Other
    BY <1>1, <1>11, LikeExcept DEF ProcessPortStatsList, Answered
  <1> HIDE DEF Other
  <1>12. Other => PortType'
    BY LikeType DEF Other
  <1> QED
    BY <1>3, <1>4, <1>5, <1>6, <1>7, <1>8, <1>9, <1>10, <1>11, <1>12 DEF Callback, Other

-----------------------------------------------------------------------------
(* Requests for statistics.                                                   *)

\* The queue s has a request for statistics, and not two, iff one is pending.
StatsTrue(pending, s) ==
    /\ IsSeq(s) /\ pending \in BOOLEAN
    /\ pending <=> \E n \in DOMAIN s : s[n].op = "stats"
    /\ \A m, n \in DOMAIN s : s[m].op = "stats" /\ s[n].op = "stats" => m = n

\* Nothing called, nothing pending.
LEMMA NoneTrue == StatsTrue(FALSE, <<>>)
  <1>1. IsSeq(<<>>) /\ DOMAIN <<>> = 1 .. 0
    BY EmptyIsSeq, SeqLength
  <1>2. ~ \E n \in DOMAIN <<>> : <<>>[n].op = "stats"
    BY <1>1
  <1>3. \A n \in DOMAIN <<>> : FALSE
    BY <1>1
  <1> QED
    BY <1>1, <1>2, <1>3 DEF StatsTrue

\* Other calls behind make no difference.
LEMMA NewCallsKeepStats ==
    ASSUME NEW pending, NEW s, NEW new, StatsTrue(pending, s), NewCalls(new)
    PROVE  StatsTrue(pending, s \o new)
  <1> DEFINE all == s \o new
  <1>1. IsSeq(s) /\ IsSeq(new) /\ IsSeq(all)
    BY Concat DEF StatsTrue, NewCalls
  <1>2. /\ Len(s) \in Nat /\ Len(new) \in Nat /\ Len(all) = Len(s) + Len(new)
        /\ DOMAIN s = 1 .. Len(s) /\ DOMAIN all = 1 .. Len(all)
    BY <1>1, SeqLength, Concat
  <1>3. \A n \in DOMAIN s : n \in DOMAIN all /\ all[n] = s[n]
    <2>1. \A n \in DOMAIN s : all[n] = s[n]
      BY <1>1, Concat
    <2> HIDE DEF all
    <2> QED
      BY <1>2, <2>1
  <1>4. ASSUME NEW n \in DOMAIN all, n \notin DOMAIN s
        PROVE  all[n].op # "stats"
    <2>1. n - Len(s) \in DOMAIN new
      BY <1>1, <1>4, Concat
    <2>2. all[Len(s) + (n - Len(s))] = new[n - Len(s)]
      BY <1>1, <2>1, Concat
    <2> HIDE DEF all
    <2>3. Len(s) + (n - Len(s)) = n
      BY <1>2
    <2> QED
      BY <2>1, <2>2, <2>3 DEF NewCalls
  <1> HIDE DEF all
  <1>5. StatsTrue(pending, all)
    BY <1>1, <1>3, <1>4 DEF StatsTrue
  <1> QED
    BY <1>5 DEF all

\* getPortStats()
LEMMA PollKeepsStats ==
    ASSUME StatsTrue(statsPending, calls), PollStats
    PROVE  StatsTrue(statsPending', calls')
  <1> DEFINE c == Call("stats", "none", Nothing)
  <1>1. calls' = calls \o <<c>> /\ c.op = "stats" /\ ~statsPending /\ statsPending' = TRUE
    BY AppendIsOne DEF PollStats, StatsTrue, Call
  <1> HIDE DEF c
  <1>2. IsSeq(<<c>>) /\ Len(<<c>>) = 1 /\ <<c>>[1] = c /\ DOMAIN <<c>> = 1 .. 1
    BY OneIsSeq, SeqLength
  <1>3. IsSeq(calls) /\ IsSeq(calls') /\ Len(calls') = Len(calls) + 1
    BY <1>1, <1>2, Concat DEF StatsTrue
  <1>4. /\ Len(calls) \in Nat /\ DOMAIN calls = 1 .. Len(calls)
        /\ DOMAIN calls' = 1 .. Len(calls) + 1
    BY <1>3, SeqLength
  <1>5. calls'[Len(calls) + 1] = c /\ \A n \in DOMAIN calls : calls'[n] = calls[n]
    <2>1. \A n \in DOMAIN <<c>> : (calls \o <<c>>)[Len(calls) + n] = <<c>>[n]
      BY <1>2, <1>3, Concat
    <2> QED
      BY <2>1, <1>1, <1>2, <1>3, Concat
  <1>6. \A n \in DOMAIN calls : calls[n].op # "stats"
    BY <1>1 DEF StatsTrue
  <1>7. \A n \in DOMAIN calls' : calls'[n].op = "stats" <=> n = Len(calls) + 1
    BY <1>1, <1>4, <1>5, <1>6
  <1> QED
    BY <1>1, <1>3, <1>4, <1>7 DEF StatsTrue

\* The first call goes: if it was the request, no other is left.
LEMMA TailKeepsStats ==
    ASSUME NEW pending, NEW s, StatsTrue(pending, s), s # <<>>
    PROVE  StatsTrue(pending /\ s[1].op # "stats", Tail(s))
  <1> DEFINE t == Tail(s)
  <1>1. /\ IsSeq(s) /\ IsSeq(t)
        /\ \A n \in DOMAIN t : n + 1 \in DOMAIN s /\ t[n] = s[n + 1]
        /\ \A n \in DOMAIN s : n # 1 => n - 1 \in DOMAIN t /\ t[n - 1] = s[n]
    BY TailOf DEF StatsTrue
  <1>2. /\ 1 \in DOMAIN s
        /\ \A n \in DOMAIN t : n + 1 # 1
        /\ \A m, n \in DOMAIN t : m + 1 = n + 1 => m = n
    <2>1. DOMAIN t = 1 .. Len(t) /\ Len(t) \in Nat
      BY <1>1, SeqLength
    <2>2. DOMAIN s = 1 .. Len(s) /\ Len(s) \in Nat /\ Len(s) # 0
      BY <1>1, SeqLength
    <2> HIDE DEF t
    <2> QED
      BY <2>1, <2>2
  <1> HIDE DEF t
  <1>3. \A m, n \in DOMAIN t : t[m].op = "stats" /\ t[n].op = "stats" => m = n
    BY <1>1, <1>2 DEF StatsTrue
  <1>4. CASE s[1].op = "stats"
    <2>1. \A n \in DOMAIN t : t[n].op # "stats"
      BY <1>1, <1>2, <1>4 DEF StatsTrue
    <2>2. StatsTrue(FALSE, t)
      BY <1>1, <2>1 DEF StatsTrue
    <2> QED
      BY <1>4, <2>2 DEF t
  <1>5. CASE s[1].op # "stats"
    <2>1. pending <=> \E n \in DOMAIN t : t[n].op = "stats"
      BY <1>1, <1>5 DEF StatsTrue
    <2>2. StatsTrue(pending, t) /\ pending \in BOOLEAN
      BY <1>1, <1>3, <2>1 DEF StatsTrue
    <2>3. (pending /\ s[1].op # "stats") = pending
      BY <1>5, <2>2
    <2> QED
      BY <2>2, <2>3 DEF t
  <1> QED
    BY <1>4, <1>5


\* processPortStatsList(), and the callbacks that do not concern statistics.
LEMMA CallbackKeepsStats ==
    ASSUME StatsTrue(statsPending, calls), Callback, ~OnNotification
    PROVE  StatsTrue(statsPending', calls')
  <1>1. PICK new : NewCalls(new) /\ calls' = Tail(calls) \o new
    BY CallbackTakes DEF Taken, Done
  <1>2. calls # <<>> /\ StatsTrue(statsPending /\ calls[1].op # "stats", Tail(calls))
    BY CallbackTakes, TailKeepsStats
  <1>3. StatsTrue(statsPending /\ calls[1].op # "stats", calls')
    BY <1>1, <1>2, NewCallsKeepStats
  <1>4. statsPending' = (statsPending /\ calls[1].op # "stats")
    BY CallbackTakes DEF StatsTrue
  <1> QED
    BY <1>3, <1>4

\* isGetStatsPending_ is set exactly while getPortStats()'s request is in the channel,
\* also when a lost connection throws it away (on_rpcChannel_disconnected).
THEOREM StatsPendingHolds == Spec => []StatsPendingIffCalled
  <1> DEFINE Inv == StatsTrue(statsPending, calls) /\ PortType
  <1>1. Init => Inv
    BY NoneTrue, NoPortType DEF Init
  <1>2. ASSUME Inv, [Next]_vars
        PROVE  Inv'
    <2>1. ASSUME UNCHANGED <<calls, statsPending, port>>
          PROVE  Inv'
      BY <1>2, <2>1 DEF StatsTrue, PortType
    <2>2. ASSUME Asked, UNCHANGED statsPending, PortType'
          PROVE  Inv'
      BY <1>2, <2>2, NewCallsKeepStats DEF Asked
    <2>3. CASE UserConnect \/ ReconnectTimeout \/ OnError
      BY <2>1, <2>3 DEF UserConnect, ReconnectTimeout, OnError, local, wire
    <2>4. CASE OnConnected
      BY <1>2, <2>2, <2>4, AskOneMore DEF OnConnected, local, PortType, StatsTrue
    <2>5. ASSUME NEW again, HangUp(again)
          PROVE  Inv'
      BY <2>5, NoneTrue, NoPortType DEF HangUp
    <2>6. CASE RemoteClosed \/ NetworkError \/ UserDisconnect
      BY <2>1, <2>5, <2>6 DEF RemoteClosed, NetworkError, UserDisconnect, local, wire
    <2>7. CASE User
      BY <1>2, <2>2, <2>7, UserStep DEF StatsTrue, PortStays
    <2>8. CASE PollStats
      BY <1>2, <2>8, PollKeepsStats DEF PollStats, PortType
    <2>9. CASE Drone \/ TransmitEnds \/ OtherController
      BY <2>1, <2>9 DEF Drone, ServeVersion, ServeRead, ServeChange, ServeModifyPort,
            ServeTransmit, TransmitEnds, OtherController, local, wire
    <2>10. CASE OnNotification
      BY <1>2, <2>2, <2>10, AskOneMore DEF OnNotification, local, PortType, StatsTrue
    <2>11. CASE Callback /\ ~OnNotification
      BY <1>2, <2>11, CallbackKeepsStats, CallbackPort
    <2> QED
      BY <1>2, <2>1, <2>3, <2>4, <2>6, <2>7, <2>8, <2>9, <2>10, <2>11
         DEF Next, Connection, vars, local, wire
  <1>3. Inv => StatsPendingIffCalled
    BY DEF StatsTrue, StatsPendingIffCalled
  <1> QED
    BY <1>1, <1>2, <1>3, PTL DEF Spec


-----------------------------------------------------------------------------
(* The exchange between the controller and the drone.                         *)

\* Calls whose answer is the port's configuration.
CfgOps == {"portCfg", "newCfg"}
CfgCalled == \E n \in DOMAIN calls : calls[n].op \in CfgOps
CfgCalledNext == \E n \in DOMAIN calls : n # 1 /\ calls[n].op \in CfgOps
Told == \E n \in DOMAIN inbox : inbox[n].t = "notification"

ExchangeType == /\ IsSeq(calls) /\ IsSeq(inbox) /\ PortType
                /\ notify \in BOOLEAN /\ "cfg" \in DOMAIN drone
OffEmpty == sock # "connected" => calls = <<>> /\ inbox = <<>> /\ port = NoPort
OneReply == /\ \A m, n \in DOMAIN inbox :
                  inbox[m].t = "reply" /\ inbox[n].t = "reply" => m = n
            /\ \A n \in DOMAIN inbox : inbox[n].t = "reply" => calls # <<>>
\* Before there is a port, its ids are asked for, and before that the version.
BeforePort == ~port.up /\ calls # <<>> => calls[1].op \in {"checkVersion", "portIds"}
Checking ==
    ~port.up /\ calls # <<>> /\ calls[1].op = "checkVersion" =>
        /\ Len(calls) = 1
        /\ inbox = <<>> => ~notify
        /\ inbox # <<>> => /\ inbox[1].t = "reply"
                           /\ notify <=> inbox[1].data.result = "ok"
                           /\ notify \/ Len(inbox) = 1
Refused == sock = "connected" /\ ~port.up /\ calls = <<>> => inbox = <<>> /\ ~notify
Notified == port.up \/ (calls # <<>> /\ calls[1].op = "portIds") => notify
\* The configuration shown, or the one on its way, is the drone's, or a newer one will
\* be asked for.
CfgKnown == port.up => port.cfg = drone.cfg \/ Told \/ CfgCalled
CfgAnswered ==
    \A n \in DOMAIN inbox : inbox[n].t = "reply" /\ calls[1].op \in CfgOps =>
        inbox[n].data.cfg = drone.cfg \/ Told \/ CfgCalledNext

ExchangeInv == /\ ExchangeType /\ OffEmpty /\ OneReply /\ BeforePort /\ Checking
               /\ Refused /\ Notified /\ CfgKnown /\ CfgAnswered


\* The empty sequence has no elements.
LEMMA EmptyHasNone == \A n \in DOMAIN <<>> : FALSE
  <1>1. DOMAIN <<>> = 1 .. 0
    BY EmptyIsSeq, SeqLength
  <1> QED
    BY <1>1

\* A queue that is not empty has a first element, and keeps it when others are appended.
LEMMA FirstStays ==
    ASSUME NEW s, NEW t, IsSeq(s), IsSeq(t)
    PROVE  /\ s # <<>> => 1 \in DOMAIN s /\ s \o t # <<>> /\ (s \o t)[1] = s[1]
           /\ \A n \in DOMAIN s : n \in DOMAIN (s \o t) /\ (s \o t)[n] = s[n]
  <1> DEFINE all == s \o t
  <1>1. /\ IsSeq(all) /\ Len(all) = Len(s) + Len(t)
        /\ \A n \in DOMAIN s : all[n] = s[n]
    BY Concat
  <1> HIDE DEF all
  <1>2. /\ Len(s) \in Nat /\ Len(t) \in Nat
        /\ DOMAIN s = 1 .. Len(s) /\ DOMAIN all = 1 .. Len(all)
        /\ s = <<>> <=> Len(s) = 0
        /\ all = <<>> <=> Len(all) = 0
    BY <1>1, SeqLength
  <1>3. /\ s # <<>> => 1 \in DOMAIN s /\ all # <<>> /\ all[1] = s[1]
        /\ \A n \in DOMAIN s : n \in DOMAIN all /\ all[n] = s[n]
    BY <1>1, <1>2
  <1> QED
    BY <1>3 DEF all

\* Without a connection there is nothing to relate.
LEMMA DisconnectedExchange ==
    ASSUME sock' # "connected", calls' = <<>>, inbox' = <<>>, port' = NoPort,
           notify' \in BOOLEAN, "cfg" \in DOMAIN drone'
    PROVE  ExchangeInv'
  <1>1. ExchangeType'
    BY EmptyIsSeq, NoPortType DEF ExchangeType
  <1>2. ~port'.up
    BY DEF NoPort
  <1>3. OneReply' /\ CfgAnswered'
    BY EmptyHasNone DEF OneReply, CfgAnswered
  <1> QED
    BY <1>1, <1>2, <1>3 DEF ExchangeInv, OffEmpty, BeforePort, Checking, Refused, Notified,
        CfgKnown

\* Steps that change nothing of the exchange.
LEMMA SameExchange ==
    ASSUME ExchangeInv, UNCHANGED <<sock, port, calls, inbox, notify, drone>>
    PROVE  ExchangeInv'
  BY DEF ExchangeInv, ExchangeType, PortType, OffEmpty, OneReply, BeforePort, Checking,
      Refused, Notified, CfgKnown, CfgAnswered, CfgCalled, CfgCalledNext, Told

\* A port, a call or a message is there only if the socket is connected.
LEMMA UpMeansConnected ==
    ASSUME ExchangeInv
    PROVE  port.up \/ calls # <<>> \/ inbox # <<>> => sock = "connected"
  BY DEF ExchangeInv, OffEmpty, NoPort

\* A new connection starts with the question for the version.
LEMMA ConnectedExchange ==
    ASSUME ExchangeInv, OnConnected
    PROVE  ExchangeInv'
  <1> DEFINE c == Call("checkVersion", "none", Nothing)
  <1>1. calls = <<>> /\ inbox = <<>> /\ port = NoPort
    BY DEF ExchangeInv, OffEmpty, OnConnected
  <1>2. calls' = <<c>> /\ c.op = "checkVersion"
    BY <1>1 DEF OnConnected, Call
  <1>3. /\ sock' = "connected" /\ notify' = FALSE /\ inbox' = <<>> /\ port' = NoPort
        /\ drone' = drone
    BY <1>1 DEF OnConnected, local
  <1> HIDE DEF c
  <1>4. IsSeq(<<c>>) /\ Len(<<c>>) = 1 /\ <<c>>[1] = c /\ <<c>> # <<>>
    BY OneIsSeq, EmptyIsSeq
  <1>5. ExchangeType'
    BY <1>2, <1>3, <1>4, EmptyIsSeq, NoPortType DEF ExchangeInv, ExchangeType
  <1>6. ~port'.up
    BY <1>3 DEF NoPort
  <1>7. OneReply' /\ CfgAnswered'
    BY <1>3, EmptyHasNone DEF OneReply, CfgAnswered
  <1> QED
    BY <1>2, <1>3, <1>4, <1>5, <1>6, <1>7 DEF ExchangeInv, OffEmpty, BeforePort, Checking,
        Refused, Notified, CfgKnown

\* The user and the timer of the statistics ask for something: there is a port.
LEMMA AskedExchange ==
    ASSUME ExchangeInv, PortStays, UNCHANGED <<sock, inbox, notify, drone>>,
           NEW new, IsSeq(new), calls' = calls \o new
    PROVE  ExchangeInv'
  <1>1. ExchangeType'
    BY Concat DEF ExchangeInv, ExchangeType, PortStays
  <1>2. /\ calls # <<>> => 1 \in DOMAIN calls /\ calls' # <<>> /\ calls'[1] = calls[1]
        /\ \A n \in DOMAIN calls : n \in DOMAIN calls' /\ calls'[n] = calls[n]
    BY FirstStays DEF ExchangeInv, ExchangeType
  <1>3. port'.up /\ sock' = "connected" /\ port.up
    BY UpMeansConnected DEF PortStays
  <1>4. OneReply'
    BY <1>2 DEF ExchangeInv, OneReply
  <1>5. CfgKnown'
    BY <1>2 DEF ExchangeInv, CfgKnown, CfgCalled, Told, PortStays
  <1>6. CfgAnswered'
    BY <1>2 DEF ExchangeInv, OneReply, CfgAnswered, CfgCalledNext, Told
  <1> QED
    BY <1>1, <1>3, <1>4, <1>5, <1>6 DEF ExchangeInv, OffEmpty, BeforePort, Checking,
        Refused, Notified


\* all is s and behind it an answer and the notifications in more.
Behind(all, s, data, more) ==
    /\ IsSeq(all) /\ Len(all) = Len(s) + 1 + Len(more) /\ all # <<>>
    /\ Len(s) + 1 \in DOMAIN all /\ all[Len(s) + 1] = Reply(data)
    /\ \A n \in DOMAIN all : \/ n = Len(s) + 1 \/ all[n].t = "notification"
                             \/ n \in DOMAIN s /\ all[n] = s[n]
    /\ more # <<>> => \E n \in DOMAIN all : all[n].t = "notification"

\* How the sequence looks when the drone has answered.
LEMMA AnswerBehind ==
    ASSUME NEW s, NEW data, NEW more, IsSeq(s), IsSeq(more),
           \A n \in DOMAIN more : more[n].t = "notification"
    PROVE  Behind(s \o (<<Reply(data)>> \o more), s, data, more)
  <1> DEFINE r == Reply(data)
             new == <<r>> \o more
             all == s \o new
  <1>1. IsSeq(<<r>>) /\ Len(<<r>>) = 1 /\ <<r>>[1] = r /\ DOMAIN <<r>> = 1 .. 1
    BY OneIsSeq, SeqLength
  <1> HIDE DEF r
  <1>2. /\ IsSeq(new) /\ Len(new) = 1 + Len(more) /\ new[1] = r
        /\ \A n \in DOMAIN more : new[1 + n] = more[n]
        /\ \A n \in DOMAIN new : n = 1 \/ n - 1 \in DOMAIN more
    BY <1>1, Concat
  <1> HIDE DEF new
  <1>3. /\ IsSeq(all) /\ Len(all) = Len(s) + Len(new)
        /\ \A n \in DOMAIN s : all[n] = s[n]
        /\ \A n \in DOMAIN new : all[Len(s) + n] = new[n]
        /\ \A n \in DOMAIN all : n \in DOMAIN s \/ n - Len(s) \in DOMAIN new
    BY <1>2, Concat
  <1> HIDE DEF all
  <1>4. /\ Len(s) \in Nat /\ Len(more) \in Nat
        /\ DOMAIN s = 1 .. Len(s) /\ DOMAIN more = 1 .. Len(more)
        /\ DOMAIN new = 1 .. Len(new) /\ DOMAIN all = 1 .. Len(all)
        /\ all = <<>> <=> Len(all) = 0
        /\ more = <<>> <=> Len(more) = 0
    BY <1>2, <1>3, SeqLength
  <1>5. Len(all) = Len(s) + 1 + Len(more) /\ all # <<>> /\ Len(s) + 1 \in DOMAIN all
    BY <1>2, <1>3, <1>4
  <1>6. all[Len(s) + 1] = r
    BY <1>2, <1>3, <1>4
  <1>7. ASSUME NEW n \in DOMAIN all, n # Len(s) + 1, n \notin DOMAIN s
        PROVE  all[n].t = "notification"
    <2> DEFINE m == n - Len(s)
    <2>1. m \in DOMAIN new /\ n = Len(s) + m /\ m # 1
      BY <1>3, <1>4, <1>7
    <2> HIDE DEF m
    <2>2. all[n] = new[m] /\ m - 1 \in DOMAIN more
      BY <1>2, <1>3, <2>1
    <2>3. new[1 + (m - 1)] = more[m - 1] /\ 1 + (m - 1) = m
      BY <1>2, <1>4, <2>1, <2>2
    <2> QED
      BY <2>2, <2>3
  <1>8. ASSUME more # <<>>
        PROVE  \E n \in DOMAIN all : all[n].t = "notification"
    <2>1. Len(s) + 2 \in DOMAIN all /\ Len(s) + 2 # Len(s) + 1 /\ Len(s) + 2 \notin DOMAIN s
      BY <1>4, <1>5, <1>8
    <2> QED
      BY <1>7, <2>1
  <1>9. Behind(all, s, data, more)
    BY <1>3, <1>5, <1>6, <1>7, <1>8 DEF Behind, r
  <1> QED
    BY <1>9 DEF all, new, r

\* The drone answers the first call.
LEMMA ServedExchange ==
    ASSUME ExchangeInv, NEW ops, AtDrone(ops), UNCHANGED <<sock, port, calls>>,
           NEW data, NEW more, IsSeq(more),
           \A n \in DOMAIN more : more[n].t = "notification",
           inbox' = inbox \o (<<Reply(data)>> \o more),
           "cfg" \in DOMAIN drone',
           notify' = (notify \/ (calls[1].op = "checkVersion" /\ data.result = "ok")),
           calls[1].op = "checkVersion" => more = <<>>,
           \/ drone'.cfg = drone.cfg
           \/ calls[1].op \notin CfgOps \cup {"checkVersion"} /\ (notify => more # <<>>),
           calls[1].op \in CfgOps => data.cfg = drone.cfg /\ drone'.cfg = drone.cfg
    PROVE  ExchangeInv'
  <1> DEFINE r == Reply(data)
             last == Len(inbox) + 1
  <1>1. r.t = "reply" /\ r.data = data
    BY DEF Reply
  <1>2. /\ IsSeq(inbox') /\ Len(inbox') = last + Len(more) /\ inbox' # <<>>
        /\ last \in DOMAIN inbox' /\ inbox'[last] = r
        /\ \A n \in DOMAIN inbox' : \/ n = last \/ inbox'[n].t = "notification"
                                    \/ n \in DOMAIN inbox /\ inbox'[n] = inbox[n]
        /\ more # <<>> => Told'
    <2>1. IsSeq(inbox)
      BY DEF ExchangeInv, ExchangeType
    <2>2. Behind(inbox', inbox, data, more)
      BY <2>1, AnswerBehind
    <2> QED
      BY <2>2 DEF Behind, Told
  <1>3. /\ \A n \in DOMAIN inbox : inbox[n].t # "reply" /\ n \in DOMAIN inbox'
              /\ inbox'[n] = inbox[n]
        /\ calls # <<>> /\ sock = "connected"
        /\ Len(inbox) \in Nat /\ DOMAIN inbox = 1 .. Len(inbox)
        /\ inbox = <<>> <=> Len(inbox) = 0
    <2>1. IsSeq(inbox) /\ IsSeq(<<r>> \o more)
      BY OneIsSeq, Concat DEF ExchangeInv, ExchangeType
    <2> HIDE DEF r
    <2>2. inbox' = inbox \o (<<r>> \o more)
      BY DEF r
    <2>3. \A n \in DOMAIN inbox : n \in DOMAIN inbox' /\ inbox'[n] = inbox[n]
      BY <2>1, <2>2, FirstStays
    <2> QED
      BY <2>1, <2>3, SeqLength DEF AtDrone
  <1> HIDE DEF r, last
  <1>4. \A n \in DOMAIN inbox' : inbox'[n].t = "reply" => n = last
    BY <1>2, <1>3
  <1>5. Told => Told'
    BY <1>3 DEF Told
  <1>6. ExchangeType'
    BY <1>2 DEF ExchangeInv, ExchangeType, PortType
  <1>7. OneReply'
    BY <1>3, <1>4 DEF OneReply
  <1>8. Checking'
    <2> SUFFICES ASSUME ~port.up, calls[1].op = "checkVersion"
                 PROVE  /\ Len(calls) = 1
                        /\ inbox'[1].t = "reply"
                        /\ notify' <=> inbox'[1].data.result = "ok"
                        /\ notify' \/ Len(inbox') = 1
      BY <1>2 DEF Checking
    <2>1. inbox = <<>> /\ ~notify /\ Len(calls) = 1
      <3>1. inbox # <<>> => 1 \in DOMAIN inbox
        BY <1>3
      <3> QED
        BY <1>3, <3>1 DEF ExchangeInv, Checking
    <2>2. last = 1 /\ Len(more) = 0 /\ Len(inbox') = 1
      BY <1>2, <1>3, <2>1, EmptyIsSeq DEF last
    <2> QED
      BY <1>1, <1>2, <2>1, <2>2
  <1>9. Notified' /\ Refused' /\ BeforePort' /\ OffEmpty'
    BY <1>3 DEF ExchangeInv, Notified, Refused, BeforePort, OffEmpty
  <1>10. CfgKnown'
    BY <1>2, <1>5 DEF ExchangeInv, CfgKnown, CfgCalled, Notified
  <1>11. CfgAnswered'
    BY <1>1, <1>2, <1>4 DEF CfgAnswered
  <1> QED
    BY <1>6, <1>7, <1>8, <1>9, <1>10, <1>11 DEF ExchangeInv


\* The drone answers, and notifies nobody.
LEMMA AnswerExchange ==
    ASSUME ExchangeInv, NEW ops, AtDrone(ops), UNCHANGED <<sock, port, calls>>,
           NEW data, Answer(data),
           "cfg" \in DOMAIN drone', drone'.cfg = drone.cfg,
           notify' = (notify \/ (calls[1].op = "checkVersion" /\ data.result = "ok")),
           calls[1].op \in CfgOps => data.cfg = drone.cfg
    PROVE  ExchangeInv'
  <1> DEFINE r == Reply(data)
  <1>1. inbox' = inbox \o (<<r>> \o <<>>)
    <2>1. inbox' = inbox \o <<r>>
      BY AppendIsOne DEF Answer, ExchangeInv, ExchangeType
    <2>2. <<r>> \in Seq({r})
      OBVIOUS
    <2>3. <<r>> \o <<>> = <<r>>
      BY <2>2, ConcatEmptySeq
    <2> QED
      BY <2>1, <2>3
  <1>2. IsSeq(<<>>) /\ \A n \in DOMAIN <<>> : <<>>[n].t = "notification"
    BY EmptyIsSeq, EmptyHasNone
  <1> QED
    BY <1>1, <1>2, ServedExchange

\* Every request is answered so that the invariant holds.
LEMMA DroneExchange ==
    ASSUME ExchangeInv, Drone
    PROVE  ExchangeInv'
  <1> DEFINE ok == [result |-> "ok"]
             bad == [result |-> "bad"]
  <1>1. UNCHANGED <<sock, port, calls>> /\ "cfg" \in DOMAIN drone /\ notify \in BOOLEAN
    BY DEF Drone, ServeVersion, ServeRead, ServeChange, ServeModifyPort, ServeTransmit,
        net, local, ExchangeInv, ExchangeType
  <1>2. CASE ServeVersion
    <2>1. calls[1].op = "checkVersion" /\ drone' = drone /\ AtDrone({"checkVersion"})
      BY <1>2 DEF ServeVersion, AtDrone
    <2>2. ASSUME Answer(ok), notify' = TRUE
          PROVE  ExchangeInv'
      <3>1. ok.result = "ok"
        OBVIOUS
      <3> HIDE DEF ok
      <3> QED
        BY <1>1, <2>1, <2>2, <3>1, AnswerExchange DEF CfgOps
    <2>3. ASSUME Answer(bad), notify' = notify
          PROVE  ExchangeInv'
      <3>1. bad.result # "ok"
        OBVIOUS
      <3> HIDE DEF bad
      <3> QED
        BY <1>1, <2>1, <2>3, <3>1, AnswerExchange DEF CfgOps
    <2> QED
      BY <1>2, <2>2, <2>3 DEF ServeVersion
  <1>3. CASE ServeRead
    <2> DEFINE ops == {"portIds", "portCfg", "newCfg", "ids", "cfgs", "stats"}
    <2>1. PICK data : Answer(data) /\ (calls[1].op \in CfgOps => data = [cfg |-> drone.cfg])
      BY <1>3 DEF ServeRead, CfgOps
    <2>2. AtDrone(ops) /\ calls[1].op # "checkVersion" /\ notify' = notify /\ drone' = drone
      BY <1>3 DEF ServeRead, AtDrone
    <2> HIDE DEF ops
    <2> QED
      BY <1>1, <2>1, <2>2, AnswerExchange
  <1>4. CASE ServeChange
    <2> DEFINE ops == {"add", "del", "mod"}
    <2>1. /\ AtDrone(ops) /\ calls[1].op \notin CfgOps \cup {"checkVersion"}
          /\ notify' = notify /\ Answer(Nothing)
      BY <1>4 DEF ServeChange, AtDrone, CfgOps
    <2>2. "cfg" \in DOMAIN drone' /\ drone'.cfg = drone.cfg
      <3>1. PICK items : drone' = drone \/ drone' = [drone EXCEPT !.items = items]
        BY <1>4 DEF ServeChange
      <3> QED
        BY <1>1, <3>1
    <2> HIDE DEF ops
    <2> QED
      BY <1>1, <2>1, <2>2, AnswerExchange
  <1>5. CASE ServeTransmit
    <2> DEFINE ops == {"startTx", "stopTx", "build", "modifyBuild", "applyBuild"}
    <2>1. /\ AtDrone(ops) /\ calls[1].op \notin CfgOps \cup {"checkVersion"}
          /\ notify' = notify /\ Answer(Nothing)
      BY <1>5 DEF ServeTransmit, AtDrone, CfgOps
    <2>2. "cfg" \in DOMAIN drone' /\ drone'.cfg = drone.cfg
      <3>1. PICK tx : drone' = [drone EXCEPT !.tx = tx]
        BY <1>5 DEF ServeTransmit
      <3> QED
        BY <1>1, <3>1
    <2> HIDE DEF ops
    <2> QED
      BY <1>1, <2>1, <2>2, AnswerExchange
  <1>6. CASE ServeModifyPort
    <2>1. /\ AtDrone({"modifyPort"}) /\ calls[1].op \notin CfgOps \cup {"checkVersion"}
          /\ notify' = notify
      BY <1>6 DEF ServeModifyPort, AtDrone, CfgOps
    <2>2. CASE drone' = drone /\ Answer(Nothing)
      BY <1>1, <2>1, <2>2, AnswerExchange
    <2> DEFINE told == IF notify THEN <<Notification>> ELSE <<>>
    <2>3. CASE /\ drone' = [drone EXCEPT !.cfg = calls[1].arg.cfg]
               /\ inbox' = inbox \o <<Reply(Nothing)>> \o told
      <3>1. /\ IsSeq(told) /\ \A n \in DOMAIN told : told[n].t = "notification"
            /\ notify => told # <<>>
        <4>1. CASE notify
          <5> DEFINE c == Notification
          <5>1. c.t = "notification"
            BY DEF Notification
          <5> HIDE DEF c
          <5>2. IsSeq(<<c>>) /\ Len(<<c>>) = 1 /\ <<c>>[1] = c /\ DOMAIN <<c>> = 1 .. 1
                  /\ <<c>> # <<>>
            BY OneIsSeq, SeqLength, EmptyIsSeq
          <5>3. told = <<c>>
            BY <4>1 DEF c
          <5> QED
            BY <5>1, <5>2, <5>3
        <4>2. CASE ~notify
          BY <4>2, EmptyIsSeq, EmptyHasNone
        <4> QED
          BY <4>1, <4>2
      <3> HIDE DEF told
      <3>2. inbox' = inbox \o (<<Reply(Nothing)>> \o told)
        <4> DEFINE r == Reply(Nothing)
                   R == Range(inbox) \cup {r} \cup Range(told)
        <4>1. inbox \in Seq(R) /\ told \in Seq(R) /\ <<r>> \in Seq(R)
          BY <3>1, SeqMonotonic DEF IsSeq, ExchangeInv, ExchangeType
        <4> HIDE DEF R
        <4>2. (inbox \o <<r>>) \o told = inbox \o (<<r>> \o told)
          BY <4>1, ConcatAssociative
        <4> QED
          BY <2>3, <4>2
      <3>3. "cfg" \in DOMAIN drone'
        BY <1>1, <2>3
      <3> QED
        BY <1>1, <2>1, <3>1, <3>2, <3>3, ServedExchange
    <2> QED
      BY <1>6, <2>2, <2>3 DEF ServeModifyPort
  <1> QED
    BY <1>2, <1>3, <1>4, <1>5, <1>6 DEF Drone


\* all is s and behind it c.
WithLast(all, s, c) ==
    /\ IsSeq(all) /\ all # <<>>
    /\ Len(s) + 1 \in DOMAIN all /\ all[Len(s) + 1] = c
    /\ \A n \in DOMAIN all : n = Len(s) + 1 \/ n \in DOMAIN s
    /\ \A n \in DOMAIN s : n \in DOMAIN all /\ all[n] = s[n]
    /\ s # <<>> => 1 \in DOMAIN s /\ Len(s) + 1 # 1

\* Append() yields such a sequence.
LEMMA AppendedLast ==
    ASSUME NEW s, NEW c, IsSeq(s)
    PROVE  WithLast(Append(s, c), s, c)
  <1> DEFINE all == s \o <<c>>
  <1>1. IsSeq(<<c>>) /\ Len(<<c>>) = 1 /\ <<c>>[1] = c /\ DOMAIN <<c>> = 1 .. 1
    BY OneIsSeq, SeqLength
  <1>2. /\ IsSeq(all) /\ Len(all) = Len(s) + 1
        /\ \A n \in DOMAIN <<c>> : all[Len(s) + n] = <<c>>[n]
        /\ s # <<>> => 1 \in DOMAIN s
        /\ \A n \in DOMAIN s : n \in DOMAIN all /\ all[n] = s[n]
    BY <1>1, Concat, FirstStays
  <1>3. all[Len(s) + 1] = c
    BY <1>1, <1>2
  <1> HIDE DEF all
  <1>4. /\ Len(s) \in Nat /\ DOMAIN s = 1 .. Len(s) /\ (s = <<>> <=> Len(s) = 0)
        /\ DOMAIN all = 1 .. Len(all) /\ (all = <<>> <=> Len(all) = 0)
    BY <1>2, SeqLength
  <1>5. WithLast(all, s, c)
    BY <1>2, <1>3, <1>4 DEF WithLast
  <1> QED
    BY <1>5, AppendIsOne DEF all

\* The configuration is changed by another controller.
LEMMA NotifiedExchange ==
    ASSUME ExchangeInv, UNCHANGED <<sock, port, calls, notify>>, "cfg" \in DOMAIN drone',
           inbox' = IF notify /\ sock = "connected" THEN Append(inbox, Notification)
                                                     ELSE inbox
    PROVE  ExchangeInv'
  <1>1. CASE ~(notify /\ sock = "connected")
    <2>1. ~port.up /\ inbox' = inbox
      BY <1>1, UpMeansConnected DEF ExchangeInv, Notified
    <2>2. \A n \in DOMAIN inbox : inbox[n].t = "reply" => calls[1].op \notin CfgOps
      BY <2>1 DEF ExchangeInv, OneReply, BeforePort, CfgOps
    <2> QED
      BY <2>1, <2>2 DEF ExchangeInv, ExchangeType, PortType, OffEmpty, OneReply, BeforePort,
          Checking, Refused, Notified, CfgKnown, CfgAnswered
  <1>2. CASE notify /\ sock = "connected"
    <2> DEFINE c == Notification
               last == Len(inbox) + 1
    <2>1. c.t = "notification"
      BY DEF Notification
    <2> HIDE DEF c
    <2>2. WithLast(inbox', inbox, c)
      BY <1>2, AppendedLast DEF ExchangeInv, ExchangeType, c
    <2>3. /\ IsSeq(inbox') /\ inbox' # <<>> /\ last \in DOMAIN inbox' /\ inbox'[last] = c
          /\ \A n \in DOMAIN inbox' : n = last \/ n \in DOMAIN inbox
          /\ \A n \in DOMAIN inbox : n \in DOMAIN inbox' /\ inbox'[n] = inbox[n]
          /\ inbox # <<>> => 1 \in DOMAIN inbox
      BY <2>2 DEF WithLast
    <2> HIDE DEF last
    <2>4. Told' /\ \A n \in DOMAIN inbox' : inbox'[n].t = "reply" => n \in DOMAIN inbox
      BY <2>1, <2>3 DEF Told
    <2>5. ExchangeType' /\ OffEmpty' /\ BeforePort' /\ Notified'
      BY <1>2, <2>3 DEF ExchangeInv, ExchangeType, PortType, OffEmpty, BeforePort, Notified
    <2>6. OneReply'
      BY <2>3, <2>4 DEF ExchangeInv, OneReply
    <2>7. Checking' /\ Refused'
      BY <1>2, <2>3 DEF ExchangeInv, Checking, Refused
    <2>8. CfgKnown' /\ CfgAnswered'
      BY <2>4 DEF CfgKnown, CfgAnswered
    <2> QED
      BY <2>5, <2>6, <2>7, <2>8 DEF ExchangeInv
  <1> QED
    BY <1>1, <1>2

\* Steps of other controllers and of the drone's transmission.
LEMMA OthersExchange ==
    ASSUME ExchangeInv, TransmitEnds \/ OtherController
    PROVE  ExchangeInv'
  <1>1. ASSUME "cfg" \in DOMAIN drone', drone'.cfg = drone.cfg,
               UNCHANGED <<sock, port, calls, notify, inbox>>
        PROVE  ExchangeInv'
    BY <1>1 DEF ExchangeInv, ExchangeType, PortType, OffEmpty, OneReply, BeforePort,
        Checking, Refused, Notified, CfgKnown, CfgAnswered, CfgCalled, CfgCalledNext, Told
  <1>2. UNCHANGED <<sock, port, calls, notify>> /\ "cfg" \in DOMAIN drone
    BY DEF TransmitEnds, OtherController, net, local, wire, ExchangeInv, ExchangeType
  <1>3. ASSUME NEW v, drone' = [drone EXCEPT !.tx = v] \/ drone' = [drone EXCEPT !.items = v],
               inbox' = inbox
        PROVE  ExchangeInv'
    BY <1>1, <1>2, <1>3
  <1>4. CASE TransmitEnds
    BY <1>3, <1>4 DEF TransmitEnds, wire
  <1>5. CASE OtherController
    <2>1. ASSUME NEW k, NEW i, inbox' = inbox,
                 drone' = [drone EXCEPT !.items[k] = Restrict(@, DOMAIN @ \ {i})]
          PROVE  ExchangeInv'
      <3>1. PICK v : drone' = [drone EXCEPT !.items = v]
        BY <2>1
      <3> QED
        BY <1>3, <2>1, <3>1
    <2>2. ASSUME drone' = [drone EXCEPT !.cfg = edits + 1],
                 inbox' = IF notify /\ sock = "connected" THEN Append(inbox, Notification)
                                                         ELSE inbox
          PROVE  ExchangeInv'
      <3>1. "cfg" \in DOMAIN drone'
        BY <1>2, <2>2
      <3> QED
        BY <1>2, <2>2, <3>1, NotifiedExchange
    <2>3. ASSUME drone' = [drone EXCEPT !.tx = TRUE], inbox' = inbox
          PROVE  ExchangeInv'
      BY <1>3, <2>3
    <2> QED
      BY <1>5, <2>1, <2>2, <2>3 DEF OtherController
  <1> QED
    BY <1>4, <1>5

\* The first message goes.
LEMMA TailTold ==
    ASSUME IsSeq(inbox), inbox # <<>>, inbox' = Tail(inbox), OneReply
    PROVE  /\ IsSeq(inbox')
           /\ Len(inbox) = 1 => inbox' = <<>>
           /\ inbox[1].t = "reply" => /\ \A n \in DOMAIN inbox' : inbox'[n].t # "reply"
                                      /\ Told => Told'
           /\ \A m, n \in DOMAIN inbox' :
                 inbox'[m].t = "reply" /\ inbox'[n].t = "reply" => m = n
  <1>1. /\ IsSeq(inbox') /\ Len(inbox') = Len(inbox) - 1
        /\ \A n \in DOMAIN inbox' : n + 1 \in DOMAIN inbox /\ inbox'[n] = inbox[n + 1]
        /\ \A n \in DOMAIN inbox : n # 1 => n - 1 \in DOMAIN inbox'
                                              /\ inbox'[n - 1] = inbox[n]
    BY TailOf
  <1>2. /\ DOMAIN inbox' = 1 .. Len(inbox') /\ Len(inbox') \in Nat
        /\ inbox' = <<>> <=> Len(inbox') = 0
        /\ DOMAIN inbox = 1 .. Len(inbox) /\ Len(inbox) \in Nat
    BY <1>1, SeqLength
  <1>3. 1 \in DOMAIN inbox /\ \A n \in DOMAIN inbox' : n + 1 # 1
    BY <1>1, <1>2
  <1>4. ASSUME NEW m \in DOMAIN inbox', NEW n \in DOMAIN inbox', m + 1 = n + 1
        PROVE  m = n
    BY <1>2, <1>4
  <1>5. \A m, n \in DOMAIN inbox' :
           inbox'[m].t = "reply" /\ inbox'[n].t = "reply" => m = n
    BY <1>1, <1>4 DEF OneReply
  <1>6. ASSUME inbox[1].t = "reply"
        PROVE  \A n \in DOMAIN inbox' : inbox'[n].t # "reply"
    BY <1>1, <1>3, <1>6 DEF OneReply
  <1>7. ASSUME inbox[1].t = "reply", Told
        PROVE  Told'
    BY <1>1, <1>7 DEF Told
  <1> QED
    BY <1>1, <1>2, <1>5, <1>6, <1>7

\* on_rpcChannel_notification(): the new configuration is asked for.
LEMMA NotificationExchange ==
    ASSUME ExchangeInv, OnNotification
    PROVE  ExchangeInv'
  <1> DEFINE c == Call("newCfg", "none", Nothing)
             last == Len(calls) + 1
  <1>1. /\ inbox # <<>> /\ inbox[1].t = "notification" /\ inbox' = Tail(inbox)
        /\ calls' = Append(calls, c) /\ UNCHANGED <<sock, port, notify, drone>>
    BY DEF OnNotification, net, local
  <1>2. c.op = "newCfg"
    BY DEF Call
  <1> HIDE DEF c
  <1>3. WithLast(calls', calls, c)
    BY <1>1, AppendedLast DEF ExchangeInv, ExchangeType
  <1>4. /\ IsSeq(calls') /\ calls' # <<>> /\ last \in DOMAIN calls' /\ calls'[last] = c
        /\ calls # <<>> => 1 \in DOMAIN calls /\ calls'[1] = calls[1] /\ last # 1
    BY <1>3 DEF WithLast
  <1> HIDE DEF last
  <1>5. IsSeq(inbox') /\ \A m, n \in DOMAIN inbox' :
           inbox'[m].t = "reply" /\ inbox'[n].t = "reply" => m = n
    BY <1>1, TailTold DEF ExchangeInv, ExchangeType
  <1>6. sock = "connected" /\ (~port.up => calls # <<>> /\ calls[1].op # "checkVersion")
    BY <1>1, UpMeansConnected DEF ExchangeInv, Refused, Checking
  <1>7. ExchangeType' /\ OffEmpty' /\ OneReply'
    BY <1>1, <1>4, <1>5, <1>6 DEF ExchangeInv, ExchangeType, PortType, OffEmpty, OneReply
  <1>8. BeforePort' /\ Checking' /\ Refused' /\ Notified'
    BY <1>1, <1>4, <1>6 DEF ExchangeInv, BeforePort, Checking, Refused, Notified
  <1>9. CfgKnown'
    BY <1>2, <1>4 DEF CfgKnown, CfgCalled, CfgOps
  <1>10. CfgAnswered'
    <2>1. ASSUME NEW n \in DOMAIN inbox', inbox'[n].t = "reply"
          PROVE  calls # <<>>
      <3>1. n + 1 \in DOMAIN inbox /\ inbox'[n] = inbox[n + 1]
        BY <1>1, TailOf DEF ExchangeInv, ExchangeType
      <3> QED
        BY <2>1, <3>1 DEF ExchangeInv, OneReply
    <2> QED
      BY <2>1, <1>2, <1>4 DEF CfgAnswered, CfgCalledNext, CfgOps
  <1> QED
    BY <1>7, <1>8, <1>9, <1>10 DEF ExchangeInv


\* A call that is not the first is still there when the first has been taken.
LEMMA NextCalledIsCalled ==
    ASSUME IsSeq(calls), calls # <<>>, NEW new, IsSeq(new), calls' = Tail(calls) \o new,
           CfgCalledNext
    PROVE  CfgCalled'
  <1> DEFINE t == Tail(calls)
  <1>1. IsSeq(t) /\ \A n \in DOMAIN calls : n # 1 => n - 1 \in DOMAIN t /\ t[n - 1] = calls[n]
    BY TailOf
  <1> HIDE DEF t
  <1>2. \A n \in DOMAIN t : n \in DOMAIN (t \o new) /\ (t \o new)[n] = t[n]
    BY <1>1, FirstStays
  <1>3. calls' = t \o new
    BY DEF t
  <1> QED
    BY <1>1, <1>2, <1>3 DEF CfgCalledNext, CfgCalled

\* The answer about the version: the ports are asked for, or nothing any more.
LEMMA VersionExchange ==
    ASSUME ExchangeInv, ProcessVersionCompatibility, ~port.up
    PROVE  ExchangeInv'
  <1> DEFINE c == Call("portIds", "none", Nothing)
             asked == CallIf(inbox[1].data.result = "ok", "portIds", "none", Nothing)
  <1>1. /\ inbox # <<>> /\ inbox[1].t = "reply" /\ inbox' = Tail(inbox)
        /\ calls # <<>> /\ calls[1].op = "checkVersion" /\ calls' = Tail(calls) \o asked
        /\ UNCHANGED <<sock, port, notify, drone>>
    BY DEF ProcessVersionCompatibility, Answered, Done, local
  <1>2. c.op = "portIds"
    BY DEF Call
  <1>3. asked = IF inbox[1].data.result = "ok" THEN <<c>> ELSE <<>>
    BY DEF CallIf
  <1> HIDE DEF c, asked
  <1>4. /\ Len(calls) = 1 /\ (notify <=> inbox[1].data.result = "ok")
        /\ notify \/ Len(inbox) = 1
    BY <1>1 DEF ExchangeInv, Checking
  <1>5. calls' = asked
    <2>1. IsSeq(Tail(calls)) /\ Len(Tail(calls)) = 0
      BY <1>1, <1>4, TailOf DEF ExchangeInv, ExchangeType
    <2>2. Tail(calls) = <<>>
      BY <2>1, SeqLength
    <2>3. \A d : <<d>> \in Seq({d})
      OBVIOUS
    <2>4. <<>> \o <<c>> = <<c>> /\ <<>> \o <<>> = <<>>
      BY <2>3, ConcatEmptySeq, EmptySeq
    <2> QED
      BY <1>1, <1>3, <2>2, <2>4
  <1>6. IsSeq(<<c>>) /\ <<c>>[1] = c /\ <<c>> # <<>> /\ IsSeq(<<>>)
    BY OneIsSeq, EmptyIsSeq
  <1>7. /\ IsSeq(inbox') /\ \A n \in DOMAIN inbox' : inbox'[n].t # "reply"
        /\ Len(inbox) = 1 => inbox' = <<>>
    BY <1>1, TailTold DEF ExchangeInv, ExchangeType
  <1>8. ExchangeType' /\ OffEmpty' /\ OneReply' /\ CfgKnown' /\ CfgAnswered'
    <2>1. sock = "connected"
      BY <1>1, UpMeansConnected
    <2> QED
      BY <1>1, <1>3, <1>5, <1>6, <1>7, <2>1 DEF ExchangeInv, ExchangeType, PortType, OffEmpty,
          OneReply, CfgKnown, CfgAnswered
  <1>9. BeforePort' /\ Checking' /\ Refused' /\ Notified'
    BY <1>1, <1>2, <1>3, <1>4, <1>5, <1>6, <1>7 DEF BeforePort, Checking, Refused, Notified
  <1> QED
    BY <1>8, <1>9 DEF ExchangeInv

\* A callback that leaves a port: what remains is that its configuration is known.
LEMMA PortExchange ==
    ASSUME ExchangeInv, Callback, ~OnNotification, PortType', port'.up,
           port.up \/ calls[1].op = "portIds",
           port'.cfg = drone.cfg \/ Told' \/ CfgCalled'
    PROVE  ExchangeInv'
  <1>1. /\ inbox # <<>> /\ inbox[1].t = "reply" /\ calls # <<>> /\ sock' = sock
    BY CallbackTakes
  <1>2. PICK new : IsSeq(new) /\ calls' = Tail(calls) \o new /\ inbox' = Tail(inbox)
                     /\ UNCHANGED <<notify, drone>>
    BY CallbackTakes DEF Taken, Done, NewCalls
  <1>3. IsSeq(calls')
    BY <1>1, <1>2, TailOf, Concat DEF ExchangeInv, ExchangeType
  <1>4. IsSeq(inbox') /\ \A n \in DOMAIN inbox' : inbox'[n].t # "reply"
    BY <1>1, <1>2, TailTold DEF ExchangeInv, ExchangeType
  <1>5. sock' = "connected" /\ notify'
    BY <1>1, <1>2, UpMeansConnected DEF ExchangeInv, Notified
  <1> QED
    BY <1>2, <1>3, <1>4, <1>5 DEF ExchangeInv, ExchangeType, OffEmpty, OneReply, BeforePort,
        Checking, Refused, Notified, CfgKnown, CfgAnswered

\* Every other callback.
LEMMA CallbackExchange ==
    ASSUME ExchangeInv, Callback, ~OnNotification
    PROVE  ExchangeInv'
  <1>1. /\ IsSeq(inbox) /\ inbox # <<>> /\ inbox[1].t = "reply"
        /\ IsSeq(calls) /\ calls # <<>>
    BY CallbackTakes DEF ExchangeInv, ExchangeType
  <1>2. PICK new : IsSeq(new) /\ calls' = Tail(calls) \o new /\ inbox' = Tail(inbox)
    BY CallbackTakes DEF Taken, Done, NewCalls
  <1>3. PortType /\ PortType'
    BY CallbackPort DEF ExchangeInv, ExchangeType
  <1>4. /\ Told => Told'
        /\ CfgCalledNext => CfgCalled'
    BY <1>1, <1>2, TailTold, NextCalledIsCalled DEF ExchangeInv
  <1>5. CASE calls[1].op = "portIds" /\ port' = NewPort
               /\ Done(<<Call("portCfg", "none", Nothing)>>)
    <2> DEFINE c == Call("portCfg", "none", Nothing)
    <2>1. c.op = "portCfg"
      BY DEF Call
    <2>2. calls' = Tail(calls) \o <<c>>
      BY <1>5 DEF Done
    <2> HIDE DEF c
    <2>3. IsSeq(Tail(calls))
      BY <1>1, TailOf
    <2>4. Tail(calls) \o <<c>> = Append(Tail(calls), c)
      BY <2>3, AppendIsOne
    <2>5. WithLast(calls', Tail(calls), c)
      BY <2>2, <2>3, <2>4, AppendedLast
    <2>6. CfgCalled'
      BY <2>1, <2>5 DEF WithLast, CfgCalled, CfgOps
    <2>7. port'.up
      BY <1>5 DEF NewPort
    <2> QED
      BY <1>3, <1>5, <2>6, <2>7, PortExchange
  <1>6. CASE calls[1].op \in {"portCfg", "newCfg"} /\ port'.up = port.up
               /\ (port.up => port'.cfg = inbox[1].data.cfg)
    <2>1. port.up
      BY <1>1, <1>3, <1>6 DEF ExchangeInv, BeforePort, PortType
    <2>2. 1 \in DOMAIN inbox
      BY <1>1, FirstStays
    <2>3. inbox[1].data.cfg = drone.cfg \/ Told \/ CfgCalledNext
      BY <1>1, <1>6, <2>2 DEF ExchangeInv, CfgAnswered, CfgOps
    <2> QED
      BY <1>3, <1>4, <1>6, <2>1, <2>3, PortExchange
  <1>7. CASE calls[1].op \notin {"portIds", "portCfg", "newCfg"} /\ Like(port')
    <2>1. CASE port.up
      <3>1. CfgCalled => CfgCalledNext
        BY <1>7 DEF CfgCalled, CfgCalledNext, CfgOps
      <3>2. port'.up /\ (port'.cfg = drone.cfg \/ Told' \/ CfgCalled')
        BY <1>4, <1>7, <2>1, <3>1 DEF ExchangeInv, CfgKnown, Like
      <3> QED
        BY <1>3, <2>1, <3>2, PortExchange
    <2>2. CASE ~port.up
      <3>1. calls[1].op = "checkVersion"
        BY <1>1, <1>7, <2>2 DEF ExchangeInv, BeforePort
      <3>2. ProcessVersionCompatibility
        BY <3>1 DEF Callback, ProcessPortIdList, ProcessPortConfigList, ProcessIdList,
            ProcessDeviceGroupIdListSession, ProcessStreamIdListSession,
            ProcessConfigList, ProcessAck, ProcessModifyPortBuildAck,
            ProcessApplyBuildAck, ProcessUpdatedPortConfig, ProcessPortStatsList, Answered
      <3> QED
        BY <2>2, <3>2, VersionExchange
    <2> QED
      BY <2>1, <2>2
  <1> QED
    BY <1>3, <1>5, <1>6, <1>7, CallbackPort

\* What calls and messages are under way is what the state of the connection and of the
\* port calls for: the invariant behind the two theorems that follow (PortGroup's
\* callbacks, PbRpcChannel::on_mpSocket_disconnected).
THEOREM ExchangeHolds == Spec => []ExchangeInv
  <1>1. Init => ExchangeInv
    <2> SUFFICES ASSUME Init
                 PROVE  ExchangeInv
      OBVIOUS
    <2>1. ExchangeType
      BY EmptyIsSeq, NoPortType DEF Init, ExchangeType
    <2>2. ~port.up
      BY DEF Init, NoPort
    <2>3. OneReply /\ CfgAnswered
      BY EmptyHasNone DEF Init, OneReply, CfgAnswered
    <2> QED
      BY <2>1, <2>2, <2>3 DEF Init, ExchangeInv, OffEmpty, BeforePort, Checking, Refused,
          Notified, CfgKnown
  <1>2. ASSUME ExchangeInv, [Next]_vars
        PROVE  ExchangeInv'
    <2>1. IsSeq(calls) /\ PortType /\ notify \in BOOLEAN /\ "cfg" \in DOMAIN drone
      BY <1>2 DEF ExchangeInv, ExchangeType
    <2>2. CASE UNCHANGED vars
      BY <1>2, <2>2, SameExchange DEF vars, net, local, wire
    <2>3. CASE UserConnect \/ ReconnectTimeout \/ OnError
      <3>1. UNCHANGED <<port, calls, inbox, notify, drone>>
        BY <2>3 DEF UserConnect, ReconnectTimeout, OnError, local, wire
      <3>2. CASE sock' = sock
        BY <1>2, <3>1, <3>2, SameExchange
      <3>3. CASE sock' # sock
        <4>1. sock # "connected" /\ sock' # "connected"
          BY <2>3, <3>3 DEF UserConnect, ReconnectTimeout, OnError
        <4> QED
          BY <1>2, <2>1, <3>1, <4>1, DisconnectedExchange DEF ExchangeInv, OffEmpty
      <3> QED
        BY <3>2, <3>3
    <2>4. CASE OnConnected
      BY <1>2, <2>4, ConnectedExchange
    <2>5. CASE RemoteClosed
      <3>1. "cfg" \in DOMAIN drone'
        BY <2>1, <2>5 DEF RemoteClosed
      <3> QED
        BY <2>1, <2>5, <3>1, DisconnectedExchange DEF RemoteClosed, HangUp
    <2>6. CASE NetworkError
      BY <2>1, <2>6, DisconnectedExchange DEF NetworkError, HangUp
    <2>7. CASE UserDisconnect
      <3>1. CASE sock = "connected"
        BY <2>1, <2>7, <3>1, DisconnectedExchange DEF UserDisconnect, HangUp
      <3>2. CASE sock # "connected"
        BY <1>2, <2>7, <3>2, SameExchange DEF UserDisconnect, local, wire
      <3> QED
        BY <3>1, <3>2
    <2>8. CASE User
      <3>1. PortStays /\ Asked /\ UNCHANGED <<sock, inbox, notify, drone>>
        BY <2>1, <2>8, UserStep DEF net
      <3> QED
        BY <1>2, <3>1, AskedExchange DEF Asked, NewCalls
    <2>9. CASE PollStats
      <3>1. PICK c : calls' = Append(calls, c)
        BY <2>9 DEF PollStats
      <3>2. IsSeq(<<c>>) /\ calls' = calls \o <<c>>
        BY <2>1, <3>1, OneIsSeq, AppendIsOne
      <3>3. PortStays /\ UNCHANGED <<sock, inbox, notify, drone>>
        BY <2>1, <2>9 DEF PollStats, PortStays, PortType, net
      <3> QED
        BY <1>2, <3>2, <3>3, AskedExchange
    <2>10. CASE Drone
      BY <1>2, <2>10, DroneExchange
    <2>11. CASE TransmitEnds \/ OtherController
      BY <1>2, <2>11, OthersExchange
    <2>12. CASE OnNotification
      BY <1>2, <2>12, NotificationExchange
    <2>13. CASE Callback /\ ~OnNotification
      BY <1>2, <2>13, CallbackExchange
    <2> QED
      BY <1>2, <2>2, <2>3, <2>4, <2>5, <2>6, <2>7, <2>8, <2>9, <2>10, <2>11, <2>12, <2>13
         DEF Next, Connection
  <1> QED
    BY <1>1, <1>2, PTL DEF Spec

\* The callbacks index mPorts[] with what an answer says (processPortConfigList and the
\* others): the port is there when the answer is read.
THEOREM CallbackHasPortHolds == Spec => []CallbackHasPort
  <1>1. ExchangeInv => CallbackHasPort
    <2> SUFFICES ASSUME ExchangeInv, inbox # <<>>, inbox[1].t = "reply"
                 PROVE  calls # <<>>
                          /\ (calls[1].op \notin {"checkVersion", "portIds"} => port.up)
      BY DEF CallbackHasPort
    <2>1. 1 \in DOMAIN inbox
      BY FirstStays DEF ExchangeInv, ExchangeType
    <2> QED
      BY <2>1 DEF ExchangeInv, OneReply, BeforePort
  <1> QED
    BY <1>1, ExchangeHolds, PTL

\* With nothing outstanding the configuration shown is the drone's: a change that came
\* before, during or after the fetch has been notified and asked for (on_rpcChannel_notification).
THEOREM PortConfigConvergesHolds == Spec => []PortConfigConverges
  <1>1. ExchangeInv => PortConfigConverges
    BY EmptyHasNone DEF ExchangeInv, CfgKnown, Told, CfgCalled, PortConfigConverges
  <1> QED
    BY <1>1, ExchangeHolds, PTL

-----------------------------------------------------------------------------
(* The copy follows the drone's port.  The operators are about a port p, calls *)
(* q, the data r of a reply that has come, if any, the drone's items g, and    *)
(* whether a session is still to be restored (at).                             *)

ChangeOps == {"add", "del", "mod"}
BuildOps == {"applyBuild", "modifyBuild"}

\* What the drone has answered and the controller has not read.
Data(s) == {x.data : x \in {y \in Range(s) : y.t = "reply"}}
Replies == Data(inbox)

\* The calls the drone has not taken.
Waiting(q, r) == IF r = {} THEN Range(q) ELSE Range(Tail(q))

Has(q, op, k) == \E c \in Range(q) : c.op = op /\ c.k = k
HasOp(q, ops) == \E c \in Range(q) : c.op \in ops

\* May a wait in front of b?
Fits(a, b, at, fetched) ==
    /\ a.op = "portCfg" => b.op \notin {"portCfg", "ids", "cfgs"} \cup ChangeOps
    /\ b.op = "portCfg" => a.op \notin {"ids", "cfgs"} \cup ChangeOps
    /\ a.op = "ids" /\ b.op = "ids" => a.k # b.k /\ a.k # "stream"
    /\ a.op = "ids" /\ ~at => b.op \notin ChangeOps
    /\ a.op = "cfgs" => b.op \notin ChangeOps
    /\ b.op = "cfgs" => a.op \notin ChangeOps
    /\ a.op = "cfgs" /\ ~fetched => ~(b.op = "ids" /\ b.k = "stream")
    /\ fetched /\ a.op = "applyBuild" => b.op \notin ChangeOps
    /\ fetched /\ a.op = "mod" => ~(b.op = "add" /\ b.k = a.k)

AllFit(q, at, fetched) == \A m, n \in DOMAIN q : m < n => Fits(q[m], q[n], at, fetched)

\* Ids the drone may use, and items of the copy.
IdSet(ids) == ids \subseteq Nat /\ IsFiniteSet(ids)
IsItem(x) == DOMAIN x = {"id", "cfg"} /\ x.id \in Nat
IsItems(items) == IsSeq(items) /\ \A n \in DOMAIN items : IsItem(items[n])

IsMap(f) == f = [i \in DOMAIN f |-> f[i]]
DroneType(g) == DOMAIN g = Kinds /\ \A k \in Kinds : IdSet(DOMAIN g[k]) /\ IsMap(g[k])
CopyType(p) ==
    /\ DOMAIN p = {"up", "fetched", "dirty", "tx", "cfg", "items", "last", "modified"}
    /\ p.up = TRUE /\ p.fetched \in BOOLEAN /\ p.dirty \in BOOLEAN
    /\ DOMAIN p.items = Kinds /\ DOMAIN p.last = Kinds /\ DOMAIN p.modified = Kinds
    /\ \A k \in Kinds : IsItems(p.items[k])
CallType(c) ==
    /\ c.op \in {"ids", "cfgs"} \cup ChangeOps => c.k \in Kinds
    /\ c.op = "add" => IdSet(c.arg.ids)

\* What holds of the data whatever the user does and does not wait for.
CountersType ==
    nextId \in [Kinds -> Nat] /\ atConnect \in BOOLEAN /\ (atConnect => Session # NoSession)
DroneTyped == DOMAIN drone = {"items", "cfg", "tx"} /\ DroneType(drone.items)
PortTyped == port = NoPort \/ CopyType(port)
CallsTyped == \A c \in Range(calls) : CallType(c)
RepliesTyped == \A d \in Replies : calls[1].op = "ids" => IdSet(d.ids)
SyncType == CountersType /\ DroneTyped /\ PortTyped /\ CallsTyped /\ RepliesTyped

\* Two builds are never outstanding, and while one is the window is disabled.
Once(q) == \A m, n \in DOMAIN q : m < n => ~(q[m].op \in BuildOps /\ q[n].op \in BuildOps)
OneBuild == Once(calls) /\ (HasOp(calls, BuildOps) => ~window)

\* Without a port its ids are asked for, and nothing about its contents.
Alone ==
    /\ ~port.up => ~atConnect /\ \A n \in DOMAIN calls : n # 1 => calls[n].op = "newCfg"
    /\ port.up => ~HasOp(calls, {"checkVersion", "portIds"})

Blank(p, k) == p.items[k] = <<>> /\ p.last[k] = {} /\ p.modified[k] = {}

\* Items have ids of their own, below the next to be given.
Unique(items) == \A m, n \in DOMAIN items : items[m].id = items[n].id => m = n
Distinct(items, next) ==
    /\ Unique(items)
    /\ \A n \in DOMAIN items : items[n].id < next

\* The list of the items has arrived, and is not to be asked for again.
Listed(q, at, k) == ~at /\ ~HasOp(q, {"portCfg"}) /\ ~Has(q, "ids", k)

\* Where the fetch of the lists stands.
Fetching(p, q, g, at) ==
    /\ HasOp(q, {"portCfg"}) => ~p.fetched /\ ~at /\ \A k \in Kinds : Blank(p, k)
    /\ at => ~p.fetched /\ ~HasOp(q, {"cfgs"}) /\ \A k \in Kinds : Blank(p, k)
    /\ \A k \in Kinds : Has(q, "ids", k) => ~p.fetched /\ Blank(p, k) /\ Has(q, "ids", "stream")
    /\ HasOp(q, {"cfgs"}) /\ ~p.fetched => Has(q, "ids", "stream")
    /\ \A c \in Range(q) : c.op = "cfgs" => c.arg.ids = DOMAIN g[c.k]

\* What the drone has answered it still has.
Replied(c, d, g) ==
    /\ c.op = "ids" => d.ids = DOMAIN g[c.k]
    /\ c.op = "cfgs" => /\ DOMAIN d.items = DOMAIN g[c.k]
                        /\ \A i \in DOMAIN g[c.k] : d.items[i] = g[c.k][i]

\* The ids of the drone's device groups have arrived, and not those of its streams.
ListedFirst(p, q, g, k) ==
    /\ ~HasOp(q, ChangeOps)
    /\ Ids(p.items[k]) = DOMAIN g[k]
    /\ p.items[k] # <<>> => Has(q, "cfgs", k)
    /\ p.last[k] \subseteq Ids(p.items[k]) /\ p.modified[k] = {}

\* Nothing is being applied: items nobody has touched are the drone's.
Untouched(p, k) == Ids(p.items[k]) = p.last[k] /\ p.modified[k] = {}
Followed(p, q, g, k) ==
    /\ DOMAIN g[k] = p.last[k]
    /\ \A n \in DOMAIN p.items[k] :
          p.items[k][n].id \in p.last[k] \/ p.items[k][n].id \in p.modified[k]
    /\ ~Has(q, "cfgs", k) =>
          \A n \in DOMAIN p.items[k] :
              LET x == p.items[k][n]
              IN  x.id \in p.last[k] /\ x.id \notin p.modified[k] => x.cfg = g[k][x.id]
    /\ ~p.dirty \/ HasOp(q, {"applyBuild"}) => Untouched(p, k)

\* A change of the item i, of kind k, is on its way.
About(c) == IF c.op = "mod" THEN DOMAIN c.arg.items ELSE c.arg.ids
Coming(w, op, k, i) == \E c \in w : c.op = op /\ c.k = k /\ i \in About(c)

\* A change of items says what the copy does.
Says(c, items) ==
    /\ c.op \in {"add", "mod"} => About(c) \subseteq Ids(items)
    /\ c.op = "del" => About(c) \cap Ids(items) = {}
    /\ c.op = "mod" => \A n \in DOMAIN items :
                          items[n].id \in About(c) => c.arg.items[items[n].id] = items[n].cfg

\* The copy is being applied: where the drone differs from it a change is on its way.
Applied(items, w, f, k) ==
    /\ \A n \in DOMAIN items :
          LET x == items[n]
          IN  /\ x.id \in DOMAIN f \/ Coming(w, "add", k, x.id)
              /\ (x.id \in DOMAIN f /\ f[x.id] = x.cfg) \/ Coming(w, "mod", k, x.id)
    /\ \A i \in DOMAIN f : i \in Ids(items) \/ Coming(w, "del", k, i)
    /\ \A c \in w : c.op \in ChangeOps /\ c.k = k => Says(c, items)

Following(p, q, r, g) ==
    \/ ~HasOp(q, ChangeOps) /\ \A k \in Kinds : Followed(p, q, g, k)
    \/ /\ HasOp(q, {"applyBuild"}) /\ ~HasOp(q, {"cfgs"})
       /\ \A k \in Kinds : Applied(p.items[k], Waiting(q, r), g[k], k)

Sync(p, q, r, g, at) ==
    /\ Fetching(p, q, g, at) /\ AllFit(q, at, p.fetched)
    /\ \A d \in r : Replied(q[1], d, g)
    /\ ~p.fetched => \A k \in Kinds : Listed(q, at, k) => ListedFirst(p, q, g, k)
    /\ p.fetched => Following(p, q, r, g)

\* Without an excuse.
Together ==
    port.up /\ excuse = {} =>
        /\ Sync(port, calls, Replies, drone.items, atConnect)
        /\ \A k \in Kinds : Distinct(port.items[k], nextId[k])

SyncInv == SyncType /\ OneBuild /\ Alone /\ Together

-----------------------------------------------------------------------------
(* The elements of queues.                                                    *)

\* What a queue has when more is put behind it.
LEMMA RangeConcat ==
    ASSUME NEW s, NEW t, IsSeq(s), IsSeq(t)
    PROVE  Range(s \o t) = Range(s) \cup Range(t)
  <1>0. /\ IsSeq(s \o t) /\ Len(s \o t) = Len(s) + Len(t)
        /\ \A n \in DOMAIN s : (s \o t)[n] = s[n]
        /\ \A n \in DOMAIN t : (s \o t)[Len(s) + n] = t[n]
    BY Concat
  <1> DEFINE w == s \o t
  <1>1. /\ IsSeq(w) /\ Len(w) = Len(s) + Len(t)
        /\ \A n \in DOMAIN s : w[n] = s[n]
        /\ \A n \in DOMAIN t : w[Len(s) + n] = t[n]
    BY <1>0
  <1>2. /\ Len(s) \in Nat /\ DOMAIN s = 1 .. Len(s) /\ Len(t) \in Nat /\ DOMAIN t = 1 .. Len(t)
        /\ DOMAIN w = 1 .. Len(s) + Len(t)
    BY <1>1, SeqLength
  <1> HIDE DEF w
  <1>3. ASSUME NEW n \in DOMAIN w PROVE w[n] \in Range(s) \cup Range(t)
    <2>1. CASE n \in DOMAIN s
      BY <2>1, <1>1 DEF Range
    <2>2. CASE n - Len(s) \in DOMAIN t
      <3>1. Len(s) + (n - Len(s)) = n
        BY <1>2
      <3>2. w[n] = t[n - Len(s)]
        BY <2>2, <3>1, <1>1
      <3> QED
        BY <2>2, <3>2 DEF Range
    <2>3. n \in DOMAIN s \/ n - Len(s) \in DOMAIN t
      BY <1>2
    <2> QED
      BY <2>1, <2>2, <2>3
  <1>4. ASSUME NEW n \in DOMAIN s PROVE s[n] \in Range(w)
    <2>1. n \in DOMAIN w
      BY <1>2
    <2> QED
      BY <2>1, <1>1 DEF Range
  <1>5. ASSUME NEW n \in DOMAIN t PROVE t[n] \in Range(w)
    <2>1. Len(s) + n \in DOMAIN w
      BY <1>2
    <2> QED
      BY <2>1, <1>1 DEF Range
  <1>6. Range(w) \subseteq Range(s) \cup Range(t)
    BY <1>3 DEF Range
  <1>7. Range(s) \subseteq Range(w) /\ Range(t) \subseteq Range(w)
    BY <1>4, <1>5 DEF Range
  <1> QED
    BY <1>6, <1>7 DEF w

\* The first of a queue, and the others.
LEMMA RangeTail ==
    ASSUME NEW s, IsSeq(s), s # <<>>
    PROVE  Range(s) = {s[1]} \cup Range(Tail(s)) /\ 1 \in DOMAIN s
  <1> DEFINE w == Tail(s)
  <1>1. /\ \A n \in DOMAIN w : n + 1 \in DOMAIN s /\ w[n] = s[n + 1]
        /\ \A n \in DOMAIN s : n # 1 => n - 1 \in DOMAIN w /\ w[n - 1] = s[n]
    BY TailOf
  <1> HIDE DEF w
  <1>2. 1 \in DOMAIN s
    <2>1. Len(s) \in Nat /\ DOMAIN s = 1 .. Len(s) /\ Len(s) # 0
      BY SeqLength
    <2> QED
      BY <2>1
  <1>3. Range(s) \subseteq {s[1]} \cup Range(w)
    BY <1>1 DEF Range
  <1>4. Range(w) \subseteq Range(s) /\ s[1] \in Range(s)
    BY <1>1, <1>2 DEF Range
  <1> QED
    BY <1>2, <1>3, <1>4 DEF w

\* Queues of no and of one call.
LEMMA RangeOne ==
    /\ Range(<<>>) = {}
    /\ \A c : Range(<<c>>) = {c}
  <1>1. Range(<<>>) = {}
    BY EmptyIsSeq, SeqLength DEF Range
  <1>2. ASSUME NEW c PROVE Range(<<c>>) = {c}
    <2>1. Len(<<c>>) = 1 /\ <<c>>[1] = c /\ DOMAIN <<c>> = 1 .. Len(<<c>>)
      BY OneIsSeq, SeqLength
    <2>2. DOMAIN <<c>> = {1}
      BY <2>1
    <2> QED
      BY <2>1, <2>2 DEF Range
  <1> QED
    BY <1>1, <1>2

\* The elements are at places.
LEMMA RangeAt ==
    /\ \A s : \A n \in DOMAIN s : s[n] \in Range(s)
    /\ \A s : \A c \in Range(s) : \E n \in DOMAIN s : s[n] = c
  BY DEF Range

Before(s, a, b) == \E m, n \in DOMAIN s : m < n /\ s[m] = a /\ s[n] = b

\* One before another in a queue: in one of its parts, or across.
LEMMA BeforeConcat ==
    ASSUME NEW s, NEW t, NEW w, NEW a, NEW b, IsSeq(s), IsSeq(t), w = s \o t, Before(w, a, b)
    PROVE  Before(s, a, b) \/ Before(t, a, b) \/ (a \in Range(s) /\ b \in Range(t))
  <1>0. /\ IsSeq(s \o t) /\ Len(s \o t) = Len(s) + Len(t)
        /\ \A n \in DOMAIN s : (s \o t)[n] = s[n]
        /\ \A n \in DOMAIN t : (s \o t)[Len(s) + n] = t[n]
    BY Concat
  <1>1. /\ IsSeq(w) /\ Len(w) = Len(s) + Len(t)
        /\ \A n \in DOMAIN s : w[n] = s[n]
        /\ \A n \in DOMAIN t : w[Len(s) + n] = t[n]
    BY <1>0, Zenon
  <1>2. /\ Len(s) \in Nat /\ DOMAIN s = 1 .. Len(s) /\ Len(t) \in Nat /\ DOMAIN t = 1 .. Len(t)
        /\ DOMAIN w = 1 .. Len(s) + Len(t)
    BY <1>1, SeqLength
  <1>3. PICK m \in DOMAIN w, n \in DOMAIN w : m < n /\ w[m] = a /\ w[n] = b
    BY DEF Before
  <1>4. ASSUME NEW i \in DOMAIN w, i \notin DOMAIN s
        PROVE  i - Len(s) \in DOMAIN t /\ w[i] = t[i - Len(s)]
    <2>1. i - Len(s) \in DOMAIN t /\ Len(s) + (i - Len(s)) = i
      BY <1>2, <1>4
    <2> QED
      BY <2>1, <1>1
  <1>5. CASE n \in DOMAIN s
    <2>1. m \in DOMAIN s
      BY <1>2, <1>3, <1>5
    <2> QED
      BY <2>1, <1>1, <1>3, <1>5 DEF Before
  <1>6. CASE m \in DOMAIN s /\ n \notin DOMAIN s
    BY <1>1, <1>3, <1>4, <1>6, RangeAt
  <1>7. CASE m \notin DOMAIN s /\ n \notin DOMAIN s
    <2>1. m - Len(s) < n - Len(s)
      BY <1>2, <1>3
    <2> QED
      BY <2>1, <1>3, <1>4, <1>7 DEF Before
  <1> QED
    BY <1>5, <1>6, <1>7

\* Calls that fit are put behind others that fit.
LEMMA FitConcat ==
    ASSUME NEW s, NEW t, NEW at, NEW f, IsSeq(s), IsSeq(t), AllFit(s, at, f), AllFit(t, at, f),
           \A a \in Range(s), b \in Range(t) : Fits(a, b, at, f)
    PROVE  AllFit(s \o t, at, f)
  <1> DEFINE w == s \o t
  <1>1. ASSUME NEW m \in DOMAIN w, NEW n \in DOMAIN w, m < n
        PROVE  Fits(w[m], w[n], at, f)
    <2> DEFINE a == w[m]
               b == w[n]
    <2>1. Before(w, a, b)
      BY <1>1 DEF Before
    <2> HIDE DEF a, b
    <2>2. Before(s, a, b) \/ Before(t, a, b) \/ (a \in Range(s) /\ b \in Range(t))
      BY <2>1, BeforeConcat
    <2>3. Fits(a, b, at, f)
      BY <2>2 DEF Before, AllFit
    <2> QED
      BY <2>3 DEF a, b
  <1> QED
    BY <1>1 DEF AllFit

\* At most one build is asked for.
LEMMA OnceConcat ==
    ASSUME NEW s, NEW t, IsSeq(s), IsSeq(t), Once(s), Once(t),
           ~HasOp(s, BuildOps) \/ ~HasOp(t, BuildOps)
    PROVE  Once(s \o t)
  <1> DEFINE w == s \o t
  <1>1. ASSUME NEW m \in DOMAIN w, NEW n \in DOMAIN w, m < n
        PROVE  ~(w[m].op \in BuildOps /\ w[n].op \in BuildOps)
    <2> DEFINE a == w[m]
               b == w[n]
    <2>1. Before(w, a, b)
      BY <1>1 DEF Before
    <2> HIDE DEF a, b
    <2>2. Before(s, a, b) \/ Before(t, a, b) \/ (a \in Range(s) /\ b \in Range(t))
      BY <2>1, BeforeConcat
    <2>3. ~(a.op \in BuildOps /\ b.op \in BuildOps)
      BY <2>2 DEF Before, Once, HasOp
    <2> QED
      BY <2>3 DEF a, b
  <1> QED
    BY <1>1 DEF Once

\* And when it is answered, none.
LEMMA OnceTail ==
    ASSUME NEW s, IsSeq(s), s # <<>>, Once(s)
    PROVE  Once(Tail(s)) /\ (s[1].op \in BuildOps => ~HasOp(Tail(s), BuildOps))
  <1> DEFINE w == Tail(s)
  <1>1. IsSeq(w) /\ \A n \in DOMAIN w : n + 1 \in DOMAIN s /\ w[n] = s[n + 1]
    BY TailOf
  <1>2. Len(w) \in Nat /\ DOMAIN w = 1 .. Len(w) /\ 1 \in DOMAIN s
    BY <1>1, SeqLength, RangeTail
  <1> HIDE DEF w
  <1>3. ASSUME NEW m \in DOMAIN w, NEW n \in DOMAIN w, m < n
        PROVE  ~(w[m].op \in BuildOps /\ w[n].op \in BuildOps)
    <2>1. m + 1 < n + 1
      BY <1>2, <1>3
    <2> QED
      BY <2>1, <1>1 DEF Once
  <1>4. ASSUME s[1].op \in BuildOps, NEW n \in DOMAIN w PROVE w[n].op \notin BuildOps
    <2>1. 1 < n + 1
      BY <1>2
    <2> QED
      BY <2>1, <1>1, <1>2, <1>4 DEF Once
  <1> QED
    BY <1>3, <1>4 DEF Once, HasOp, Range, w

\* One call is once.
LEMMA OnceOne == Once(<<>>) /\ \A c : Once(<<c>>)
  <1>1. \A c : DOMAIN <<c>> = {1}
    BY OneIsSeq, SeqLength, 1 .. 1 = {1}
  <1>2. \A c : Once(<<c>>)
    BY <1>1 DEF Once
  <1> QED
    BY <1>2, EmptyHasNone DEF Once

\* The first fits in front of the others, and they stay as they are.
LEMMA FitTail ==
    ASSUME NEW s, NEW at, NEW f, IsSeq(s), s # <<>>, AllFit(s, at, f)
    PROVE  AllFit(Tail(s), at, f) /\ \A b \in Range(Tail(s)) : Fits(s[1], b, at, f)
  <1> DEFINE w == Tail(s)
  <1>1. IsSeq(w) /\ \A n \in DOMAIN w : n + 1 \in DOMAIN s /\ w[n] = s[n + 1]
    BY TailOf
  <1>2. Len(w) \in Nat /\ DOMAIN w = 1 .. Len(w) /\ 1 \in DOMAIN s
    BY <1>1, SeqLength, RangeTail
  <1> HIDE DEF w
  <1>3. ASSUME NEW m \in DOMAIN w, NEW n \in DOMAIN w, m < n PROVE Fits(w[m], w[n], at, f)
    <2>1. m + 1 < n + 1
      BY <1>2, <1>3
    <2> QED
      BY <2>1, <1>1 DEF AllFit
  <1>4. ASSUME NEW n \in DOMAIN w PROVE Fits(s[1], w[n], at, f)
    <2>1. 1 < n + 1
      BY <1>2
    <2> QED
      BY <2>1, <1>1, <1>2 DEF AllFit
  <1> QED
    BY <1>3, <1>4 DEF AllFit, Range, w

\* One call fits.
LEMMA FitOne ==
    ASSUME NEW at, NEW f
    PROVE  AllFit(<<>>, at, f) /\ \A c : AllFit(<<c>>, at, f)
  <1>1. DOMAIN <<>> = {}
    <2>1. DOMAIN <<>> = 1 .. Len(<<>>) /\ Len(<<>>) = 0
      BY EmptyIsSeq, SeqLength
    <2> QED
      BY <2>1
  <1>2. ASSUME NEW c PROVE AllFit(<<c>>, at, f)
    <2>1. Len(<<c>>) = 1 /\ DOMAIN <<c>> = 1 .. Len(<<c>>)
      BY OneIsSeq, SeqLength
    <2> QED
      BY <2>1 DEF AllFit
  <1> QED
    BY <1>1, <1>2 DEF AllFit

-----------------------------------------------------------------------------
(* Finite sets of ids.                                                        *)

\* A finite set of numbers has a greatest: one of the least cardinality that had none would
\* have none without one of its numbers.
LEMMA FiniteMax ==
    ASSUME NEW S, S \subseteq Nat, IsFiniteSet(S), S # {}
    PROVE  Max(S) \in S /\ \A y \in S : Max(S) >= y
  <1> DEFINE Great(U) == \E x \in U : \A y \in U : x >= y
             B == {n \in Nat : \E U \in SUBSET Nat :
                      IsFiniteSet(U) /\ Cardinality(U) = n /\ U # {} /\ ~Great(U)}
  <1>1. B = {}
    <2> SUFFICES ASSUME B # {} PROVE FALSE
      OBVIOUS
    <2>1. PICK n \in B : \A m \in B : ~(<<m, n>> \in OpToRel(<, Nat))
      <3>1. B \subseteq Nat
        OBVIOUS
      <3> HIDE DEF B
      <3> QED
        BY <3>1, NatLessThanWellFounded, WFMin
    <2>2. n \in Nat /\ \A m \in Nat : m < n => m \notin B
      BY <2>1 DEF OpToRel
    <2>3. PICK U \in SUBSET Nat : IsFiniteSet(U) /\ Cardinality(U) = n /\ U # {} /\ ~Great(U)
      OBVIOUS
    <2>4. PICK x \in U : TRUE
      BY <2>3
    <2> DEFINE V == U \ {x}
    <2>5. IsFiniteSet(V) /\ Cardinality(V) = n - 1 /\ V \in SUBSET Nat
      BY <2>3, <2>4, FS_RemoveElement
    <2>6. n - 1 \in Nat
      BY <2>5, FS_CardinalityType
    <2>7. n - 1 \notin B
      BY <2>2, <2>6
    <2>8. Great(V) \/ V = {}
      BY <2>5, <2>6, <2>7
    <2>9. CASE V = {}
      <3>1. \A y \in U : y = x
        BY <2>9
      <3>2. x \in Nat
        BY <2>4
      <3>3. Great(U)
        BY <2>4, <3>1, <3>2
      <3> QED
        BY <2>3, <3>3
    <2>10. CASE Great(V)
      <3>1. PICK z \in V : \A y \in V : z >= y
        BY <2>10
      <3>2. x \in Nat /\ z \in Nat /\ U \subseteq Nat /\ z \in U /\ \A y \in U : y \in V \/ y = x
        BY <2>4
      <3>3. CASE z >= x
        <4>1. \A y \in U : z >= y
          BY <3>1, <3>2, <3>3
        <4>2. Great(U)
          BY <3>2, <4>1
        <4> QED
          BY <2>3, <4>2
      <3>4. CASE ~(z >= x)
        <4>1. ASSUME NEW y \in U PROVE x >= y
          <5>1. y \in Nat /\ (y = x \/ z >= y)
            BY <3>1, <3>2
          <5> QED
            BY <5>1, <3>2, <3>4
        <4>2. Great(U)
          BY <2>4, <4>1
        <4> QED
          BY <2>3, <4>2
      <3> QED
        BY <3>3, <3>4
    <2> QED
      BY <2>8, <2>9, <2>10
  <1>2. Cardinality(S) \in Nat /\ Cardinality(S) \notin B
    BY <1>1, FS_CardinalityType
  <1>3. Great(S)
    BY <1>2
  <1> QED
    BY <1>3 DEF Max

\* The ids of items of a list are a set the drone may use.
LEMMA IdsOfItems ==
    ASSUME NEW items, IsItems(items)
    PROVE  IdSet(Ids(items))
  <1>1. IsSeq(items) /\ \A n \in DOMAIN items : IsItem(items[n])
    BY DEF IsItems
  <1>2. Len(items) \in Nat /\ DOMAIN items = 1 .. Len(items)
    BY <1>1, SeqLength
  <1> DEFINE f == [n \in DOMAIN items |-> items[n].id]
  <1>3. f \in Surjection(DOMAIN items, Ids(items))
    BY DEF Surjection, Ids
  <1>4. IsFiniteSet(DOMAIN items)
    BY <1>2, FS_Interval
  <1>5. IsFiniteSet(Ids(items))
    BY <1>3, <1>4, FS_Surjection
  <1>6. Ids(items) \subseteq Nat
    BY <1>1 DEF Ids, IsItem
  <1> QED
    BY <1>5, <1>6 DEF IdSet

\* insertStream() and insertDeviceGroup() leave the counter of ids above those inserted.
LEMMA NextIdIsNext ==
    ASSUME NEW k \in Kinds, nextId[k] \in Nat, NEW ids, IdSet(ids)
    PROVE  /\ NextIdAfter(k, ids) \in Nat /\ NextIdAfter(k, ids) >= nextId[k]
           /\ \A i \in ids : i < NextIdAfter(k, ids)
  <1> DEFINE f == [i \in ids |-> i + 1]
             S == {i + 1 : i \in ids}
             T == S \cup {nextId[k]}
  <1>1. f \in Surjection(ids, S)
    BY DEF Surjection
  <1>2. IsFiniteSet(S)
    BY <1>1, FS_Surjection DEF IdSet
  <1>3. IsFiniteSet(T) /\ T # {} /\ T \subseteq Nat
    <2>1. IsFiniteSet(T)
      <3> HIDE DEF S
      <3> QED
        BY <1>2, FS_AddElement
    <2>2. S \subseteq Nat
      <3>1. \A i \in ids : i \in Nat
        BY DEF IdSet
      <3>2. \A i \in ids : i + 1 \in Nat
        BY <3>1
      <3> QED
        BY <3>2
    <2> HIDE DEF S
    <2> QED
      BY <2>1, <2>2
  <1>4. NextIdAfter(k, ids) = Max(T)
    <2>1. T = {nextId[k]} \cup {i + 1 : i \in ids}
      OBVIOUS
    <2> QED
      BY <2>1 DEF NextIdAfter
  <1>5. Max(T) \in T /\ \A y \in T : Max(T) >= y
    <2> HIDE DEF T
    <2> QED
      BY <1>3, FiniteMax
  <1> DEFINE m == Max(T)
  <1>6. m \in Nat /\ m >= nextId[k] /\ \A i \in ids : m >= i + 1
    BY <1>3, <1>5
  <1> HIDE DEF m
  <1>7. \A i \in ids : i < m
    BY <1>6 DEF IdSet
  <1> QED
    BY <1>4, <1>6, <1>7 DEF m

\* The items inserted for ids are those of the ids, one each.
LEMMA AsItemsAre ==
    ASSUME NEW ids, IdSet(ids)
    PROVE  /\ IsItems(AsItems(ids)) /\ Ids(AsItems(ids)) = ids
           /\ \A m, n \in DOMAIN AsItems(ids) : AsItems(ids)[m].id = AsItems(ids)[n].id => m = n
  <1> DEFINE s == SetToSeq(ids)
             c == Cardinality(ids)
             a == AsItems(ids)
  <1>1. c \in Nat /\ ExistsBijection(1 .. c, ids) /\ IsFiniteSet(ids) /\ ids \subseteq Nat
    BY FS_CardinalityType DEF IdSet
  <1>2. \E f \in [1 .. c -> ids] : IsInjective(f)
    <2>1. PICK f \in Bijection(1 .. c, ids) : TRUE
      BY <1>1 DEF ExistsBijection
    <2> HIDE DEF c
    <2>2. f \in Injection(1 .. c, ids)
      BY <2>1 DEF Bijection
    <2> QED
      BY <2>2 DEF Injection
  <1>3. s \in [1 .. c -> ids] /\ IsInjective(s)
    BY <1>2 DEF SetToSeq
  <1>4. s \in Injection(1 .. c, ids)
    BY <1>3 DEF Injection, IsInjective
  <1>5. s \in Surjection(1 .. c, ids)
    <2>1. IsFiniteSet(1 .. c) /\ Cardinality(1 .. c) = c
      <3>1. 1 \in Int /\ c \in Int
        BY <1>1
      <3>2. Cardinality(1 .. c) = (IF 1 > c THEN 0 ELSE c - 1 + 1) /\ IsFiniteSet(1 .. c)
        BY <3>1, FS_Interval
      <3> QED
        BY <3>2, <1>1
    <2> HIDE DEF c, s
    <2> QED
      BY <1>1, <1>4, <2>1, FS_Injection DEF c
  <1>6. /\ DOMAIN s = 1 .. c /\ (\A m, n \in 1 .. c : s[m] = s[n] => m = n)
        /\ (\A n \in 1 .. c : s[n] \in ids) /\ (\A i \in ids : \E n \in 1 .. c : s[n] = i)
    BY <1>3, <1>5 DEF IsInjective, Surjection
  <1>7. a = [n \in 1 .. c |-> [id |-> s[n], cfg |-> Default]]
    BY <1>6 DEF AsItems
  <1> HIDE DEF s, c, a
  <1>8. IsSeq(a)
    <2>1. a \in Seq({a[n] : n \in 1 .. c})
      BY <1>1, <1>7
    <2> QED
      BY <2>1, SeqIsSeq
  <1>9. DOMAIN a = 1 .. c /\ \A n \in 1 .. c : a[n].id = s[n] /\ DOMAIN a[n] = {"id", "cfg"}
    BY <1>7
  <1>10. IsItems(a)
    BY <1>1, <1>6, <1>8, <1>9 DEF IsItems, IsItem
  <1>11. Ids(a) = ids
    BY <1>6, <1>9 DEF Ids
  <1> QED
    BY <1>6, <1>9, <1>10, <1>11 DEF a

-----------------------------------------------------------------------------
(* Calls that do not concern the copy.                                        *)

\* What concerns the copy, of what is asked and of what the answers do.
CopyOps == {"portCfg", "ids", "cfgs", "applyBuild"}

\* What is left when the first of several calls is taken.
LEMMA TailConcat ==
    ASSUME NEW s, NEW t, IsSeq(s), IsSeq(t), s # <<>>
    PROVE  Tail(s \o t) = Tail(s) \o t /\ (s \o t)[1] = s[1] /\ s \o t # <<>>
  <1> DEFINE S == Range(s) \cup Range(t)
  <1>1. s \in Seq(S) /\ t \in Seq(S)
    BY SeqMonotonic DEF IsSeq
  <1> HIDE DEF S
  <1> SUFFICES ASSUME NEW a \in Seq(S), NEW b \in Seq(S), a # <<>>
               PROVE  Tail(a \o b) = Tail(a) \o b /\ (a \o b)[1] = a[1] /\ a \o b # <<>>
    BY <1>1
  <1> QED
    OBVIOUS

\* More calls wait when more are made.
LEMMA WaitingConcat ==
    ASSUME NEW q, NEW new, NEW r, IsSeq(q), IsSeq(new), r # {} => q # <<>>
    PROVE  Waiting(q \o new, r) = Waiting(q, r) \cup Range(new)
  <1>1. CASE r = {}
    BY <1>1, RangeConcat DEF Waiting
  <1>2. CASE r # {}
    <2>1. Tail(q \o new) = Tail(q) \o new /\ IsSeq(Tail(q))
      BY <1>2, TailConcat, TailOf
    <2>2. Range(Tail(q) \o new) = Range(Tail(q)) \cup Range(new)
      BY <2>1, RangeConcat
    <2> QED
      BY <1>2, <2>1, <2>2 DEF Waiting
  <1> QED
    BY <1>1, <1>2

\* Calls that do not concern the copy fit anywhere.
LEMMA OthersFit ==
    ASSUME NEW a, NEW b, NEW at, NEW f,
           a.op \notin CopyOps \cup ChangeOps \/ b.op \notin CopyOps \cup ChangeOps
    PROVE  Fits(a, b, at, f)
  BY DEF Fits, CopyOps, ChangeOps

\* Only what the operators look at of a port matters.
LEMMA SyncAlike ==
    ASSUME NEW p, NEW p2, NEW q, NEW r, NEW g, NEW at, Sync(p, q, r, g, at),
           p2.fetched = p.fetched, p2.dirty = p.dirty, p2.items = p.items, p2.last = p.last,
           p2.modified = p.modified
    PROVE  Sync(p2, q, r, g, at)
  <1>1. \A k : /\ Blank(p2, k) <=> Blank(p, k)
               /\ ListedFirst(p2, q, g, k) <=> ListedFirst(p, q, g, k)
               /\ Followed(p2, q, g, k) <=> Followed(p, q, g, k)
    BY DEF Blank, ListedFirst, Followed, Untouched
  <1>2. Fetching(p2, q, g, at)
    BY <1>1 DEF Sync, Fetching
  <1>3. Following(p, q, r, g) => Following(p2, q, r, g)
    BY <1>1 DEF Following
  <1> QED
    BY <1>1, <1>2, <1>3 DEF Sync

\* A call is taken that does not concern the copy, or whose effect the drone has seen.
LEMMA SyncTail ==
    ASSUME NEW p, NEW q, NEW r, NEW g, NEW at, IsSeq(q), q # <<>>, r # {}, Sync(p, q, r, g, at),
           q[1].op \notin CopyOps
    PROVE  Sync(p, Tail(q), {}, g, at)
  <1> DEFINE t == Tail(q)
  <1>1. IsSeq(t) /\ Range(q) = {q[1]} \cup Range(t)
    BY TailOf, RangeTail, Zenon
  <1>2. AllFit(t, at, p.fetched)
    BY FitTail DEF Sync
  <1>3. Waiting(q, r) = Range(t) /\ Waiting(t, {}) = Range(t)
    BY DEF Waiting
  <1> HIDE DEF t
  <1>4. /\ \A op \in CopyOps : HasOp(q, {op}) <=> HasOp(t, {op})
        /\ \A k : \A op \in CopyOps : Has(q, op, k) <=> Has(t, op, k)
        /\ HasOp(t, ChangeOps) => HasOp(q, ChangeOps)
        /\ Range(t) \subseteq Range(q)
    BY <1>1 DEF HasOp, Has
  <1>5. /\ HasOp(q, {"portCfg"}) <=> HasOp(t, {"portCfg"})
        /\ HasOp(q, {"cfgs"}) <=> HasOp(t, {"cfgs"})
        /\ HasOp(q, {"applyBuild"}) <=> HasOp(t, {"applyBuild"})
        /\ \A k : Has(q, "ids", k) <=> Has(t, "ids", k)
        /\ \A k : Has(q, "cfgs", k) <=> Has(t, "cfgs", k)
    BY <1>4 DEF CopyOps
  <1>6. Fetching(p, t, g, at)
    BY <1>4, <1>5 DEF Sync, Fetching
  <1>7. ASSUME ~p.fetched, NEW k \in Kinds, Listed(t, at, k) PROVE ListedFirst(p, t, g, k)
    <2>1. Listed(q, at, k)
      BY <1>5, <1>7 DEF Listed
    <2> QED
      BY <2>1, <1>4, <1>5, <1>7 DEF Sync, ListedFirst
  <1>8. ASSUME p.fetched PROVE Following(p, t, {}, g)
    <2>1. Following(p, q, r, g)
      BY <1>8 DEF Sync
    <2>2. \A k : Followed(p, q, g, k) => Followed(p, t, g, k)
      BY <1>5 DEF Followed
    <2> QED
      BY <2>1, <2>2, <1>3, <1>4, <1>5 DEF Following
  <1> QED
    BY <1>2, <1>6, <1>7, <1>8 DEF Sync, t

\* Calls are made that do not concern the copy.
LEMMA SyncConcat ==
    ASSUME NEW p, NEW q, NEW new, NEW r, NEW g, NEW at, IsSeq(q), IsSeq(new), r # {} => q # <<>>,
           Sync(p, q, r, g, at), \A c \in Range(new) : c.op \notin CopyOps \cup ChangeOps
    PROVE  Sync(p, q \o new, r, g, at)
  <1> DEFINE t == q \o new
  <1>1. IsSeq(t) /\ Range(t) = Range(q) \cup Range(new)
    BY Concat, RangeConcat, Zenon
  <1>2. AllFit(t, at, p.fetched)
    <2>1. AllFit(new, at, p.fetched)
      BY RangeAt, OthersFit DEF AllFit
    <2> QED
      BY <2>1, FitConcat, OthersFit DEF Sync
  <1>3. Waiting(t, r) = Waiting(q, r) \cup Range(new)
    BY WaitingConcat
  <1>4. r # {} => t[1] = q[1]
    BY TailConcat
  <1> HIDE DEF t
  <1>5. /\ \A op \in CopyOps : HasOp(q, {op}) <=> HasOp(t, {op})
        /\ \A k : \A op \in CopyOps : Has(q, op, k) <=> Has(t, op, k)
        /\ HasOp(t, ChangeOps) <=> HasOp(q, ChangeOps)
        /\ \A c \in Range(t) : c.op = "cfgs" => c \in Range(q)
    BY <1>1 DEF HasOp, Has, CopyOps
  <1>6. /\ HasOp(q, {"portCfg"}) <=> HasOp(t, {"portCfg"})
        /\ HasOp(q, {"cfgs"}) <=> HasOp(t, {"cfgs"})
        /\ HasOp(q, {"applyBuild"}) <=> HasOp(t, {"applyBuild"})
        /\ \A k : Has(q, "ids", k) <=> Has(t, "ids", k)
        /\ \A k : Has(q, "cfgs", k) <=> Has(t, "cfgs", k)
    BY <1>5 DEF CopyOps
  <1>7. Fetching(p, t, g, at)
    BY <1>5, <1>6 DEF Sync, Fetching
  <1>8. ASSUME ~p.fetched, NEW k \in Kinds, Listed(t, at, k) PROVE ListedFirst(p, t, g, k)
    <2>1. Listed(q, at, k)
      BY <1>6, <1>8 DEF Listed
    <2> QED
      BY <2>1, <1>5, <1>6, <1>8 DEF Sync, ListedFirst
  <1>9. ASSUME p.fetched PROVE Following(p, t, r, g)
    <2>1. Following(p, q, r, g)
      BY <1>9 DEF Sync
    <2>2. \A k : Followed(p, q, g, k) => Followed(p, t, g, k)
      BY <1>6 DEF Followed
    <2>3. ASSUME NEW k, Applied(p.items[k], Waiting(q, r), g[k], k)
          PROVE  Applied(p.items[k], Waiting(t, r), g[k], k)
      <3>1. \A op, i : Coming(Waiting(q, r), op, k, i) => Coming(Waiting(t, r), op, k, i)
        BY <1>3 DEF Coming
      <3>2. \A c \in Waiting(t, r) : c.op \in ChangeOps => c \in Waiting(q, r)
        BY <1>3
      <3> QED
        BY <2>3, <3>1, <3>2 DEF Applied
    <2> QED
      BY <2>1, <2>2, <2>3, <1>5, <1>6 DEF Following
  <1>10. \A d \in r : Replied(t[1], d, g)
    BY <1>4 DEF Sync
  <1> QED
    BY <1>2, <1>7, <1>8, <1>9, <1>10 DEF Sync, t

\* The drone answers a call that does not change its items.
LEMMA SyncServed ==
    ASSUME NEW p, NEW q, NEW d, NEW g, NEW at, IsSeq(q), q # <<>>, Sync(p, q, {}, g, at),
           q[1].op \notin ChangeOps, Replied(q[1], d, g)
    PROVE  Sync(p, q, {d}, g, at)
  <1> DEFINE v == Waiting(q, {})
             w == Waiting(q, {d})
  <1>1. v = {q[1]} \cup w
    BY RangeTail DEF Waiting
  <1> HIDE DEF v, w
  <1>2. ASSUME NEW k, Applied(p.items[k], v, g[k], k) PROVE Applied(p.items[k], w, g[k], k)
    <2>1. \A op \in ChangeOps : \A i : Coming(v, op, k, i) => Coming(w, op, k, i)
      BY <1>1 DEF Coming
    <2>2. "add" \in ChangeOps /\ "del" \in ChangeOps /\ "mod" \in ChangeOps
      BY DEF ChangeOps
    <2> QED
      BY <1>1, <1>2, <2>1, <2>2 DEF Applied
  <1>3. Following(p, q, {}, g) => Following(p, q, {d}, g)
    BY <1>2 DEF Following, v, w
  <1> QED
    BY <1>3 DEF Sync

-----------------------------------------------------------------------------
(* Fetching the lists.                                                        *)

\* Calls for the lists, in an order that fits.
Fetches(new) ==
    /\ IsSeq(new) /\ \A at, f : AllFit(new, at, f)
    /\ \A c \in Range(new) : c.op = "ids" /\ c.k \in Kinds
    /\ \A k \in Kinds : Has(new, "ids", k)

\* The lists of all kinds are asked for, that of the streams last.
LEMMA FetchesLists == Fetches(ForKinds([k \in Kinds |-> GetIds(k)]))
  <1> DEFINE D == Call("ids", "devgrp", Nothing)
             S == Call("ids", "stream", Nothing)
             dev == IF "devgrp" \in Kinds THEN <<D>> ELSE <<>>
             new == ForKinds([k \in Kinds |-> GetIds(k)])
  <1>1. new = dev \o <<S>>
    BY PortSyncAssumption DEF ForKinds, GetIds
  <1>2. /\ IsSeq(dev) /\ IsSeq(<<S>>) /\ Range(<<S>>) = {S}
        /\ Range(dev) = IF "devgrp" \in Kinds THEN {D} ELSE {}
    BY EmptyIsSeq, OneIsSeq, RangeOne
  <1>3. D.op = "ids" /\ D.k = "devgrp" /\ S.op = "ids" /\ S.k = "stream"
    BY DEF Call
  <1> HIDE DEF D, S, dev, new
  <1>4. IsSeq(new) /\ Range(new) = Range(dev) \cup {S}
    BY <1>1, <1>2, Concat, RangeConcat
  <1>5. ASSUME NEW at, NEW f PROVE AllFit(new, at, f)
    <2>1. AllFit(dev, at, f) /\ AllFit(<<S>>, at, f)
      BY FitOne DEF dev
    <2>2. Fits(D, S, at, f)
      BY <1>3 DEF Fits, ChangeOps
    <2> QED
      BY <1>1, <1>2, <2>1, <2>2, FitConcat
  <1>6. Kinds \subseteq {"stream", "devgrp"} /\ "stream" \in Kinds
    BY PortSyncAssumption
  <1>7. \A c \in Range(new) : c.op = "ids" /\ c.k \in Kinds
    BY <1>2, <1>3, <1>4, <1>6
  <1>8. \A k \in Kinds : Has(new, "ids", k)
    BY <1>2, <1>3, <1>4, <1>6 DEF Has
  <1> QED
    BY <1>4, <1>5, <1>7, <1>8 DEF Fetches, new

\* processPortConfigList(): nothing of the port's contents is known or asked for.
LEMMA SyncPortCfg ==
    ASSUME NEW p, NEW q, NEW r, NEW g, NEW at, NEW at2, NEW new, IsSeq(q), q # <<>>,
           Sync(p, q, r, g, at), q[1].op = "portCfg", Fetches(new)
    PROVE  Sync(p, Tail(q) \o new, {}, g, at2)
  <1> DEFINE t == Tail(q)
             w == t \o new
  <1>1. IsSeq(t) /\ Range(q) = {q[1]} \cup Range(t)
    BY TailOf, RangeTail, Zenon
  <1>2. /\ IsSeq(w) /\ Range(w) = Range(t) \cup Range(new)
    BY <1>1, Concat, RangeConcat DEF Fetches
  <1>3. ~p.fetched /\ \A k \in Kinds : Blank(p, k)
    BY <1>1 DEF Sync, Fetching, HasOp
  <1>4. /\ AllFit(t, at, p.fetched)
        /\ \A c \in Range(t) : c.op \notin {"portCfg", "ids", "cfgs"} \cup ChangeOps
    <2>1. AllFit(q, at, p.fetched)
      BY DEF Sync
    <2> QED
      BY <2>1, FitTail DEF Fits
  <1>5. AllFit(w, at2, p.fetched)
    <2>1. AllFit(t, at2, p.fetched)
      BY <1>4, RangeAt DEF AllFit, Fits
    <2>2. \A a \in Range(t), b \in Range(new) : Fits(a, b, at2, p.fetched)
      BY <1>4 DEF Fetches, Fits, ChangeOps
    <2> QED
      BY <1>1, <2>1, <2>2, FitConcat DEF Fetches
  <1> HIDE DEF t, w
  <1>6. /\ ~HasOp(w, {"portCfg"}) /\ ~HasOp(w, {"cfgs"})
        /\ \A c \in Range(w) : c.op # "cfgs"
    BY <1>2, <1>4 DEF HasOp, Fetches
  <1>7. \A k \in Kinds : Has(w, "ids", k)
    BY <1>2 DEF Has, Fetches
  <1>8. Fetching(p, w, g, at2)
    BY <1>3, <1>6, <1>7, PortSyncAssumption DEF Fetching
  <1> QED
    BY <1>3, <1>5, <1>7, <1>8 DEF Sync, Listed, w, t

\* processDeviceGroupIdList() with a session to restore.
LEMMA SyncSessionDevices ==
    ASSUME NEW p, NEW q, NEW r, NEW g, NEW new, IsSeq(q), q # <<>>, Sync(p, q, r, g, TRUE),
           q[1].op = "ids", q[1].k = "devgrp", q[1].k \in Kinds, IsSeq(new), AllFit(new, TRUE, p.fetched),
           \A c \in Range(new) : c.op = "del"
    PROVE  Sync(p, Tail(q) \o new, {}, g, TRUE)
  <1> DEFINE t == Tail(q)
             w == t \o new
  <1>1. IsSeq(t) /\ Range(q) = {q[1]} \cup Range(t)
    BY TailOf, RangeTail, Zenon
  <1>2. /\ IsSeq(w) /\ Range(w) = Range(t) \cup Range(new)
    BY <1>1, Concat, RangeConcat
  <1>3. /\ ~p.fetched /\ (\A k \in Kinds : Blank(p, k))
        /\ ~HasOp(q, {"portCfg"}) /\ ~HasOp(q, {"cfgs"}) /\ Has(q, "ids", "stream")
    <2>1. Has(q, "ids", q[1].k)
      BY <1>1 DEF Has
    <2> QED
      BY <2>1 DEF Sync, Fetching
  <1>4. \A c \in Range(t) : c.op \notin {"portCfg", "cfgs"}
    BY <1>1, <1>3 DEF HasOp
  <1>5. AllFit(w, TRUE, p.fetched)
    <2>1. AllFit(t, TRUE, p.fetched)
      BY FitTail DEF Sync
    <2>2. \A a \in Range(t), b \in Range(new) : Fits(a, b, TRUE, p.fetched)
      BY <1>3, <1>4 DEF Fits, ChangeOps
    <2> QED
      BY <1>1, <2>1, <2>2, FitConcat
  <1> HIDE DEF t, w
  <1>6. /\ ~HasOp(w, {"portCfg"}) /\ ~HasOp(w, {"cfgs"})
        /\ \A c \in Range(w) : c.op # "cfgs"
    BY <1>2, <1>4 DEF HasOp
  <1>7. Has(w, "ids", "stream")
    BY <1>1, <1>2, <1>3 DEF Has
  <1>8. Fetching(p, w, g, TRUE)
    BY <1>3, <1>6, <1>7 DEF Fetching
  <1> QED
    BY <1>3, <1>5, <1>8 DEF Sync, Listed, w, t

\* processStreamIdList() with a session to restore: the changes, and then the lists again.
LEMMA SyncSession ==
    ASSUME NEW p, NEW q, NEW r, NEW g, NEW sent, NEW new, IsSeq(q), q # <<>>,
           Sync(p, q, r, g, TRUE), q[1].op = "ids", q[1].k = "stream",
           IsSeq(sent), \A c \in Range(sent) : c.op \notin CopyOps, Fetches(new)
    PROVE  Sync(p, Tail(q) \o (sent \o new), {}, g, FALSE)
  <1> DEFINE t == Tail(q)
             v == sent \o new
             w == t \o v
  <1>1. IsSeq(t) /\ Range(q) = {q[1]} \cup Range(t)
    BY TailOf, RangeTail, Zenon
  <1>2. /\ IsSeq(v) /\ Range(v) = Range(sent) \cup Range(new)
    BY <1>1, Concat, RangeConcat DEF Fetches
  <1>a. /\ IsSeq(w) /\ Range(w) = Range(t) \cup Range(v)
    <2> HIDE DEF v, t
    <2> QED
      BY <1>1, <1>2, Concat, RangeConcat
  <1>3. /\ ~p.fetched /\ (\A k \in Kinds : Blank(p, k))
        /\ ~HasOp(q, {"portCfg"}) /\ ~HasOp(q, {"cfgs"})
    BY DEF Sync, Fetching
  <1>4. \A c \in Range(t) : c.op \notin {"portCfg", "cfgs", "ids"}
    <2>1. \A c \in Range(t) : Fits(q[1], c, TRUE, p.fetched)
      BY FitTail DEF Sync
    <2>2. \A c \in Range(t) : c.op # "ids"
      BY <2>1 DEF Fits
    <2> QED
      BY <1>1, <1>3, <2>2 DEF HasOp
  <1>5. ASSUME NEW a, NEW b, a.op \notin {"portCfg", "cfgs", "ids"}, b.op \notin {"portCfg", "cfgs"}
        PROVE  Fits(a, b, FALSE, p.fetched)
    BY <1>3, <1>5 DEF Fits
  <1>6. \A c \in Range(sent) : c.op \notin {"portCfg", "cfgs", "ids"}
    BY DEF CopyOps
  <1>7. \A c \in Range(new) : c.op = "ids"
    BY DEF Fetches
  <1>8. AllFit(v, FALSE, p.fetched)
    <2>1. AllFit(sent, FALSE, p.fetched)
      BY <1>5, <1>6, RangeAt DEF AllFit
    <2>2. AllFit(new, FALSE, p.fetched) /\ IsSeq(new)
      BY DEF Fetches
    <2>3. \A a \in Range(sent), b \in Range(new) : Fits(a, b, FALSE, p.fetched)
      BY <1>5, <1>6, <1>7
    <2> QED
      BY <2>1, <2>2, <2>3, FitConcat
  <1> HIDE DEF t, v
  <1>9. AllFit(w, FALSE, p.fetched)
    <2>1. AllFit(t, FALSE, p.fetched)
      BY <1>4, <1>5, RangeAt DEF AllFit
    <2>2. \A a \in Range(t), b \in Range(v) : Fits(a, b, FALSE, p.fetched)
      BY <1>2, <1>4, <1>5, <1>6, <1>7
    <2> QED
      BY <1>1, <1>2, <1>8, <2>1, <2>2, FitConcat
  <1> HIDE DEF w
  <1>10. /\ ~HasOp(w, {"portCfg"}) /\ ~HasOp(w, {"cfgs"})
         /\ \A c \in Range(w) : c.op # "cfgs"
    BY <1>2, <1>a, <1>4, <1>6, <1>7 DEF HasOp
  <1>11. \A k \in Kinds : Has(w, "ids", k)
    BY <1>2, <1>a DEF Has, Fetches
  <1>12. Fetching(p, w, g, FALSE)
    BY <1>3, <1>10, <1>11, PortSyncAssumption DEF Fetching
  <1> QED
    BY <1>3, <1>9, <1>11, <1>12 DEF Sync, Listed, w, v, t

\* The first call is taken, and perhaps the contents of a list are asked for.
LEMMA TakenCopy ==
    ASSUME NEW q, NEW new, IsSeq(q), q # <<>>, IsSeq(new)
    PROVE  /\ IsSeq(Tail(q)) /\ Range(q) = {q[1]} \cup Range(Tail(q))
           /\ IsSeq(Tail(q) \o new) /\ Range(Tail(q) \o new) = Range(Tail(q)) \cup Range(new)
  <1>1. IsSeq(Tail(q))
    BY TailOf
  <1> QED
    BY <1>1, RangeTail, Concat, RangeConcat

\* The call for the contents of items inserted.
AsksContents(new, k, ids) ==
    /\ IsSeq(new) /\ \A at, f : AllFit(new, at, f)
    /\ \A c \in Range(new) : c.op = "cfgs" /\ c.k = k /\ c.arg.ids = ids
    /\ ids # {} => Has(new, "cfgs", k)

\* processDeviceGroupIdList(): the groups are there, and their contents asked for.
LEMMA SyncDeviceIds ==
    ASSUME NEW p, NEW p2, NEW q, NEW d, NEW g, NEW new, NEW k \in Kinds, NEW ids,
           IsSeq(q), q # <<>>, Sync(p, q, {d}, g, FALSE), q[1].op = "ids", q[1].k = k, k # "stream",
           ids = DOMAIN g[k], AsksContents(new, k, ids),
           p2.fetched = p.fetched, p2.last = p.last, p2.modified = p.modified,
           \A l \in Kinds : l # k => p2.items[l] = p.items[l], Ids(p2.items[k]) = ids,
           p2.items[k] # <<>> => ids # {}
    PROVE  Sync(p2, Tail(q) \o new, {}, g, FALSE)
  <1> DEFINE t == Tail(q)
             w == t \o new
  <1>1. /\ IsSeq(t) /\ Range(q) = {q[1]} \cup Range(t) /\ Range(w) = Range(t) \cup Range(new)
    BY TakenCopy DEF AsksContents
  <1>2. /\ AllFit(t, FALSE, p.fetched)
        /\ \A c \in Range(t) : Fits(q[1], c, FALSE, p.fetched)
    BY FitTail DEF Sync
  <1>3. Has(q, "ids", k) /\ ~p.fetched /\ Blank(p, k) /\ Has(q, "ids", "stream")
    <2>1. Has(q, "ids", k)
      BY <1>1 DEF Has
    <2> QED
      BY <2>1 DEF Sync, Fetching
  <1>4. /\ \A c \in Range(t) : c.op \notin {"portCfg"} \cup ChangeOps
        /\ \A c \in Range(t) : c.op = "ids" => c.k # k
    <2>1. ~HasOp(q, {"portCfg"})
      <3>1. HasOp(q, {"portCfg"}) => \A c \in Range(q) : c.op = "portCfg" \/ TRUE
        OBVIOUS
      <3>2. \A c \in Range(t) : c.op # "portCfg"
        BY <1>2 DEF Fits
      <3> QED
        BY <1>1, <3>2 DEF HasOp
    <2> QED
      BY <1>1, <1>2, <2>1 DEF HasOp, Fits
  <1>5. AllFit(w, FALSE, p.fetched)
    <2>1. \A a \in Range(t), b \in Range(new) : Fits(a, b, FALSE, p.fetched)
      BY <1>4 DEF Fits, AsksContents, ChangeOps
    <2> QED
      BY <1>1, <1>2, <2>1, FitConcat DEF AsksContents
  <1> HIDE DEF t, w
  <1>6. ~HasOp(w, {"portCfg"}) /\ ~HasOp(w, ChangeOps) /\ ~Has(w, "ids", k)
    BY <1>1, <1>4 DEF HasOp, Has, AsksContents, ChangeOps
  <1>7. Has(w, "ids", "stream")
    BY <1>1, <1>3 DEF Has
  <1>8. \A l \in Kinds : Has(w, "ids", l) => Has(q, "ids", l) /\ l # k
    BY <1>1, <1>6 DEF Has, AsksContents
  <1>9. ASSUME NEW c \in Range(w), c.op = "cfgs" PROVE c.arg.ids = DOMAIN g[c.k]
    <2>1. CASE c \in Range(t)
      BY <1>1, <1>9, <2>1 DEF Sync, Fetching
    <2>2. CASE c \in Range(new)
      BY <2>2 DEF AsksContents
    <2> QED
      BY <1>1, <2>1, <2>2
  <1>10. Fetching(p2, w, g, FALSE)
    <2>1. \A l \in Kinds : l # k /\ Blank(p, l) => Blank(p2, l)
      BY DEF Blank
    <2>2. \A l \in Kinds : Has(w, "ids", l) => Blank(p2, l)
      BY <2>1, <1>8 DEF Sync, Fetching
    <2> QED
      BY <1>3, <1>6, <1>7, <1>9, <2>2 DEF Fetching
  <1>11. ASSUME NEW l \in Kinds, Listed(w, FALSE, l) PROVE ListedFirst(p2, w, g, l)
    <2>1. l = k
      BY <1>7, <1>11, PortSyncAssumption DEF Listed
    <2>2. ids # {} => Has(w, "cfgs", k)
      BY <1>1 DEF AsksContents, Has
    <2> QED
      BY <2>1, <2>2, <1>3, <1>6 DEF ListedFirst, Blank
  <1> QED
    BY <1>3, <1>5, <1>10, <1>11 DEF Sync, w, t

\* processStreamIdList(): the port counts as synchronised.
LEMMA SyncStreamIds ==
    ASSUME NEW p, NEW p2, NEW q, NEW d, NEW g, NEW new, NEW ids,
           IsSeq(q), q # <<>>, Sync(p, q, {d}, g, FALSE), q[1].op = "ids", q[1].k = "stream",
           ids = DOMAIN g["stream"], AsksContents(new, "stream", ids),
           p2.fetched = TRUE, \A l \in Kinds : l # "stream" => p2.items[l] = p.items[l],
           Ids(p2.items["stream"]) = ids, p2.items["stream"] # <<>> => ids # {},
           \A l \in Kinds : Untouched(p2, l)
    PROVE  Sync(p2, Tail(q) \o new, {}, g, FALSE)
  <1> DEFINE t == Tail(q)
             w == t \o new
  <1>1. /\ IsSeq(t) /\ Range(q) = {q[1]} \cup Range(t) /\ Range(w) = Range(t) \cup Range(new)
    BY TakenCopy DEF AsksContents
  <1>2. /\ AllFit(t, FALSE, p.fetched)
        /\ \A c \in Range(t) : Fits(q[1], c, FALSE, p.fetched)
    BY FitTail DEF Sync
  <1>3. ~p.fetched
    <2>1. Has(q, "ids", "stream")
      BY <1>1 DEF Has
    <2> QED
      BY <2>1, PortSyncAssumption DEF Sync, Fetching
  <1>4. \A c \in Range(t) : c.op \notin {"portCfg", "ids"} \cup ChangeOps
    BY <1>2 DEF Fits
  <1>5. AllFit(w, FALSE, TRUE)
    <2>1. AllFit(t, FALSE, TRUE)
      BY <1>2, <1>4, RangeAt DEF AllFit, Fits, ChangeOps
    <2>2. \A a \in Range(t), b \in Range(new) : Fits(a, b, FALSE, TRUE)
      BY <1>4 DEF Fits, AsksContents, ChangeOps
    <2> QED
      BY <1>1, <2>1, <2>2, FitConcat DEF AsksContents
  <1>6. \A l \in Kinds : l # "stream" => ListedFirst(p, q, g, l)
    <2>1. \A l : l # "stream" => ~Has(q, "ids", l)
      BY <1>1, <1>4 DEF Has
    <2>2. ~HasOp(q, {"portCfg"})
      BY <1>1, <1>4 DEF HasOp
    <2> QED
      BY <1>3, <2>1, <2>2 DEF Sync, Listed
  <1> HIDE DEF t, w
  <1>7. ~HasOp(w, {"portCfg"}) /\ ~HasOp(w, ChangeOps) /\ \A l : ~Has(w, "ids", l)
    BY <1>1, <1>4 DEF HasOp, Has, AsksContents, ChangeOps
  <1>8. ASSUME NEW c \in Range(w), c.op = "cfgs" PROVE c.arg.ids = DOMAIN g[c.k]
    <2>1. CASE c \in Range(t)
      BY <1>1, <1>8, <2>1 DEF Sync, Fetching
    <2>2. CASE c \in Range(new)
      BY <2>2 DEF AsksContents
    <2> QED
      BY <1>1, <2>1, <2>2
  <1>9. Fetching(p2, w, g, FALSE)
    BY <1>7, <1>8 DEF Fetching
  <1>10. ASSUME NEW l \in Kinds PROVE Followed(p2, w, g, l)
    <2>1. DOMAIN g[l] = Ids(p2.items[l]) /\ (p2.items[l] # <<>> => Has(w, "cfgs", l))
      <3>1. CASE l = "stream"
        BY <3>1, <1>1 DEF AsksContents, Has
      <3>2. CASE l # "stream"
        <4>1. Has(q, "cfgs", l) => Has(w, "cfgs", l)
          BY <1>1 DEF Has
        <4> QED
          BY <3>2, <4>1, <1>6 DEF ListedFirst
      <3> QED
        BY <3>1, <3>2
    <2>2. p2.items[l] = <<>> => DOMAIN p2.items[l] = {}
      BY EmptyIsSeq, SeqLength, \A n \in 1 .. 0 : FALSE
    <2> QED
      BY <2>1, <2>2 DEF Followed, Untouched, Ids
  <1>11. Following(p2, w, {}, g)
    BY <1>7, <1>10 DEF Following
  <1> QED
    BY <1>5, <1>9, <1>11 DEF Sync, w, t

\* processStreamConfigList(), processDeviceGroupConfigList(): the contents are the drone's.
LEMMA SyncConfigs ==
    ASSUME NEW p, NEW p2, NEW q, NEW d, NEW g, NEW at, NEW k \in Kinds,
           IsSeq(q), q # <<>>, Sync(p, q, {d}, g, at), q[1].op = "cfgs", q[1].k = k,
           p2.fetched = p.fetched, p2.dirty = p.dirty, p2.last = p.last, p2.modified = p.modified,
           \A l \in Kinds : Ids(p2.items[l]) = Ids(p.items[l]),
           \A l \in Kinds : l # k => p2.items[l] = p.items[l],
           \A n \in DOMAIN p2.items[k] : LET x == p2.items[k][n]
                                         IN  x.id \in DOMAIN g[k] => x.cfg = g[k][x.id]
    PROVE  Sync(p2, Tail(q), {}, g, at)
  <1> DEFINE t == Tail(q)
  <1>1. /\ IsSeq(t) /\ Range(q) = {q[1]} \cup Range(t)
    BY TailOf, RangeTail, Zenon
  <1>2. /\ AllFit(t, at, p.fetched)
        /\ \A c \in Range(t) : Fits(q[1], c, at, p.fetched)
    BY FitTail DEF Sync
  <1>3. HasOp(q, {"cfgs"})
    BY <1>1 DEF HasOp
  <1>4. p.fetched /\ ~at
    <2>1. ~at
      BY <1>3 DEF Sync, Fetching
    <2>2. ~p.fetched => Has(t, "ids", "stream")
      BY <1>1, <1>3 DEF Sync, Fetching, Has
    <2>3. ~p.fetched => ~Has(t, "ids", "stream")
      BY <1>2 DEF Fits, Has
    <2> QED
      BY <2>1, <2>2, <2>3
  <1>5. ~HasOp(q, ChangeOps) /\ \A l \in Kinds : Followed(p, q, g, l)
    BY <1>3, <1>4 DEF Sync, Following
  <1>6. ~HasOp(q, {"portCfg"}) /\ \A l \in Kinds : ~Has(q, "ids", l)
    BY <1>4 DEF Sync, Fetching
  <1> HIDE DEF t
  <1>7. /\ ~HasOp(t, ChangeOps) /\ ~HasOp(t, {"portCfg"}) /\ \A l \in Kinds : ~Has(t, "ids", l)
        /\ HasOp(t, {"applyBuild"}) => HasOp(q, {"applyBuild"})
        /\ \A l : l # k /\ Has(q, "cfgs", l) => Has(t, "cfgs", l)
    BY <1>1, <1>5, <1>6 DEF HasOp, Has
  <1>8. Fetching(p2, t, g, at)
    <2>1. \A c \in Range(t) : c.op = "cfgs" => c.arg.ids = DOMAIN g[c.k]
      BY <1>1 DEF Sync, Fetching
    <2> QED
      BY <1>4, <1>7, <2>1 DEF Fetching
  <1>9. ASSUME NEW l \in Kinds PROVE Followed(p2, t, g, l)
    <2>1. Followed(p, q, g, l)
      BY <1>5
    <2>2. CASE l = k
      <3>0. Ids(p2.items[k]) = Ids(p.items[k])
        OBVIOUS
      <3>1. \A n \in DOMAIN p2.items[k] : \E m \in DOMAIN p.items[k] :
               p2.items[k][n].id = p.items[k][m].id
        BY <3>0 DEF Ids
      <3> QED
        BY <2>1, <2>2, <3>1, <1>7 DEF Followed, Untouched
    <2>3. CASE l # k
      BY <2>1, <2>3, <1>7 DEF Followed, Untouched
    <2> QED
      BY <2>2, <2>3
  <1>10. Following(p2, t, {}, g)
    BY <1>7, <1>9 DEF Following
  <1> QED
    BY <1>2, <1>4, <1>8, <1>10 DEF Sync, t

\* processApplyBuildAck(): the copy counts as synchronised, and is.
LEMMA SyncApplied ==
    ASSUME NEW p, NEW p2, NEW q, NEW d, NEW g, NEW at,
           IsSeq(q), q # <<>>, Sync(p, q, {d}, g, at), q[1].op = "applyBuild",
           ~HasOp(Tail(q), {"applyBuild"}),
           p2.fetched = p.fetched, p2.items = p.items, \A l \in Kinds : Untouched(p2, l)
    PROVE  Sync(p2, Tail(q), {}, g, at)
  <1> DEFINE t == Tail(q)
  <1>1. /\ IsSeq(t) /\ Range(q) = {q[1]} \cup Range(t)
    BY TailOf, RangeTail, Zenon
  <1>2. /\ AllFit(t, at, p.fetched)
        /\ \A c \in Range(t) : Fits(q[1], c, at, p.fetched)
    BY FitTail DEF Sync
  <1>3. Waiting(q, {d}) = Range(t) /\ ~HasOp(t, {"applyBuild"})
    BY DEF Waiting
  <1> HIDE DEF t
  <1>4. /\ HasOp(q, {"portCfg"}) <=> HasOp(t, {"portCfg"})
        /\ HasOp(q, {"cfgs"}) <=> HasOp(t, {"cfgs"})
        /\ HasOp(q, ChangeOps) <=> HasOp(t, ChangeOps)
        /\ HasOp(q, {"applyBuild"})
        /\ \A k : Has(q, "ids", k) <=> Has(t, "ids", k)
        /\ \A k : Has(q, "cfgs", k) <=> Has(t, "cfgs", k)
    BY <1>1 DEF HasOp, Has, ChangeOps
  <1>5. \A k \in Kinds : Blank(p, k) => Blank(p2, k)
    <2>1. Ids(<<>>) = {}
      <3>1. DOMAIN <<>> = {}
        BY EmptyIsSeq, SeqLength, \A n \in 1 .. 0 : FALSE
      <3> QED
        BY <3>1 DEF Ids
    <2> QED
      BY <2>1 DEF Blank, Untouched
  <1>6. Fetching(p2, t, g, at)
    <2>1. \A c \in Range(t) : c.op = "cfgs" => c.arg.ids = DOMAIN g[c.k]
      BY <1>1 DEF Sync, Fetching
    <2> QED
      BY <1>4, <1>5, <2>1 DEF Sync, Fetching
  <1>7. ASSUME ~p.fetched, NEW k \in Kinds, Listed(t, at, k) PROVE ListedFirst(p2, t, g, k)
    <2>1. ListedFirst(p, q, g, k)
      BY <1>4, <1>7 DEF Sync, Listed
    <2> QED
      BY <2>1, <1>4 DEF ListedFirst, Untouched
  <1>8. ASSUME p.fetched PROVE Following(p2, t, {}, g)
    <2>1. ~HasOp(t, ChangeOps)
      BY <1>2, <1>8 DEF Fits, HasOp
    <2>2. ASSUME NEW k \in Kinds PROVE Followed(p2, t, g, k)
      <3>1. CASE Followed(p, q, g, k)
        BY <3>1, <1>4 DEF Followed, Untouched
      <3>2. CASE Applied(p.items[k], Waiting(q, {d}), g[k], k)
        <4>1. \A i : ~Coming(Range(t), "add", k, i) /\ ~Coming(Range(t), "del", k, i)
                        /\ ~Coming(Range(t), "mod", k, i)
          BY <2>1 DEF Coming, HasOp, ChangeOps
        <4>2. \A n \in DOMAIN p.items[k] :
                 p.items[k][n].id \in DOMAIN g[k] /\ g[k][p.items[k][n].id] = p.items[k][n].cfg
          BY <3>2, <4>1, <1>3 DEF Applied
        <4>3. \A i \in DOMAIN g[k] : i \in Ids(p.items[k])
          BY <3>2, <4>1, <1>3 DEF Applied
        <4>4. DOMAIN g[k] = Ids(p2.items[k])
          BY <4>2, <4>3 DEF Ids
        <4> QED
          BY <4>2, <4>4 DEF Followed, Untouched
      <3> QED
        BY <1>8, <3>1, <3>2 DEF Sync, Following
    <2> QED
      BY <2>1, <2>2 DEF Following
  <1> QED
    BY <1>2, <1>6, <1>7, <1>8 DEF Sync, t

-----------------------------------------------------------------------------
(* Editing and applying.                                                      *)

\* Items added have default contents, and those that were there stay.
LEMMA AddedIs ==
    ASSUME NEW f, NEW c, c.op = "add"
    PROVE  /\ DOMAIN Changed(f, c) = DOMAIN f \cup c.arg.ids
           /\ \A i \in DOMAIN f : Changed(f, c)[i] = f[i]
  BY DEF Changed

\* What the drone makes of its items, idle, when a change comes.
LEMMA ChangedIs ==
    ASSUME NEW f, NEW c
    PROVE  /\ c.op = "add" => /\ DOMAIN Changed(f, c) = DOMAIN f \cup c.arg.ids
                              /\ \A i \in DOMAIN f : Changed(f, c)[i] = f[i]
           /\ c.op = "del" => /\ DOMAIN Changed(f, c) = DOMAIN f \ c.arg.ids
                              /\ \A i \in DOMAIN f \ c.arg.ids : Changed(f, c)[i] = f[i]
           /\ c.op = "mod" => /\ DOMAIN Changed(f, c) = DOMAIN f
                              /\ \A i \in DOMAIN f : Changed(f, c)[i] =
                                    IF i \in DOMAIN c.arg.items THEN c.arg.items[i] ELSE f[i]
  <1>1. ASSUME c.op = "add"
        PROVE  /\ DOMAIN Changed(f, c) = DOMAIN f \cup c.arg.ids
               /\ \A i \in DOMAIN f : Changed(f, c)[i] = f[i]
    BY <1>1, AddedIs
  <1>2. ASSUME c.op = "del"
        PROVE  /\ DOMAIN Changed(f, c) = DOMAIN f \ c.arg.ids
               /\ \A i \in DOMAIN f \ c.arg.ids : Changed(f, c)[i] = f[i]
    BY <1>2 DEF Changed, Restrict
  <1>3. ASSUME c.op = "mod"
        PROVE  /\ DOMAIN Changed(f, c) = DOMAIN f
               /\ \A i \in DOMAIN f : Changed(f, c)[i] =
                     IF i \in DOMAIN c.arg.items THEN c.arg.items[i] ELSE f[i]
    BY <1>3 DEF Changed
  <1> QED
    BY <1>1, <1>2, <1>3

\* A change that comes leaves what is still to come.
LEMMA AppliedChange ==
    ASSUME NEW items, NEW w, NEW f, NEW k, NEW c, c.op \in ChangeOps, c.k = k,
           Applied(items, {c} \cup w, f, k),
           c.op = "mod" => \A b \in w : ~(b.op = "add" /\ b.k = k)
    PROVE  Applied(items, w, Changed(f, c), k)
  <1> DEFINE h == Changed(f, c)
             v == {c} \cup w
  <1>1. /\ \A op, i : Coming(v, op, k, i) <=> Coming(w, op, k, i) \/ (c.op = op /\ i \in About(c))
        /\ Says(c, items)
    BY DEF Coming, Applied
  <1>2. \A n \in DOMAIN items : items[n].id \in Ids(items)
    BY DEF Ids
  <1>3. /\ \A n \in DOMAIN items :
              /\ items[n].id \in DOMAIN f \/ Coming(v, "add", k, items[n].id)
              /\ \/ items[n].id \in DOMAIN f /\ f[items[n].id] = items[n].cfg
                 \/ Coming(v, "mod", k, items[n].id)
        /\ \A i \in DOMAIN f : i \in Ids(items) \/ Coming(v, "del", k, i)
        /\ \A b \in w : b.op \in ChangeOps /\ b.k = k => Says(b, items)
    BY DEF Applied
  <1> HIDE DEF v, h
  <1>4. CASE c.op = "add"
    <2>1. /\ DOMAIN h = DOMAIN f \cup c.arg.ids /\ \A i \in DOMAIN f : h[i] = f[i]
          /\ About(c) = c.arg.ids /\ c.arg.ids \subseteq Ids(items)
      <3>1. DOMAIN h = DOMAIN f \cup c.arg.ids /\ \A i \in DOMAIN f : h[i] = f[i]
        BY <1>4, AddedIs DEF h
      <3>2. About(c) = c.arg.ids
        BY <1>4 DEF About
      <3> QED
        BY <1>1, <1>4, <3>1, <3>2 DEF Says
    <2> QED
      BY <2>1, <1>1, <1>3, <1>4 DEF Applied, h
  <1>5. CASE c.op = "del"
    <2>1. /\ DOMAIN h = DOMAIN f \ c.arg.ids /\ \A i \in DOMAIN f \ c.arg.ids : h[i] = f[i]
          /\ About(c) = c.arg.ids /\ c.arg.ids \cap Ids(items) = {}
      <3>1. DOMAIN h = DOMAIN f \ c.arg.ids /\ \A i \in DOMAIN f \ c.arg.ids : h[i] = f[i]
        BY <1>5, ChangedIs, Zenon DEF h
      <3>2. About(c) = c.arg.ids
        BY <1>5 DEF About
      <3> QED
        BY <1>1, <1>5, <3>1, <3>2 DEF Says
    <2> QED
      BY <2>1, <1>1, <1>2, <1>3, <1>5 DEF Applied, h
  <1>6. CASE c.op = "mod"
    <2>1. /\ DOMAIN h = DOMAIN f /\ About(c) = DOMAIN c.arg.items
          /\ \A i \in DOMAIN f : h[i] = IF i \in About(c) THEN c.arg.items[i] ELSE f[i]
      <3>1. About(c) = DOMAIN c.arg.items
        BY <1>6 DEF About
      <3>2. DOMAIN h = DOMAIN f /\ \A i \in DOMAIN f : h[i] =
               IF i \in DOMAIN c.arg.items THEN c.arg.items[i] ELSE f[i]
        BY <1>6, ChangedIs, Zenon DEF h
      <3> QED
        BY <3>1, <3>2
    <2>2. \A i : ~Coming(w, "add", k, i)
      BY <1>6 DEF Coming
    <2>3. \A n \in DOMAIN items : items[n].id \in DOMAIN f
      BY <2>2, <1>1, <1>3, <1>6
    <2>4. \A n \in DOMAIN items :
             items[n].id \in About(c) => c.arg.items[items[n].id] = items[n].cfg
      BY <1>1, <1>6 DEF Says
    <2>5. ASSUME NEW n \in DOMAIN items
          PROVE  h[items[n].id] = items[n].cfg \/ Coming(w, "mod", k, items[n].id)
      <3>1. CASE items[n].id \in About(c)
        BY <3>1, <2>1, <2>3, <2>4
      <3>2. CASE items[n].id \notin About(c)
        BY <3>2, <2>1, <2>3, <1>1, <1>3
      <3> QED
        BY <3>1, <3>2
    <2>6. \A i \in DOMAIN f : i \in Ids(items) \/ Coming(w, "del", k, i)
      BY <1>1, <1>3, <1>6
    <2> QED
      BY <2>1, <2>3, <2>5, <2>6, <1>3 DEF Applied, h
  <1> QED
    BY <1>4, <1>5, <1>6 DEF ChangeOps

\* The drone makes a change.
LEMMA SyncChanged ==
    ASSUME NEW p, NEW q, NEW d, NEW g, NEW at, NEW k \in Kinds, DOMAIN g = Kinds,
           IsSeq(q), q # <<>>, Sync(p, q, {}, g, at), q[1].op \in ChangeOps, q[1].k = k
    PROVE  Sync(p, q, {d}, [g EXCEPT ![k] = Changed(@, q[1])], at)
  <1> DEFINE t == Tail(q)
             h == [g EXCEPT ![k] = Changed(@, q[1])]
  <1>1. /\ IsSeq(t) /\ Range(q) = {q[1]} \cup Range(t)
    BY TailOf, RangeTail, Zenon
  <1>2. \A c \in Range(t) : Fits(q[1], c, at, p.fetched)
    BY FitTail DEF Sync
  <1>3. Waiting(q, {d}) = Range(t) /\ Waiting(q, {}) = {q[1]} \cup Range(t)
    BY <1>1 DEF Waiting
  <1>4. HasOp(q, ChangeOps) /\ \A c \in Range(q) : c.op # "cfgs"
    BY <1>1, <1>2 DEF HasOp, Fits, ChangeOps
  <1>5. /\ h[k] = Changed(g[k], q[1]) /\ \A l \in Kinds : l # k => h[l] = g[l]
    OBVIOUS
  <1> HIDE DEF t, h
  <1>6. Fetching(p, q, h, at)
    BY <1>4 DEF Sync, Fetching
  <1>7. \A l \in Kinds : ~p.fetched => ~Listed(q, at, l)
    BY <1>4 DEF Sync, ListedFirst
  <1>8. ASSUME p.fetched PROVE Following(p, q, {d}, h)
    <2>1. /\ HasOp(q, {"applyBuild"}) /\ ~HasOp(q, {"cfgs"})
          /\ \A l \in Kinds : Applied(p.items[l], {q[1]} \cup Range(t), g[l], l)
      BY <1>3, <1>4, <1>8 DEF Sync, Following
    <2>2. ASSUME NEW l \in Kinds PROVE Applied(p.items[l], Range(t), h[l], l)
      <3>1. Applied(p.items[l], {q[1]} \cup Range(t), g[l], l)
        BY <2>1
      <3>2. CASE l = k
        <4>1. q[1].op = "mod" => \A b \in Range(t) : ~(b.op = "add" /\ b.k = k)
          BY <1>2, <1>8 DEF Fits
        <4>2. Applied(p.items[k], Range(t), Changed(g[k], q[1]), k)
          BY <3>1, <3>2, <4>1, AppliedChange
        <4> QED
          BY <3>2, <4>2, <1>5
      <3>3. CASE l # k
        <4>1. \A op, i : Coming({q[1]} \cup Range(t), op, l, i) => Coming(Range(t), op, l, i)
          BY <3>3 DEF Coming
        <4> QED
          BY <3>1, <3>3, <4>1, <1>5 DEF Applied
      <3> QED
        BY <3>2, <3>3
    <2> QED
      BY <2>1, <2>2, <1>3 DEF Following
  <1>9. \A c \in {d} : Replied(q[1], c, h)
    BY DEF Replied, ChangeOps
  <1> QED
    BY <1>6, <1>7, <1>8, <1>9 DEF Sync, h

\* The user edits items of one kind: those that are not marked are as they were.
LEMMA SyncEdit ==
    ASSUME NEW p, NEW p2, NEW q, NEW r, NEW g, NEW at, NEW k \in Kinds, Sync(p, q, r, g, at),
           ~HasOp(q, {"applyBuild"}), p.fetched, p2.fetched = p.fetched, p2.dirty = TRUE,
           p2.last = p.last,
           \A l \in Kinds : l # k => p2.items[l] = p.items[l] /\ p2.modified[l] = p.modified[l],
           \A x \in Range(p2.items[k]) : \/ x.id \in p2.modified[k]
                                         \/ x.id \notin p.modified[k] /\ x \in Range(p.items[k])
    PROVE  Sync(p2, q, r, g, at)
  <1>1. ~HasOp(q, ChangeOps) /\ \A l \in Kinds : Followed(p, q, g, l)
    BY DEF Sync, Following
  <1>2. Fetching(p2, q, g, at)
    BY DEF Sync, Fetching
  <1>3. ASSUME NEW l \in Kinds PROVE Followed(p2, q, g, l)
    <2>1. Followed(p, q, g, l)
      BY <1>1
    <2>2. CASE l # k
      BY <2>1, <2>2 DEF Followed
    <2>3. CASE l = k
      <3>1. ASSUME NEW n \in DOMAIN p2.items[k], p2.items[k][n].id \notin p2.modified[k]
            PROVE  \E m \in DOMAIN p.items[k] :
                      p2.items[k][n] = p.items[k][m] /\ p.items[k][m].id \notin p.modified[k]
        BY <3>1 DEF Range
      <3> QED
        BY <2>1, <2>3, <3>1 DEF Followed
    <2> QED
      BY <2>2, <2>3
  <1>4. Following(p2, q, r, g)
    BY <1>1, <1>3 DEF Following
  <1> QED
    BY <1>2, <1>4 DEF Sync

-----------------------------------------------------------------------------
(* What "Apply" sends.                                                        *)

\* A call that is made only if it has something to say.
LEMMA CallIfIs ==
    ASSUME NEW cond, NEW op, NEW k, NEW arg
    PROVE  /\ IsSeq(CallIf(cond, op, k, arg)) /\ \A at, f : AllFit(CallIf(cond, op, k, arg), at, f)
           /\ cond => Range(CallIf(cond, op, k, arg)) = {Call(op, k, arg)}
           /\ ~cond => Range(CallIf(cond, op, k, arg)) = {} /\ CallIf(cond, op, k, arg) = <<>>
  <1> DEFINE c == Call(op, k, arg)
  <1>1. CallIf(cond, op, k, arg) = IF cond THEN <<c>> ELSE <<>>
    BY DEF CallIf
  <1> HIDE DEF c
  <1>2. /\ IsSeq(<<c>>) /\ IsSeq(<<>>) /\ Range(<<c>>) = {c} /\ Range(<<>>) = {}
        /\ \A at, f : AllFit(<<c>>, at, f) /\ AllFit(<<>>, at, f)
    BY OneIsSeq, EmptyIsSeq, RangeOne, FitOne
  <1>3. CASE cond
    BY <1>1, <1>2, <1>3 DEF c
  <1>4. CASE ~cond
    BY <1>1, <1>2, <1>4
  <1> QED
    BY <1>3, <1>4

\* Contents of items with ids of their own.
LEMMA ContentsOfUnique ==
    ASSUME NEW items, IsItems(items), Unique(items), NEW n \in DOMAIN items
    PROVE  Contents(items)[items[n].id] = items[n].cfg
  <1> DEFINE i == items[n].id
             S == {m \in DOMAIN items : items[m].id = i}
  <1>1. S = {n}
    BY DEF Unique
  <1>2. n \in Nat
    <2>1. DOMAIN items = 1 .. Len(items) /\ Len(items) \in Nat
      BY SeqLength DEF IsItems
    <2> QED
      BY <2>1
  <1>3. Max({n}) = n
    <2>1. \E x \in {n} : \A y \in {n} : x >= y
      BY <1>2
    <2> QED
      BY <2>1 DEF Max
  <1>4. Contents(items)[i] = items[Max(S)].cfg
    BY DEF Contents, Ids
  <1> QED
    BY <1>1, <1>3, <1>4

\* The changes s bring the items of kind k, known by the drone as of the last
\* synchronisation, to what the port p has.
Brings(s, p, k) ==
    /\ \A i \in p.last[k] \ Ids(p.items[k]) : Coming(Range(s), "del", k, i)
    /\ \A i \in Ids(p.items[k]) \ p.last[k] : Coming(Range(s), "add", k, i)
    /\ \A i \in Ids(p.items[k]) \cap p.modified[k] : Coming(Range(s), "mod", k, i)
Tells(c, p) == /\ c.op \in ChangeOps /\ c.k \in Kinds /\ CallType(c)
               /\ Unique(p.items[c.k]) => Says(c, p.items[c.k])

\* get...SinceLastSync()
LEMMA ChangesTell ==
    ASSUME NEW k \in Kinds, CopyType(port)
    PROVE  /\ IsSeq(Changes(k)) /\ \A at, f : AllFit(Changes(k), at, f)
           /\ \A c \in Range(Changes(k)) : c.k = k /\ Tells(c, port)
           /\ Brings(Changes(k), port, k)
           /\ Blank(port, k) => Changes(k) = <<>>
  <1> DEFINE ids == Ids(port.items[k])
             sent == Restrict(Contents(port.items[k]), Modified(k))
             gone == port.last[k] \ ids
             more == ids \ port.last[k]
             D == Call("del", k, [ids |-> gone])
             A == Call("add", k, [ids |-> more])
             M == Call("mod", k, [items |-> sent])
             del == CallIf(gone # {}, "del", k, [ids |-> gone])
             add == CallIf(more # {}, "add", k, [ids |-> more])
             mod == CallIf(Modified(k) # {}, "mod", k, [items |-> sent])
             v == del \o add
             w == v \o mod
  <1>1. /\ D.op = "del" /\ D.k = k /\ D.arg.ids = gone
        /\ A.op = "add" /\ A.k = k /\ A.arg.ids = more
        /\ M.op = "mod" /\ M.k = k /\ M.arg.items = sent
    BY DEF Call
  <1>2. /\ IsSeq(del) /\ (\A at, f : AllFit(del, at, f))
        /\ (gone # {} => Range(del) = {D}) /\ (gone = {} => Range(del) = {} /\ del = <<>>)
    BY CallIfIs
  <1>3. /\ IsSeq(add) /\ (\A at, f : AllFit(add, at, f))
        /\ (more # {} => Range(add) = {A}) /\ (more = {} => Range(add) = {} /\ add = <<>>)
    BY CallIfIs
  <1>4. /\ IsSeq(mod) /\ (\A at, f : AllFit(mod, at, f))
        /\ (Modified(k) # {} => Range(mod) = {M})
        /\ (Modified(k) = {} => Range(mod) = {} /\ mod = <<>>)
    BY CallIfIs
  <1>5. Changes(k) = w
    BY DEF Changes
  <1>6. DOMAIN sent = Modified(k)
    BY DEF Restrict
  <1>7. Modified(k) \subseteq ids /\ \A i \in ids \cap port.modified[k] : i \in Modified(k)
    BY DEF Modified
  <1>8. IsItems(port.items[k]) /\ IdSet(ids)
    BY IdsOfItems DEF CopyType
  <1>9. Unique(port.items[k]) => \A n \in DOMAIN port.items[k] :
           port.items[k][n].id \in Modified(k) => sent[port.items[k][n].id] = port.items[k][n].cfg
    BY <1>8, ContentsOfUnique DEF Restrict
  <1>10. IdSet(more)
    BY <1>8, FS_Subset DEF IdSet
  <1>11. port.items[k] = <<>> => ids = {}
    BY EmptyHasNone DEF Ids
  <1>12. gone \cap ids = {} /\ more \subseteq ids
    OBVIOUS
  <1>13. Blank(port, k) => gone = {} /\ more = {} /\ Modified(k) = {}
    BY <1>7, <1>11 DEF Blank
  <1>14. /\ \A i \in port.last[k] \ ids : i \in gone
         /\ \A i \in ids \ port.last[k] : i \in more
    OBVIOUS
  <1> HIDE DEF D, A, M, del, add, mod, gone, more, sent, v, w
  <1>15. /\ IsSeq(v) /\ Range(v) = Range(del) \cup Range(add)
         /\ IsSeq(w) /\ Range(w) = Range(v) \cup Range(mod)
    <2>1. IsSeq(v) /\ Range(v) = Range(del) \cup Range(add)
      BY <1>2, <1>3, Concat, RangeConcat DEF v
    <2>2. IsSeq(w) /\ Range(w) = Range(v) \cup Range(mod)
      BY <2>1, <1>4, Concat, RangeConcat DEF w
    <2> QED
      BY <2>1, <2>2
  <1>16. ASSUME NEW at, NEW f PROVE AllFit(w, at, f)
    <2>1. Fits(D, A, at, f) /\ Fits(D, M, at, f) /\ Fits(A, M, at, f)
      BY <1>1 DEF Fits
    <2>2. AllFit(v, at, f)
      BY <2>1, <1>2, <1>3, FitConcat DEF v
    <2> QED
      BY <2>1, <2>2, <1>2, <1>3, <1>4, <1>15, FitConcat DEF w
  <1>17. Tells(D, port)
    BY <1>1, <1>12 DEF Tells, CallType, ChangeOps, Says, About
  <1>18. Tells(A, port)
    BY <1>1, <1>10, <1>12 DEF Tells, CallType, ChangeOps, Says, About
  <1>19. Tells(M, port)
    BY <1>1, <1>6, <1>7, <1>9 DEF Tells, CallType, ChangeOps, Says, About
  <1>20. \A c \in Range(w) : c.k = k /\ Tells(c, port)
    BY <1>1, <1>2, <1>3, <1>4, <1>15, <1>17, <1>18, <1>19
  <1>21. Brings(w, port, k)
    <2>1. \A i \in gone : Coming(Range(w), "del", k, i)
      BY <1>1, <1>2, <1>15 DEF Coming, About
    <2>2. \A i \in more : Coming(Range(w), "add", k, i)
      BY <1>1, <1>3, <1>15 DEF Coming, About
    <2>3. \A i \in Modified(k) : Coming(Range(w), "mod", k, i)
      BY <1>1, <1>4, <1>6, <1>15 DEF Coming, About
    <2> QED
      BY <2>1, <2>2, <2>3, <1>7, <1>14 DEF Brings
  <1>22. Blank(port, k) => w = <<>>
    <2>1. <<>> \o <<>> = <<>>
      BY ConcatEmptySeq, EmptySeq
    <2> QED
      BY <2>1, <1>2, <1>3, <1>4, <1>13 DEF v, w
  <1> QED
    BY <1>5, <1>15, <1>16, <1>20, <1>21, <1>22

\* Of all kinds.
LEMMA AllChangesTell ==
    ASSUME CopyType(port), NEW new, new = ForKinds([k \in Kinds |-> Changes(k)])
    PROVE  /\ IsSeq(new) /\ \A at, f : AllFit(new, at, f)
           /\ \A c \in Range(new) : Tells(c, port)
           /\ \A k \in Kinds : Brings(new, port, k)
           /\ (\A k \in Kinds : Blank(port, k)) => new = <<>>
  <1> DEFINE D == IF "devgrp" \in Kinds THEN Changes("devgrp") ELSE <<>>
             S == Changes("stream")
  <1>1. new = D \o S /\ Kinds \subseteq {"stream", "devgrp"} /\ "stream" \in Kinds
    BY PortSyncAssumption DEF ForKinds
  <1>2. /\ IsSeq(S) /\ (\A at, f : AllFit(S, at, f))
        /\ (\A c \in Range(S) : c.k = "stream" /\ Tells(c, port))
        /\ Brings(S, port, "stream") /\ (Blank(port, "stream") => S = <<>>)
    BY <1>1, ChangesTell
  <1>3. /\ IsSeq(D) /\ (\A at, f : AllFit(D, at, f))
        /\ (\A c \in Range(D) : c.k = "devgrp" /\ Tells(c, port))
        /\ ("devgrp" \in Kinds => Brings(D, port, "devgrp"))
        /\ ((\A k \in Kinds : Blank(port, k)) => D = <<>>)
    <2>1. CASE "devgrp" \in Kinds
      BY <2>1, ChangesTell
    <2>2. CASE "devgrp" \notin Kinds
      BY <2>2, EmptyIsSeq, FitOne, RangeOne
    <2> QED
      BY <2>1, <2>2
  <1> HIDE DEF D, S
  <1>4. IsSeq(new) /\ Range(new) = Range(D) \cup Range(S)
    <2>1. IsSeq(D \o S) /\ Range(D \o S) = Range(D) \cup Range(S)
      BY <1>2, <1>3, Concat, RangeConcat
    <2> QED
      BY <2>1, <1>1
  <1>5. ASSUME NEW at, NEW f PROVE AllFit(new, at, f)
    <2>1. \A a \in Range(D), b \in Range(S) : Fits(a, b, at, f)
      <3>1. ASSUME NEW a \in Range(D), NEW b \in Range(S) PROVE Fits(a, b, at, f)
        <4>1. a.op \in ChangeOps /\ b.op \in ChangeOps /\ a.k # b.k
          BY <1>2, <1>3 DEF Tells
        <4> QED
          BY <4>1 DEF Fits, ChangeOps
      <3> QED
        BY <3>1
    <2> QED
      BY <2>1, <1>1, <1>2, <1>3, FitConcat
  <1>6. ASSUME NEW k \in Kinds PROVE Brings(new, port, k)
    <2>1. \A op, i : Coming(Range(D), op, k, i) \/ Coming(Range(S), op, k, i)
                        => Coming(Range(new), op, k, i)
      BY <1>4 DEF Coming
    <2> QED
      BY <2>1, <1>1, <1>2, <1>3 DEF Brings
  <1>7. (\A k \in Kinds : Blank(port, k)) => new = <<>>
    <2>1. <<>> \o <<>> = <<>>
      BY ConcatEmptySeq, EmptySeq
    <2> QED
      BY <2>1, <1>1, <1>2, <1>3
  <1> QED
    BY <1>2, <1>3, <1>4, <1>5, <1>6, <1>7

\* when_configApply(), with no contents outstanding.
LEMMA SyncApply ==
    ASSUME NEW p, NEW q, NEW r, NEW g, NEW at, NEW new, NEW b, IsSeq(q), r # {} => q # <<>>,
           Sync(p, q, r, g, at), ~HasOp(q, {"cfgs"}), ~HasOp(q, {"applyBuild"}),
           \A c \in Range(q) : CallType(c), b.op = "applyBuild", \A k \in Kinds : Unique(p.items[k]),
           IsSeq(new), \A a, f : AllFit(new, a, f), \A c \in Range(new) : Tells(c, p),
           \A k \in Kinds : Brings(new, p, k), (\A k \in Kinds : Blank(p, k)) => new = <<>>
    PROVE  Sync(p, q \o (new \o <<b>>), r, g, at)
  <1> DEFINE v == new \o <<b>>
             w == q \o v
  <1>1. IsSeq(<<b>>) /\ Range(<<b>>) = {b} /\ AllFit(<<b>>, at, p.fetched)
    BY OneIsSeq, RangeOne, FitOne
  <1>2. IsSeq(v) /\ Range(v) = Range(new) \cup {b}
    BY <1>1, Concat, RangeConcat
  <1>3. AllFit(v, at, p.fetched)
    <2>1. \A c \in Range(new) : Fits(c, b, at, p.fetched)
      BY DEF Tells, Fits, ChangeOps
    <2> QED
      BY <1>1, <2>1, FitConcat
  <1> HIDE DEF v
  <1>4. IsSeq(w) /\ Range(w) = Range(q) \cup Range(v)
    BY <1>2, Concat, RangeConcat
  <1>5. Waiting(w, r) = Waiting(q, r) \cup Range(v) /\ (r # {} => w[1] = q[1])
    BY <1>2, WaitingConcat, TailConcat
  <1>6. \A c \in Range(v) : c.op \in ChangeOps \cup {"applyBuild"}
    BY <1>2 DEF Tells
  <1> HIDE DEF w
  <1>7. CASE p.fetched
    <2>1. /\ ~HasOp(q, ChangeOps) /\ ~HasOp(q, {"portCfg"}) /\ ~at
          /\ \A k \in Kinds : Followed(p, q, g, k) /\ ~Has(q, "ids", k)
      BY <1>7 DEF Sync, Following, Fetching
    <2>2. \A c \in Range(q) : c.op \notin CopyOps \cup ChangeOps
      <3>1. \A c \in Range(q) : c.op # "ids"
        BY <2>1 DEF Has, CallType
      <3> QED
        BY <2>1, <3>1 DEF CopyOps, HasOp
    <2>3. AllFit(w, at, p.fetched)
      <3>1. \A a \in Range(q), c \in Range(v) : Fits(a, c, at, p.fetched)
        BY <2>2, OthersFit
      <3> QED
        BY <3>1, <1>2, <1>3, FitConcat DEF Sync, w
    <2>4. /\ ~HasOp(w, {"portCfg"}) /\ ~HasOp(w, {"cfgs"}) /\ HasOp(w, {"applyBuild"})
          /\ (\A k : ~Has(w, "ids", k)) /\ \A c \in Range(w) : c.op # "cfgs"
      BY <2>2, <1>2, <1>4, <1>6 DEF HasOp, Has, CopyOps, ChangeOps
    <2>5. Fetching(p, w, g, at)
      BY <2>1, <2>4 DEF Fetching
    <2>6. ASSUME NEW k \in Kinds PROVE Applied(p.items[k], Waiting(w, r), g[k], k)
      <3>1. Followed(p, q, g, k) /\ ~Has(q, "cfgs", k)
        BY <2>1 DEF HasOp, Has
      <3>2. \A op, i : Coming(Range(new), op, k, i) => Coming(Waiting(w, r), op, k, i)
        BY <1>2, <1>5 DEF Coming
      <3>3. Brings(new, p, k)
        OBVIOUS
      <3>4. \A n \in DOMAIN p.items[k] : p.items[k][n].id \in Ids(p.items[k])
        BY DEF Ids
      <3>5. \A c \in Waiting(w, r) : c.op \in ChangeOps => c \in Range(new)
        <4>1. Waiting(q, r) \subseteq Range(q)
          BY RangeTail DEF Waiting
        <4> QED
          BY <4>1, <2>2, <1>2, <1>5 DEF ChangeOps
      <3>6. \A c \in Waiting(w, r) : c.op \in ChangeOps /\ c.k = k => Says(c, p.items[k])
        BY <3>5 DEF Tells
      <3>7. ASSUME NEW n \in DOMAIN p.items[k]
            PROVE  /\ \/ p.items[k][n].id \in DOMAIN g[k]
                      \/ Coming(Waiting(w, r), "add", k, p.items[k][n].id)
                   /\ \/ p.items[k][n].id \in DOMAIN g[k]
                           /\ g[k][p.items[k][n].id] = p.items[k][n].cfg
                      \/ Coming(Waiting(w, r), "mod", k, p.items[k][n].id)
        <4> DEFINE x == p.items[k][n]
        <4>1. /\ x.id \in Ids(p.items[k]) /\ DOMAIN g[k] = p.last[k]
              /\ x.id \in p.last[k] \/ x.id \in p.modified[k]
              /\ x.id \in p.last[k] /\ x.id \notin p.modified[k] => x.cfg = g[k][x.id]
          BY <3>1, <3>4 DEF Followed
        <4> HIDE DEF x
        <4>2. /\ x.id \in DOMAIN g[k] \/ Coming(Waiting(w, r), "add", k, x.id)
              /\ \/ x.id \in DOMAIN g[k] /\ g[k][x.id] = x.cfg
                 \/ Coming(Waiting(w, r), "mod", k, x.id)
          BY <4>1, <3>2, <3>3 DEF Brings
        <4> QED
          BY <4>2 DEF x
      <3>8. \A i \in DOMAIN g[k] : i \in Ids(p.items[k]) \/ Coming(Waiting(w, r), "del", k, i)
        BY <3>1, <3>2, <3>3 DEF Followed, Brings
      <3> QED
        BY <3>6, <3>7, <3>8 DEF Applied
    <2>7. Following(p, w, r, g)
      BY <2>4, <2>6 DEF Following
    <2> QED
      <3>1. \A d \in r : Replied(w[1], d, g)
        BY <1>5 DEF Sync
      <3> QED
        BY <1>7, <2>3, <2>5, <2>7, <3>1 DEF Sync, w, v
  <1>8. CASE ~p.fetched
    <2>1. ASSUME NEW k \in Kinds PROVE Blank(p, k)
      <3>1. CASE Listed(q, at, k)
        <4>1. ListedFirst(p, q, g, k) /\ ~Has(q, "cfgs", k)
          BY <1>8, <3>1 DEF Sync, HasOp, Has
        <4>2. Ids(<<>>) = {}
          BY EmptyHasNone DEF Ids
        <4> QED
          BY <4>1, <4>2 DEF ListedFirst, Blank
      <3>2. CASE ~Listed(q, at, k)
        BY <3>2 DEF Listed, Sync, Fetching
      <3> QED
        BY <3>1, <3>2
    <2>2. Range(v) = {b}
      BY <2>1, <1>2, RangeOne
    <2>3. AllFit(w, at, p.fetched)
      <3>1. \A a \in Range(q), c \in Range(v) : Fits(a, c, at, p.fetched)
        BY <1>8, <2>2 DEF Fits, ChangeOps
      <3> QED
        BY <3>1, <1>2, <1>3, FitConcat DEF Sync, w
    <2>4. /\ HasOp(q, {"portCfg"}) <=> HasOp(w, {"portCfg"})
          /\ HasOp(q, {"cfgs"}) <=> HasOp(w, {"cfgs"})
          /\ HasOp(q, ChangeOps) <=> HasOp(w, ChangeOps)
          /\ \A k : Has(q, "ids", k) <=> Has(w, "ids", k)
          /\ \A k : Has(q, "cfgs", k) <=> Has(w, "cfgs", k)
          /\ \A c \in Range(w) : c.op = "cfgs" => c \in Range(q)
      BY <2>2, <1>4 DEF HasOp, Has, ChangeOps
    <2>5. Fetching(p, w, g, at)
      BY <2>4 DEF Sync, Fetching
    <2>6. ASSUME NEW k \in Kinds, Listed(w, at, k) PROVE ListedFirst(p, w, g, k)
      <3>1. ListedFirst(p, q, g, k)
        BY <1>8, <2>4, <2>6 DEF Sync, Listed
      <3> QED
        BY <3>1, <2>4 DEF ListedFirst
    <2>7. \A d \in r : Replied(w[1], d, g)
      BY <1>5 DEF Sync
    <2> QED
      BY <1>8, <2>3, <2>5, <2>6, <2>7 DEF Sync, w, v
  <1> QED
    BY <1>7, <1>8

-----------------------------------------------------------------------------
(* Lists of items.                                                            *)

\* An item put behind the others.
LEMMA ItemsConcat ==
    ASSUME NEW s, NEW t, IsItems(s), IsItems(t)
    PROVE  /\ IsItems(s \o t) /\ Ids(s \o t) = Ids(s) \cup Ids(t)
           /\ Unique(s) /\ Unique(t) /\ Ids(s) \cap Ids(t) = {} => Unique(s \o t)
           /\ \A n \in DOMAIN s : (s \o t)[n] = s[n]
           /\ Range(s \o t) = Range(s) \cup Range(t)
  <1>1. IsSeq(s) /\ IsSeq(t)
    BY DEF IsItems
  <1>2. /\ IsSeq(s \o t) /\ Range(s \o t) = Range(s) \cup Range(t)
        /\ \A n \in DOMAIN s : (s \o t)[n] = s[n]
    BY <1>1, Concat, RangeConcat
  <1>a. \A m, n \in DOMAIN (s \o t) : m < n =>
           Before(s \o t, (s \o t)[m], (s \o t)[n])
    BY DEF Before
  <1> DEFINE w == s \o t
  <1>3. \A x : x \in Range(w) <=> x \in Range(s) \/ x \in Range(t)
    BY <1>2
  <1>4. \A u : IsSeq(u) => (IsItems(u) <=> \A x \in Range(u) : IsItem(x))
    BY DEF IsItems, Range
  <1>5. \A u : Ids(u) = {x.id : x \in Range(u)}
    BY DEF Ids, Range
  <1>6. IsSeq(w) /\ DOMAIN w = 1 .. Len(w) /\ Len(w) \in Nat
    BY <1>2, SeqLength
  <1>7. \A m, n \in DOMAIN w : m < n => Before(w, w[m], w[n])
    BY <1>a
  <1>8. \A a, b : Before(w, a, b) =>
           Before(s, a, b) \/ Before(t, a, b) \/ (a \in Range(s) /\ b \in Range(t))
    BY <1>1, BeforeConcat
  <1> HIDE DEF w
  <1>9. IsItems(w)
    BY <1>1, <1>3, <1>4, <1>6
  <1>10. Ids(w) = Ids(s) \cup Ids(t)
    BY <1>3, <1>5
  <1>11. ASSUME Unique(s), Unique(t), Ids(s) \cap Ids(t) = {}
         PROVE  Unique(w)
    <2>1. ASSUME NEW m \in DOMAIN w, NEW n \in DOMAIN w, m < n
          PROVE  w[m].id # w[n].id
      <3>1. \A u : IsItems(u) => \A a, b : Before(u, a, b) /\ Unique(u) => a.id # b.id
        <4> SUFFICES ASSUME NEW u, IsItems(u), NEW i \in DOMAIN u, NEW j \in DOMAIN u, i < j,
                            Unique(u), u[i].id = u[j].id
                     PROVE  FALSE
          BY DEF Before
        <4>1. DOMAIN u = 1 .. Len(u) /\ Len(u) \in Nat
          BY SeqLength DEF IsItems
        <4>2. i = j
          BY DEF Unique
        <4> QED
          BY <4>1, <4>2
      <3> DEFINE a == w[m]
                 b == w[n]
      <3>2. Before(w, a, b)
        BY <2>1, <1>7
      <3> HIDE DEF a, b
      <3>3. CASE a \in Range(s) /\ b \in Range(t)
        BY <3>3, <1>5, <1>11 DEF a, b
      <3>4. a.id # b.id
        BY <3>1, <3>2, <3>3, <1>8, <1>11, Zenon DEF a, b
      <3> QED
        BY <3>4 DEF a, b
    <2>2. \A m, n \in DOMAIN w : m = n \/ m < n \/ n < m
      BY <1>6
    <2> QED
      BY <2>1, <2>2 DEF Unique
  <1> QED
    BY <1>2, <1>9, <1>10, <1>11 DEF w

\* One item.
LEMMA OneItem ==
    ASSUME NEW x, IsItem(x)
    PROVE  IsItems(<<x>>) /\ Ids(<<x>>) = {x.id} /\ Unique(<<x>>) /\ Range(<<x>>) = {x}
  <1>1. IsSeq(<<x>>) /\ DOMAIN <<x>> = {1} /\ <<x>>[1] = x
    BY OneIsSeq, SeqLength, 1 .. 1 = {1}
  <1> QED
    BY <1>1, RangeOne DEF IsItems, Ids, Unique

\* An item is taken out of a list.
LEMMA ItemsWithout ==
    ASSUME NEW s, IsItems(s), NEW n \in DOMAIN s
    PROVE  /\ IsItems(RemoveAt(s, n)) /\ Range(RemoveAt(s, n)) \subseteq Range(s)
           /\ Unique(s) => /\ Unique(RemoveAt(s, n))
                           /\ \A x \in Range(RemoveAt(s, n)) : x.id # s[n].id
  <1>1. IsSeq(s) /\ Len(s) \in Nat /\ DOMAIN s = 1 .. Len(s) /\ n \in 1 .. Len(s)
    BY SeqLength DEF IsItems
  <1> DEFINE a == SubSeq(s, 1, n - 1)
             b == SubSeq(s, n + 1, Len(s))
             w == a \o b
  <1>2. /\ a \in Seq(Range(s)) /\ Len(a) = n - 1
        /\ \A i \in 1 .. n - 1 : a[i] = s[i]
    <2>1. s \in Seq(Range(s)) /\ 1 \in 1 .. Len(s) + 1 /\ n - 1 \in 1 - 1 .. Len(s)
      BY <1>1 DEF IsSeq
    <2> QED
      BY <2>1, <1>1, SubSeqProperties
  <1>3. /\ b \in Seq(Range(s)) /\ Len(b) = Len(s) - n
        /\ \A i \in 1 .. Len(s) - n : b[i] = s[n + i]
    <2>1. /\ n + 1 \in Int /\ Len(s) \in Int /\ \A i \in n + 1 .. Len(s) : s[i] \in Range(s)
      BY <1>1 DEF Range
    <2>2. /\ b \in Seq(Range(s)) /\ Len(b) = IF n + 1 <= Len(s) THEN Len(s) - (n + 1) + 1 ELSE 0
          /\ \A i \in 1 .. Len(s) - (n + 1) + 1 : b[i] = s[n + 1 + i - 1]
      BY <2>1, SubSeqProperties
    <2> HIDE DEF b
    <2>3. \A i \in 1 .. Len(s) - n : i \in 1 .. Len(s) - (n + 1) + 1 /\ n + 1 + i - 1 = n + i
      BY <1>1
    <2>4. Len(b) = Len(s) - n
      BY <1>1, <2>2
    <2> QED
      BY <2>2, <2>3, <2>4
  <1>4. RemoveAt(s, n) = w
    BY DEF RemoveAt
  <1> HIDE DEF a, b
  <1>5. /\ IsSeq(a) /\ IsSeq(b) /\ DOMAIN a = 1 .. n - 1 /\ DOMAIN b = 1 .. Len(s) - n
    BY <1>1, <1>2, <1>3, SeqIsSeq, SeqLength
  <1>6. /\ IsSeq(w) /\ Len(w) = Len(a) + Len(b)
        /\ \A i \in DOMAIN a : w[i] = a[i]
        /\ \A i \in DOMAIN b : w[Len(a) + i] = b[i]
    BY <1>5, Concat
  <1> HIDE DEF w
  <1>7. DOMAIN w = 1 .. Len(s) - 1
    <2>1. DOMAIN w = 1 .. Len(w)
      BY <1>6, SeqLength
    <2>2. Len(w) = Len(s) - 1
      BY <1>1, <1>2, <1>3, <1>6
    <2> QED
      BY <2>1, <2>2
  <1>8. ASSUME NEW i \in DOMAIN w, i < n PROVE w[i] = s[i] /\ i \in DOMAIN s
    <2>1. i \in 1 .. n - 1
      BY <1>1, <1>7, <1>8
    <2> QED
      BY <2>1, <1>1, <1>2, <1>5, <1>6
  <1>9. ASSUME NEW i \in DOMAIN w, ~(i < n) PROVE w[i] = s[i + 1] /\ i + 1 \in DOMAIN s
    <2> DEFINE j == i - (n - 1)
    <2>1. j \in 1 .. Len(s) - n /\ (n - 1) + j = i /\ n + j = i + 1
      BY <1>1, <1>7, <1>9
    <2> HIDE DEF j
    <2>2. w[i] = b[j] /\ b[j] = s[i + 1]
      BY <2>1, <1>2, <1>3, <1>5, <1>6
    <2> QED
      BY <2>2, <1>1, <1>7
  <1>10. \A i \in DOMAIN w : \E m \in DOMAIN s : m # n /\ w[i] = s[m]
    <2>1. \A i \in DOMAIN w : i < n => i # n
      BY <1>1, <1>7
    <2>2. \A i \in DOMAIN w : ~(i < n) => i + 1 # n
      BY <1>1, <1>7
    <2> QED
      BY <2>1, <2>2, <1>8, <1>9
  <1>11. IsItems(w) /\ Range(w) \subseteq Range(s)
    BY <1>6, <1>10 DEF IsItems, Range
  <1>12. ASSUME Unique(s) PROVE Unique(w)
    <2>1. ASSUME NEW i \in DOMAIN w, NEW j \in DOMAIN w, w[i].id = w[j].id, i < j PROVE FALSE
      <3>1. i \in Nat /\ j \in Nat /\ n \in Nat
        BY <1>1, <1>7
      <3>2. CASE j < n
        <4>1. i < n
          BY <2>1, <3>1, <3>2
        <4>2. i = j
          BY <4>1, <2>1, <3>2, <1>8, <1>12 DEF Unique
        <4> QED
          BY <4>2, <2>1, <3>1
      <3>3. CASE i < n /\ ~(j < n)
        <4>1. i = j + 1
          BY <2>1, <3>3, <1>8, <1>9, <1>12 DEF Unique
        <4> QED
          BY <4>1, <2>1, <3>1
      <3>4. CASE ~(i < n) /\ ~(j < n)
        <4>1. i + 1 = j + 1
          BY <2>1, <3>4, <1>9, <1>12 DEF Unique
        <4> QED
          BY <4>1, <2>1, <3>1
      <3> QED
        BY <3>2, <3>3, <3>4
    <2>2. \A i, j \in DOMAIN w : i = j \/ i < j \/ j < i
      BY <1>1, <1>7
    <2> QED
      BY <2>1, <2>2 DEF Unique
  <1>13. ASSUME Unique(s) PROVE \A x \in Range(w) : x.id # s[n].id
    BY <1>10, <1>13 DEF Unique, Range
  <1> QED
    BY <1>4, <1>11, <1>12, <1>13

\* A function on the indices of a sequence is a sequence.
LEMMA SequenceOf ==
    ASSUME NEW s, NEW w, IsSeq(s), DOMAIN w = DOMAIN s, w = [n \in DOMAIN w |-> w[n]]
    PROVE  IsSeq(w)
  <1>1. Len(s) \in Nat /\ DOMAIN w = 1 .. Len(s)
    BY SeqLength
  <1> DEFINE R == {w[n] : n \in 1 .. Len(s)}
             l == Len(s)
  <1>2. w = [n \in 1 .. l |-> w[n]] /\ l \in Nat /\ \A n \in 1 .. l : w[n] \in R
    BY <1>1
  <1> HIDE DEF R, l
  <1>3. w \in [1 .. l -> R]
    BY <1>2
  <1>4. w \in Seq(R)
    BY <1>2, <1>3
  <1> QED
    BY <1>4, SeqIsSeq

\* The content of an item is edited.
LEMMA ItemsEdited ==
    ASSUME NEW s, IsItems(s), NEW n \in DOMAIN s, NEW v, NEW w,
           w = [s EXCEPT ![n] = [s[n] EXCEPT !.cfg = v]]
    PROVE  /\ IsItems(w) /\ DOMAIN w = DOMAIN s /\ Ids(w) = Ids(s)
           /\ \A m \in DOMAIN s : w[m].id = s[m].id /\ (m # n => w[m] = s[m])
           /\ Unique(s) => Unique(w)
  <1>1. /\ DOMAIN w = DOMAIN s /\ (\A m \in DOMAIN s : m # n => w[m] = s[m])
        /\ w[n] = [s[n] EXCEPT !.cfg = v] /\ IsItem(s[n])
    BY DEF IsItems
  <1>2. IsItem(w[n]) /\ w[n].id = s[n].id
    BY <1>1 DEF IsItem
  <1>3. \A m \in DOMAIN s : IsItem(w[m]) /\ w[m].id = s[m].id
    BY <1>1, <1>2 DEF IsItems
  <1>4. IsSeq(w)
    <2>1. IsSeq(s) /\ w = [m \in DOMAIN w |-> w[m]]
      BY <1>1 DEF IsItems
    <2> QED
      BY <2>1, <1>1, SequenceOf
  <1>5. Ids(w) = Ids(s)
    BY <1>1, <1>3 DEF Ids
  <1> QED
    BY <1>1, <1>3, <1>4, <1>5 DEF IsItems, Unique

-----------------------------------------------------------------------------
(* The messages under way.                                                    *)

\* Of several messages, one behind the others.
LEMMA DataConcat ==
    ASSUME NEW s, NEW t, IsSeq(s), IsSeq(t)
    PROVE  Data(s \o t) = Data(s) \cup Data(t)
  <1>1. Range(s \o t) = Range(s) \cup Range(t)
    BY RangeConcat
  <1> QED
    BY <1>1 DEF Data

\* Of one, and of none.
LEMMA DataOne ==
    /\ Data(<<>>) = {} /\ Data(<<Notification>>) = {}
    /\ \A d : Data(<<Reply(d)>>) = {d}
  <1>1. Data(<<>>) = {}
    BY RangeOne DEF Data
  <1>2. Data(<<Notification>>) = {}
    <2>1. Notification.t # "reply"
      BY DEF Notification
    <2> QED
      BY <2>1, RangeOne DEF Data
  <1>3. ASSUME NEW d PROVE Data(<<Reply(d)>>) = {d}
    <2> DEFINE m == Reply(d)
    <2>1. m.t = "reply" /\ m.data = d
      BY DEF Reply
    <2> HIDE DEF m
    <2>2. Data(<<m>>) = {d}
      BY <2>1, RangeOne DEF Data
    <2> QED
      BY <2>2 DEF m
  <1> QED
    BY <1>1, <1>2, <1>3

\* The first is taken.
LEMMA DataTail ==
    ASSUME NEW s, IsSeq(s), s # <<>>,
           \A m, n \in DOMAIN s : s[m].t = "reply" /\ s[n].t = "reply" => m = n
    PROVE  /\ s[1].t = "reply" => Data(s) = {s[1].data} /\ Data(Tail(s)) = {}
           /\ s[1].t = "notification" => Data(Tail(s)) = Data(s)
  <1> DEFINE w == Tail(s)
  <1>1. /\ IsSeq(w) /\ Range(s) = {s[1]} \cup Range(w) /\ 1 \in DOMAIN s
    BY TailOf, RangeTail
  <1>2. /\ \A n \in DOMAIN w : n + 1 \in DOMAIN s /\ w[n] = s[n + 1]
        /\ DOMAIN w = 1 .. Len(w) /\ Len(w) \in Nat
    BY <1>1, TailOf, SeqLength
  <1> HIDE DEF w
  <1>3. ASSUME s[1].t = "reply" PROVE \A x \in Range(w) : x.t # "reply"
    <2>1. \A n \in DOMAIN w : n + 1 # 1
      BY <1>2
    <2> QED
      BY <2>1, <1>1, <1>2, <1>3 DEF Range
  <1>4. ASSUME s[1].t = "reply" PROVE Data(s) = {s[1].data} /\ Data(w) = {}
    BY <1>1, <1>3, <1>4 DEF Data
  <1>5. ASSUME s[1].t = "notification" PROVE Data(w) = Data(s)
    BY <1>1, <1>5 DEF Data
  <1> QED
    BY <1>4, <1>5 DEF w

\* An answer belongs to a call.
LEMMA AnswersAreCalled ==
    ASSUME ExchangeInv
    PROVE  Replies # {} => calls # <<>>
  BY DEF ExchangeInv, OneReply, Replies, Data, Range

\* Before the drone answers nothing is answered.
LEMMA NothingAnswered ==
    ASSUME NEW ops, AtDrone(ops)
    PROVE  Replies = {}
  BY DEF AtDrone, Replies, Data, Range

\* The call at the drone, or answered.
LEMMA FirstCall ==
    ASSUME ExchangeInv, SyncType, calls # <<>>
    PROVE  calls[1] \in Range(calls) /\ CallType(calls[1])
  <1>1. Range(calls) = {calls[1]} \cup Range(Tail(calls))
    BY RangeTail DEF ExchangeInv, ExchangeType
  <1> QED
    BY <1>1 DEF SyncType, CallsTyped

-----------------------------------------------------------------------------
(* The steps.                                                                 *)

\* Calls that do not concern the copy are of no kind.
LEMMA OtherType ==
    ASSUME NEW c, c.op \notin CopyOps \cup ChangeOps
    PROVE  CallType(c)
  BY DEF CallType, CopyOps, ChangeOps

\* Steps that touch neither the copy nor what is asked and answered about it.
LEMMA SameSync ==
    ASSUME SyncInv, UNCHANGED <<port, calls, atConnect, nextId, window>>, Replies' = Replies,
           DOMAIN drone' = DOMAIN drone, DroneType(drone'.items),
           port.up /\ excuse' = {} => excuse = {} /\ drone'.items = drone.items
    PROVE  SyncInv'
  <1>1. SyncType'
    BY DEF SyncInv, SyncType, CountersType, DroneTyped, PortTyped, CallsTyped, RepliesTyped
  <1>2. OneBuild' /\ Alone'
    BY DEF SyncInv, OneBuild, Alone
  <1>3. Together'
    BY DEF SyncInv, Together
  <1> QED
    BY <1>1, <1>2, <1>3 DEF SyncInv

\* Without a port there is nothing to follow.
LEMMA NoPortSync ==
    ASSUME port' = NoPort, atConnect' = FALSE, nextId' \in [Kinds -> Nat], DroneTyped',
           IsSeq(calls'), \A n \in DOMAIN calls' : n = 1, Replies' = {},
           \A c \in Range(calls') : c.op \notin CopyOps \cup ChangeOps \cup BuildOps
    PROVE  SyncInv'
  <1>1. ~port'.up
    BY DEF NoPort
  <1>2. SyncType'
    <2>1. \A c \in Range(calls') : CallType(c)
      BY OtherType
    <2> QED
      BY <2>1 DEF SyncType, CountersType, PortTyped, CallsTyped, RepliesTyped
  <1>3. OneBuild'
    BY RangeAt DEF OneBuild, Once, HasOp
  <1> QED
    BY <1>1, <1>2, <1>3 DEF SyncInv, Alone, Together

\* Calls that are made beside the copy, while there is a port.
LEMMA AskedSync ==
    ASSUME ExchangeInv, SyncInv, port.up, UNCHANGED <<port, atConnect, nextId, excuse>>,
           drone' = drone, Replies' = Replies, NEW new, calls' = calls \o new, IsSeq(new),
           \A c \in Range(new) : c.op \notin CopyOps \cup ChangeOps \cup {"checkVersion", "portIds"},
           Once(new), HasOp(new, BuildOps) => window /\ ~window', window' => window
    PROVE  SyncInv'
  <1>1. /\ IsSeq(calls) /\ IsSeq(calls') /\ Range(calls') = Range(calls) \cup Range(new)
    BY Concat, RangeConcat DEF ExchangeInv, ExchangeType
  <1>2. Replies # {} => calls # <<>> /\ calls'[1] = calls[1]
    BY <1>1, AnswersAreCalled, TailConcat
  <1>3. SyncType'
    <2>1. \A c \in Range(new) : CallType(c)
      BY OtherType
    <2> QED
      BY <2>1, <1>1, <1>2
         DEF SyncInv, SyncType, CountersType, DroneTyped, PortTyped, CallsTyped, RepliesTyped
  <1>4. OneBuild'
    <2>1. HasOp(calls', BuildOps) <=> HasOp(calls, BuildOps) \/ HasOp(new, BuildOps)
      BY <1>1 DEF HasOp
    <2>2. Once(calls')
      BY <1>1, OnceConcat DEF SyncInv, OneBuild
    <2> QED
      BY <2>1, <2>2 DEF SyncInv, OneBuild
  <1>5. Alone'
    BY <1>1 DEF SyncInv, Alone, HasOp
  <1>6. Together'
    <2> SUFFICES ASSUME excuse = {} PROVE Together'
      BY DEF Together
    <2>1. Sync(port, calls, Replies, drone.items, atConnect)
      BY DEF SyncInv, Together
    <2>2. Sync(port, calls \o new, Replies, drone.items, atConnect)
      BY <2>1, <1>1, <1>2, SyncConcat
    <2> QED
      BY <2>2 DEF SyncInv, Together
  <1> QED
    BY <1>3, <1>4, <1>5, <1>6 DEF SyncInv

\* on_rpcChannel_notification()
LEMMA NotificationSync ==
    ASSUME ExchangeInv, SyncInv, OnNotification
    PROVE  SyncInv'
  <1> DEFINE c == Call("newCfg", "none", Nothing)
  <1>1. /\ inbox # <<>> /\ inbox[1].t = "notification" /\ inbox' = Tail(inbox)
        /\ calls' = calls \o <<c>> /\ UNCHANGED <<port, atConnect, nextId, window, excuse>>
        /\ drone' = drone
    <2>1. calls' = Append(calls, c)
      BY DEF OnNotification
    <2>2. calls' = calls \o <<c>>
      BY <2>1, AppendIsOne DEF ExchangeInv, ExchangeType
    <2> QED
      BY <2>2 DEF OnNotification, local
  <1>2. c.op = "newCfg"
    BY DEF Call
  <1> HIDE DEF c
  <1>3. Replies' = Replies
    BY <1>1, DataTail DEF Replies, ExchangeInv, ExchangeType, OneReply
  <1>4. /\ IsSeq(<<c>>) /\ Range(<<c>>) = {c} /\ Once(<<c>>) /\ DOMAIN <<c>> = {1} /\ <<c>>[1] = c
    BY OneIsSeq, RangeOne, OnceOne, SeqLength, 1 .. 1 = {1}
  <1>5. CASE port.up
    <2>1. ~HasOp(<<c>>, BuildOps)
      BY <1>2, <1>4 DEF HasOp, BuildOps
    <2>2. \A d \in Range(<<c>>) :
             d.op \notin CopyOps \cup ChangeOps \cup {"checkVersion", "portIds"}
      BY <1>2, <1>4 DEF CopyOps, ChangeOps
    <2> QED
      BY <1>1, <1>3, <1>4, <1>5, <2>1, <2>2, AskedSync
  <1>6. CASE ~port.up
    <2>1. /\ IsSeq(calls) /\ IsSeq(calls') /\ Range(calls') = Range(calls) \cup {c}
      BY <1>1, <1>4, Concat, RangeConcat DEF ExchangeInv, ExchangeType
    <2>2. Replies # {} => calls # <<>> /\ calls'[1] = calls[1]
      BY <1>1, <1>4, <2>1, AnswersAreCalled, TailConcat
    <2>3. SyncType'
      <3>1. CallType(c)
        BY <1>2, OtherType DEF CopyOps, ChangeOps
      <3> QED
        BY <1>1, <1>3, <2>1, <2>2, <3>1
           DEF SyncInv, SyncType, CountersType, DroneTyped, PortTyped, CallsTyped, RepliesTyped
    <2>4. OneBuild'
      <3>1. Once(calls')
        BY <1>1, <1>2, <1>4, <2>1, OnceConcat DEF HasOp, BuildOps, SyncInv, OneBuild
      <3> QED
        BY <1>1, <1>2, <2>1, <3>1 DEF SyncInv, OneBuild, HasOp, BuildOps
    <2>5. Alone'
      <3>1. calls # <<>>
        BY <1>1, <1>6, UpMeansConnected DEF ExchangeInv, Refused
      <3>2. \A n \in DOMAIN calls' : n # 1 => calls'[n].op = "newCfg"
        <4>1. \A n \in DOMAIN calls' : n \in DOMAIN calls \/ calls'[n] = c
          <5>1. WithLast(calls', calls, c)
            <6>1. calls' = Append(calls, c)
              BY DEF OnNotification, c
            <6> QED
              BY <2>1, <6>1, AppendedLast
          <5> QED
            BY <5>1 DEF WithLast
        <4>2. \A n \in DOMAIN calls : calls'[n] = calls[n]
          BY <1>1, <1>4, <2>1, FirstStays
        <4> QED
          BY <4>1, <4>2, <1>2, <1>6 DEF SyncInv, Alone
      <3> QED
        BY <3>2, <1>1, <1>6 DEF SyncInv, Alone
    <2> QED
      BY <1>1, <1>6, <2>3, <2>4, <2>5 DEF SyncInv, Together
  <1> QED
    BY <1>5, <1>6

\* The user edits a list of items.
LEMMA ListSync ==
    ASSUME ExchangeInv, SyncInv, port.up, window, NEW k \in Kinds, NEW v, NEW u,
           port' = [port EXCEPT !.items[k] = v, !.modified[k] = u, !.dirty = TRUE],
           UNCHANGED <<atConnect, window, calls, inbox, drone>>,
           excuse' = excuse \cup (IF port.fetched THEN {} ELSE {"early"}),
           nextId' \in [Kinds -> Nat], \A l \in Kinds : l # k => nextId'[l] = nextId[l],
           IsItems(v),
           Distinct(port.items[k], nextId[k]) =>
              /\ Distinct(v, nextId'[k])
              /\ \A x \in Range(v) : \/ x.id \in u
                                     \/ x.id \notin port.modified[k] /\ x \in Range(port.items[k])
    PROVE  SyncInv'
  <1> DEFINE items == [port.items EXCEPT ![k] = v]
             modified == [port.modified EXCEPT ![k] = u]
  <1>1. CopyType(port)
    BY DEF SyncInv, SyncType, PortTyped, NoPort
  <1>2. port' = [[[port EXCEPT !.items = items] EXCEPT !.modified = modified] EXCEPT !.dirty = TRUE]
    <2>1. [port EXCEPT !.items = items].modified = port.modified
      BY <1>1 DEF CopyType
    <2> QED
      BY <2>1
  <1>3. /\ DOMAIN items = Kinds /\ items[k] = v /\ \A l \in Kinds : l # k => items[l] = port.items[l]
        /\ DOMAIN modified = Kinds /\ modified[k] = u
        /\ \A l \in Kinds : l # k => modified[l] = port.modified[l]
    BY <1>1 DEF CopyType
  <1> HIDE DEF items, modified
  <1>4. /\ port'.items = items /\ port'.modified = modified /\ port'.dirty = TRUE
        /\ port'.last = port.last /\ port'.fetched = port.fetched /\ port'.up = TRUE
        /\ DOMAIN port' = DOMAIN port
    BY <1>1, <1>2 DEF CopyType
  <1>5. CopyType(port')
    <2>1. \A l \in Kinds : IsItems(items[l])
      BY <1>1, <1>3 DEF CopyType
    <2> QED
      BY <2>1, <1>1, <1>3, <1>4 DEF CopyType
  <1>6. Replies' = Replies
    BY DEF Replies
  <1>7. SyncType'
    BY <1>5, <1>6
       DEF SyncInv, SyncType, CountersType, DroneTyped, PortTyped, CallsTyped, RepliesTyped
  <1>8. OneBuild' /\ Alone'
    BY <1>4 DEF SyncInv, OneBuild, Alone
  <1>9. Together'
    <2> SUFFICES ASSUME excuse = {}, port.fetched PROVE Together'
      BY DEF Together
    <2>1. /\ Sync(port, calls, Replies, drone.items, atConnect)
          /\ \A l \in Kinds : Distinct(port.items[l], nextId[l])
      BY DEF SyncInv, Together
    <2>2. ~HasOp(calls, {"applyBuild"})
      BY DEF SyncInv, OneBuild, HasOp, BuildOps
    <2>3. Sync(port', calls, Replies, drone.items, atConnect)
      <3>1. \A x \in Range(port'.items[k]) :
               \/ x.id \in port'.modified[k]
               \/ x.id \notin port.modified[k] /\ x \in Range(port.items[k])
        BY <1>3, <1>4, <2>1
      <3>2. \A l \in Kinds : l # k => /\ port'.items[l] = port.items[l]
                                      /\ port'.modified[l] = port.modified[l]
        BY <1>3, <1>4
      <3> DEFINE p2 == port'
      <3>3. p2.fetched = port.fetched /\ p2.dirty = TRUE /\ p2.last = port.last
        BY <1>4
      <3> HIDE DEF p2
      <3>4. Sync(p2, calls, Replies, drone.items, atConnect)
        <4>1. /\ \A x \in Range(p2.items[k]) :
                    \/ x.id \in p2.modified[k]
                    \/ x.id \notin port.modified[k] /\ x \in Range(port.items[k])
              /\ \A l \in Kinds : l # k => /\ p2.items[l] = port.items[l]
                                           /\ p2.modified[l] = port.modified[l]
          BY <3>1, <3>2 DEF p2
        <4> QED
          BY <2>1, <2>2, <3>3, <4>1, SyncEdit
      <3> QED
        BY <3>4 DEF p2
    <2>4. \A l \in Kinds : Distinct(port'.items[l], nextId'[l])
      BY <1>3, <1>4, <2>1
    <2> QED
      BY <1>6, <2>3, <2>4 DEF Together
  <1> QED
    BY <1>7, <1>8, <1>9 DEF SyncInv

\* newStreamAt(), newDeviceGroupAt()
LEMMA NewItemSync ==
    ASSUME ExchangeInv, SyncInv, NEW k \in Kinds, NewItem(k)
    PROVE  SyncInv'
  <1> DEFINE x == [id |-> nextId[k], cfg |-> edits + 1]
             s == port.items[k]
             v == Append(s, x)
             u == port.modified[k] \cup {nextId[k]}
  <1>1. CopyType(port) /\ port.up
    BY DEF SyncInv, SyncType, PortTyped, NoPort, NewItem
  <1>2. nextId[k] \in Nat /\ nextId \in [Kinds -> Nat]
    BY DEF SyncInv, SyncType, CountersType
  <1>3. IsItem(x) /\ x.id = nextId[k]
    BY <1>2 DEF IsItem
  <1>4. IsItems(s)
    BY <1>1 DEF CopyType
  <1>5. port' = [port EXCEPT !.items[k] = v, !.modified[k] = u, !.dirty = TRUE]
    BY DEF NewItem, Edited
  <1>6. /\ UNCHANGED <<atConnect, window, calls, inbox, drone>> /\ window
        /\ excuse' = excuse \cup (IF port.fetched THEN {} ELSE {"early"})
        /\ nextId' = [nextId EXCEPT ![k] = nextId[k] + 1]
    BY DEF NewItem, Edited, wire
  <1>7. /\ nextId' \in [Kinds -> Nat] /\ nextId'[k] = nextId[k] + 1
        /\ \A l \in Kinds : l # k => nextId'[l] = nextId[l]
    BY <1>2, <1>6
  <1> HIDE DEF x, s
  <1>8. v = s \o <<x>>
    BY <1>4, AppendIsOne DEF IsItems
  <1> HIDE DEF v
  <1>9. /\ IsItems(v) /\ Ids(v) = Ids(s) \cup {x.id} /\ Range(v) = Range(s) \cup {x}
        /\ Unique(s) /\ x.id \notin Ids(s) => Unique(v)
    BY <1>3, <1>4, <1>8, OneItem, ItemsConcat
  <1>10. ASSUME Distinct(s, nextId[k])
         PROVE  /\ Distinct(v, nextId'[k])
                /\ \A y \in Range(v) : \/ y.id \in u
                                       \/ y.id \notin port.modified[k] /\ y \in Range(s)
    <2>1. \A i \in Ids(s) : i \in Nat /\ i < nextId[k]
      BY <1>4, <1>10, IdsOfItems DEF Distinct, Ids, IdSet
    <2>2. \A i \in Ids(v) : i < nextId'[k]
      BY <2>1, <1>2, <1>3, <1>7, <1>9
    <2>3. x.id \notin Ids(s)
      BY <2>1, <1>2, <1>3
    <2>4. Distinct(v, nextId'[k])
      BY <2>2, <2>3, <1>9, <1>10 DEF Distinct, Ids
    <2> QED
      BY <2>4, <1>3, <1>9
  <1> HIDE DEF u
  <1>11. Distinct(port.items[k], nextId[k]) =>
            /\ Distinct(v, nextId'[k])
            /\ \A y \in Range(v) : \/ y.id \in u
                                   \/ y.id \notin port.modified[k] /\ y \in Range(port.items[k])
    BY <1>10 DEF s
  <1> QED
    BY <1>1, <1>5, <1>6, <1>7, <1>9, <1>11, ListSync

\* deleteStreamAt(), deleteDeviceGroupAt()
LEMMA DeleteItemSync ==
    ASSUME ExchangeInv, SyncInv, NEW k \in Kinds, DeleteItem(k)
    PROVE  SyncInv'
  <1> DEFINE s == port.items[k]
  <1>1. CopyType(port) /\ port.up
    BY DEF SyncInv, SyncType, PortTyped, NoPort, DeleteItem
  <1>2. PICK n \in DOMAIN s :
           /\ Edited([port EXCEPT !.items[k] = RemoveAt(@, n),
                                  !.modified[k] = @ \ {s[n].id}, !.dirty = TRUE])
           /\ UNCHANGED nextId
    BY DEF DeleteItem
  <1> DEFINE v == RemoveAt(s, n)
             u == port.modified[k] \ {s[n].id}
  <1>3. port' = [port EXCEPT !.items[k] = v, !.modified[k] = u, !.dirty = TRUE]
    BY <1>2 DEF Edited
  <1>4. /\ UNCHANGED <<atConnect, window, calls, inbox, drone>> /\ window /\ nextId' = nextId
        /\ excuse' = excuse \cup (IF port.fetched THEN {} ELSE {"early"})
    BY <1>2 DEF Edited, wire
  <1>5. IsItems(s) /\ nextId \in [Kinds -> Nat]
    BY <1>1 DEF CopyType, SyncInv, SyncType, CountersType
  <1> HIDE DEF s
  <1>6. /\ IsItems(v) /\ Range(v) \subseteq Range(s)
        /\ Unique(s) => Unique(v) /\ \A x \in Range(v) : x.id # s[n].id
    BY <1>5, ItemsWithout
  <1> HIDE DEF v
  <1>7. ASSUME Distinct(s, nextId[k])
        PROVE  /\ Distinct(v, nextId'[k])
               /\ \A x \in Range(v) : \/ x.id \in u
                                      \/ x.id \notin port.modified[k] /\ x \in Range(s)
    BY <1>4, <1>6, <1>7 DEF Distinct, Range
  <1> QED
    BY <1>1, <1>3, <1>4, <1>5, <1>6, <1>7, ListSync DEF s

\* The dialogs of a stream and of a device group.
LEMMA EditItemSync ==
    ASSUME ExchangeInv, SyncInv, NEW k \in Kinds, EditItem(k)
    PROVE  SyncInv'
  <1> DEFINE s == port.items[k]
  <1>1. CopyType(port) /\ port.up
    BY DEF SyncInv, SyncType, PortTyped, NoPort, EditItem
  <1>2. PICK n \in DOMAIN s :
           /\ Edited([port EXCEPT !.items[k][n].cfg = edits + 1,
                                  !.modified[k] = @ \cup {s[n].id}, !.dirty = TRUE])
           /\ UNCHANGED nextId
    BY DEF EditItem
  <1> DEFINE v == [s EXCEPT ![n] = [s[n] EXCEPT !.cfg = edits + 1]]
             u == port.modified[k] \cup {s[n].id}
  <1>3. port' = [port EXCEPT !.items[k] = v, !.modified[k] = u, !.dirty = TRUE]
    BY <1>2 DEF Edited
  <1>4. /\ UNCHANGED <<atConnect, window, calls, inbox, drone>> /\ window /\ nextId' = nextId
        /\ excuse' = excuse \cup (IF port.fetched THEN {} ELSE {"early"})
    BY <1>2 DEF Edited, wire
  <1>5. IsItems(s) /\ nextId \in [Kinds -> Nat]
    BY <1>1 DEF CopyType, SyncInv, SyncType, CountersType
  <1> HIDE DEF s
  <1>6. /\ IsItems(v) /\ DOMAIN v = DOMAIN s
        /\ \A m \in DOMAIN s : v[m].id = s[m].id /\ (m # n => v[m] = s[m])
        /\ Unique(s) => Unique(v)
    BY <1>5, ItemsEdited
  <1> HIDE DEF v
  <1>7. ASSUME Distinct(s, nextId[k])
        PROVE  /\ Distinct(v, nextId'[k])
               /\ \A x \in Range(v) : \/ x.id \in u
                                      \/ x.id \notin port.modified[k] /\ x \in Range(s)
    <2>1. Distinct(v, nextId'[k])
      BY <1>4, <1>6, <1>7 DEF Distinct
    <2>2. ASSUME NEW m \in DOMAIN v
          PROVE  v[m].id \in u \/ (v[m].id \notin port.modified[k] /\ v[m] \in Range(s))
      <3>1. CASE m = n
        BY <1>6, <3>1
      <3>2. CASE m # n
        BY <1>6, <3>2 DEF Range
      <3> QED
        BY <3>1, <3>2
    <2> QED
      BY <2>1, <2>2 DEF Range
  <1> HIDE DEF u
  <1>8. Distinct(port.items[k], nextId[k]) =>
           /\ Distinct(v, nextId'[k])
           /\ \A x \in Range(v) : \/ x.id \in u
                                  \/ x.id \notin port.modified[k] /\ x \in Range(port.items[k])
    BY <1>7 DEF s
  <1> QED
    BY <1>1, <1>3, <1>4, <1>5, <1>6, <1>8, ListSync

\* modifyPort(), startTx(), stopTx(), getPortStats()
LEMMA OtherAskSync ==
    ASSUME ExchangeInv, SyncInv,
           ModifyPort \/ PollStats \/ \E op \in {"startTx", "stopTx"} : Transmit(op)
    PROVE  SyncInv'
  <1>1. IsSeq(calls)
    BY DEF ExchangeInv, ExchangeType
  <1>2. /\ port.up /\ UNCHANGED <<port, atConnect, nextId, excuse>>
        /\ drone' = drone /\ Replies' = Replies
    BY DEF ModifyPort, PollStats, Transmit, local, Replies
  <1>3. ASSUME NEW c, c.op \in {"startTx", "stopTx", "stats"}, calls' = Append(calls, c),
               window' = window
        PROVE  SyncInv'
    <2>1. calls' = calls \o <<c>>
      BY <1>1, <1>3, AppendIsOne
    <2>2. IsSeq(<<c>>) /\ Range(<<c>>) = {c} /\ Once(<<c>>)
      BY OneIsSeq, RangeOne, OnceOne
    <2>3. ~HasOp(<<c>>, BuildOps)
      BY <1>3, <2>2 DEF HasOp, BuildOps
    <2>4. \A d \in Range(<<c>>) :
             d.op \notin CopyOps \cup ChangeOps \cup {"checkVersion", "portIds"}
      BY <1>3, <2>2 DEF CopyOps, ChangeOps
    <2> QED
      BY <1>2, <1>3, <2>1, <2>2, <2>3, <2>4, AskedSync
  <1>4. ASSUME NEW op \in {"startTx", "stopTx"}, Transmit(op) PROVE SyncInv'
    <2> DEFINE c == Call(op, "none", Nothing)
    <2>1. c.op = op /\ calls' = Append(calls, c) /\ window' = window
      BY <1>4 DEF Call, Transmit, local
    <2> HIDE DEF c
    <2> QED
      BY <1>3, <2>1
  <1>5. CASE PollStats
    <2> DEFINE c == Call("stats", "none", Nothing)
    <2>1. c.op = "stats" /\ calls' = Append(calls, c) /\ window' = window
      BY <1>5 DEF Call, PollStats
    <2> HIDE DEF c
    <2> QED
      BY <1>3, <2>1
  <1>6. CASE ModifyPort
    <2> DEFINE c == Call("modifyPort", "none", [cfg |-> edits + 1])
               d == Call("modifyBuild", "none", Nothing)
               new == <<c>> \o <<d>>
    <2>1. c.op = "modifyPort" /\ d.op = "modifyBuild"
      BY DEF Call
    <2>2. calls' = calls \o <<c, d>> /\ <<c, d>> = <<c>> \o <<d>> /\ window /\ ~window'
      BY <1>6 DEF ModifyPort
    <2> HIDE DEF c, d
    <2>3. IsSeq(<<c>>) /\ Range(<<c>>) = {c} /\ Once(<<c>>)
          /\ IsSeq(<<d>>) /\ Range(<<d>>) = {d} /\ Once(<<d>>)
      BY OneIsSeq, RangeOne, OnceOne
    <2>4. /\ IsSeq(new) /\ Range(new) = {c} \cup {d} /\ Once(new)
      <3>1. ~HasOp(<<c>>, BuildOps)
        BY <2>1, <2>3 DEF HasOp, BuildOps
      <3> QED
        BY <2>3, <3>1, Concat, RangeConcat, OnceConcat
    <2>5. calls' = calls \o new
      BY <2>2
    <2> HIDE DEF new
    <2>6. \A e \in Range(new) :
             e.op \notin CopyOps \cup ChangeOps \cup {"checkVersion", "portIds"}
      BY <2>1, <2>4 DEF CopyOps, ChangeOps
    <2> QED
      BY <1>2, <2>2, <2>4, <2>5, <2>6, AskedSync
  <1> QED
    BY <1>4, <1>5, <1>6

\* when_configApply()
LEMMA ApplySync ==
    ASSUME ExchangeInv, SyncInv, Apply
    PROVE  SyncInv'
  <1> DEFINE changes == ForKinds([k \in Kinds |-> Changes(k)])
             b == Call("applyBuild", "none", Nothing)
             new == changes \o <<b>>
  <1>1. /\ port.up /\ window /\ ~window' /\ UNCHANGED <<port, atConnect, nextId>>
        /\ drone' = drone /\ Replies' = Replies /\ IsSeq(calls) /\ CopyType(port)
    BY DEF Apply, Replies, ExchangeInv, ExchangeType, SyncInv, SyncType, PortTyped, NoPort
  <1>2. /\ calls' = (calls \o changes) \o <<b>>
        /\ (excuse' = {} => excuse = {} /\ ~HasOp(calls, {"cfgs"}))
    BY DEF Apply, HasOp, Range
  <1>3. b.op = "applyBuild"
    BY DEF Call
  <1>4. /\ IsSeq(changes) /\ (\A at, f : AllFit(changes, at, f))
        /\ (\A c \in Range(changes) : Tells(c, port))
        /\ (\A k \in Kinds : Brings(changes, port, k))
        /\ ((\A k \in Kinds : Blank(port, k)) => changes = <<>>)
    BY <1>1, AllChangesTell
  <1> HIDE DEF changes, b
  <1>5. IsSeq(<<b>>) /\ Range(<<b>>) = {b} /\ Once(<<b>>)
    BY OneIsSeq, RangeOne, OnceOne
  <1>6. calls' = calls \o new
    <2> DEFINE R == Range(calls) \cup Range(changes) \cup Range(<<b>>)
    <2>1. calls \in Seq(R) /\ changes \in Seq(R) /\ <<b>> \in Seq(R)
      BY <1>1, <1>4, <1>5, SeqMonotonic DEF IsSeq
    <2> HIDE DEF R
    <2> QED
      BY <1>2, <2>1, ConcatAssociative
  <1>7. IsSeq(new) /\ Range(new) = Range(changes) \cup {b}
    BY <1>4, <1>5, Concat, RangeConcat
  <1>8. Once(new) /\ HasOp(new, BuildOps)
    <2>1. ~HasOp(changes, BuildOps)
      BY <1>4 DEF HasOp, BuildOps, Tells, ChangeOps
    <2>2. Once(changes)
      BY <2>1, RangeAt DEF Once, HasOp
    <2>3. Once(new)
      BY <2>1, <2>2, <1>4, <1>5, OnceConcat
    <2> QED
      BY <2>3, <1>3, <1>7 DEF HasOp, BuildOps
  <1> HIDE DEF new
  <1>9. /\ IsSeq(calls') /\ Range(calls') = Range(calls) \cup Range(new)
    BY <1>1, <1>6, <1>7, Concat, RangeConcat
  <1>10. Replies # {} => calls # <<>> /\ calls'[1] = calls[1]
    BY <1>1, <1>6, <1>7, AnswersAreCalled, TailConcat
  <1>11. SyncType'
    <2>1. \A c \in Range(new) : CallType(c)
      BY <1>3, <1>4, <1>7 DEF Tells, CallType, ChangeOps
    <2> QED
      BY <2>1, <1>1, <1>9, <1>10
         DEF SyncInv, SyncType, CountersType, DroneTyped, PortTyped, CallsTyped, RepliesTyped
  <1>12. OneBuild'
    <2>1. ~HasOp(calls, BuildOps)
      BY <1>1 DEF SyncInv, OneBuild
    <2>2. Once(calls')
      BY <2>1, <1>1, <1>6, <1>7, <1>8, OnceConcat DEF SyncInv, OneBuild
    <2> QED
      BY <2>2, <1>1 DEF OneBuild
  <1>13. Alone'
    <2>1. ~HasOp(new, {"checkVersion", "portIds"})
      BY <1>3, <1>4, <1>7 DEF HasOp, Tells, ChangeOps
    <2> QED
      BY <2>1, <1>1, <1>9 DEF SyncInv, Alone, HasOp
  <1>14. Together'
    <2> SUFFICES ASSUME excuse = {}, ~HasOp(calls, {"cfgs"}) PROVE Together'
      BY <1>2 DEF Together
    <2>1. /\ Sync(port, calls, Replies, drone.items, atConnect)
          /\ \A k \in Kinds : Distinct(port.items[k], nextId[k])
      BY <1>1 DEF SyncInv, Together
    <2>2. ~HasOp(calls, {"applyBuild"}) /\ \A c \in Range(calls) : CallType(c)
      BY <1>1 DEF SyncInv, SyncType, CallsTyped, OneBuild, HasOp, BuildOps
    <2>3. \A k \in Kinds : Unique(port.items[k])
      BY <2>1 DEF Distinct
    <2>4. Sync(port, calls', Replies, drone.items, atConnect)
      BY <1>1, <1>3, <1>4, <1>6, <1>10, <2>1, <2>2, <2>3, SyncApply DEF new
    <2> QED
      BY <1>1, <2>1, <2>4 DEF Together
  <1> QED
    BY <1>11, <1>12, <1>13, <1>14 DEF SyncInv

-----------------------------------------------------------------------------
(* What the drone, the network and other controllers do.                       *)

\* The drone has answered.
LEMMA AnsweredWith ==
    ASSUME ExchangeInv, NEW ops, AtDrone(ops), NEW d, NEW more, IsSeq(more), Data(more) = {},
           inbox' = inbox \o (<<Reply(d)>> \o more)
    PROVE  Replies' = {d}
  <1>1. IsSeq(inbox) /\ IsSeq(<<Reply(d)>>) /\ IsSeq(<<Reply(d)>> \o more)
    BY OneIsSeq, Concat DEF ExchangeInv, ExchangeType
  <1>2. Data(inbox) = {} /\ Data(<<Reply(d)>>) = {d}
    BY NothingAnswered, DataOne DEF Replies
  <1>3. Data(inbox') = Data(inbox) \cup (Data(<<Reply(d)>>) \cup Data(more))
    <2>1. Data(<<Reply(d)>> \o more) = Data(<<Reply(d)>>) \cup Data(more)
      BY <1>1, DataConcat
    <2>2. Data(inbox \o (<<Reply(d)>> \o more)) = Data(inbox) \cup Data(<<Reply(d)>> \o more)
      BY <1>1, DataConcat
    <2> QED
      BY <2>1, <2>2
  <1> QED
    BY <1>2, <1>3 DEF Replies

\* And with nothing behind the answer.
LEMMA AnswerIs ==
    ASSUME ExchangeInv, NEW ops, AtDrone(ops), NEW d, Answer(d)
    PROVE  Replies' = {d}
  <1>1. IsSeq(inbox) /\ IsSeq(<<Reply(d)>>)
    BY OneIsSeq DEF ExchangeInv, ExchangeType
  <1>2. Data(inbox) = {} /\ Data(<<Reply(d)>>) = {d}
    BY NothingAnswered, DataOne DEF Replies
  <1>3. inbox' = inbox \o <<Reply(d)>>
    BY <1>1, AppendIsOne DEF Answer
  <1>4. Data(inbox \o <<Reply(d)>>) = Data(inbox) \cup Data(<<Reply(d)>>)
    BY <1>1, DataConcat
  <1> QED
    BY <1>2, <1>3, <1>4 DEF Replies

\* Steps in which the drone takes the first call and answers it.
LEMMA AnswerSync ==
    ASSUME ExchangeInv, SyncInv, NEW ops, AtDrone(ops),
           UNCHANGED <<port, calls, atConnect, nextId, window>>, NEW d, Replies' = {d},
           DOMAIN drone' = DOMAIN drone, DroneType(drone'.items),
           calls[1].op = "ids" => IdSet(d.ids),
           port.up /\ excuse' = {} =>
              /\ excuse = {}
              /\ Sync(port, calls, {}, drone.items, atConnect) =>
                    Sync(port, calls, {d}, drone'.items, atConnect)
    PROVE  SyncInv'
  <1>1. SyncType'
    BY DEF SyncInv, SyncType, CountersType, DroneTyped, PortTyped, CallsTyped, RepliesTyped
  <1>2. OneBuild' /\ Alone'
    BY DEF SyncInv, OneBuild, Alone
  <1>3. Replies = {}
    BY NothingAnswered
  <1>4. Together'
    BY <1>3 DEF SyncInv, Together
  <1> QED
    BY <1>1, <1>2, <1>4 DEF SyncInv

\* checkVersion()
LEMMA VersionSync ==
    ASSUME ExchangeInv, SyncInv, ServeVersion
    PROVE  SyncInv'
  <1>1. PICK d : Answer(d)
    BY DEF ServeVersion
  <1>2. AtDrone({"checkVersion"}) /\ Replies' = {d} /\ drone' = drone
        /\ UNCHANGED <<port, calls, atConnect, nextId, window, excuse>>
    BY <1>1, AnswerIs DEF ServeVersion, local
  <1>3. calls[1].op = "checkVersion" /\ calls[1] \in Range(calls)
    BY <1>2, FirstCall DEF AtDrone, SyncInv
  <1>4. ~port.up
    BY <1>3 DEF SyncInv, Alone, HasOp
  <1> QED
    BY <1>2, <1>3, <1>4, AnswerSync DEF SyncInv, SyncType, DroneTyped

\* getPortIdList(), getPortConfig(), get...IdList(), get...Config(), getStats()
LEMMA ReadSync ==
    ASSUME ExchangeInv, SyncInv, ServeRead
    PROVE  SyncInv'
  <1> DEFINE c == calls[1]
             ops == {"portIds", "portCfg", "newCfg", "ids", "cfgs", "stats"}
             g == drone.items
  <1>1. PICK d : /\ Answer(d)
                 /\ c.op = "ids" => d = [ids |-> DOMAIN g[c.k]]
                 /\ c.op = "cfgs" =>
                       d = [items |-> Restrict(g[c.k], DOMAIN g[c.k] \cap c.arg.ids)]
    BY DEF ServeRead
  <1>2. AtDrone(ops) /\ Replies' = {d} /\ drone' = drone /\ c.op \in ops /\ calls # <<>>
        /\ UNCHANGED <<port, calls, atConnect, nextId, window, excuse>>
    BY <1>1, AnswerIs DEF ServeRead, local, AtDrone
  <1>3. c \in Range(calls) /\ CallType(c) /\ DroneType(g)
    BY <1>2, FirstCall DEF SyncInv, SyncType, DroneTyped
  <1>4. c.op = "ids" => d.ids = DOMAIN g[c.k] /\ IdSet(d.ids)
    BY <1>1, <1>3 DEF CallType, DroneType
  <1>5. ASSUME Sync(port, calls, {}, g, atConnect)
        PROVE  Sync(port, calls, {d}, g, atConnect)
    <2>1. Replied(c, d, g)
      <3>1. ASSUME c.op = "cfgs"
            PROVE  DOMAIN d.items = DOMAIN g[c.k] /\ \A i \in DOMAIN g[c.k] : d.items[i] = g[c.k][i]
        <4>1. c.arg.ids = DOMAIN g[c.k]
          BY <1>3, <1>5, <3>1 DEF Sync, Fetching
        <4> DEFINE e == g[c.k]
        <4>2. d = [items |-> Restrict(e, DOMAIN e \cap c.arg.ids)] /\ c.arg.ids = DOMAIN e
          BY <1>1, <3>1, <4>1
        <4> HIDE DEF e, g, c
        <4>3. d.items = [i \in DOMAIN e |-> e[i]]
          BY <4>2, DOMAIN e \cap DOMAIN e = DOMAIN e DEF Restrict
        <4>4. DOMAIN d.items = DOMAIN e /\ \A i \in DOMAIN e : d.items[i] = e[i]
          BY <4>3
        <4> QED
          BY <4>4 DEF e
      <3> QED
        BY <1>4, <3>1 DEF Replied
    <2> QED
      BY <1>2, <1>5, <2>1, SyncServed DEF ExchangeInv, ExchangeType, ChangeOps
  <1> HIDE DEF ops
  <1> QED
    BY <1>2, <1>3, <1>4, <1>5, AnswerSync DEF SyncInv, SyncType, DroneTyped

\* What a change leaves is a list of contents again.
LEMMA ChangedMap ==
    ASSUME NEW f, NEW c, c.op \in ChangeOps
    PROVE  IsMap(Changed(f, c))
  <1>1. CASE c.op = "add"
    <2> DEFINE e == [i \in DOMAIN f \cup c.arg.ids |-> IF i \in DOMAIN f THEN f[i] ELSE Default]
    <2>1. Changed(f, c) = e
      BY <1>1 DEF Changed
    <2>2. IsMap(e)
      BY DEF IsMap
    <2> QED
      BY <2>1, <2>2
  <1>2. CASE c.op = "del"
    <2> DEFINE e == [i \in DOMAIN f \ c.arg.ids |-> f[i]]
    <2>1. Changed(f, c) = e
      BY <1>2 DEF Changed, Restrict
    <2>2. IsMap(e)
      BY DEF IsMap
    <2> QED
      BY <2>1, <2>2
  <1>3. CASE c.op = "mod"
    <2> DEFINE e == [i \in DOMAIN f |-> IF i \in DOMAIN c.arg.items THEN c.arg.items[i] ELSE f[i]]
    <2>1. Changed(f, c) = e
      BY <1>3 DEF Changed
    <2>2. IsMap(e)
      BY DEF IsMap
    <2> QED
      BY <2>1, <2>2
  <1> QED
    BY <1>1, <1>2, <1>3 DEF ChangeOps

\* add..., delete..., modify...
LEMMA ChangeSync ==
    ASSUME ExchangeInv, SyncInv, ServeChange
    PROVE  SyncInv'
  <1> DEFINE c == calls[1]
             g == drone.items
             f == Changed(g[c.k], c)
             h == [g EXCEPT ![c.k] = f]
  <1>1. /\ AtDrone({"add", "del", "mod"}) /\ Replies' = {Nothing} /\ c.op \in ChangeOps
        /\ UNCHANGED <<port, calls, atConnect, nextId, window>> /\ calls # <<>>
    BY AnswerIs DEF ServeChange, local, AtDrone, ChangeOps
  <1>2. CallType(c) /\ DroneType(g) /\ DOMAIN drone = {"items", "cfg", "tx"} /\ c.k \in Kinds
    BY <1>1, FirstCall DEF SyncInv, SyncType, DroneTyped, CallType, ChangeOps
  <1>3. CASE drone.tx
    <2>1. drone' = drone /\ excuse' # {}
      BY <1>3 DEF ServeChange
    <2> QED
      BY <1>1, <1>2, <2>1, AnswerSync DEF ChangeOps
  <1>4. CASE ~drone.tx
    <2>1. drone' = [drone EXCEPT !.items[c.k] = Changed(@, c)] /\ excuse' = excuse
      BY <1>4 DEF ServeChange
    <2>2. drone'.items = h /\ DOMAIN drone' = DOMAIN drone
      BY <1>2, <2>1
    <2>3. DOMAIN h = Kinds /\ h[c.k] = f /\ \A k \in Kinds : k # c.k => h[k] = g[k]
      BY <1>2 DEF DroneType
    <2>4. IdSet(DOMAIN f)
      <3>1. /\ c.op = "add" => DOMAIN f = DOMAIN g[c.k] \cup c.arg.ids
            /\ c.op = "del" => DOMAIN f = DOMAIN g[c.k] \ c.arg.ids
            /\ c.op = "mod" => DOMAIN f = DOMAIN g[c.k]
        <4> DEFINE e == g[c.k]
        <4> HIDE DEF e, c, g
        <4>1. /\ c.op = "add" => DOMAIN Changed(e, c) = DOMAIN e \cup c.arg.ids
              /\ c.op = "del" => DOMAIN Changed(e, c) = DOMAIN e \ c.arg.ids
              /\ c.op = "mod" => DOMAIN Changed(e, c) = DOMAIN e
          BY ChangedIs
        <4> QED
          BY <4>1 DEF e
      <3> HIDE DEF f
      <3>2. IdSet(DOMAIN g[c.k]) /\ (c.op = "add" => IdSet(c.arg.ids))
        BY <1>2 DEF DroneType, CallType
      <3>3. DOMAIN f = DOMAIN g[c.k] \ c.arg.ids => IdSet(DOMAIN f)
        BY <3>2, FS_Subset, DOMAIN g[c.k] \ c.arg.ids \subseteq DOMAIN g[c.k] DEF IdSet
      <3>4. IdSet(c.arg.ids) => IdSet(DOMAIN g[c.k] \cup c.arg.ids)
        BY <3>2, FS_Union DEF IdSet
      <3> QED
        BY <1>1, <3>1, <3>2, <3>3, <3>4 DEF ChangeOps
    <2>5. Sync(port, calls, {}, g, atConnect) => Sync(port, calls, {Nothing}, h, atConnect)
      BY <1>1, <1>2, SyncChanged DEF DroneType, ExchangeInv, ExchangeType
    <2>6. IsMap(f)
      <3> DEFINE e == g[c.k]
      <3>1. IsMap(Changed(e, c))
        <4> HIDE DEF e, c
        <4> QED
          BY <1>1, ChangedMap DEF c
      <3> QED
        BY <3>1
    <2> HIDE DEF f, h
    <2>7. DroneType(h)
      BY <1>2, <2>3, <2>4, <2>6 DEF DroneType
    <2> QED
      BY <1>1, <2>1, <2>2, <2>5, <2>7, AnswerSync DEF ChangeOps
  <1> QED
    BY <1>3, <1>4

\* modifyPort(), startTransmit(), stopTransmit(), build()
LEMMA OtherServed ==
    ASSUME ExchangeInv, SyncInv, ServeModifyPort \/ ServeTransmit
    PROVE  SyncInv'
  <1> DEFINE ops == {"modifyPort", "startTx", "stopTx", "build", "modifyBuild", "applyBuild"}
  <1>1. /\ AtDrone(ops) /\ UNCHANGED <<port, calls, atConnect, nextId, window, excuse>>
        /\ calls # <<>> /\ calls[1].op \in ops
    BY DEF ServeModifyPort, ServeTransmit, local, AtDrone
  <1>2. /\ DOMAIN drone' = DOMAIN drone /\ drone'.items = drone.items /\ DroneType(drone.items)
    BY DEF ServeModifyPort, ServeTransmit, SyncInv, SyncType, DroneTyped
  <1>3. Replies' = {Nothing}
    <2>1. ASSUME Answer(Nothing) PROVE Replies' = {Nothing}
      BY <1>1, <2>1, AnswerIs
    <2>2. ASSUME NEW more, more \in {<<Notification>>, <<>>},
                 inbox' = inbox \o <<Reply(Nothing)>> \o more
          PROVE  Replies' = {Nothing}
      <3>1. IsSeq(more) /\ Data(more) = {}
        BY <2>2, OneIsSeq, EmptyIsSeq, DataOne
      <3>2. inbox' = inbox \o (<<Reply(Nothing)>> \o more)
        <4> DEFINE a == <<Reply(Nothing)>>
                   R == Range(inbox) \cup Range(a) \cup Range(more)
        <4>1. IsSeq(inbox) /\ IsSeq(a)
          BY OneIsSeq DEF ExchangeInv, ExchangeType
        <4> HIDE DEF a
        <4>2. inbox \in Seq(R) /\ a \in Seq(R) /\ more \in Seq(R)
          BY <3>1, <4>1, SeqMonotonic DEF IsSeq
        <4> HIDE DEF R
        <4>3. (inbox \o a) \o more = inbox \o (a \o more)
          BY <4>2, ConcatAssociative
        <4> QED
          BY <2>2, <4>3 DEF a
      <3> QED
        BY <1>1, <3>1, <3>2, AnsweredWith
    <2> QED
      BY <2>1, <2>2 DEF ServeModifyPort, ServeTransmit
  <1>4. Sync(port, calls, {}, drone.items, atConnect) =>
           Sync(port, calls, {Nothing}, drone.items, atConnect)
    BY <1>1, SyncServed DEF ExchangeInv, ExchangeType, ChangeOps, Replied
  <1>5. calls[1].op # "ids"
    BY <1>1
  <1> HIDE DEF ops
  <1> QED
    BY <1>1, <1>2, <1>3, <1>4, <1>5, AnswerSync

\* Whatever the drone does.
LEMMA DroneSync ==
    ASSUME ExchangeInv, SyncInv, Drone
    PROVE  SyncInv'
  BY VersionSync, ReadSync, ChangeSync, OtherServed DEF Drone

\* The socket, its timer, the end of a transmission.
LEMMA NetSync ==
    ASSUME ExchangeInv, SyncInv,
           \/ UserConnect \/ ReconnectTimeout \/ OnError \/ TransmitEnds
           \/ UserDisconnect /\ sock # "connected"
    PROVE  SyncInv'
  <1>1. UNCHANGED <<port, calls, atConnect, nextId, window, excuse, inbox>>
    BY DEF UserConnect, ReconnectTimeout, OnError, TransmitEnds, UserDisconnect, local, wire
  <1>2. DOMAIN drone' = DOMAIN drone /\ drone'.items = drone.items /\ DroneType(drone.items)
    BY DEF UserConnect, ReconnectTimeout, OnError, TransmitEnds, UserDisconnect,
           SyncInv, SyncType, DroneTyped
  <1>3. Replies' = Replies
    BY <1>1 DEF Replies
  <1> QED
    BY <1>1, <1>2, <1>3, SameSync

\* Another controller.
LEMMA OtherSync ==
    ASSUME ExchangeInv, SyncInv, OtherController
    PROVE  SyncInv'
  <1>1. /\ UNCHANGED <<port, calls, atConnect, nextId, window>>
        /\ DOMAIN drone = {"items", "cfg", "tx"} /\ DroneType(drone.items)
    BY DEF OtherController, local, SyncInv, SyncType, DroneTyped
  <1>2. CASE /\ drone' = [drone EXCEPT !.cfg = edits + 1]
             /\ inbox' = IF notify /\ sock = "connected" THEN Append(inbox, Notification)
                                                        ELSE inbox
             /\ UNCHANGED excuse
    <2>1. DOMAIN drone' = DOMAIN drone /\ drone'.items = drone.items
      BY <1>1, <1>2
    <2>2. ASSUME inbox' = Append(inbox, Notification) PROVE Replies' = Replies
      <3>1. IsSeq(inbox) /\ IsSeq(<<Notification>>)
        BY OneIsSeq DEF ExchangeInv, ExchangeType
      <3>2. inbox' = inbox \o <<Notification>>
        BY <2>2, <3>1, AppendIsOne
      <3>3. Data(inbox \o <<Notification>>) = Data(inbox) \cup Data(<<Notification>>)
        BY <3>1, DataConcat
      <3> QED
        BY <3>2, <3>3, DataOne DEF Replies
    <2>3. Replies' = Replies
      BY <1>2, <2>2 DEF Replies
    <2> QED
      BY <1>1, <1>2, <2>1, <2>3, SameSync
  <1>3. CASE drone' = [drone EXCEPT !.tx = TRUE] /\ UNCHANGED <<inbox, excuse>>
    <2>1. DOMAIN drone' = DOMAIN drone /\ drone'.items = drone.items /\ Replies' = Replies
      BY <1>1, <1>3 DEF Replies
    <2> QED
      BY <1>1, <1>3, <2>1, SameSync
  <1>4. ASSUME NEW k \in Kinds, NEW i \in DOMAIN drone.items[k], UNCHANGED inbox,
               drone' = [drone EXCEPT !.items[k] = Restrict(@, DOMAIN @ \ {i})],
               excuse' = excuse \cup {"other"}
        PROVE  SyncInv'
    <2> DEFINE g == drone.items
               f == Restrict(g[k], DOMAIN g[k] \ {i})
               h == [g EXCEPT ![k] = f]
    <2>1. DOMAIN drone' = DOMAIN drone /\ drone'.items = h /\ Replies' = Replies /\ excuse' # {}
      BY <1>1, <1>4 DEF Replies
    <2>2. DOMAIN h = Kinds /\ h[k] = f /\ \A l \in Kinds : l # k => h[l] = g[l]
      BY <1>1 DEF DroneType
    <2>3. DOMAIN f = DOMAIN g[k] \ {i} /\ IsMap(f)
      BY DEF Restrict, IsMap
    <2> HIDE DEF f, h
    <2>4. IdSet(DOMAIN f)
      <3>1. IdSet(DOMAIN g[k])
        BY <1>1 DEF DroneType
      <3> QED
        BY <2>3, <3>1, FS_Subset, DOMAIN g[k] \ {i} \subseteq DOMAIN g[k] DEF IdSet
    <2>5. DroneType(h)
      BY <1>1, <2>2, <2>3, <2>4 DEF DroneType
    <2> QED
      BY <1>1, <2>1, <2>5, SameSync
  <1> QED
    BY <1>2, <1>3, <1>4 DEF OtherController

\* An empty port of the drone.
LEMMA EmptyDrone == DroneType([k \in Kinds |-> <<>>])
  <1> DEFINE e == <<>>
             g == [k \in Kinds |-> e]
  <1>1. DOMAIN e = {}
    BY EmptyIsSeq, SeqLength
  <1>2. IsMap(e)
    BY <1>1 DEF IsMap
  <1>3. DOMAIN g = Kinds /\ \A k \in Kinds : g[k] = e
    OBVIOUS
  <1> HIDE DEF e, g
  <1>4. DroneType(g)
    BY <1>1, <1>2, <1>3, FS_EmptySet DEF DroneType, IdSet
  <1> QED
    BY <1>4 DEF g, e

\* The connection is lost.
LEMMA GoneSync ==
    ASSUME ExchangeInv, SyncInv,
           RemoteClosed \/ NetworkError \/ (UserDisconnect /\ sock = "connected")
    PROVE  SyncInv'
  <1>1. /\ port' = NoPort /\ atConnect' = FALSE /\ calls' = <<>> /\ inbox' = <<>>
        /\ nextId' = nextId
    BY DEF RemoteClosed, NetworkError, UserDisconnect, HangUp
  <1>2. DroneTyped'
    <2>1. DOMAIN drone' = {"items", "cfg", "tx"}
      BY DEF RemoteClosed, NetworkError, UserDisconnect, SyncInv, SyncType, DroneTyped
    <2>2. \/ drone' = drone
          \/ drone' = [items |-> [k \in Kinds |-> <<>>], cfg |-> FirstCfg, tx |-> FALSE]
      BY Zenon DEF RemoteClosed, NetworkError, UserDisconnect
    <2> DEFINE e == [k \in Kinds |-> <<>>]
    <2>3. drone' = drone \/ drone' = [items |-> e, cfg |-> FirstCfg, tx |-> FALSE]
      BY <2>2
    <2> HIDE DEF e
    <2>4. drone'.items = drone.items \/ drone'.items = e
      BY <2>3
    <2> QED
      BY <2>1, <2>4, EmptyDrone DEF e, SyncInv, SyncType, DroneTyped
  <1>3. /\ nextId' \in [Kinds -> Nat] /\ IsSeq(calls') /\ \A n \in DOMAIN calls' : n = 1
    BY <1>1, EmptyIsSeq, EmptyHasNone DEF SyncInv, SyncType, CountersType
  <1>4. Replies' = {} /\ Range(calls') = {}
    BY <1>1, DataOne, RangeOne DEF Replies
  <1> QED
    BY <1>1, <1>2, <1>3, <1>4, NoPortSync

\* The connection is made.
LEMMA ConnectedSync ==
    ASSUME ExchangeInv, SyncInv, OnConnected
    PROVE  SyncInv'
  <1> DEFINE c == Call("checkVersion", "none", Nothing)
  <1>1. c.op = "checkVersion"
    BY DEF Call
  <1>2. calls = <<>> /\ inbox = <<>> /\ port = NoPort
    BY DEF ExchangeInv, OffEmpty, OnConnected
  <1>3. /\ port' = NoPort /\ UNCHANGED <<atConnect, nextId, drone, inbox>>
        /\ calls' = Append(calls, c)
    BY <1>2 DEF OnConnected, local
  <1> HIDE DEF c
  <1>4. atConnect' = FALSE
    BY <1>2, <1>3 DEF SyncInv, SyncType, CountersType, Alone, NoPort
  <1>5. calls' = <<c>>
    BY <1>2, <1>3
  <1>6. IsSeq(<<c>>) /\ (\A n \in DOMAIN <<c>> : n = 1) /\ Range(<<c>>) = {c}
    BY OneIsSeq, SeqLength, RangeOne, 1 .. 1 = {1}
  <1>7. Replies' = {}
    BY <1>2, <1>3, DataOne DEF Replies
  <1>8. DroneTyped' /\ nextId' \in [Kinds -> Nat]
    BY <1>3 DEF SyncInv, SyncType, CountersType, DroneTyped
  <1>9. \A x \in Range(calls') : x.op \notin CopyOps \cup ChangeOps \cup BuildOps
    BY <1>1, <1>5, <1>6 DEF CopyOps, ChangeOps, BuildOps
  <1> QED
    BY <1>3, <1>4, <1>5, <1>6, <1>7, <1>8, <1>9, NoPortSync

\* Whatever happens to the connection.
LEMMA ConnectionSync ==
    ASSUME ExchangeInv, SyncInv, Connection
    PROVE  SyncInv'
  BY NetSync, GoneSync, ConnectedSync DEF Connection

-----------------------------------------------------------------------------
(* The callbacks.                                                             *)

\* A callback takes an answer.
LEMMA TakenSync ==
    ASSUME ExchangeInv, NEW ops, Answered(ops), NEW new, Done(new)
    PROVE  /\ IsSeq(calls) /\ calls # <<>> /\ calls[1].op \in ops /\ calls[1] \in Range(calls)
           /\ IsSeq(Tail(calls)) /\ Range(calls) = {calls[1]} \cup Range(Tail(calls))
           /\ calls' = Tail(calls) \o new /\ drone' = drone
           /\ Replies = {inbox[1].data} /\ Replies' = {}
           /\ calls[1].op \notin {"checkVersion", "portIds"} => port.up
  <1>1. /\ IsSeq(calls) /\ IsSeq(inbox) /\ calls # <<>> /\ inbox # <<>>
        /\ calls[1].op \in ops /\ inbox[1].t = "reply"
        /\ calls' = Tail(calls) \o new /\ inbox' = Tail(inbox) /\ drone' = drone
    BY DEF ExchangeInv, ExchangeType, Answered, Done
  <1>2. /\ IsSeq(Tail(calls)) /\ Range(calls) = {calls[1]} \cup Range(Tail(calls))
        /\ calls[1] \in Range(calls)
    BY <1>1, TailOf, RangeTail
  <1>3. Replies = {inbox[1].data} /\ Replies' = {}
    BY <1>1, DataTail DEF Replies, ExchangeInv, OneReply
  <1>4. calls[1].op \notin {"checkVersion", "portIds"} => port.up
    BY <1>1 DEF ExchangeInv, BeforePort
  <1> QED
    BY <1>1, <1>2, <1>3, <1>4

\* What has come with the answer is known, if there is no excuse.
LEMMA TakenFollows ==
    ASSUME ExchangeInv, SyncInv, NEW ops, Answered(ops), NEW new, Done(new), port.up,
           excuse = {}
    PROVE  /\ Sync(port, calls, {inbox[1].data}, drone.items, atConnect)
           /\ \A k \in Kinds : Distinct(port.items[k], nextId[k])
  BY TakenSync DEF SyncInv, Together

\* The callbacks of calls about a port.
LEMMA CallbackSync ==
    ASSUME ExchangeInv, SyncInv, NEW ops, Answered(ops), NEW new, Done(new), IsSeq(new),
           port.up, CopyType(port'), CountersType', excuse' = excuse,
           \A c \in Range(new) : /\ CallType(c)
                                 /\ c.op \notin BuildOps \cup {"checkVersion", "portIds"},
           window' => window \/ calls[1].op \in BuildOps,
           excuse = {} => /\ Sync(port', Tail(calls) \o new, {}, drone.items, atConnect')
                          /\ \A k \in Kinds : Distinct(port'.items[k], nextId'[k])
    PROVE  SyncInv'
  <1>1. /\ IsSeq(calls) /\ calls # <<>> /\ IsSeq(Tail(calls))
        /\ Range(calls) = {calls[1]} \cup Range(Tail(calls))
        /\ calls' = Tail(calls) \o new /\ drone' = drone /\ Replies' = {}
    BY TakenSync
  <1>2. IsSeq(calls') /\ Range(calls') = Range(Tail(calls)) \cup Range(new)
    BY <1>1, Concat, RangeConcat
  <1>3. SyncType'
    BY <1>1, <1>2
       DEF SyncInv, SyncType, DroneTyped, PortTyped, CallsTyped, RepliesTyped
  <1>4. OneBuild'
    <2>1. ~HasOp(new, BuildOps)
      BY DEF HasOp
    <2>2. Once(new)
      BY <2>1, RangeAt DEF Once, HasOp
    <2>3. /\ Once(Tail(calls)) /\ (calls[1].op \in BuildOps => ~HasOp(Tail(calls), BuildOps))
      BY <1>1, OnceTail DEF SyncInv, OneBuild
    <2>4. Once(calls')
      BY <1>1, <2>1, <2>2, <2>3, OnceConcat
    <2>5. HasOp(calls', BuildOps) => HasOp(Tail(calls), BuildOps)
      BY <1>2, <2>1 DEF HasOp
    <2>6. HasOp(Tail(calls), BuildOps) => HasOp(calls, BuildOps)
      BY <1>1 DEF HasOp
    <2> QED
      BY <2>3, <2>4, <2>5, <2>6 DEF SyncInv, OneBuild
  <1>5. Alone'
    <2>1. port'.up
      BY DEF CopyType
    <2> QED
      BY <2>1, <1>1, <1>2 DEF SyncInv, Alone, HasOp
  <1>6. Together'
    BY <1>1 DEF Together
  <1> QED
    BY <1>3, <1>4, <1>5, <1>6 DEF SyncInv

\* checkVersion()'s answer
LEMMA CheckedSync ==
    ASSUME ExchangeInv, SyncInv, ProcessVersionCompatibility
    PROVE  SyncInv'
  <1> DEFINE c == Call("portIds", "none", Nothing)
             ok == inbox[1].data.result = "ok"
             new == IF ok THEN <<c>> ELSE <<>>
  <1>1. Answered({"checkVersion"}) /\ Done(new) /\ UNCHANGED <<port, atConnect, nextId>>
    BY DEF ProcessVersionCompatibility, CallIf, local
  <1>2. c.op = "portIds"
    BY DEF Call
  <1> HIDE DEF c, new, ok
  <1>3. /\ IsSeq(calls) /\ calls # <<>> /\ calls[1].op = "checkVersion"
        /\ calls[1] \in Range(calls) /\ IsSeq(Tail(calls))
        /\ calls' = Tail(calls) \o new /\ drone' = drone /\ Replies' = {}
    BY <1>1, TakenSync
  <1>4. ~port.up
    BY <1>3 DEF SyncInv, Alone, HasOp
  <1>5. port' = NoPort /\ atConnect' = FALSE
    BY <1>1, <1>4 DEF SyncInv, SyncType, PortTyped, CopyType, CountersType, Alone
  <1>6. Tail(calls) = <<>>
    BY <1>3, <1>4, TailOf, SeqLength DEF ExchangeInv, Checking
  <1>7. \/ new = <<c>> /\ IsSeq(<<c>>) /\ DOMAIN <<c>> = {1} /\ Range(<<c>>) = {c}
        \/ new = <<>> /\ IsSeq(<<>>) /\ DOMAIN <<>> = {} /\ Range(<<>>) = {}
    BY OneIsSeq, EmptyIsSeq, SeqLength, RangeOne, 1 .. 1 = {1}, 1 .. 0 = {} DEF new
  <1>8. calls' = new
    BY <1>3, <1>6, <1>7, ConcatEmptySeq DEF IsSeq
  <1>9. /\ IsSeq(calls') /\ (\A n \in DOMAIN calls' : n = 1)
        /\ \A x \in Range(calls') : x.op \notin CopyOps \cup ChangeOps \cup BuildOps
    BY <1>2, <1>7, <1>8 DEF CopyOps, ChangeOps, BuildOps
  <1>10. DroneTyped' /\ nextId' \in [Kinds -> Nat]
    BY <1>1, <1>3 DEF SyncInv, SyncType, CountersType, DroneTyped
  <1> QED
    BY <1>3, <1>5, <1>9, <1>10, NoPortSync

\* processPortIdList()
LEMMA NewPortSync ==
    ASSUME ExchangeInv, SyncInv, ProcessPortIdList
    PROVE  SyncInv'
  <1> DEFINE c == Call("portCfg", "none", Nothing)
             w == Tail(calls)
  <1>1. /\ Answered({"portIds"}) /\ Done(<<c>>) /\ port' = NewPort /\ atConnect' = FALSE
        /\ UNCHANGED <<nextId, window, excuse>>
    BY DEF ProcessPortIdList
  <1>2. c.op = "portCfg"
    BY DEF Call
  <1> HIDE DEF c
  <1>3. /\ IsSeq(calls) /\ calls # <<>> /\ calls[1].op = "portIds" /\ calls[1] \in Range(calls)
        /\ IsSeq(w) /\ calls' = w \o <<c>> /\ drone' = drone /\ Replies' = {}
    <2> DEFINE new == <<c>>
    <2>1. Done(new)
      BY <1>1
    <2> HIDE DEF new
    <2>2. /\ IsSeq(calls) /\ calls # <<>> /\ calls[1].op = "portIds" /\ calls[1] \in Range(calls)
          /\ IsSeq(w) /\ calls' = w \o new /\ drone' = drone /\ Replies' = {}
      BY <1>1, <2>1, TakenSync
    <2> QED
      BY <2>2 DEF new
  <1>4. ~port.up
    BY <1>3 DEF SyncInv, Alone, HasOp
  <1>5. \A n \in DOMAIN w : n + 1 \in DOMAIN calls /\ w[n] = calls[n + 1] /\ n + 1 # 1
    BY <1>3, TailOf, SeqLength
  <1> HIDE DEF w
  <1>6. \A x \in Range(w) : x.op = "newCfg"
    BY <1>4, <1>5 DEF SyncInv, Alone, Range
  <1>7. IsSeq(<<c>>) /\ Range(<<c>>) = {c}
    BY OneIsSeq, RangeOne
  <1>8. IsSeq(calls') /\ Range(calls') = Range(w) \cup {c}
    BY <1>3, <1>7, Concat, RangeConcat
  <1>9. \A x \in Range(calls') : x.op \in {"newCfg", "portCfg"}
    BY <1>2, <1>6, <1>8
  <1>10. \A k \in Kinds : Blank(NewPort, k)
    BY DEF NewPort, Blank
  <1>11. CopyType(NewPort)
    <2>1. IsItems(<<>>)
      BY EmptyIsSeq, EmptyHasNone DEF IsItems
    <2> QED
      BY <2>1 DEF NewPort, CopyType
  <1>12. SyncType'
    <2>1. \A x \in Range(calls') : CallType(x)
      BY <1>9 DEF CallType, ChangeOps
    <2> QED
      BY <1>1, <1>3, <1>11, <2>1
         DEF SyncInv, SyncType, CountersType, DroneTyped, PortTyped, CallsTyped, RepliesTyped
  <1>13. ~HasOp(calls', BuildOps) /\ ~HasOp(calls', {"checkVersion", "portIds"})
         /\ HasOp(calls', {"portCfg"})
         /\ ~HasOp(calls', {"cfgs"}) /\ \A k \in Kinds : ~Has(calls', "ids", k)
    BY <1>2, <1>8, <1>9 DEF HasOp, BuildOps, Has
  <1>14. OneBuild'
    BY <1>13, RangeAt DEF OneBuild, Once, HasOp
  <1>15. Alone'
    BY <1>1, <1>11, <1>13 DEF Alone, CopyType
  <1>16. Sync(NewPort, calls', {}, drone.items, FALSE)
    <2>1. \A at, f : AllFit(calls', at, f)
      <3>1. ASSUME NEW at, NEW f PROVE AllFit(w \o <<c>>, at, f)
        <4>1. AllFit(w, at, f)
          BY <1>6, RangeAt, OthersFit DEF AllFit, CopyOps, ChangeOps
        <4>2. AllFit(<<c>>, at, f)
          BY FitOne
        <4>3. \A a \in Range(w), b \in Range(<<c>>) : Fits(a, b, at, f)
          BY <1>6, OthersFit DEF CopyOps, ChangeOps
        <4> QED
          BY <1>3, <1>7, <4>1, <4>2, <4>3, FitConcat
      <3> QED
        BY <1>3, <3>1
    <2>2. NewPort.fetched = FALSE
      BY DEF NewPort
    <2>3. Fetching(NewPort, calls', drone.items, FALSE)
      BY <1>9, <1>10, <1>13, <2>2 DEF Fetching
    <2> QED
      BY <1>13, <2>1, <2>2, <2>3 DEF Sync, Listed
  <1>17. Together'
    <2>1. \A k \in Kinds : Distinct(NewPort.items[k], nextId[k])
      BY <1>10, EmptyHasNone DEF Distinct, Unique, Blank
    <2> QED
      BY <1>1, <1>3, <1>16, <2>1 DEF Together
  <1> QED
    BY <1>12, <1>14, <1>15, <1>17 DEF SyncInv

\* A copy with the same items in the same state.
Alike(p, p2) ==
    /\ p2.fetched = p.fetched /\ p2.dirty = p.dirty /\ p2.items = p.items
    /\ p2.last = p.last /\ p2.modified = p.modified

\* One that differs in its configuration or in what is known of the transmission.
LEMMA CopyExcept ==
    ASSUME NEW p, NEW v, CopyType(p)
    PROVE  /\ CopyType([p EXCEPT !.cfg = v]) /\ Alike(p, [p EXCEPT !.cfg = v])
           /\ CopyType([p EXCEPT !.tx = v]) /\ Alike(p, [p EXCEPT !.tx = v])
  BY DEF CopyType, Alike

\* The answers that leave the items alone.
LEMMA PlainSync ==
    ASSUME ExchangeInv, SyncInv, NEW ops, Answered(ops), Done(<<>>),
           calls[1].op \notin CopyOps \cup {"checkVersion", "portIds"},
           UNCHANGED <<atConnect, nextId, excuse>>,
           \/ port' = port
           \/ \E v : port' = [port EXCEPT !.cfg = v] \/ port' = [port EXCEPT !.tx = v],
           window' => window \/ calls[1].op \in BuildOps
    PROVE  SyncInv'
  <1> DEFINE new == <<>>
  <1>1. Done(new) /\ IsSeq(new) /\ Range(new) = {} /\ Tail(calls) \o new = Tail(calls)
    <2>1. IsSeq(Tail(calls))
      BY TakenSync
    <2> QED
      BY <2>1, EmptyIsSeq, RangeOne, ConcatEmptySeq DEF IsSeq
  <1> HIDE DEF new
  <1>2. port.up /\ IsSeq(calls) /\ calls # <<>>
    BY <1>1, TakenSync
  <1>3. CopyType(port)
    BY <1>2 DEF SyncInv, SyncType, PortTyped, NoPort
  <1>4. /\ CopyType(port')
        /\ port'.fetched = port.fetched /\ port'.dirty = port.dirty /\ port'.items = port.items
        /\ port'.last = port.last /\ port'.modified = port.modified
    <2>1. ASSUME port' = port PROVE CopyType(port') /\ Alike(port, port')
      BY <1>3, <2>1 DEF Alike
    <2>2. ASSUME NEW v, port' = [port EXCEPT !.cfg = v] \/ port' = [port EXCEPT !.tx = v]
          PROVE  CopyType(port') /\ Alike(port, port')
      <3>1. /\ CopyType([port EXCEPT !.cfg = v]) /\ Alike(port, [port EXCEPT !.cfg = v])
            /\ CopyType([port EXCEPT !.tx = v]) /\ Alike(port, [port EXCEPT !.tx = v])
        BY <1>3, CopyExcept
      <3>2. CASE port' = [port EXCEPT !.cfg = v]
        BY <3>1, <3>2
      <3>3. CASE port' = [port EXCEPT !.tx = v]
        BY <3>1, <3>3
      <3> QED
        BY <2>2, <3>2, <3>3
    <2>3. CopyType(port') /\ Alike(port, port')
      BY <2>1, <2>2
    <2> QED
      BY <2>3 DEF Alike
  <1>5. CountersType'
    BY DEF SyncInv, SyncType, CountersType
  <1>6. ASSUME excuse = {}
        PROVE  /\ Sync(port', Tail(calls) \o new, {}, drone.items, atConnect')
               /\ \A k \in Kinds : Distinct(port'.items[k], nextId'[k])
    <2> DEFINE r == {inbox[1].data}
    <2>1. /\ Sync(port, calls, r, drone.items, atConnect)
          /\ \A k \in Kinds : Distinct(port.items[k], nextId[k])
      BY <1>1, <1>2, <1>6, TakenFollows
    <2>2. r # {}
      OBVIOUS
    <2> HIDE DEF r
    <2>3. Sync(port, Tail(calls), {}, drone.items, atConnect)
      BY <1>2, <2>1, <2>2, SyncTail
    <2>4. Sync(port', Tail(calls), {}, drone.items, atConnect)
      <3> DEFINE p2 == port'
                 q == Tail(calls)
      <3>1. /\ p2.fetched = port.fetched /\ p2.dirty = port.dirty /\ p2.items = port.items
            /\ p2.last = port.last /\ p2.modified = port.modified
            /\ Sync(port, q, {}, drone.items, atConnect)
        BY <1>4, <2>3
      <3> HIDE DEF p2, q
      <3>2. Sync(p2, q, {}, drone.items, atConnect)
        BY <3>1, SyncAlike
      <3> QED
        BY <3>2 DEF p2, q
    <2> QED
      BY <1>1, <1>4, <2>1, <2>4
  <1> QED
    BY <1>1, <1>2, <1>4, <1>5, <1>6, CallbackSync

\* processAddStreamAck() ..., processModifyPortBuildAck(), processUpdatedPortConfig(),
\* processPortStatsList()
LEMMA AcksSync ==
    ASSUME ExchangeInv, SyncInv,
           ProcessAck \/ ProcessModifyPortBuildAck \/ ProcessUpdatedPortConfig \/ ProcessPortStatsList
    PROVE  SyncInv'
  <1>1. CASE ProcessAck
    <2>1. calls[1].op \in {"add", "del", "mod", "modifyPort", "build", "startTx", "stopTx"}
      BY <1>1 DEF ProcessAck, Answered
    <2> QED
      BY <1>1, <2>1, PlainSync DEF ProcessAck, local, CopyOps
  <1>2. CASE ProcessModifyPortBuildAck
    <2>1. calls[1].op = "modifyBuild"
      BY <1>2 DEF ProcessModifyPortBuildAck, Answered
    <2> QED
      BY <1>2, <2>1, PlainSync DEF ProcessModifyPortBuildAck, CopyOps, BuildOps
  <1>3. CASE ProcessUpdatedPortConfig
    <2>1. calls[1].op = "newCfg"
      BY <1>3 DEF ProcessUpdatedPortConfig, Answered
    <2> QED
      BY <1>3, <2>1, PlainSync DEF ProcessUpdatedPortConfig, CopyOps
  <1>4. CASE ProcessPortStatsList
    <2>1. calls[1].op = "stats"
      BY <1>4 DEF ProcessPortStatsList, Answered
    <2> QED
      BY <1>4, <2>1, PlainSync DEF ProcessPortStatsList, CopyOps
  <1> QED
    BY <1>1, <1>2, <1>3, <1>4

\* processPortConfigList()
LEMMA PortCfgSync ==
    ASSUME ExchangeInv, SyncInv, ProcessPortConfigList
    PROVE  SyncInv'
  <1> DEFINE new == ForKinds([k \in Kinds |-> GetIds(k)])
             p2 == port'
             g == drone.items
  <1>1. /\ Answered({"portCfg"}) /\ Done(new) /\ p2 = [port EXCEPT !.cfg = inbox[1].data.cfg]
        /\ atConnect' = (Session # NoSession) /\ UNCHANGED <<nextId, window, excuse>>
    BY DEF ProcessPortConfigList
  <1>2. Fetches(new)
    BY FetchesLists
  <1> HIDE DEF new
  <1>3. port.up /\ IsSeq(calls) /\ calls # <<>> /\ calls[1].op = "portCfg"
    BY <1>1, TakenSync
  <1>4. CopyType(port)
    BY <1>3 DEF SyncInv, SyncType, PortTyped, NoPort
  <1>5. /\ CopyType(p2)
        /\ p2.fetched = port.fetched /\ p2.dirty = port.dirty /\ p2.items = port.items
        /\ p2.last = port.last /\ p2.modified = port.modified
    BY <1>1, <1>4, CopyExcept DEF Alike
  <1>6. CountersType'
    BY <1>1 DEF SyncInv, SyncType, CountersType
  <1>7. /\ IsSeq(new)
        /\ \A c \in Range(new) : /\ CallType(c)
                                 /\ c.op \notin BuildOps \cup {"checkVersion", "portIds"}
    BY <1>2 DEF Fetches, CallType, BuildOps
  <1> HIDE DEF p2
  <1>8. ASSUME excuse = {}
        PROVE  /\ Sync(p2, Tail(calls) \o new, {}, g, atConnect')
               /\ \A k \in Kinds : Distinct(p2.items[k], nextId'[k])
    <2> DEFINE r == {inbox[1].data}
               q == Tail(calls) \o new
               at == atConnect'
    <2>1. /\ Sync(port, calls, r, g, atConnect)
          /\ \A k \in Kinds : Distinct(port.items[k], nextId[k])
      BY <1>1, <1>3, <1>8, TakenFollows
    <2> HIDE DEF r, at
    <2>2. Sync(port, Tail(calls) \o new, {}, g, at)
      BY <1>2, <1>3, <2>1, SyncPortCfg
    <2>3. Sync(port, q, {}, g, at)
      BY <2>2
    <2> HIDE DEF q
    <2>4. Sync(p2, q, {}, g, at)
      BY <1>5, <2>3, SyncAlike
    <2> QED
      BY <1>1, <1>5, <2>1, <2>4 DEF q, at
  <1> QED
    BY <1>1, <1>3, <1>5, <1>6, <1>7, <1>8, CallbackSync DEF p2

\* processDeviceGroupIdList(), with a session to restore.
LEMMA SessionDevicesSync ==
    ASSUME ExchangeInv, SyncInv, ProcessDeviceGroupIdListSession
    PROVE  SyncInv'
  <1> DEFINE ids == inbox[1].data.ids
             c == Call("del", "devgrp", inbox[1].data)
             new == CallIf(ids # {}, "del", "devgrp", inbox[1].data)
  <1>1. /\ Answered({"ids"}) /\ Done(new) /\ calls[1].k = "devgrp" /\ atConnect
        /\ UNCHANGED <<port, atConnect, nextId, window, excuse>>
    BY DEF ProcessDeviceGroupIdListSession, DeleteAll, local
  <1>2. /\ IsSeq(new) /\ \A at, f : AllFit(new, at, f)
        /\ \A x \in Range(new) : x = c
    BY CallIfIs
  <1>3. c.op = "del" /\ c.k = "devgrp"
    BY DEF Call
  <1> HIDE DEF c, new
  <1>4. port.up /\ IsSeq(calls) /\ calls # <<>> /\ calls[1].op = "ids" /\ calls[1].k \in Kinds
    <2>1. port.up /\ IsSeq(calls) /\ calls # <<>> /\ calls[1].op = "ids"
      BY <1>1, TakenSync
    <2> QED
      BY <2>1, FirstCall DEF SyncInv, CallType
  <1>5. CopyType(port') /\ CountersType'
    BY <1>1, <1>4 DEF SyncInv, SyncType, PortTyped, NoPort, CountersType
  <1>6. \A x \in Range(new) : /\ CallType(x) /\ x.op = "del"
                              /\ x.op \notin BuildOps \cup {"checkVersion", "portIds"}
    BY <1>1, <1>2, <1>3, <1>4 DEF CallType, BuildOps
  <1>7. ASSUME excuse = {}
        PROVE  /\ Sync(port', Tail(calls) \o new, {}, drone.items, atConnect')
               /\ \A k \in Kinds : Distinct(port'.items[k], nextId'[k])
    <2> DEFINE r == {inbox[1].data}
    <2>1. /\ Sync(port, calls, r, drone.items, atConnect)
          /\ \A k \in Kinds : Distinct(port.items[k], nextId[k])
      BY <1>1, <1>4, <1>7, TakenFollows
    <2> HIDE DEF r
    <2>2. atConnect = TRUE
      BY <1>1 DEF SyncInv, SyncType, CountersType
    <2>3. Sync(port, Tail(calls) \o new, {}, drone.items, TRUE)
      BY <1>1, <1>2, <1>4, <1>6, <2>1, <2>2, SyncSessionDevices
    <2> QED
      BY <1>1, <2>1, <2>2, <2>3
  <1> QED
    BY <1>1, <1>2, <1>4, <1>5, <1>6, <1>7, CallbackSync

\* when_syncComplete()
LEMMA SyncedIs ==
    ASSUME NEW p, CopyType(p)
    PROVE  /\ CopyType(Synced(p)) /\ Synced(p).items = p.items /\ Synced(p).fetched = p.fetched
           /\ \A k \in Kinds : Untouched(Synced(p), k)
  <1> DEFINE last == [k \in Kinds |-> Ids(p.items[k])]
             modified == [k \in Kinds |-> {}]
             p1 == [p EXCEPT !.last = last]
             p2 == [p1 EXCEPT !.modified = modified]
             p3 == [p2 EXCEPT !.dirty = FALSE]
  <1>1. Synced(p) = p3
    BY DEF Synced
  <1>2. /\ DOMAIN last = Kinds /\ DOMAIN modified = Kinds
        /\ \A k \in Kinds : last[k] = Ids(p.items[k]) /\ modified[k] = {}
    OBVIOUS
  <1> HIDE DEF last, modified
  <1>3. /\ DOMAIN p3 = DOMAIN p /\ p3.up = p.up /\ p3.tx = p.tx /\ p3.items = p.items
        /\ p3.fetched = p.fetched /\ p3.last = last /\ p3.modified = modified /\ p3.dirty = FALSE
    BY DEF CopyType
  <1> HIDE DEF p3
  <1>4. CopyType(p3)
    BY <1>2, <1>3 DEF CopyType
  <1>5. \A k \in Kinds : Untouched(p3, k)
    BY <1>2, <1>3 DEF Untouched
  <1> QED
    BY <1>1, <1>3, <1>4, <1>5

WithItems(p, k, v) == [p EXCEPT !.items[k] = v]

\* A copy with other items of one kind.
LEMMA CopyItems ==
    ASSUME NEW p, CopyType(p), NEW k \in Kinds, NEW v, IsItems(v), NEW p2,
           p2 = WithItems(p, k, v)
    PROVE  /\ CopyType(p2) /\ p2.items[k] = v /\ \A l \in Kinds : l # k => p2.items[l] = p.items[l]
           /\ p2.fetched = p.fetched /\ p2.dirty = p.dirty /\ p2.last = p.last
           /\ p2.modified = p.modified
  <1> DEFINE items == [p.items EXCEPT ![k] = v]
  <1>1. DOMAIN items = Kinds /\ items[k] = v /\ \A l \in Kinds : l # k => items[l] = p.items[l]
    BY DEF CopyType
  <1>2. p2 = [p EXCEPT !.items = items]
    BY DEF WithItems
  <1> HIDE DEF items
  <1>3. /\ DOMAIN p2 = DOMAIN p /\ p2.items = items /\ p2.up = p.up
        /\ p2.fetched = p.fetched /\ p2.dirty = p.dirty /\ p2.last = p.last
        /\ p2.modified = p.modified
    BY <1>2 DEF CopyType
  <1>4. \A l \in Kinds : IsItems(items[l])
    BY <1>1 DEF CopyType
  <1>5. CopyType(p2)
    BY <1>1, <1>3, <1>4 DEF CopyType
  <1> QED
    BY <1>1, <1>3, <1>5

\* processApplyBuildAck(): the last answer of an Apply.
LEMMA AppliedSync ==
    ASSUME ExchangeInv, SyncInv, ProcessApplyBuildAck
    PROVE  SyncInv'
  <1> DEFINE new == <<>>
             p2 == Synced(port)
  <1>1. /\ Answered({"applyBuild"}) /\ Done(new) /\ port' = p2
        /\ UNCHANGED <<atConnect, nextId, excuse>>
    BY DEF ProcessApplyBuildAck
  <1>2. IsSeq(new) /\ Range(new) = {}
    BY EmptyIsSeq, RangeOne
  <1>3. /\ port.up /\ IsSeq(calls) /\ calls # <<>> /\ calls[1].op = "applyBuild"
        /\ Tail(calls) \o new = Tail(calls)
    <2>1. port.up /\ IsSeq(calls) /\ calls # <<>> /\ calls[1].op = "applyBuild" /\ IsSeq(Tail(calls))
      <3> HIDE DEF new
      <3> QED
        BY <1>1, TakenSync
    <2> QED
      BY <2>1, ConcatEmptySeq DEF IsSeq
  <1> HIDE DEF new
  <1>4. CopyType(port)
    BY <1>3 DEF SyncInv, SyncType, PortTyped, NoPort
  <1>5. /\ CopyType(p2) /\ p2.items = port.items /\ p2.fetched = port.fetched
        /\ \A k \in Kinds : Untouched(p2, k)
    BY <1>4, SyncedIs
  <1> HIDE DEF p2
  <1>6. ~HasOp(Tail(calls), {"applyBuild"})
    BY <1>3, OnceTail DEF SyncInv, OneBuild, HasOp, BuildOps
  <1>7. CountersType'
    BY <1>1 DEF SyncInv, SyncType, CountersType
  <1>8. ASSUME excuse = {}
        PROVE  /\ Sync(p2, Tail(calls) \o new, {}, drone.items, atConnect')
               /\ \A k \in Kinds : Distinct(p2.items[k], nextId'[k])
    <2>1. /\ Sync(port, calls, {inbox[1].data}, drone.items, atConnect)
          /\ \A k \in Kinds : Distinct(port.items[k], nextId[k])
      BY <1>1, <1>3, <1>8, TakenFollows
    <2>2. Sync(p2, Tail(calls), {}, drone.items, atConnect)
      BY <1>3, <1>5, <1>6, <2>1, SyncApplied
    <2> QED
      BY <1>1, <1>3, <1>5, <2>1, <2>2
  <1>9. calls[1].op \in BuildOps
    BY <1>3 DEF BuildOps
  <1> QED
    BY <1>1, <1>2, <1>3, <1>5, <1>7, <1>8, <1>9, CallbackSync

\* processStreamConfigList(), processDeviceGroupConfigList()
LEMMA ConfigsSync ==
    ASSUME ExchangeInv, SyncInv, ProcessConfigList
    PROVE  SyncInv'
  <1> DEFINE new == <<>>
             k == calls[1].k
             d == inbox[1].data
             s == port.items[k]
             w == [n \in DOMAIN s |->
                     IF s[n].id \in DOMAIN d.items /\ \A m \in 1 .. n - 1 : s[m].id # s[n].id
                     THEN [id |-> s[n].id, cfg |-> d.items[s[n].id]] ELSE s[n]]
             p2 == port'
             g == drone.items
  <1>1. /\ Answered({"cfgs"}) /\ Done(new) /\ p2 = WithItems(port, k, w)
        /\ UNCHANGED <<atConnect, nextId, window, excuse>>
    BY DEF ProcessConfigList, WithItems
  <1>2. IsSeq(new) /\ Range(new) = {}
    BY EmptyIsSeq, RangeOne
  <1>3. /\ port.up /\ IsSeq(calls) /\ calls # <<>> /\ calls[1].op = "cfgs" /\ k \in Kinds
        /\ Tail(calls) \o new = Tail(calls)
    <2>1. port.up /\ IsSeq(calls) /\ calls # <<>> /\ calls[1].op = "cfgs" /\ IsSeq(Tail(calls))
      <3> HIDE DEF new
      <3> QED
        BY <1>1, TakenSync
    <2>2. k \in Kinds
      BY <2>1, FirstCall DEF SyncInv, CallType
    <2> QED
      BY <2>1, <2>2, ConcatEmptySeq DEF IsSeq
  <1> HIDE DEF new, k
  <1>4. CopyType(port) /\ IsItems(s)
    <2>1. CopyType(port)
      BY <1>3 DEF SyncInv, SyncType, PortTyped, NoPort
    <2> QED
      BY <2>1, <1>3 DEF CopyType
  <1> HIDE DEF s, d
  <1>5. /\ DOMAIN w = DOMAIN s /\ w = [n \in DOMAIN w |-> w[n]]
        /\ \A n \in DOMAIN s : w[n] = [id |-> s[n].id, cfg |-> d.items[s[n].id]] \/ w[n] = s[n]
    OBVIOUS
  <1>6. \A n \in DOMAIN s : \/ w[n].cfg = d.items[s[n].id]
                            \/ s[n].id \notin DOMAIN d.items
                            \/ \E m \in 1 .. n - 1 : s[m].id = s[n].id
    OBVIOUS
  <1> HIDE DEF w
  <1>7. /\ IsItems(w) /\ Ids(w) = Ids(s)
        /\ \A n \in DOMAIN s : w[n].id = s[n].id
    <2>1. IsSeq(w)
      BY <1>4, <1>5, SequenceOf DEF IsItems
    <2>2. \A n \in DOMAIN s : IsItem(w[n]) /\ w[n].id = s[n].id
      BY <1>4, <1>5 DEF IsItems, IsItem
    <2> QED
      BY <1>5, <2>1, <2>2 DEF IsItems, Ids
  <1> HIDE DEF p2
  <1>8. /\ CopyType(p2) /\ p2.items[k] = w
        /\ \A l \in Kinds : l # k => p2.items[l] = port.items[l]
        /\ p2.fetched = port.fetched /\ p2.dirty = port.dirty /\ p2.last = port.last
        /\ p2.modified = port.modified
    BY <1>1, <1>3, <1>4, <1>7, CopyItems
  <1>9. CountersType'
    BY <1>1 DEF SyncInv, SyncType, CountersType
  <1>10. ASSUME excuse = {}
         PROVE  /\ Sync(p2, Tail(calls) \o new, {}, g, atConnect')
                /\ \A l \in Kinds : Distinct(p2.items[l], nextId'[l])
    <2>1. /\ Sync(port, calls, {d}, g, atConnect)
          /\ \A l \in Kinds : Distinct(port.items[l], nextId[l])
      BY <1>1, <1>3, <1>10, TakenFollows DEF d
    <2>2. /\ DOMAIN d.items = DOMAIN g[k] /\ \A i \in DOMAIN g[k] : d.items[i] = g[k][i]
      BY <1>3, <2>1 DEF Sync, Replied, k
    <2>3. Unique(s)
      BY <1>3, <2>1 DEF Distinct, s
    <2>4. \A n \in DOMAIN w : w[n].id \in DOMAIN g[k] => w[n].cfg = g[k][w[n].id]
      <3> SUFFICES ASSUME NEW n \in DOMAIN s, s[n].id \in DOMAIN g[k]
                   PROVE  w[n].cfg = g[k][s[n].id]
        BY <1>5, <1>7
      <3>1. ASSUME NEW m \in 1 .. n - 1 PROVE s[m].id # s[n].id
        <4>1. n \in 1 .. Len(s) /\ DOMAIN s = 1 .. Len(s) /\ Len(s) \in Nat
          BY <1>4, SeqLength DEF IsItems
        <4>2. m \in DOMAIN s /\ m # n
          BY <4>1
        <4> QED
          BY <2>3, <4>2 DEF Unique
      <3> QED
        BY <1>6, <2>2, <3>1
    <2>5. \A n \in DOMAIN p2.items[k] : LET x == p2.items[k][n]
                                        IN  x.id \in DOMAIN g[k] => x.cfg = g[k][x.id]
      BY <1>8, <2>4
    <2>6. \A l \in Kinds : Ids(p2.items[l]) = Ids(port.items[l])
      BY <1>7, <1>8 DEF s
    <2>7. calls[1].k = k
      BY DEF k
    <2> HIDE DEF g
    <2>8. Sync(p2, Tail(calls), {}, g, atConnect)
      <3> DEFINE p == port
                 q == calls
                 at == atConnect
      <3>1. /\ IsSeq(q) /\ q # <<>> /\ Sync(p, q, {d}, g, at) /\ q[1].op = "cfgs" /\ q[1].k = k
            /\ p2.fetched = p.fetched /\ p2.dirty = p.dirty /\ p2.last = p.last
            /\ p2.modified = p.modified /\ k \in Kinds
        BY <1>3, <1>8, <2>1, <2>7
      <3>2. /\ \A l \in Kinds : Ids(p2.items[l]) = Ids(p.items[l])
            /\ \A l \in Kinds : l # k => p2.items[l] = p.items[l]
        BY <1>8, <2>6
      <3> HIDE DEF p, q, at
      <3>3. Sync(p2, Tail(q), {}, g, at)
        BY <2>5, <3>1, <3>2, SyncConfigs
      <3> QED
        BY <3>3 DEF q, at
    <2>9. \A l \in Kinds : Distinct(p2.items[l], nextId'[l])
      <3>1. Distinct(w, nextId[k])
        <4>1. Distinct(s, nextId[k])
          BY <1>3, <2>1 DEF s
        <4> QED
          BY <1>5, <1>7, <4>1 DEF Distinct, Unique
      <3> QED
        BY <1>1, <1>8, <2>1, <3>1
    <2> QED
      BY <1>1, <1>3, <2>8, <2>9
  <1> QED
    BY <1>1, <1>2, <1>3, <1>8, <1>9, <1>10, CallbackSync DEF p2

\* Calls that send what a session has.
Sends(s) ==
    /\ IsSeq(s)
    /\ \A c \in Range(s) : CallType(c) /\ c.op \in {"add", "del", "mod", "modifyPort", "build"}

\* Several of them.
LEMMA SendsConcat ==
    ASSUME NEW s, NEW t, Sends(s), Sends(t)
    PROVE  Sends(s \o t)
  BY Concat, RangeConcat DEF Sends

\* One, if there is something to send.
LEMMA SendsIf ==
    ASSUME NEW cond, NEW op \in {"add", "del", "mod", "modifyPort", "build"}, NEW k, NEW arg,
           op \in ChangeOps => k \in Kinds, op = "add" /\ cond => IdSet(arg.ids)
    PROVE  Sends(CallIf(cond, op, k, arg))
  <1> DEFINE c == Call(op, k, arg)
             s == CallIf(cond, op, k, arg)
  <1>1. c.op = op /\ c.k = k /\ c.arg = arg
    BY DEF Call
  <1>2. IsSeq(s) /\ (cond => Range(s) = {c}) /\ (~cond => Range(s) = {})
    BY CallIfIs
  <1> HIDE DEF c, s
  <1>3. cond => CallType(c)
    BY <1>1 DEF CallType, ChangeOps
  <1>4. Sends(s)
    BY <1>1, <1>2, <1>3 DEF Sends
  <1> QED
    BY <1>4 DEF s

\* The items of a session.
LEMMA RestoreSends ==
    ASSUME NEW k \in Kinds, Session # NoSession
    PROVE  Sends(Restore(k))
  <1> DEFINE items == Session.items[k]
             a == [ids |-> Ids(items)]
             m == [items |-> Contents(items)]
             s == CallIf(items # <<>>, "add", k, a)
             t == CallIf(items # <<>>, "mod", k, m)
  <1>1. IdSet(Ids(items)) /\ a.ids = Ids(items)
    BY IdsAssumption DEF IdSet
  <1> HIDE DEF items, a, m
  <1>2. IdSet(a.ids)
    BY <1>1
  <1>3. Sends(s)
    BY <1>2, SendsIf
  <1>4. Sends(t)
    BY SendsIf
  <1> HIDE DEF s, t
  <1>5. Sends(s \o t)
    BY <1>3, <1>4, SendsConcat
  <1> QED
    BY <1>5 DEF Restore, s, t, a, m, items

\* Those of all kinds.
LEMMA SessionSends ==
    ASSUME Session # NoSession
    PROVE  Sends(ForKinds([k \in Kinds |-> Restore(k)]))
  <1> DEFINE R == [k \in Kinds |-> Restore(k)]
             s == IF "devgrp" \in Kinds THEN R["devgrp"] ELSE <<>>
             t == IF "stream" \in Kinds THEN R["stream"] ELSE <<>>
  <1>1. \A k \in Kinds : R[k] = Restore(k)
    OBVIOUS
  <1> HIDE DEF R
  <1>2. Sends(<<>>)
    BY EmptyIsSeq, RangeOne DEF Sends
  <1>3. \A k \in Kinds : Sends(R[k])
    BY <1>1, RestoreSends
  <1>4. Sends(s) /\ Sends(t)
    BY <1>2, <1>3
  <1> HIDE DEF s, t
  <1>5. Sends(s \o t)
    BY <1>4, SendsConcat
  <1> QED
    BY <1>5 DEF ForKinds, s, t, R

\* processStreamIdList(), with a session to restore.
LEMMA SessionSync ==
    ASSUME ExchangeInv, SyncInv, ProcessStreamIdListSession
    PROVE  SyncInv'
  <1> DEFINE d == inbox[1].data
             a == CallIf(d.ids # {}, "del", "stream", d)
             b == CallIf(Session.cfg # port.cfg, "modifyPort", "none", [cfg |-> Session.cfg])
             c == ForKinds([k \in Kinds |-> Restore(k)])
             e == <<Call("build", "none", Nothing)>>
             sent == a \o b \o c \o e
             lists == ForKinds([k \in Kinds |-> GetIds(k)])
             new == sent \o lists
  <1>1. /\ Answered({"ids"}) /\ Done(new) /\ calls[1].k = "stream" /\ atConnect /\ atConnect' = FALSE
        /\ UNCHANGED <<port, nextId, window, excuse>>
    BY DEF ProcessStreamIdListSession, DeleteAll
  <1>2. Session # NoSession
    BY <1>1 DEF SyncInv, SyncType, CountersType
  <1>3. Sends(sent)
    <2>1. Sends(a)
      <3> HIDE DEF d
      <3> QED
        BY SendsIf, PortSyncAssumption
    <2>2. Sends(b)
      <3> DEFINE arg == [cfg |-> Session.cfg]
      <3> HIDE DEF arg
      <3>1. Sends(CallIf(Session.cfg # port.cfg, "modifyPort", "none", arg))
        BY SendsIf DEF ChangeOps
      <3> QED
        BY <3>1 DEF arg
    <2>3. Sends(c)
      BY <1>2, SessionSends
    <2>4. Sends(e)
      <3> DEFINE x == Call("build", "none", Nothing)
      <3>1. x.op = "build"
        BY DEF Call
      <3> HIDE DEF x
      <3>2. CallType(x)
        BY <3>1, OtherType DEF CopyOps, ChangeOps
      <3>3. IsSeq(<<x>>) /\ Range(<<x>>) = {x}
        BY OneIsSeq, RangeOne
      <3>4. Sends(<<x>>)
        BY <3>1, <3>2, <3>3 DEF Sends
      <3> QED
        BY <3>4 DEF x
    <2> HIDE DEF a, b, c, e
    <2>5. Sends(a \o b)
      BY <2>1, <2>2, SendsConcat
    <2>6. Sends(a \o b \o c)
      BY <2>3, <2>5, SendsConcat
    <2>7. Sends(a \o b \o c \o e)
      BY <2>4, <2>6, SendsConcat
    <2> QED
      BY <2>7
  <1>4. Fetches(lists)
    BY FetchesLists
  <1> HIDE DEF sent, lists
  <1>5. IsSeq(new) /\ Range(new) = Range(sent) \cup Range(lists)
    BY <1>3, <1>4, Concat, RangeConcat DEF Sends, Fetches
  <1>6. \A x \in Range(new) : /\ CallType(x)
                              /\ x.op \notin BuildOps \cup {"checkVersion", "portIds"}
    <2>1. \A x \in Range(lists) : CallType(x)
      BY <1>4 DEF Fetches, CallType, ChangeOps
    <2> QED
      BY <1>3, <1>4, <1>5, <2>1 DEF Sends, Fetches, BuildOps
  <1>7. port.up /\ IsSeq(calls) /\ calls # <<>> /\ calls[1].op = "ids"
    <2> HIDE DEF new
    <2> QED
      BY <1>1, TakenSync
  <1>8. CopyType(port') /\ CountersType'
    <2>1. port' = port /\ nextId' = nextId /\ atConnect' = FALSE
      BY <1>1
    <2>2. CopyType(port)
      <3> HIDE DEF new
      <3> QED
        BY <1>7 DEF SyncInv, SyncType, PortTyped, NoPort
    <2>3. CountersType'
      <3> HIDE DEF new
      <3> QED
        BY <2>1 DEF SyncInv, SyncType, CountersType
    <2> QED
      BY <2>1, <2>2, <2>3
  <1>9. ASSUME excuse = {}
        PROVE  /\ Sync(port', Tail(calls) \o new, {}, drone.items, atConnect')
               /\ \A k \in Kinds : Distinct(port'.items[k], nextId'[k])
    <2> DEFINE r == {d}
    <2>1. /\ Sync(port, calls, r, drone.items, atConnect)
          /\ \A k \in Kinds : Distinct(port.items[k], nextId[k])
      <3> HIDE DEF new
      <3> QED
        BY <1>1, <1>7, <1>9, TakenFollows
    <2>2. atConnect = TRUE
      BY <1>1 DEF SyncInv, SyncType, CountersType
    <2> HIDE DEF r
    <2>3. Sync(port, Tail(calls) \o (sent \o lists), {}, drone.items, FALSE)
      BY <1>1, <1>3, <1>4, <1>7, <2>1, <2>2, SyncSession DEF Sends, CopyOps
    <2> QED
      BY <1>1, <2>1, <2>3
  <1> HIDE DEF new
  <1> QED
    BY <1>1, <1>5, <1>6, <1>7, <1>8, <1>9, CallbackSync

\* A list without ids has no items.
LEMMA NoIdsNoItems ==
    /\ Ids(<<>>) = {} /\ Unique(<<>>)
    /\ \A s : IsItems(s) /\ Ids(s) = {} => s = <<>>
  <1>1. Ids(<<>>) = {} /\ Unique(<<>>)
    BY EmptyHasNone DEF Ids, Unique
  <1>2. ASSUME NEW s, IsItems(s), Ids(s) = {} PROVE s = <<>>
    <2>1. Len(s) \in Nat /\ DOMAIN s = 1 .. Len(s) /\ (s = <<>> <=> Len(s) = 0)
      BY <1>2, SeqLength DEF IsItems
    <2>2. 1 \notin DOMAIN s
      BY <1>2 DEF Ids
    <2> QED
      BY <2>1, <2>2
  <1> QED
    BY <1>1, <1>2

\* get...ConfigList(), for the items that have just been inserted.
LEMMA GetConfigsAsks ==
    ASSUME NEW k \in Kinds, NEW items, IsItems(items)
    PROVE  /\ AsksContents(GetConfigs(k, items), k, Ids(items))
           /\ \A c \in Range(GetConfigs(k, items)) : CallType(c)
  <1> DEFINE arg == [ids |-> Ids(items)]
             c == Call("cfgs", k, arg)
             cond == items # <<>>
             new == CallIf(cond, "cfgs", k, arg)
  <1>1. c.op = "cfgs" /\ c.k = k /\ c.arg.ids = Ids(items)
    BY DEF Call
  <1>2. /\ IsSeq(new) /\ (\A at, f : AllFit(new, at, f))
        /\ (cond => Range(new) = {c}) /\ (~cond => Range(new) = {})
    <2> HIDE DEF arg, cond
    <2> QED
      BY CallIfIs
  <1> HIDE DEF c, new, arg
  <1>3. Ids(items) # {} => cond
    BY NoIdsNoItems
  <1>4. CallType(c)
    BY <1>1 DEF CallType, ChangeOps
  <1> HIDE DEF cond
  <1>5. AsksContents(new, k, Ids(items)) /\ \A x \in Range(new) : CallType(x)
    BY <1>1, <1>2, <1>3, <1>4 DEF AsksContents, Has
  <1> QED
    BY <1>5 DEF new, GetConfigs, arg, cond

\* The port counts as synchronised.
LEMMA FetchedIs ==
    ASSUME NEW p, CopyType(p), NEW p2, p2 = [p EXCEPT !.fetched = TRUE]
    PROVE  /\ CopyType(p2) /\ p2.items = p.items /\ p2.fetched = TRUE
           /\ \A k \in Kinds : Untouched(p, k) => Untouched(p2, k)
  BY DEF CopyType, Untouched

\* processStreamIdList(), processDeviceGroupIdList()
LEMMA IdListSync ==
    ASSUME ExchangeInv, SyncInv, NEW k \in Kinds, ProcessIdList(k)
    PROVE  SyncInv'
  <1> DEFINE d == inbox[1].data
             s == port.items[k]
             added == {i \in d.ids : k = "stream" \/ i \notin Ids(s)}
             v == s \o AsItems(added)
             p == WithItems(port, k, v)
             new == GetConfigs(k, v)
             p2 == port'
             g == drone.items
  <1>1. /\ Answered({"ids"}) /\ calls[1].k = k /\ ~atConnect
        /\ Done(GetConfigs(k, Inserted(port, k, d.ids).items[k]))
        /\ p2 = IF k = "stream" THEN [Synced(Inserted(port, k, d.ids)) EXCEPT !.fetched = TRUE]
                                ELSE Inserted(port, k, d.ids)
        /\ nextId' = [nextId EXCEPT ![k] = NextIdAfter(k, d.ids)]
        /\ UNCHANGED <<atConnect, window, excuse>>
    BY DEF ProcessIdList
  <1>2. Inserted(port, k, d.ids) = p
    BY DEF Inserted, WithItems
  <1>3. port.up /\ IsSeq(calls) /\ calls # <<>> /\ calls[1].op = "ids" /\ calls[1] \in Range(calls)
    <2> DEFINE q == GetConfigs(k, Inserted(port, k, d.ids).items[k])
    <2>1. Done(q)
      BY <1>1
    <2> HIDE DEF q
    <2> QED
      BY <1>1, <2>1, TakenSync
  <1>4. CopyType(port) /\ IsItems(s)
    <2>1. CopyType(port)
      BY <1>3 DEF SyncInv, SyncType, PortTyped, NoPort
    <2> QED
      BY <2>1 DEF CopyType
  <1>5. IdSet(d.ids)
    <2> DEFINE q == GetConfigs(k, Inserted(port, k, d.ids).items[k])
    <2>1. Done(q)
      BY <1>1
    <2> HIDE DEF q
    <2>2. Replies = {d}
      BY <1>1, <2>1, TakenSync
    <2> QED
      BY <1>3, <2>2 DEF SyncInv, SyncType, RepliesTyped
  <1> HIDE DEF d, s
  <1>6. IdSet(added)
    BY <1>5, FS_Subset, added \subseteq d.ids DEF IdSet
  <1> HIDE DEF added
  <1>7. /\ IsItems(AsItems(added)) /\ Ids(AsItems(added)) = added /\ Unique(AsItems(added))
    BY <1>6, AsItemsAre DEF Unique
  <1>8. IsItems(v) /\ Ids(v) = Ids(s) \cup added
        /\ (Unique(s) /\ Ids(s) \cap added = {} => Unique(v))
    BY <1>4, <1>7, ItemsConcat
  <1> HIDE DEF v
  <1>9. /\ CopyType(p) /\ p.items[k] = v /\ \A l \in Kinds : l # k => p.items[l] = port.items[l]
        /\ p.fetched = port.fetched /\ p.last = port.last /\ p.modified = port.modified
    BY <1>4, <1>8, CopyItems
  <1> HIDE DEF p
  <1>10. /\ Done(new)
         /\ p2 = IF k = "stream" THEN [Synced(p) EXCEPT !.fetched = TRUE] ELSE p
    BY <1>1, <1>2, <1>9
  <1>11. AsksContents(new, k, Ids(v)) /\ \A c \in Range(new) : CallType(c)
    BY <1>8, GetConfigsAsks
  <1> HIDE DEF new, p2
  <1>12. /\ CopyType(p2) /\ p2.items = p.items
         /\ k # "stream" => p2 = p
         /\ k = "stream" => p2.fetched = TRUE /\ \A l \in Kinds : Untouched(p2, l)
    <2> DEFINE p1 == Synced(p)
    <2>1. /\ CopyType(p1) /\ p1.items = p.items /\ \A l \in Kinds : Untouched(p1, l)
      BY <1>9, SyncedIs
    <2>2. p2 = IF k = "stream" THEN [p1 EXCEPT !.fetched = TRUE] ELSE p
      BY <1>10
    <2> HIDE DEF p1
    <2>3. CASE k = "stream"
      <3>1. p2 = [p1 EXCEPT !.fetched = TRUE]
        BY <2>2, <2>3
      <3>2. /\ CopyType(p2) /\ p2.items = p1.items /\ p2.fetched = TRUE
            /\ \A l \in Kinds : Untouched(p1, l) => Untouched(p2, l)
        BY <2>1, <3>1, FetchedIs
      <3> QED
        BY <2>1, <2>3, <3>2
    <2>4. CASE k # "stream"
      BY <1>9, <2>2, <2>4
    <2> QED
      BY <2>3, <2>4
  <1>13. /\ NextIdAfter(k, d.ids) \in Nat /\ NextIdAfter(k, d.ids) >= nextId[k]
         /\ \A i \in d.ids : i < NextIdAfter(k, d.ids)
    <2>1. nextId[k] \in Nat
      BY DEF SyncInv, SyncType, CountersType
    <2> QED
      BY <1>5, <2>1, NextIdIsNext
  <1>14. CountersType'
    BY <1>1, <1>13 DEF SyncInv, SyncType, CountersType
  <1>15. IsSeq(new) /\ \A c \in Range(new) : /\ CallType(c)
                                             /\ c.op \notin BuildOps \cup {"checkVersion", "portIds"}
    BY <1>11 DEF AsksContents, BuildOps
  <1>16. ASSUME excuse = {}
         PROVE  /\ Sync(p2, Tail(calls) \o new, {}, g, atConnect')
                /\ \A l \in Kinds : Distinct(p2.items[l], nextId'[l])
    <2>1. /\ Sync(port, calls, {d}, g, atConnect)
          /\ \A l \in Kinds : Distinct(port.items[l], nextId[l])
      BY <1>1, <1>3, <1>10, <1>16, TakenFollows DEF d
    <2>2. atConnect = FALSE
      BY <1>1 DEF SyncInv, SyncType, CountersType
    <2>3. d.ids = DOMAIN g[k]
      BY <1>1, <1>3, <2>1 DEF Sync, Replied
    <2>4. s = <<>>
      BY <1>1, <1>3, <2>1 DEF Sync, Fetching, Has, Blank, s
    <2>5. added = d.ids /\ Ids(v) = d.ids /\ Unique(v)
      <3>1. added = d.ids
        BY <2>4, NoIdsNoItems DEF added
      <3> QED
        BY <3>1, <1>8, <2>4, NoIdsNoItems
    <2>6. v # <<>> => d.ids # {}
      BY <1>8, <2>5, NoIdsNoItems
    <2>7. Sync(p2, Tail(calls) \o new, {}, g, FALSE)
      <3> DEFINE q == calls
                 ids == Ids(v)
                 p1 == port
      <3>1. /\ IsSeq(q) /\ q # <<>> /\ Sync(p1, q, {d}, g, FALSE) /\ q[1].op = "ids" /\ q[1].k = k
            /\ ids = DOMAIN g[k] /\ AsksContents(new, k, ids)
            /\ (\A l \in Kinds : l # k => p2.items[l] = p1.items[l])
            /\ Ids(p2.items[k]) = ids /\ (p2.items[k] # <<>> => ids # {})
        BY <1>1, <1>3, <1>9, <1>11, <1>12, <2>1, <2>2, <2>3, <2>5, <2>6
      <3>2. k # "stream" => /\ p2.fetched = p1.fetched /\ p2.last = p1.last
                            /\ p2.modified = p1.modified
        BY <1>9, <1>12
      <3> HIDE DEF q, ids, p1, g
      <3>3. ASSUME k # "stream" PROVE Sync(p2, Tail(q) \o new, {}, g, FALSE)
        BY <3>1, <3>2, <3>3, SyncDeviceIds
      <3>4. ASSUME k = "stream" PROVE Sync(p2, Tail(q) \o new, {}, g, FALSE)
        <4>1. /\ IsSeq(q) /\ q # <<>> /\ Sync(p1, q, {d}, g, FALSE) /\ q[1].op = "ids"
              /\ q[1].k = "stream" /\ ids = DOMAIN g["stream"]
              /\ AsksContents(new, "stream", ids)
              /\ (\A l \in Kinds : l # "stream" => p2.items[l] = p1.items[l])
              /\ Ids(p2.items["stream"]) = ids /\ (p2.items["stream"] # <<>> => ids # {})
          BY <3>1, <3>4
        <4>2. p2.fetched = TRUE /\ \A l \in Kinds : Untouched(p2, l)
          BY <1>12, <3>4
        <4> QED
          BY <4>1, <4>2, SyncStreamIds
      <3> QED
        BY <3>3, <3>4 DEF q
    <2>8. Distinct(v, nextId'[k])
      <3>1. nextId'[k] = NextIdAfter(k, d.ids)
        BY <1>1 DEF SyncInv, SyncType, CountersType
      <3> QED
        BY <1>13, <2>5, <3>1 DEF Distinct, Ids
    <2>9. \A l \in Kinds : l # k => nextId'[l] = nextId[l]
      BY <1>1 DEF SyncInv, SyncType, CountersType
    <2>10. \A l \in Kinds : Distinct(p2.items[l], nextId'[l])
      BY <1>9, <1>12, <2>1, <2>8, <2>9
    <2> QED
      BY <1>1, <2>2, <2>7, <2>10
  <1> QED
    BY <1>1, <1>3, <1>10, <1>12, <1>14, <1>15, <1>16, CallbackSync DEF p2

\* Whatever has arrived.
LEMMA CallbacksSync ==
    ASSUME ExchangeInv, SyncInv, Callback
    PROVE  SyncInv'
  BY CheckedSync, NewPortSync, PortCfgSync, IdListSync, SessionDevicesSync, SessionSync,
     ConfigsSync, AcksSync, AppliedSync, NotificationSync DEF Callback

\* Whatever the user asks for.
LEMMA UserSync ==
    ASSUME ExchangeInv, SyncInv, User \/ PollStats
    PROVE  SyncInv'
  BY NewItemSync, DeleteItemSync, EditItemSync, OtherAskSync, ApplySync DEF User, Edit

-----------------------------------------------------------------------------
(* The theorem.                                                               *)

\* At the start.
LEMMA InitSync == Init => SyncInv
  <1> SUFFICES ASSUME Init PROVE SyncInv
    OBVIOUS
  <1>1. /\ port = NoPort /\ atConnect = FALSE /\ calls = <<>> /\ inbox = <<>>
        /\ nextId = [k \in Kinds |-> IF k = "stream" THEN 0 ELSE 1]
        /\ drone = [items |-> FirstItems, cfg |-> FirstCfg, tx |-> FALSE]
    BY DEF Init
  <1>2. ~port.up
    BY <1>1 DEF NoPort
  <1>3. Replies = {} /\ Range(calls) = {}
    BY <1>1, DataOne, RangeOne DEF Replies
  <1>4. SyncType
    <2>1. CountersType
      BY <1>1 DEF CountersType
    <2>2. DroneTyped
      BY <1>1, IdsAssumption DEF DroneTyped, DroneType, IdSet, IsMap
    <2> QED
      BY <1>1, <1>3, <2>1, <2>2 DEF SyncType, PortTyped, CallsTyped, RepliesTyped
  <1>5. OneBuild
    BY <1>1, <1>3, OnceOne DEF OneBuild, HasOp
  <1>6. Alone
    BY <1>1, <1>2, EmptyHasNone DEF Alone
  <1> QED
    BY <1>2, <1>4, <1>5, <1>6 DEF SyncInv, Together

\* A copy that is settled has the drone's contents.
LEMMA SettledIsSame ==
    ASSUME NEW p, NEW g, NEW at, CopyType(p), DroneType(g), NEW k \in Kinds,
           Sync(p, <<>>, {}, g, at), p.fetched, ~p.dirty, Unique(p.items[k])
    PROVE  Contents(p.items[k]) = g[k]
  <1> DEFINE s == p.items[k]
             f == g[k]
             c == Contents(s)
  <1>1. Range(<<>>) = {}
    BY RangeOne
  <1>2. Followed(p, <<>>, g, k)
    BY <1>1 DEF Sync, Following, HasOp
  <1>3. /\ DOMAIN f = Ids(s) /\ p.modified[k] = {}
        /\ \A n \in DOMAIN s : s[n].cfg = f[s[n].id]
    BY <1>1, <1>2 DEF Followed, Untouched, Has, Ids
  <1>4. IsItems(s) /\ IsMap(f) /\ Unique(s)
    BY DEF CopyType, DroneType
  <1>5. DOMAIN c = Ids(s) /\ IsMap(c)
    BY DEF Contents, IsMap
  <1> HIDE DEF s, f, c
  <1>6. ASSUME NEW i \in Ids(s) PROVE c[i] = f[i]
    <2>1. PICK n \in DOMAIN s : s[n].id = i
      BY DEF Ids
    <2>2. c[s[n].id] = s[n].cfg
      BY <1>4, ContentsOfUnique DEF c
    <2> QED
      BY <1>3, <2>1, <2>2
  <1>7. c = f
    BY <1>3, <1>4, <1>5, <1>6 DEF IsMap
  <1> QED
    BY <1>7 DEF c, s, f

\* A port that shows no changes to apply shows what the drone has once no call is
\* outstanding, however fetches, edits, Apply, a session, the drone's answers, lost
\* connections and reconnects are interleaved, whatever the drone, the session file and
\* the numbers of edits and losses are - unless another controller changed the items, the
\* port transmitted when changes came, or the user did not wait for the lists and their
\* contents (PortGroup::process...(), PortGroup::when_configApply(), Port).
THEOREM CleanMeansSyncedHolds == Spec => []CleanMeansSynced
  <1>1. Init => SyncInv
    BY InitSync
  <1>2. ASSUME ExchangeInv, SyncInv, [Next]_vars
        PROVE  SyncInv'
    <2>1. CASE Connection
      BY <1>2, <2>1, ConnectionSync
    <2>2. CASE User \/ PollStats
      BY <1>2, <2>2, UserSync
    <2>3. CASE Drone
      BY <1>2, <2>3, DroneSync
    <2>4. CASE Callback
      BY <1>2, <2>4, CallbacksSync
    <2>5. CASE TransmitEnds
      BY <1>2, <2>5, NetSync
    <2>6. CASE OtherController
      BY <1>2, <2>6, OtherSync
    <2>7. CASE UNCHANGED vars
      <3>1. /\ UNCHANGED <<port, calls, atConnect, nextId, window, excuse>>
            /\ drone' = drone /\ Replies' = Replies
        BY <2>7 DEF vars, local, wire, Replies
      <3>2. DroneType(drone.items)
        BY <1>2 DEF SyncInv, SyncType, DroneTyped
      <3> QED
        BY <1>2, <3>1, <3>2, SameSync
    <2> QED
      BY <1>2, <2>1, <2>2, <2>3, <2>4, <2>5, <2>6, <2>7 DEF Next
  <1>3. ExchangeInv /\ SyncInv => CleanMeansSynced
    <2> SUFFICES ASSUME ExchangeInv, SyncInv, port.up, excuse = {}, port.fetched, ~port.dirty,
                        calls = <<>>, NEW k \in Kinds
                 PROVE  Contents(port.items[k]) = drone.items[k]
      BY DEF CleanMeansSynced, SameContents
    <2>1. Replies = {}
      BY AnswersAreCalled
    <2>2. /\ Sync(port, <<>>, {}, drone.items, atConnect) /\ Unique(port.items[k])
      BY <2>1 DEF SyncInv, Together, Distinct
    <2>3. CopyType(port) /\ DroneType(drone.items)
      BY DEF SyncInv, SyncType, PortTyped, NoPort, DroneTyped
    <2> QED
      BY <2>2, <2>3, SettledIsSame
  <1> QED
    BY <1>1, <1>2, <1>3, ExchangeHolds, PTL DEF Spec

===============================================================================
