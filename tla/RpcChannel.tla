------------------------------ MODULE RpcChannel ------------------------------
(***************************************************************************)
(* rpc/: the controller's PbRpcChannels, each connected over TCP to a        *)
(* drone's RpcConnection.                                                   *)
(*                                                                          *)
(*   client   one thread for all channels.  A channel has one call on the    *)
(*            wire (pending) and a list of calls behind it (queue); its      *)
(*            readyRead handler is a loop: "top", "callback" while a call's  *)
(*            done->Run() runs, "exit".                                     *)
(*   server   one thread per connection: a request, its reply, the next.     *)
(*                                                                          *)
(* TCP keeps the order of bytes but not the segments.  A message is two      *)
(* units of header and LenOf(type) units of body; a segment is a sequence of *)
(* units and may end after any of them.  The parser's state (parsing, hdr,   *)
(* got) is static in readyRead, so all channels share it.                    *)
(*                                                                          *)
(* The parser does not survive all that the network may do.  Four things     *)
(* take it out of step, and torn notes that one of them has happened: a      *)
(* segment that ends inside a header, one that ends inside a notification,   *)
(* bytes of another channel or a lost connection inside a half-read message. *)
(***************************************************************************)
EXTENDS Naturals, SequencesExt

CONSTANTS
    Channels,    \* the controller's port groups
    Kinds,       \* calls it makes: "plain", "blob" (getCaptureBuffer), "incomplete"
    MaxCalls, MaxConns, MaxNotifs    \* bounds of each channel: calls and notifications on
                 \* a connection, connections

ASSUME RpcAssumption ==
    /\ Channels # {}
    /\ Kinds \subseteq {"plain", "blob", "incomplete"}
    /\ MaxCalls \in [Channels -> Nat \ {0}] /\ MaxConns \in [Channels -> Nat \ {0}]
    /\ MaxNotifs \in [Channels -> Nat]

VARIABLES
    link,      \* client: is the socket connected
    conn,      \* client: connections made so far, which number the connections
    agreed,    \* client: PortGroup's compat = kCompatible
    pending,   \* client: the call isPending stands for, or NoCall
    queue,     \* client: pendingCallList
    issued,    \* client: calls made on this connection, which number the calls
    answers,   \* the calls answered on this connection, each with its reply
    inbuf,     \* client: units received and not yet consumed
    parsing, hdr, got,    \* static: header read, its fields, body units read
    hpc, hch,  \* readyRead: "idle", "top", "callback", "exit", and its channel
    request,   \* requests on their way to the server
    wire,      \* units on their way to the client
    srv,       \* server: "none", "open", "closed" (disconnectFromHost called)
    compat,    \* server: isCompatCheckDone
    notes,     \* server: notifications sent on this connection
    torn       \* ghost: has the network done what the parser does not survive

client == <<link, conn, agreed, pending, queue, issued, answers>>
parser == <<parsing, hdr, got>>
handler == <<hpc, hch>>
server == <<srv, compat, notes>>
vars == <<client, inbuf, parser, handler, request, wire, server, torn>>

NoCall == [id |-> 0, kind |-> "none", conn |-> 0]
CallsOf(c) == [id : 1..MaxCalls[c], kind : Kinds \union {"version"}, conn : 1..MaxConns[c]]

\* PB_MSG_TYPE_*, and the units of body each is given here.
LenOf(type) == CASE type = "blob" -> 2 [] type \in {"response", "error", "notify"} -> 1
Message(t, c, call, ok) ==
    [type |-> t, chan |-> c, call |-> call, ok |-> ok, len |-> LenOf(t)]
Units(m) == [i \in 1..(2 + m.len) |-> [msg |-> m, part |-> i]]
NoMessage == Message("notify", CHOOSE c \in Channels : TRUE, NoCall, TRUE)

\* After this unit a segment may end and the parser waits for the rest: behind a message,
\* and inside a reply whose header is complete.
GoodCut(u) == u.part = 2 + u.msg.len \/ (u.part # 1 /\ u.msg.type # "notify")

Init ==
    /\ link = [c \in Channels |-> FALSE] /\ conn = [c \in Channels |-> 0]
    /\ agreed = [c \in Channels |-> FALSE]
    /\ pending = [c \in Channels |-> NoCall]
    /\ queue = [c \in Channels |-> <<>>]
    /\ issued = [c \in Channels |-> 0] /\ answers = [c \in Channels |-> <<>>]
    /\ inbuf = [c \in Channels |-> <<>>]
    /\ parsing = FALSE /\ hdr = NoMessage /\ got = 0
    /\ hpc = "idle" /\ hch = CHOOSE c \in Channels : TRUE
    /\ request = [c \in Channels |-> <<>>] /\ wire = [c \in Channels |-> <<>>]
    /\ srv = [c \in Channels |-> "none"] /\ compat = [c \in Channels |-> FALSE]
    /\ notes = [c \in Channels |-> 0]
    /\ torn = FALSE

-----------------------------------------------------------------------------
(* Client: connecting, calling, losing the connection                       *)

\* A request with required fields missing is answered at once: SetFailed,
\* done->Run(), and nothing becomes pending.
Rejected(call) == [call |-> call, by |-> NoCall]

\* Mutants: CallMethod does not look at isPending, or queues in front.
CallMethodAtOnce(c, call) ==
    /\ pending' = [pending EXCEPT ![c] = call]
    /\ request' = [request EXCEPT ![c] = Append(@, call)]
    /\ UNCHANGED <<queue, answers>>
CallMethodInFront(c, call) ==
    IF pending[c] # NoCall
    THEN queue' = [queue EXCEPT ![c] = <<call>> \o @] /\ UNCHANGED <<pending, answers, request>>
    ELSE CallMethodAtOnce(c, call)

CallMethod(c, call) ==
    CASE pending[c] # NoCall ->
            /\ queue' = [queue EXCEPT ![c] = Append(@, call)]
            /\ UNCHANGED <<pending, answers, request>>
      [] pending[c] = NoCall /\ call.kind = "incomplete" ->
            /\ answers' = [answers EXCEPT ![c] = Append(@, Rejected(call))]
            /\ UNCHANGED <<pending, queue, request>>
      [] OTHER ->
            /\ pending' = [pending EXCEPT ![c] = call]
            /\ request' = [request EXCEPT ![c] = Append(@, call)]
            /\ UNCHANGED <<queue, answers>>

\* The connected() signal: PortGroup asks for the version check.
Connected(c) ==
    /\ hpc = "idle" /\ ~link[c] /\ conn[c] < MaxConns[c]
    /\ link' = [link EXCEPT ![c] = TRUE]
    /\ conn' = [conn EXCEPT ![c] = @ + 1]
    /\ agreed' = [agreed EXCEPT ![c] = FALSE]
    /\ issued' = [issued EXCEPT ![c] = 1]
    /\ CallMethod(c, [id |-> 1, kind |-> "version", conn |-> conn[c] + 1])
    /\ srv' = [srv EXCEPT ![c] = "open"]
    /\ compat' = [compat EXCEPT ![c] = FALSE]
    /\ notes' = [notes EXCEPT ![c] = 0]
    /\ UNCHANGED <<inbuf, parser, handler, wire, torn>>

\* A call made by the user interface or a timer, in the callback of an earlier call, or
\* on a notification.  PortGroup calls only a drone it sees connected and compatible.
Issue(c, k) ==
    /\ \/ hpc = "idle"
       \/ hch = c /\ hpc = "callback"
       \/ hch = c /\ hpc = "top" /\ parsing /\ hdr.type = "notify"
    /\ link[c] /\ agreed[c] /\ issued[c] < MaxCalls[c]
    /\ issued' = [issued EXCEPT ![c] = @ + 1]
    /\ CallMethod(c, [id |-> issued[c] + 1, kind |-> k, conn |-> conn[c]])
    /\ UNCHANGED <<link, conn, agreed, inbuf, parser, handler, wire, server, torn>>

\* Mutant: isPending is not reset.
DropCallsStillPending(c) ==
    queue' = [queue EXCEPT ![c] = <<>>] /\ UNCHANGED pending

\* The calls are dropped without their done->Run() ...
DropCalls(c) ==
    /\ pending' = [pending EXCEPT ![c] = NoCall]
    /\ queue' = [queue EXCEPT ![c] = <<>>]

\* ... on the disconnected() signal, whoever closed the connection and whatever was
\* still in flight.  The parser is not reset.
Disconnected(c) ==
    /\ hpc = "idle" /\ link[c]
    /\ DropCalls(c)
    /\ link' = [link EXCEPT ![c] = FALSE]
    /\ answers' = [answers EXCEPT ![c] = <<>>]
    /\ inbuf' = [inbuf EXCEPT ![c] = <<>>]
    /\ request' = [request EXCEPT ![c] = <<>>]
    /\ wire' = [wire EXCEPT ![c] = <<>>]
    /\ srv' = [srv EXCEPT ![c] = "none"]
    /\ torn' = (torn \/ (parsing /\ hdr.chan = c))
    /\ UNCHANGED <<conn, agreed, issued, parser, handler, compat, notes>>

-----------------------------------------------------------------------------
(* Client: on_mpSocket_readyRead                                            *)

\* A segment arrives.
Deliver(c) ==
    /\ hpc = "idle" /\ link[c]
    /\ \E n \in 1..Len(wire[c]) :
          /\ torn' = (torn \/ ~GoodCut(wire[c][n]) \/ (parsing /\ hdr.chan # c))
          /\ inbuf' = [inbuf EXCEPT ![c] = @ \o SubSeq(wire[c], 1, n)]
          /\ wire' = [wire EXCEPT ![c] = SubSeq(@, n + 1, Len(@))]
    /\ hpc' = "top" /\ hch' = c
    /\ UNCHANGED <<client, parser, request, server>>

\* An entire header is consumed; less is put back for `_exit` to take again.
\* (Out of step with the stream the code reads body bytes as a header: the model
\* ends there.)
ReadHeader ==
    /\ hpc = "top" /\ ~parsing
    /\ IF Len(inbuf[hch]) < 2
       THEN hpc' = "exit" /\ UNCHANGED <<inbuf, parsing, hdr, got>>
       ELSE /\ Head(inbuf[hch]).part = 1
            /\ hdr' = Head(inbuf[hch]).msg /\ parsing' = TRUE
            /\ inbuf' = [inbuf EXCEPT ![hch] = SubSeq(@, 3, Len(@))]
            /\ UNCHANGED <<got, hpc>>
    /\ UNCHANGED <<client, hch, request, wire, server, torn>>

\* isPending, and pendingMethodId is the header's.
Expected == pending[hch] # NoCall /\ pending[hch].kind = hdr.call.kind

\* The static cumLen after n more units of the body.
BodyRead(n) == IF n = hdr.len - got THEN 0 ELSE got + n

\* The body of a RESPONSE, BINBLOB or ERROR as far as it has arrived.  When it is
\* complete: done->Run() for the pending call, or the message is discarded.
ReadReply ==
    /\ hpc = "top" /\ parsing /\ hdr.type # "notify"
    /\ LET avail == Len(inbuf[hch])
           need == hdr.len - got
           n == IF avail < need THEN avail ELSE need
           complete == n = need
       IN /\ inbuf' = [inbuf EXCEPT ![hch] = SubSeq(@, n + 1, Len(@))]
          /\ got' = BodyRead(n)
          /\ parsing' = (Expected \/ (hdr.type # "response" /\ ~complete))
          /\ hpc' = IF complete /\ Expected THEN "callback" ELSE "exit"
          /\ IF complete /\ Expected
             THEN /\ answers' = [answers EXCEPT
                         ![hch] = Append(@, [call |-> pending[hch], by |-> hdr.call])]
                  /\ agreed' = [agreed EXCEPT
                         ![hch] = @ \/ (hdr.call.kind = "version" /\ hdr.ok)]
             ELSE UNCHANGED <<answers, agreed>>
    /\ UNCHANGED <<link, conn, pending, queue, issued, hdr, hch, request, wire, server, torn>>

\* NOTIFY: what has arrived of the body is parsed, and parsing ends.
ReadNotify ==
    /\ hpc = "top" /\ parsing /\ hdr.type = "notify"
    /\ inbuf' = [inbuf EXCEPT ![hch] = SubSeq(@, hdr.len + 1, Len(@))]
    /\ parsing' = FALSE
    /\ hpc' = "exit"
    /\ UNCHANGED <<client, hdr, got, hch, request, wire, server, torn>>

\* done->Run() has returned: the call is over and the next in the list is made.
CallbackEnds ==
    /\ hpc = "callback"
    /\ parsing' = FALSE
    /\ hpc' = "exit"
    /\ IF queue[hch] = <<>>
       THEN /\ pending' = [pending EXCEPT ![hch] = NoCall]
            /\ UNCHANGED <<queue, answers, request>>
       ELSE LET next == Head(queue[hch])
            IN /\ queue' = [queue EXCEPT ![hch] = Tail(@)]
               /\ IF next.kind = "incomplete"
                  THEN /\ answers' = [answers EXCEPT ![hch] = Append(@, Rejected(next))]
                       /\ pending' = [pending EXCEPT ![hch] = NoCall]
                       /\ UNCHANGED request
                  ELSE /\ pending' = [pending EXCEPT ![hch] = next]
                       /\ request' = [request EXCEPT ![hch] = Append(@, next)]
                       /\ UNCHANGED answers
    /\ UNCHANGED <<link, conn, agreed, issued, inbuf, hdr, got, hch, wire, server, torn>>

\* Mutant: the handler returns with bytes left in the stream.
ExitAtOnce ==
    /\ hpc = "exit"
    /\ hpc' = "idle" /\ inbuf' = [inbuf EXCEPT ![hch] = <<>>]
    /\ UNCHANGED <<client, parser, hch, request, wire, server, torn>>

\* _exit: Next() takes what is left; at least a header is put back and read, less
\* than a header is not put back.
Exit ==
    /\ hpc = "exit"
    /\ IF Len(inbuf[hch]) >= 2
       THEN hpc' = "top" /\ UNCHANGED inbuf
       ELSE hpc' = "idle" /\ inbuf' = [inbuf EXCEPT ![hch] = <<>>]
    /\ UNCHANGED <<client, parser, hch, request, wire, server, torn>>

-----------------------------------------------------------------------------
(* Server: RpcConnection                                                    *)

\* dataAvail and sendRpcReply for one request.  Until the version check has been
\* answered every other request is refused and the connection closed; an
\* incompatible version is answered and the connection closed.
Serve(c) ==
    /\ srv[c] = "open" /\ request[c] # <<>>
    /\ LET call == Head(request[c])
           Reply(t, ok) == wire' = [wire EXCEPT ![c] = @ \o Units(Message(t, c, call, ok))]
           Close(closing) == srv' = [srv EXCEPT ![c] = IF closing THEN "closed" ELSE @]
       IN CASE call.kind = "version" ->
                    /\ \E ok \in BOOLEAN : Reply("response", ok) /\ Close(~ok)
                    /\ compat' = [compat EXCEPT ![c] = TRUE]
            [] call.kind # "version" /\ ~compat[c] ->
                    Reply("error", FALSE) /\ Close(TRUE) /\ UNCHANGED compat
            [] OTHER ->
                    /\ \E t \in {"error", IF call.kind = "blob" THEN "blob" ELSE "response"} :
                          Reply(t, t # "error")
                    /\ UNCHANGED <<compat, srv>>
    /\ request' = [request EXCEPT ![c] = Tail(@)]
    /\ UNCHANGED <<client, inbuf, parser, handler, notes, torn>>

\* sendNotification, for another client's modifyPort; dropped before the version check.
SendNotification(c) ==
    /\ srv[c] = "open" /\ compat[c] /\ notes[c] < MaxNotifs[c]
    /\ notes' = [notes EXCEPT ![c] = @ + 1]
    /\ wire' = [wire EXCEPT ![c] = @ \o Units(Message("notify", c, NoCall, TRUE))]
    /\ UNCHANGED <<client, inbuf, parser, handler, request, srv, compat, torn>>

-----------------------------------------------------------------------------
ReadyRead == ReadHeader \/ ReadReply \/ ReadNotify \/ CallbackEnds \/ Exit

Next ==
    \/ \E c \in Channels :
          \/ Connected(c) \/ Disconnected(c) \/ Deliver(c)
          \/ Serve(c) \/ SendNotification(c)
          \/ \E k \in Kinds : Issue(c, k)
    \/ ReadyRead

Spec == Init /\ [][Next]_vars

\* The client's event loop runs each handler to its end and serves every socket, the
\* network delivers, the server answers, and a server's close reaches the client.
Fairness ==
    /\ WF_vars(ReadyRead)
    /\ \A c \in Channels :
          /\ WF_vars(Deliver(c))
          /\ WF_vars(Serve(c))
          /\ WF_vars(srv[c] = "closed" /\ wire[c] = <<>> /\ Disconnected(c))

FairSpec == Spec /\ Fairness

-----------------------------------------------------------------------------
(* Properties                                                              *)

\* The parser is in step with the stream, until the network does what it does not survive:
\* between two readyReads the next unit a channel will receive is the first of a message,
\* or the next of the body being read.  "Do we have an entire header? If not, we'll wait"
\* (pbrpcchannel.cpp:198); the header is the part where it does not.
StreamAligned ==
    hpc = "idle" /\ ~torn =>
        \A c \in Channels : wire[c] # <<>> =>
            IF parsing /\ hdr.chan = c
            THEN Head(wire[c]) = [msg |-> hdr, part |-> 3 + got]
            ELSE Head(wire[c]).part = 1

\* The stranded calls: queued while nothing is pending.  The next call made overtakes
\* them and its answer moves them on.
Stranded(c) == pending[c] = NoCall /\ queue[c] # <<>>
SawIncomplete(c) == \E i \in DOMAIN answers[c] : answers[c][i].by = NoCall

Matched(c) ==
    /\ \A i \in DOMAIN answers[c] : answers[c][i].by \in {answers[c][i].call, NoCall}
    /\ ~SawIncomplete(c) => \A i \in DOMAIN answers[c] : answers[c][i].call.id = i

\* Every call is answered by the reply to that very call, although the header
\* carries only a method id and no call id; and calls are answered in the order they
\* were made, unless a request with missing fields has stranded the queue.
AnswersMatchCalls == ~torn => \A c \in Channels : Matched(c)

(* The inductive strengthening of AnswersMatchCalls.                          *)

Call == [id : Nat \ {0}, kind : Kinds \cup {"version"}, conn : Nat]
MessageType == [type : {"response", "blob", "error", "notify"}, chan : Channels,
                call : Call \cup {NoCall}, ok : BOOLEAN, len : Nat]
Unit == [msg : MessageType, part : Nat \ {0}]

\* The type invariant, of all that the calls depend on.
TypeOK ==
    /\ link \in [Channels -> BOOLEAN] /\ conn \in [Channels -> Nat]
    /\ pending \in [Channels -> Call \cup {NoCall}]
    /\ queue \in [Channels -> Seq(Call)] /\ request \in [Channels -> Seq(Call)]
    /\ issued \in [Channels -> Nat]
    /\ answers \in [Channels -> Seq([call : Call, by : Call \cup {NoCall}])]
    /\ inbuf \in [Channels -> Seq(Unit)] /\ wire \in [Channels -> Seq(Unit)]
    /\ parsing \in BOOLEAN /\ hdr \in MessageType /\ got \in Nat
    /\ hpc \in {"idle", "top", "callback", "exit"} /\ hch \in Channels

\* Units s on channel c hold the start of one reply at most, and that one is to call.
BeginsReply(u) == u.part = 1 /\ u.msg.type # "notify"
NoReplyIn(s) == \A i \in 1..Len(s) : ~BeginsReply(s[i])
RepliesOnce(s, c, call) ==
    /\ \A i \in 1..Len(s) :
          s[i].msg.chan = c /\ (BeginsReply(s[i]) => s[i].msg.call = call)
    /\ \A i, j \in 1..Len(s) : BeginsReply(s[i]) /\ BeginsReply(s[j]) => i = j

\* The pending call of a channel is in one place: a request, a reply on its way, a reply
\* received, or the reply being read.
BeingRead(c) == parsing /\ hdr.chan = c /\ hdr.type # "notify"
InOnePlace(c) ==
    /\ request[c] # <<>> =>
          /\ request[c] = <<pending[c]>> /\ pending[c] # NoCall
          /\ NoReplyIn(wire[c]) /\ NoReplyIn(inbuf[c]) /\ ~BeingRead(c)
    /\ RepliesOnce(wire[c], c, pending[c]) /\ RepliesOnce(inbuf[c], c, pending[c])
    /\ NoReplyIn(wire[c]) \/ NoReplyIn(inbuf[c])
    /\ BeingRead(c) \/ pending[c] = NoCall => NoReplyIn(wire[c]) /\ NoReplyIn(inbuf[c])

\* What the shared parser is reading is for the channel whose handler runs, and is the
\* answer to that channel's pending call.
ParserOK ==
    /\ hpc # "idle" => link[hch] /\ (parsing => hdr.chan = hch)
    /\ parsing /\ hdr.type # "notify" => pending[hdr.chan] # NoCall /\ hdr.call = pending[hdr.chan]
    /\ hpc = "callback" => parsing /\ hdr.type # "notify" /\ got = 0
    /\ got = 0 \/ (parsing /\ hdr.type # "notify" /\ got < hdr.len)

\* Answered calls, the pending one and those behind it are numbered without a gap.
Answered(c) == hpc = "callback" /\ hch = c
InSequence(c) ==
    /\ ~link[c] => pending[c] = NoCall /\ queue[c] = <<>> /\ answers[c] = <<>>
    /\ ~SawIncomplete(c) =>
          IF pending[c] = NoCall
          THEN queue[c] = <<>> /\ (link[c] => issued[c] = Len(answers[c]))
          ELSE /\ pending[c].id = IF Answered(c) THEN Len(answers[c]) ELSE Len(answers[c]) + 1
               /\ \A i \in 1..Len(queue[c]) : queue[c][i].id = pending[c].id + i
               /\ issued[c] = pending[c].id + Len(queue[c])

CallsInv ==
    /\ TypeOK /\ ParserOK
    /\ \A c \in Channels : Matched(c) /\ InOnePlace(c) /\ InSequence(c)

IInv == ~torn => CallsInv

\* Call n waits for its answer: its connection is up, it is not stranded, and the parser
\* has not been put out of step.
Waiting(c, n) ==
    /\ link[c] /\ ~Stranded(c) /\ ~torn
    /\ pending[c].id = n \/ \E i \in DOMAIN queue[c] : queue[c][i].id = n

\* A call that waits gets its answer or is dropped with its connection, unless it is
\* stranded or the parser is out of step: no call waits forever on a connection that stays
\* up.
EveryCallSettled ==
    \A c \in Channels : \A n \in 1..MaxCalls[c] : Waiting(c, n) ~> ~Waiting(c, n)
=============================================================================
