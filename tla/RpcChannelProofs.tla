--------------------------- MODULE RpcChannelProofs ---------------------------
(* For any channels, calls, bounds and segments: as long as no segment ends    *)
(* inside a header or a notification, and no other channel's bytes and no      *)
(* disconnect come inside a half-read message, the parser takes every unit for *)
(* what it is, every call is answered by its own reply, and calls are answered *)
(* in the order they were made.  torn says when that is over.                  *)
EXTENDS RpcChannel, SequenceTheorems, TLAPS

-----------------------------------------------------------------------------
(* Sequences of units.                                                       *)

\* A segment and what remains behind it.
LEMMA Parts ==
    ASSUME NEW S, NEW s \in Seq(S), NEW n \in 0 .. Len(s)
    PROVE  /\ SubSeq(s, 1, n) \in Seq(S) /\ Len(SubSeq(s, 1, n)) = n
           /\ \A i \in 1 .. n : SubSeq(s, 1, n)[i] = s[i]
           /\ SubSeq(s, n + 1, Len(s)) \in Seq(S)
           /\ Len(SubSeq(s, n + 1, Len(s))) = Len(s) - n
           /\ \A i \in 1 .. Len(s) - n : SubSeq(s, n + 1, Len(s))[i] = s[n + i]
  <1>1. Len(s) \in Nat /\ \A i \in 1 .. Len(s) : s[i] \in S
    OBVIOUS
  <1>2. /\ SubSeq(s, 1, n) \in Seq(S) /\ Len(SubSeq(s, 1, n)) = n
        /\ \A i \in 1 .. n : SubSeq(s, 1, n)[i] = s[i]
    BY <1>1, SubSeqProperties
  <1>3. /\ SubSeq(s, n + 1, Len(s)) \in Seq(S)
        /\ Len(SubSeq(s, n + 1, Len(s))) = Len(s) - n
        /\ \A i \in 1 .. Len(s) - n : SubSeq(s, n + 1, Len(s))[i] = s[n + i]
    BY <1>1, SubSeqProperties
  <1> QED
    BY <1>2, <1>3

\* Two sequences one behind the other.
LEMMA Concat ==
    ASSUME NEW S, NEW s \in Seq(S), NEW t \in Seq(S)
    PROVE  /\ s \o t \in Seq(S) /\ Len(s \o t) = Len(s) + Len(t)
           /\ \A i \in 1 .. Len(s) : (s \o t)[i] = s[i]
           /\ \A i \in 1 .. Len(s) + Len(t) :
                 (s \o t)[i] = IF i <= Len(s) THEN s[i] ELSE t[i - Len(s)]
  BY ConcatProperties

\* Where a segment is cut, the start of the reply is on one side.
LEMMA CutReplies ==
    ASSUME NEW s \in Seq(Unit), NEW c, NEW call, RepliesOnce(s, c, call), NEW n \in 0 .. Len(s)
    PROVE  /\ RepliesOnce(SubSeq(s, 1, n), c, call)
           /\ RepliesOnce(SubSeq(s, n + 1, Len(s)), c, call)
           /\ NoReplyIn(SubSeq(s, 1, n)) \/ NoReplyIn(SubSeq(s, n + 1, Len(s)))
           /\ NoReplyIn(s) => NoReplyIn(SubSeq(s, 1, n)) /\ NoReplyIn(SubSeq(s, n + 1, Len(s)))
  <1> DEFINE front == SubSeq(s, 1, n)
             rest == SubSeq(s, n + 1, Len(s))
  <1>1. /\ Len(s) \in Nat /\ Len(front) = n /\ Len(rest) = Len(s) - n
        /\ \A i \in 1 .. n : front[i] = s[i] /\ i \in 1 .. Len(s)
        /\ \A i \in 1 .. Len(s) - n : rest[i] = s[n + i] /\ n + i \in 1 .. Len(s)
    BY Parts
  <1> HIDE DEF front, rest
  <1>2. RepliesOnce(front, c, call)
    BY <1>1 DEF RepliesOnce
  <1>3. RepliesOnce(rest, c, call)
    <2>1. \A i \in 1 .. Len(rest) : 
             rest[i].msg.chan = c /\ (BeginsReply(rest[i]) => rest[i].msg.call = call)
      BY <1>1 DEF RepliesOnce
    <2>2. ASSUME NEW i \in 1 .. Len(rest), NEW j \in 1 .. Len(rest),
                 BeginsReply(rest[i]), BeginsReply(rest[j])
          PROVE  i = j
      <3>1. n + i = n + j
        BY <1>1, <2>2 DEF RepliesOnce
      <3> QED
        BY <3>1, <1>1
    <2> QED
      BY <2>1, <2>2 DEF RepliesOnce
  <1>4. NoReplyIn(front) \/ NoReplyIn(rest)
    <2>1. ASSUME NEW i \in 1 .. n, NEW j \in 1 .. Len(s) - n,
                 BeginsReply(front[i]), BeginsReply(rest[j])
          PROVE  FALSE
      <3>1. i = n + j
        BY <1>1, <2>1 DEF RepliesOnce
      <3> QED
        BY <3>1, <1>1
    <2> QED
      BY <2>1, <1>1 DEF NoReplyIn
  <1>5. NoReplyIn(s) => NoReplyIn(front) /\ NoReplyIn(rest)
    BY <1>1 DEF NoReplyIn
  <1> QED
    BY <1>2, <1>3, <1>4, <1>5 DEF front, rest

\* What is received or sent behind other units.
LEMMA JoinReplies ==
    ASSUME NEW s \in Seq(Unit), NEW t \in Seq(Unit), NEW c, NEW call,
           RepliesOnce(s, c, call), RepliesOnce(t, c, call), NoReplyIn(s) \/ NoReplyIn(t)
    PROVE  /\ RepliesOnce(s \o t, c, call)
           /\ NoReplyIn(s) /\ NoReplyIn(t) => NoReplyIn(s \o t)
  <1> DEFINE u == s \o t
  <1>1. /\ Len(s) \in Nat /\ Len(t) \in Nat /\ Len(u) = Len(s) + Len(t)
        /\ \A i \in 1 .. Len(u) :
              \/ i \in 1 .. Len(s) /\ u[i] = s[i]
              \/ i - Len(s) \in 1 .. Len(t) /\ u[i] = t[i - Len(s)]
    BY Concat
  <1> HIDE DEF u
  <1>2. \A i \in 1 .. Len(u) :
           u[i].msg.chan = c /\ (BeginsReply(u[i]) => u[i].msg.call = call)
    BY <1>1 DEF RepliesOnce
  <1>3. ASSUME NEW i \in 1 .. Len(u), NEW j \in 1 .. Len(u),
               BeginsReply(u[i]), BeginsReply(u[j])
        PROVE  i = j
    <2>1. CASE NoReplyIn(s)
      <3>1. /\ i - Len(s) \in 1 .. Len(t) /\ BeginsReply(t[i - Len(s)])
            /\ j - Len(s) \in 1 .. Len(t) /\ BeginsReply(t[j - Len(s)])
        BY <1>1, <1>3, <2>1 DEF NoReplyIn
      <3>2. i - Len(s) = j - Len(s)
        BY <3>1 DEF RepliesOnce
      <3> QED
        BY <3>2, <1>1
    <2>2. CASE NoReplyIn(t)
      <3>1. /\ i \in 1 .. Len(s) /\ BeginsReply(s[i])
            /\ j \in 1 .. Len(s) /\ BeginsReply(s[j])
        BY <1>1, <1>3, <2>2 DEF NoReplyIn
      <3> QED
        BY <3>1 DEF RepliesOnce
    <2> QED
      BY <2>1, <2>2
  <1>4. NoReplyIn(s) /\ NoReplyIn(t) => NoReplyIn(u)
    BY <1>1 DEF NoReplyIn
  <1> QED
    BY <1>2, <1>3, <1>4 DEF RepliesOnce, u

\* A reader that has consumed the header of the reply finds no other behind it.
LEMMA HeaderConsumed ==
    ASSUME NEW s \in Seq(Unit), NEW c, NEW call, RepliesOnce(s, c, call),
           Len(s) >= 2, BeginsReply(Head(s))
    PROVE  NoReplyIn(SubSeq(s, 3, Len(s)))
  <1>1. /\ Len(s) \in Nat /\ Head(s) = s[1] /\ 1 \in 1 .. Len(s)
        /\ Len(SubSeq(s, 3, Len(s))) = Len(s) - 2
        /\ \A i \in 1 .. Len(s) - 2 :
              SubSeq(s, 3, Len(s))[i] = s[2 + i] /\ 2 + i \in 1 .. Len(s)
    <2>1. 2 \in 0 .. Len(s) /\ 2 + 1 = 3 /\ Len(s) \in Nat
      OBVIOUS
    <2>2. /\ Len(SubSeq(s, 2 + 1, Len(s))) = Len(s) - 2
          /\ \A i \in 1 .. Len(s) - 2 : SubSeq(s, 2 + 1, Len(s))[i] = s[2 + i]
      BY <2>1, Parts, Zenon
    <2> QED
      BY <2>1, <2>2
  <1>2. ASSUME NEW i \in 1 .. Len(s) - 2, BeginsReply(s[2 + i])
        PROVE  FALSE
    <2>1. 1 = 2 + i
      BY <1>1, <1>2 DEF RepliesOnce
    <2> QED
      BY <2>1
  <1> QED
    BY <1>1, <1>2 DEF NoReplyIn

\* A message that is sent: typed units, of which the first begins the reply.
LEMMA MessageUnits ==
    ASSUME NEW t \in {"response", "blob", "error", "notify"}, NEW c \in Channels,
           NEW call \in Call \cup {NoCall}, NEW ok \in BOOLEAN
    PROVE  /\ Units(Message(t, c, call, ok)) \in Seq(Unit)
           /\ RepliesOnce(Units(Message(t, c, call, ok)), c, call)
           /\ t = "notify" => NoReplyIn(Units(Message(t, c, call, ok)))
  <1> DEFINE m == Message(t, c, call, ok)
             us == Units(m)
  <1>1. m \in MessageType /\ m.type = t /\ m.chan = c /\ m.call = call /\ m.len \in Nat
    BY DEF Message, LenOf, MessageType
  <1> HIDE DEF m
  <1>2. us \in Seq(Unit) /\ Len(us) = 2 + m.len
        /\ \A i \in 1 .. Len(us) : us[i].msg = m /\ us[i].part = i
    <2>1. us = [i \in 1 .. (2 + m.len) |-> [msg |-> m, part |-> i]] /\ 2 + m.len \in Nat
      BY <1>1 DEF Units
    <2>2. \A i \in 1 .. (2 + m.len) : [msg |-> m, part |-> i] \in Unit
      BY <1>1 DEF Unit
    <2>3. us \in [1 .. (2 + m.len) -> Unit]
      BY <2>1, <2>2, Zenon
    <2>4. us \in Seq(Unit) /\ Len(us) = 2 + m.len
      BY <2>1, <2>3, SeqDef, LenProperties
    <2> QED
      BY <2>1, <2>4
  <1> HIDE DEF us
  <1>3. RepliesOnce(us, c, call)
    BY <1>1, <1>2 DEF RepliesOnce, BeginsReply
  <1>4. t = "notify" => NoReplyIn(us)
    BY <1>1, <1>2 DEF NoReplyIn, BeginsReply
  <1> QED
    BY <1>2, <1>3, <1>4 DEF m, us

\* Nothing on its way is no reply on its way.
LEMMA NothingThere ==
    ASSUME NEW c, NEW call
    PROVE  RepliesOnce(<<>>, c, call) /\ NoReplyIn(<<>>) /\ <<>> \in Seq(Unit)
  BY DEF RepliesOnce, NoReplyIn

\* Units without the start of a reply do not say what is pending.
LEMMA AnyCall ==
    ASSUME NEW s, NEW c, NEW call, NEW other, RepliesOnce(s, c, call), NoReplyIn(s)
    PROVE  RepliesOnce(s, c, other)
  BY DEF RepliesOnce, NoReplyIn

\* Whatever of the front is taken away, even more than there is.
LEMMA RestReplies ==
    ASSUME NEW s \in Seq(Unit), NEW c, NEW call, RepliesOnce(s, c, call), NEW n \in Nat
    PROVE  /\ SubSeq(s, n + 1, Len(s)) \in Seq(Unit)
           /\ RepliesOnce(SubSeq(s, n + 1, Len(s)), c, call)
           /\ NoReplyIn(s) => NoReplyIn(SubSeq(s, n + 1, Len(s)))
  <1>1. CASE n \in 0 .. Len(s)
    BY <1>1, Parts, CutReplies
  <1>2. CASE n \notin 0 .. Len(s)
    <2>1. Len(s) \in Nat /\ n + 1 > Len(s)
      BY <1>2
    <2>2. SubSeq(s, n + 1, Len(s)) = <<>>
      BY <2>1, EmptySeq, SubSeqProperties
    <2> QED
      BY <2>2, NothingThere
  <1> QED
    BY <1>1, <1>2

-----------------------------------------------------------------------------
(* The inductive invariant.                                                  *)

\* The drone group's channels before anything is connected.
LEMMA InitInv == Init => CallsInv
  <1> SUFFICES ASSUME Init PROVE CallsInv
    OBVIOUS
  <1>1. TypeOK
    <2>1. NoMessage \in MessageType /\ hch \in Channels
      BY RpcAssumption DEF Init, NoMessage, Message, LenOf, MessageType
    <2>2. <<>> \in Seq(Call) /\ <<>> \in Seq(Unit)
          /\ <<>> \in Seq([call : Call, by : Call \cup {NoCall}])
      OBVIOUS
    <2> QED
      BY <2>1, <2>2 DEF Init, TypeOK
  <1>2. ParserOK
    BY DEF Init, ParserOK
  <1>3. \A c \in Channels : Matched(c)
    BY DEF Init, Matched
  <1>4. \A c \in Channels : InOnePlace(c)
    BY NothingThere DEF Init, InOnePlace, BeingRead
  <1>5. \A c \in Channels : InSequence(c)
    BY DEF Init, InSequence
  <1> QED
    BY <1>1, <1>2, <1>3, <1>4, <1>5 DEF CallsInv

\* What CallMethod does with a call: queue it, refuse it, or send it.
LEMMA CallMethodCases ==
    ASSUME NEW c, NEW call, CallMethod(c, call)
    PROVE  \/ /\ pending[c] # NoCall
              /\ queue' = [queue EXCEPT ![c] = Append(@, call)]
              /\ UNCHANGED <<pending, answers, request>>
           \/ /\ pending[c] = NoCall /\ call.kind = "incomplete"
              /\ answers' = [answers EXCEPT ![c] = Append(@, Rejected(call))]
              /\ UNCHANGED <<pending, queue, request>>
           \/ /\ pending[c] = NoCall /\ call.kind # "incomplete"
              /\ pending' = [pending EXCEPT ![c] = call]
              /\ request' = [request EXCEPT ![c] = Append(@, call)]
              /\ UNCHANGED <<queue, answers>>
  BY DEF CallMethod

\* A request that nothing waits in front of.
LEMMA AppendToNone == ASSUME NEW e PROVE Append(<<>>, e) = <<e>>
  OBVIOUS

\* What was in a list stays where it was.
LEMMA AppendKeeps ==
    ASSUME NEW S, NEW s \in Seq(S), NEW e \in S
    PROVE  \A i \in DOMAIN s : i \in DOMAIN Append(s, e) /\ Append(s, e)[i] = s[i]
  OBVIOUS

\* One channel's list grows.
LEMMA AppendTyped ==
    ASSUME NEW S, NEW f \in [Channels -> Seq(S)], NEW c \in Channels, NEW e \in S
    PROVE  [f EXCEPT ![c] = Append(@, e)] \in [Channels -> Seq(S)]
  OBVIOUS

\* One channel's list is emptied.
LEMMA EmptyTyped ==
    ASSUME NEW S, NEW f \in [Channels -> Seq(S)], NEW c \in Channels
    PROVE  [f EXCEPT ![c] = <<>>] \in [Channels -> Seq(S)]
  OBVIOUS

\* Types, places and the parser, whoever makes the call.
LEMMA CallMethodInv ==
    ASSUME CallsInv, NEW c \in Channels, NEW call \in Call, CallMethod(c, call),
           inbuf' = inbuf, wire' = wire, parsing' = parsing, hdr' = hdr
    PROVE  /\ pending' \in [Channels -> Call \cup {NoCall}]
           /\ queue' \in [Channels -> Seq(Call)] /\ request' \in [Channels -> Seq(Call)]
           /\ answers' \in [Channels -> Seq([call : Call, by : Call \cup {NoCall}])]
           /\ \A d \in Channels : pending'[d] # pending[d] => ~BeingRead(d)
           /\ \A d \in Channels : InOnePlace(d)'
  <1> USE DEF CallsInv
  <1>1. call # NoCall
    BY DEF Call, NoCall
  <1>2. Rejected(call) \in [call : Call, by : Call \cup {NoCall}]
    BY DEF Rejected
  <1> DEFINE Queued == /\ pending[c] # NoCall
                       /\ queue' = [queue EXCEPT ![c] = Append(@, call)]
                       /\ UNCHANGED <<pending, answers, request>>
             Refused == /\ pending[c] = NoCall /\ call.kind = "incomplete"
                        /\ answers' = [answers EXCEPT ![c] = Append(@, Rejected(call))]
                        /\ UNCHANGED <<pending, queue, request>>
             Sent == /\ pending[c] = NoCall /\ call.kind # "incomplete"
                     /\ pending' = [pending EXCEPT ![c] = call]
                     /\ request' = [request EXCEPT ![c] = Append(@, call)]
                     /\ UNCHANGED <<queue, answers>>
  <1>0. Queued \/ Refused \/ Sent
    BY CallMethodCases
  <1>3. /\ pending' \in [Channels -> Call \cup {NoCall}]
        /\ queue' \in [Channels -> Seq(Call)] /\ request' \in [Channels -> Seq(Call)]
        /\ answers' \in [Channels -> Seq([call : Call, by : Call \cup {NoCall}])]
    <2>0. /\ pending \in [Channels -> Call \cup {NoCall}]
          /\ queue \in [Channels -> Seq(Call)] /\ request \in [Channels -> Seq(Call)]
          /\ answers \in [Channels -> Seq([call : Call, by : Call \cup {NoCall}])]
      BY DEF TypeOK
    <2>1. CASE Queued
      BY <2>0, <2>1, AppendTyped
    <2>2. CASE Refused
      BY <2>0, <2>2, <1>2, AppendTyped
    <2>3. CASE Sent
      BY <2>0, <2>3, AppendTyped
    <2> QED BY <1>0, <2>1, <2>2, <2>3
  <1>4. \A d \in Channels : pending'[d] # pending[d] => ~BeingRead(d)
    <2>1. CASE Queued \/ Refused BY <2>1
    <2>2. CASE Sent BY <2>2 DEF TypeOK, ParserOK, BeingRead
    <2> QED BY <1>0, <2>1, <2>2
  <1>5. ASSUME NEW d \in Channels
        PROVE  InOnePlace(d)'
    <2>1. CASE pending'[d] = pending[d] /\ request'[d] = request[d]
      BY <2>1 DEF InOnePlace, BeingRead
    <2>2. CASE ~(pending'[d] = pending[d] /\ request'[d] = request[d])
      <3>1. d = c /\ pending[c] = NoCall /\ pending'[c] = call
            /\ request'[c] = Append(request[c], call)
        <4>1. Sent
          BY <2>2, <1>0
        <4>2. d = c
          BY <2>2, <4>1 DEF TypeOK
        <4> QED
          BY <4>1, <4>2 DEF TypeOK
      <3>2. request[c] = <<>> /\ request'[c] = <<call>>
        <4>1. request[c] = <<>>
          BY <3>1 DEF InOnePlace
        <4> QED
          BY <3>1, <4>1, AppendToNone
      <3>3. /\ NoReplyIn(wire[c]) /\ NoReplyIn(inbuf[c]) /\ ~BeingRead(c)
            /\ RepliesOnce(wire[c], c, call) /\ RepliesOnce(inbuf[c], c, call)
        BY <3>1, <1>4, <1>1, AnyCall DEF InOnePlace
      <3> QED
        BY <3>1, <3>2, <3>3, <1>1 DEF InOnePlace, BeingRead
    <2> QED
      BY <2>1, <2>2
  <1> QED
    BY <1>3, <1>4, <1>5

\* What is refused at once is answered by nothing.
LEMMA AppendRejected ==
    ASSUME NEW c \in Channels, NEW call,
           NEW s, s = answers[c], s \in Seq([call : Call, by : Call \cup {NoCall}]),
           answers'[c] = Append(s, Rejected(call)),
           Rejected(call) \in [call : Call, by : Call \cup {NoCall}]
    PROVE  SawIncomplete(c)'
  <1>1. /\ Len(s) \in Nat /\ Len(s) + 1 \in DOMAIN answers'[c]
        /\ answers'[c][Len(s) + 1] = Rejected(call)
    OBVIOUS
  <1> QED
    BY <1>1 DEF SawIncomplete, Rejected

\* The indices of a list that grows.
LEMMA AppendPlaces ==
    ASSUME NEW S, NEW s \in Seq(S), NEW e \in S
    PROVE  /\ Len(s) \in Nat /\ DOMAIN s = 1 .. Len(s)
           /\ DOMAIN Append(s, e) = 1 .. Len(s) + 1
           /\ Append(s, e)[Len(s) + 1] = e
           /\ \A i \in 1 .. Len(s) : Append(s, e)[i] = s[i]
  BY AppendProperties, LenProperties

\* An answer that is added keeps the answers matched.
LEMMA AnswersGrow ==
    ASSUME TypeOK, \A d \in Channels : Matched(d), NEW c \in Channels,
           NEW a \in [call : Call, by : Call \cup {NoCall}],
           answers' = [answers EXCEPT ![c] = Append(@, a)],
           a.by \in {a.call, NoCall},
           ~SawIncomplete(c) /\ a.by # NoCall => a.call.id = Len(answers[c]) + 1
    PROVE  (\A d \in Channels : Matched(d))'
  <1> SUFFICES ASSUME NEW d \in Channels
               PROVE  /\ \A i \in DOMAIN answers'[d] :
                            answers'[d][i].by \in {answers'[d][i].call, NoCall}
                      /\ ~SawIncomplete(d)' =>
                            \A i \in DOMAIN answers'[d] : answers'[d][i].call.id = i
    BY DEF Matched
  <1>1. CASE d # c
    BY <1>1 DEF Matched, SawIncomplete, TypeOK
  <1>2. CASE d = c
    <2>1. /\ Len(answers[c]) \in Nat
          /\ DOMAIN answers[c] = 1 .. Len(answers[c])
          /\ DOMAIN answers'[c] = 1 .. Len(answers[c]) + 1
          /\ answers'[c][Len(answers[c]) + 1] = a
          /\ \A i \in 1 .. Len(answers[c]) : answers'[c][i] = answers[c][i]
      <3>1. answers[c] \in Seq([call : Call, by : Call \cup {NoCall}])
        BY DEF TypeOK
      <3>2. answers'[c] = Append(answers[c], a)
        BY DEF TypeOK
      <3> QED
        BY <3>1, <3>2, AppendPlaces
    <2>2. \A i \in DOMAIN answers'[c] : i \in DOMAIN answers[c] \/ i = Len(answers[c]) + 1
      BY <2>1
    <2>3. \A i \in DOMAIN answers'[c] : answers'[c][i].by \in {answers'[c][i].call, NoCall}
      BY <2>1, <2>2 DEF Matched
    <2>4. ASSUME ~SawIncomplete(c)'
          PROVE  ~SawIncomplete(c) /\ a.by # NoCall
      BY <2>1, <2>4 DEF SawIncomplete
    <2>5. ~SawIncomplete(c)' => \A i \in DOMAIN answers'[c] : answers'[c][i].call.id = i
      BY <2>1, <2>2, <2>4 DEF Matched
    <2> QED
      BY <2>3, <2>5, <1>2
  <1> QED
    BY <1>1, <1>2

\* A channel whose calls did not change keeps their numbers.
LEMMA SameCalls ==
    ASSUME NEW c \in Channels, InSequence(c), link'[c] = link[c], pending'[c] = pending[c],
           queue'[c] = queue[c], answers'[c] = answers[c], issued'[c] = issued[c],
           Answered(c)' = Answered(c)
    PROVE  InSequence(c)'
  BY DEF InSequence, SawIncomplete

\* Nor does what a channel has on its way change by another's steps.
LEMMA SamePlace ==
    ASSUME NEW c \in Channels, InOnePlace(c), pending'[c] = pending[c], request'[c] = request[c],
           wire'[c] = wire[c], inbuf'[c] = inbuf[c], BeingRead(c)' = BeingRead(c)
    PROVE  InOnePlace(c)'
  BY DEF InOnePlace

\* PortGroup asks for the version check on a new connection.
LEMMA ConnectedInv ==
    ASSUME CallsInv, NEW c \in Channels, Connected(c)
    PROVE  CallsInv'
  <1> USE DEF CallsInv
  <1> DEFINE check == [id |-> 1, kind |-> "version", conn |-> conn[c] + 1]
  <1>1. check \in Call /\ check # NoCall /\ check.kind # "incomplete" /\ check.id = 1
    BY DEF TypeOK, Call, NoCall
  <1>2. pending[c] = NoCall /\ queue[c] = <<>> /\ answers[c] = <<>> /\ ~link[c]
    BY DEF Connected, InSequence
  <1>3. /\ CallMethod(c, check)
        /\ inbuf' = inbuf /\ wire' = wire /\ parsing' = parsing /\ hdr' = hdr
    BY DEF Connected, parser
  <1> HIDE DEF check
  <1>4. /\ pending' \in [Channels -> Call \cup {NoCall}]
        /\ queue' \in [Channels -> Seq(Call)] /\ request' \in [Channels -> Seq(Call)]
        /\ answers' \in [Channels -> Seq([call : Call, by : Call \cup {NoCall}])]
        /\ \A d \in Channels : pending'[d] # pending[d] => ~BeingRead(d)
        /\ \A d \in Channels : InOnePlace(d)'
    BY <1>1, <1>3, CallMethodInv
  <1>5. pending' = [pending EXCEPT ![c] = check] /\ queue' = queue /\ answers' = answers
    BY <1>1, <1>2, <1>3, CallMethodCases
  <1>6. TypeOK'
    <2>1. link' \in [Channels -> BOOLEAN] /\ conn' \in [Channels -> Nat]
          /\ issued' \in [Channels -> Nat]
      BY DEF TypeOK, Connected
    <2> QED
      BY <1>4, <2>1 DEF TypeOK, Connected, parser, handler
  <1>7. ParserOK'
    <2>1. hpc = "idle" /\ hpc' = "idle" /\ got' = got /\ parsing' = parsing /\ hdr' = hdr
      BY DEF Connected, parser, handler
    <2>2. parsing /\ hdr.type # "notify" => pending'[hdr.chan] = pending[hdr.chan]
      BY <1>4 DEF BeingRead, TypeOK, MessageType
    <2> QED
      BY <2>1, <2>2 DEF ParserOK
  <1>8. (\A d \in Channels : Matched(d))'
    BY <1>5 DEF Matched, SawIncomplete
  <1>9. ASSUME NEW d \in Channels
        PROVE  InSequence(d)'
    <2>1. CASE d # c
      BY <2>1, <1>5, SameCalls DEF Connected, TypeOK, Answered, handler
    <2>2. CASE d = c
      <3>1. /\ link'[c] /\ pending'[c] = check /\ issued'[c] = 1 /\ ~Answered(c)'
            /\ queue'[c] = <<>> /\ answers'[c] = <<>>
        BY <1>2, <1>5 DEF Connected, TypeOK, Answered, handler
      <3> QED
        BY <3>1, <2>2, <1>1 DEF InSequence
    <2> QED
      BY <2>1, <2>2
  <1> QED
    BY <1>4, <1>6, <1>7, <1>8, <1>9

\* The number of a call that is made while others wait.
LEMMA NextNumber ==
    ASSUME NEW first \in Nat, NEW behind \in Nat, NEW last, last = first + behind
    PROVE  last + 1 = first + (behind + 1)
  OBVIOUS

\* A call is made: it is queued, refused or sent.
LEMMA IssueInv ==
    ASSUME CallsInv, NEW c \in Channels, NEW k \in Kinds, Issue(c, k)
    PROVE  CallsInv'
  <1> USE DEF CallsInv
  <1> DEFINE call == [id |-> issued[c] + 1, kind |-> k, conn |-> conn[c]]
  <1>1. call \in Call /\ call # NoCall /\ call.id = issued[c] + 1 /\ issued[c] \in Nat
    BY DEF TypeOK, Call, NoCall
  <1>2. /\ CallMethod(c, call) /\ link[c] /\ issued' = [issued EXCEPT ![c] = @ + 1]
        /\ UNCHANGED <<link, conn, inbuf, parsing, hdr, got, hpc, hch, wire>>
    BY DEF Issue, parser, handler
  <1> HIDE DEF call
  <1>3. /\ pending' \in [Channels -> Call \cup {NoCall}]
        /\ queue' \in [Channels -> Seq(Call)] /\ request' \in [Channels -> Seq(Call)]
        /\ answers' \in [Channels -> Seq([call : Call, by : Call \cup {NoCall}])]
        /\ \A d \in Channels : pending'[d] # pending[d] => ~BeingRead(d)
        /\ \A d \in Channels : InOnePlace(d)'
    BY <1>1, <1>2, CallMethodInv
  <1>4. TypeOK'
    <2>1. issued' \in [Channels -> Nat]
      <3>1. issued \in [Channels -> Nat] /\ issued[c] + 1 \in Nat
        BY <1>1 DEF TypeOK
      <3> QED
        BY <3>1, <1>2
    <2> QED
      BY <1>2, <1>3, <2>1 DEF TypeOK
  <1>5. ParserOK'
    <2>1. parsing /\ hdr.type # "notify" => pending'[hdr.chan] = pending[hdr.chan]
      BY <1>3 DEF BeingRead, TypeOK, MessageType
    <2> QED
      BY <1>2, <2>1 DEF ParserOK
  <1>6. ~Answered(c) \/ pending[c] # NoCall
    BY DEF ParserOK, Answered
  <1>7. (\A d \in Channels : Matched(d))' /\ \A d \in Channels : InSequence(d)'
    <2>1. ASSUME NEW d \in Channels, d # c
          PROVE  /\ pending'[d] = pending[d] /\ queue'[d] = queue[d]
                 /\ answers'[d] = answers[d] /\ issued'[d] = issued[d]
      <3>1. /\ \/ pending' = pending \/ pending' = [pending EXCEPT ![c] = call]
            /\ \/ queue' = queue \/ queue' = [queue EXCEPT ![c] = Append(@, call)]
            /\ \/ answers' = answers
               \/ answers' = [answers EXCEPT ![c] = Append(@, Rejected(call))]
        BY <1>2, CallMethodCases
      <3>2. pending'[d] = pending[d] /\ issued'[d] = issued[d]
        BY <2>1, <3>1, <1>2 DEF TypeOK
      <3>3. queue'[d] = queue[d]
        BY <2>1, <3>1 DEF TypeOK
      <3>4. answers'[d] = answers[d]
        BY <2>1, <3>1 DEF TypeOK
      <3> QED
        BY <3>2, <3>3, <3>4
    <2>2. \A d \in Channels : d # c => InSequence(d)'
      BY <1>2, <2>1, SameCalls DEF Answered
    <2>3. CASE /\ pending[c] # NoCall
               /\ queue' = [queue EXCEPT ![c] = Append(@, call)]
               /\ UNCHANGED <<pending, answers, request>>
      <3>1. (\A d \in Channels : Matched(d))'
        BY <2>3 DEF Matched, SawIncomplete
      <3>2. /\ queue'[c] = Append(queue[c], call) /\ queue[c] \in Seq(Call)
            /\ issued'[c] = issued[c] + 1
        BY <1>2, <2>3 DEF TypeOK
      <3>3. InSequence(c)'
        <4>1. CASE SawIncomplete(c)
          BY <4>1, <2>3, <1>2 DEF InSequence, SawIncomplete
        <4>2. CASE ~SawIncomplete(c)
          <5>1. /\ pending[c].id = IF Answered(c) THEN Len(answers[c]) ELSE Len(answers[c]) + 1
                /\ \A i \in 1 .. Len(queue[c]) : queue[c][i].id = pending[c].id + i
                /\ issued[c] = pending[c].id + Len(queue[c])
            BY <4>2, <2>3 DEF InSequence
          <5>2. Len(queue[c]) \in Nat /\ Len(queue'[c]) = Len(queue[c]) + 1
            BY <3>2
          <5>3. \A i \in 1 .. Len(queue[c]) : queue'[c][i] = queue[c][i]
            BY <3>2
          <5>4. queue'[c][Len(queue[c]) + 1] = call
            BY <3>2
          <5>5. pending[c].id \in Nat
            BY <2>3 DEF TypeOK, Call
          <5>6. \A i \in 1 .. Len(queue'[c]) : queue'[c][i].id = pending[c].id + i
            <6>1. \A i \in 1 .. Len(queue'[c]) : i \in 1 .. Len(queue[c]) \/ i = Len(queue[c]) + 1
              BY <5>2
            <6>2. call.id = pending[c].id + (Len(queue[c]) + 1)
              BY <5>1, <5>2, <5>5, <1>1, NextNumber
            <6>3. ASSUME NEW i \in 1 .. Len(queue'[c])
                  PROVE  queue'[c][i].id = pending[c].id + i
              <7>1. CASE i \in 1 .. Len(queue[c])
                BY <7>1, <5>1, <5>3
              <7>2. CASE i = Len(queue[c]) + 1
                BY <7>2, <5>4, <6>2
              <7> QED
                BY <6>1, <7>1, <7>2
            <6> QED
              BY <6>3
          <5>7. issued'[c] = pending[c].id + Len(queue'[c])
            <6>1. issued[c] + 1 = pending[c].id + (Len(queue[c]) + 1)
              BY <5>1, <5>2, <5>5, <1>1, NextNumber
            <6> QED
              BY <6>1, <5>2, <3>2
          <5>8. /\ Answered(c)' = Answered(c) /\ pending'[c] = pending[c]
                /\ answers'[c] = answers[c] /\ link'[c]
            BY <2>3, <1>2 DEF Answered
          <5>9. /\ pending'[c] # NoCall
                /\ pending'[c].id = IF Answered(c)' THEN Len(answers'[c]) ELSE Len(answers'[c]) + 1
            BY <5>1, <5>8, <2>3
          <5> QED
            BY <5>6, <5>7, <5>8, <5>9 DEF InSequence
        <4> QED
          BY <4>1, <4>2
      <3> QED
        BY <3>1, <3>3, <2>2
    <2>4. CASE /\ pending[c] = NoCall /\ call.kind = "incomplete"
               /\ answers' = [answers EXCEPT ![c] = Append(@, Rejected(call))]
               /\ UNCHANGED <<pending, queue, request>>
      <3>1. /\ Rejected(call) \in [call : Call, by : Call \cup {NoCall}]
            /\ Rejected(call).by = NoCall
        BY <1>1 DEF Rejected
      <3>2. (\A d \in Channels : Matched(d))'
        BY <3>1, <2>4, AnswersGrow
      <3>3. /\ answers[c] \in Seq([call : Call, by : Call \cup {NoCall}])
            /\ answers'[c] = Append(answers[c], Rejected(call))
        BY <2>4 DEF TypeOK
      <3>4. SawIncomplete(c)'
        BY <3>1, <3>3, AppendRejected
      <3>5. InSequence(c)'
        BY <3>4, <1>2 DEF InSequence
      <3> QED
        BY <3>2, <3>5, <2>2
    <2>5. CASE /\ pending[c] = NoCall /\ call.kind # "incomplete"
               /\ pending' = [pending EXCEPT ![c] = call]
               /\ request' = [request EXCEPT ![c] = Append(@, call)]
               /\ UNCHANGED <<queue, answers>>
      <3>1. (\A d \in Channels : Matched(d))'
        BY <2>5 DEF Matched, SawIncomplete
      <3>2. pending'[c] = call /\ issued'[c] = issued[c] + 1
            /\ queue'[c] = queue[c] /\ answers'[c] = answers[c]
        BY <1>2, <2>5 DEF TypeOK
      <3>3. InSequence(c)'
        <4>1. CASE SawIncomplete(c)
          BY <4>1, <3>2, <1>2 DEF InSequence, SawIncomplete
        <4>2. CASE ~SawIncomplete(c)
          <5>1. queue[c] = <<>> /\ issued[c] = Len(answers[c]) /\ ~Answered(c)
            BY <4>2, <2>5, <1>2, <1>6 DEF InSequence
          <5> QED
            <6>1. pending'[c].id = Len(answers'[c]) + 1 /\ issued'[c] = pending'[c].id
              BY <5>1, <3>2, <1>1
            <6>2. Len(queue'[c]) = 0 /\ issued'[c] \in Nat
              BY <5>1, <3>2, <1>1
            <6>3. ~Answered(c)' /\ link'[c] /\ pending'[c] # NoCall
              BY <5>1, <3>2, <1>1, <1>2 DEF Answered
            <6> QED
              BY <6>1, <6>2, <6>3 DEF InSequence
        <4> QED
          BY <4>1, <4>2
      <3> QED
        BY <3>1, <3>3, <2>2
    <2> QED
      BY <1>2, <2>3, <2>4, <2>5, CallMethodCases
  <1> QED
    BY <1>3, <1>4, <1>5, <1>7

\* The connection is lost: its calls are dropped, and nothing of it is half read.
LEMMA DisconnectedInv ==
    ASSUME CallsInv, ~torn', NEW c \in Channels, Disconnected(c)
    PROVE  CallsInv'
  <1> USE DEF CallsInv
  <1>1. /\ hpc = "idle" /\ ~BeingRead(c)
        /\ UNCHANGED <<conn, issued, parsing, hdr, got, hpc, hch>>
        /\ pending' = [pending EXCEPT ![c] = NoCall] /\ queue' = [queue EXCEPT ![c] = <<>>]
        /\ link' = [link EXCEPT ![c] = FALSE] /\ answers' = [answers EXCEPT ![c] = <<>>]
        /\ inbuf' = [inbuf EXCEPT ![c] = <<>>] /\ request' = [request EXCEPT ![c] = <<>>]
        /\ wire' = [wire EXCEPT ![c] = <<>>]
    BY DEF Disconnected, DropCalls, parser, handler, BeingRead
  <1>2. TypeOK'
    <2>1. /\ link' \in [Channels -> BOOLEAN]
          /\ pending' \in [Channels -> Call \cup {NoCall}]
      BY <1>1 DEF TypeOK
    <2>2. queue' \in [Channels -> Seq(Call)] /\ request' \in [Channels -> Seq(Call)]
      BY <1>1 DEF TypeOK
    <2>3. inbuf' \in [Channels -> Seq(Unit)] /\ wire' \in [Channels -> Seq(Unit)]
      BY <1>1 DEF TypeOK
    <2>4. answers' \in [Channels -> Seq([call : Call, by : Call \cup {NoCall}])]
      <3>1. answers \in [Channels -> Seq([call : Call, by : Call \cup {NoCall}])]
        BY DEF TypeOK
      <3> QED
        BY <1>1, <3>1, EmptyTyped
    <2> QED
      BY <1>1, <2>1, <2>2, <2>3, <2>4 DEF TypeOK
  <1>3. ParserOK'
    <2>1. parsing /\ hdr.type # "notify" => hdr.chan # c
      BY <1>1 DEF BeingRead
    <2> QED
      BY <1>1, <2>1 DEF ParserOK, TypeOK, MessageType
  <1>4. (\A d \in Channels : Matched(d))'
    <2>1. \A d \in Channels : answers'[d] = answers[d] \/ answers'[d] = <<>>
      BY <1>1 DEF TypeOK
    <2> QED
      BY <2>1 DEF Matched, SawIncomplete
  <1>5. ASSUME NEW d \in Channels
        PROVE  InOnePlace(d)' /\ InSequence(d)'
    <2>1. CASE d # c
      BY <2>1, <1>1, SameCalls, SamePlace DEF TypeOK, Answered, BeingRead
    <2>2. CASE d = c
      <3>1. /\ pending'[c] = NoCall /\ queue'[c] = <<>> /\ answers'[c] = <<>> /\ ~link'[c]
            /\ request'[c] = <<>> /\ wire'[c] = <<>> /\ inbuf'[c] = <<>>
        BY <1>1 DEF TypeOK
      <3> QED
        BY <3>1, <2>2, NothingThere DEF InOnePlace, InSequence
    <2> QED
      BY <2>1, <2>2
  <1> QED
    BY <1>2, <1>3, <1>4, <1>5

\* Steps that concern no call: bytes come and go, the server writes.
LEMMA SameClient ==
    ASSUME CallsInv, UNCHANGED client, hpc # "callback", hpc' # "callback"
    PROVE  (\A d \in Channels : Matched(d))' /\ \A c \in Channels : InSequence(c)'
  <1> USE DEF CallsInv
  <1>1. (\A d \in Channels : Matched(d))'
    BY DEF Matched, SawIncomplete, client
  <1>2. \A c \in Channels : InSequence(c)'
    BY SameCalls DEF Answered, client
  <1> QED
    BY <1>1, <1>2

\* A segment arrives; it may hold the start of the reply.
LEMMA DeliverInv ==
    ASSUME CallsInv, ~torn', NEW c \in Channels, Deliver(c)
    PROVE  CallsInv'
  <1> USE DEF CallsInv
  <1>1. PICK n \in 1 .. Len(wire[c]) :
           /\ inbuf' = [inbuf EXCEPT ![c] = @ \o SubSeq(wire[c], 1, n)]
           /\ wire' = [wire EXCEPT ![c] = SubSeq(@, n + 1, Len(@))]
    BY DEF Deliver
  <1>2. /\ hpc = "idle" /\ hpc' = "top" /\ hch' = c /\ link[c] /\ (parsing => hdr.chan = c)
        /\ UNCHANGED <<client, parsing, hdr, got, request>>
    BY DEF Deliver, parser
  <1> DEFINE front == SubSeq(wire[c], 1, n)
             rest == SubSeq(wire[c], n + 1, Len(wire[c]))
  <1>3. wire[c] \in Seq(Unit) /\ inbuf[c] \in Seq(Unit) /\ n \in 0 .. Len(wire[c])
    BY DEF TypeOK
  <1>4. front \in Seq(Unit) /\ rest \in Seq(Unit) /\ inbuf[c] \o front \in Seq(Unit)
    BY <1>3, Parts, ConcatProperties
  <1>5. /\ RepliesOnce(front, c, pending[c]) /\ RepliesOnce(rest, c, pending[c])
        /\ NoReplyIn(front) \/ NoReplyIn(rest)
        /\ NoReplyIn(wire[c]) => NoReplyIn(front) /\ NoReplyIn(rest)
    BY <1>3, CutReplies DEF InOnePlace
  <1>6. /\ RepliesOnce(inbuf[c] \o front, c, pending[c])
        /\ NoReplyIn(inbuf[c]) /\ NoReplyIn(front) => NoReplyIn(inbuf[c] \o front)
    <2>1. RepliesOnce(inbuf[c], c, pending[c]) /\ (NoReplyIn(inbuf[c]) \/ NoReplyIn(front))
      BY <1>5 DEF InOnePlace
    <2> QED
      BY <1>3, <1>4, <1>5, <2>1, JoinReplies
  <1>7. inbuf' = [inbuf EXCEPT ![c] = inbuf[c] \o front] /\ wire' = [wire EXCEPT ![c] = rest]
    BY <1>1 DEF TypeOK
  <1> HIDE DEF front, rest
  <1>8. TypeOK'
    <2>1. inbuf' \in [Channels -> Seq(Unit)] /\ wire' \in [Channels -> Seq(Unit)]
      BY <1>4, <1>7 DEF TypeOK
    <2> QED
      BY <1>2, <2>1 DEF TypeOK, client
  <1>9. ParserOK'
    BY <1>2 DEF ParserOK, client
  <1>10. (\A d \in Channels : Matched(d))' /\ \A d \in Channels : InSequence(d)'
    BY <1>2, SameClient
  <1>11. ASSUME NEW d \in Channels
         PROVE  InOnePlace(d)'
    <2>1. CASE d # c
      BY <2>1, <1>2, <1>7, SamePlace DEF TypeOK, BeingRead, client
    <2>2. CASE d = c
      <3>1. inbuf'[c] = inbuf[c] \o front /\ wire'[c] = rest
        BY <1>7 DEF TypeOK
      <3>2. NoReplyIn(wire[c]) /\ NoReplyIn(inbuf[c]) => NoReplyIn(wire'[c]) /\ NoReplyIn(inbuf'[c])
        BY <3>1, <1>5, <1>6
      <3>3. NoReplyIn(wire'[c]) \/ NoReplyIn(inbuf'[c])
        BY <3>1, <1>5, <1>6 DEF InOnePlace
      <3>4. pending'[c] = pending[c] /\ request'[c] = request[c] /\ BeingRead(c)' = BeingRead(c)
        BY <1>2 DEF BeingRead, client
      <3> QED
        BY <2>2, <3>1, <3>2, <3>3, <3>4, <1>5, <1>6 DEF InOnePlace
    <2> QED
      BY <2>1, <2>2
  <1> QED
    BY <1>8, <1>9, <1>10, <1>11

\* A header is read: if it is a reply's, there is no other.
LEMMA ReadHeaderInv ==
    ASSUME CallsInv, ReadHeader
    PROVE  CallsInv'
  <1> USE DEF CallsInv
  <1>1. /\ hpc = "top" /\ ~parsing /\ hpc' # "callback" /\ hpc' # "idle" /\ hch' = hch
        /\ hpc' \in {"top", "exit"} /\ hch \in Channels
        /\ UNCHANGED <<client, request, wire>> /\ got' = got /\ got = 0
    BY DEF ReadHeader, ParserOK, TypeOK
  <1>2. (\A d \in Channels : Matched(d))' /\ \A d \in Channels : InSequence(d)'
    BY <1>1, SameClient
  <1>3. CASE Len(inbuf[hch]) < 2
    <2>1. UNCHANGED <<inbuf, parsing, hdr, got>>
      BY <1>3 DEF ReadHeader
    <2>2. TypeOK' /\ ParserOK'
      BY <1>1, <2>1 DEF TypeOK, ParserOK, client
    <2>3. \A d \in Channels : InOnePlace(d)'
      BY <1>1, <2>1, SamePlace DEF BeingRead, client
    <2> QED
      BY <1>2, <2>2, <2>3
  <1>4. CASE Len(inbuf[hch]) >= 2
    <2> DEFINE first == Head(inbuf[hch])
               rest == SubSeq(inbuf[hch], 3, Len(inbuf[hch]))
    <2>1. /\ first.part = 1 /\ hdr' = first.msg /\ parsing' = TRUE
          /\ inbuf' = [inbuf EXCEPT ![hch] = rest] /\ hpc' = hpc
      <3>1. ~(Len(inbuf[hch]) < 2)
        BY <1>4 DEF TypeOK
      <3> QED
        BY <3>1 DEF ReadHeader, TypeOK
    <2>2. inbuf[hch] \in Seq(Unit) /\ RepliesOnce(inbuf[hch], hch, pending[hch])
      BY <1>1 DEF TypeOK, InOnePlace
    <2>3. /\ rest \in Seq(Unit) /\ RepliesOnce(rest, hch, pending[hch])
          /\ NoReplyIn(inbuf[hch]) => NoReplyIn(rest)
          /\ BeginsReply(first) => NoReplyIn(rest)
      <3>1. 2 \in Nat /\ 2 + 1 = 3
        OBVIOUS
      <3>2. /\ SubSeq(inbuf[hch], 2 + 1, Len(inbuf[hch])) \in Seq(Unit)
            /\ RepliesOnce(SubSeq(inbuf[hch], 2 + 1, Len(inbuf[hch])), hch, pending[hch])
            /\ NoReplyIn(inbuf[hch]) => NoReplyIn(SubSeq(inbuf[hch], 2 + 1, Len(inbuf[hch])))
        BY <2>2, <3>1, RestReplies, Zenon
      <3>3. BeginsReply(first) => NoReplyIn(rest)
        BY <1>4, <2>2, HeaderConsumed
      <3> QED
        BY <3>1, <3>2, <3>3
    <2>4. /\ first = inbuf[hch][1] /\ 1 \in 1 .. Len(inbuf[hch]) /\ first \in Unit
      BY <1>4, <2>2
    <2>5. /\ first.msg \in MessageType /\ first.msg.chan = hch
          /\ first.msg.type # "notify" => BeginsReply(first) /\ first.msg.call = pending[hch]
      BY <2>1, <2>2, <2>4 DEF RepliesOnce, BeginsReply, Unit
    <2>6. BeginsReply(first) =>
             /\ ~NoReplyIn(inbuf[hch]) /\ pending[hch] # NoCall /\ request[hch] = <<>>
             /\ NoReplyIn(wire[hch])
      <3>1. BeginsReply(first) => ~NoReplyIn(inbuf[hch])
        BY <2>4 DEF NoReplyIn
      <3> QED
        BY <3>1, <1>1 DEF InOnePlace
    <2> HIDE DEF first, rest
    <2>7. TypeOK'
      <3>1. inbuf' \in [Channels -> Seq(Unit)]
        BY <2>1, <2>3 DEF TypeOK
      <3> QED
        BY <3>1, <1>1, <2>1, <2>5 DEF TypeOK, client
    <2>8. ParserOK'
      <3>1. link'[hch'] /\ hdr'.chan = hch'
        BY <1>1, <2>1, <2>5 DEF ParserOK, client
      <3>2. hdr'.type # "notify" => pending'[hdr'.chan] # NoCall /\ hdr'.call = pending'[hdr'.chan]
        BY <1>1, <2>1, <2>5, <2>6 DEF client
      <3> QED
        BY <3>1, <3>2, <1>1, <2>1 DEF ParserOK
    <2>9. ASSUME NEW d \in Channels
          PROVE  InOnePlace(d)'
      <3>1. CASE d # hch
        <4>1. BeingRead(d)' = BeingRead(d)
          BY <3>1, <1>1, <2>1, <2>5 DEF BeingRead
        <4> QED
          BY <3>1, <4>1, <1>1, <2>1, SamePlace DEF TypeOK, client
      <3>2. CASE d = hch
        <4>1. /\ inbuf'[hch] = rest /\ wire'[hch] = wire[hch] /\ request'[hch] = request[hch]
              /\ pending'[hch] = pending[hch]
          BY <1>1, <2>1 DEF TypeOK, client
        <4>2. BeingRead(hch)' => BeginsReply(first)
          BY <2>1, <2>5 DEF BeingRead
        <4>3. ~BeingRead(hch)
          BY <1>1 DEF BeingRead
        <4>4. CASE BeginsReply(first)
          <5>1. request'[hch] = <<>> /\ NoReplyIn(wire'[hch]) /\ NoReplyIn(inbuf'[hch])
            BY <4>1, <4>4, <2>3, <2>6
          <5>2. /\ RepliesOnce(wire'[hch], hch, pending'[hch])
                /\ RepliesOnce(inbuf'[hch], hch, pending'[hch])
            BY <4>1, <2>3, <1>1 DEF InOnePlace
          <5> QED
            BY <3>2, <5>1, <5>2 DEF InOnePlace
        <4>5. CASE ~BeginsReply(first)
          <5>1. ~BeingRead(hch)' /\ (NoReplyIn(inbuf[hch]) => NoReplyIn(inbuf'[hch]))
            BY <4>1, <4>2, <4>5, <2>3
          <5>2. /\ RepliesOnce(wire'[hch], hch, pending'[hch])
                /\ RepliesOnce(inbuf'[hch], hch, pending'[hch])
            BY <4>1, <2>3, <1>1 DEF InOnePlace
          <5>3. /\ NoReplyIn(wire'[hch]) \/ NoReplyIn(inbuf'[hch])
                /\ pending'[hch] = NoCall => NoReplyIn(wire'[hch]) /\ NoReplyIn(inbuf'[hch])
            BY <4>1, <5>1, <1>1 DEF InOnePlace
          <5>4. request'[hch] # <<>> =>
                  /\ request'[hch] = <<pending'[hch]>> /\ pending'[hch] # NoCall
                  /\ NoReplyIn(wire'[hch]) /\ NoReplyIn(inbuf'[hch])
            BY <4>1, <5>1, <1>1 DEF InOnePlace
          <5> QED
            BY <1>1, <3>2, <5>1, <5>2, <5>3, <5>4 DEF InOnePlace
        <4> QED
          BY <4>4, <4>5
      <3> QED
        BY <3>1, <3>2
    <2> QED
      BY <1>2, <2>7, <2>8, <2>9
  <1>5. Len(inbuf[hch]) \in Nat
    <2>1. inbuf[hch] \in Seq(Unit)
      BY <1>1 DEF TypeOK
    <2> QED
      BY <2>1
  <1> QED
    BY <1>3, <1>4, <1>5

\* Body units are consumed; the header they belong to was read before.
LEMMA BodyConsumed ==
    ASSUME CallsInv, NEW n \in Nat, parsing, hpc # "idle",
           inbuf' = [inbuf EXCEPT ![hch] = SubSeq(@, n + 1, Len(@))],
           UNCHANGED <<pending, request, wire, hdr>>,
           hdr.type # "notify" => parsing'
    PROVE  inbuf' \in [Channels -> Seq(Unit)] /\ \A c \in Channels : InOnePlace(c)'
  <1> USE DEF CallsInv
  <1> DEFINE rest == SubSeq(inbuf[hch], n + 1, Len(inbuf[hch]))
  <1>1. hch \in Channels /\ inbuf[hch] \in Seq(Unit) /\ RepliesOnce(inbuf[hch], hch, pending[hch])
    BY DEF TypeOK, InOnePlace
  <1>2. /\ rest \in Seq(Unit) /\ RepliesOnce(rest, hch, pending[hch])
        /\ NoReplyIn(inbuf[hch]) => NoReplyIn(rest)
    BY <1>1, RestReplies
  <1>3. inbuf' = [inbuf EXCEPT ![hch] = rest]
    BY <1>1 DEF TypeOK
  <1> HIDE DEF rest
  <1>4. \A c \in Channels : BeingRead(c)' = BeingRead(c)
    <2>1. hdr.type # "notify" \/ hdr.type = "notify"
      OBVIOUS
    <2> QED
      BY <2>1 DEF BeingRead, TypeOK
  <1>5. ASSUME NEW c \in Channels
        PROVE  InOnePlace(c)'
    <2>1. CASE c # hch
      BY <2>1, <1>3, <1>4, SamePlace DEF TypeOK
    <2>2. CASE c = hch
      <3>1. inbuf'[hch] = rest
        BY <1>1, <1>3 DEF TypeOK
      <3> QED
        BY <2>2, <3>1, <1>1, <1>2, <1>4 DEF InOnePlace
    <2> QED
      BY <2>1, <2>2
  <1>6. inbuf' \in [Channels -> Seq(Unit)]
    BY <1>1, <1>2, <1>3 DEF TypeOK
  <1> QED
    BY <1>5, <1>6

\* The reply is read, and is found to be the one that is waited for.
LEMMA ReadReplyInv ==
    ASSUME CallsInv, ReadReply
    PROVE  CallsInv'
  <1> USE DEF CallsInv
  <1> DEFINE avail == Len(inbuf[hch])
             need == hdr.len - got
             n == IF avail < need THEN avail ELSE need
  <1>1. /\ hpc = "top" /\ parsing /\ hdr.type # "notify" /\ hch \in Channels /\ link[hch]
        /\ hdr.chan = hch /\ pending[hch] # NoCall /\ hdr.call = pending[hch] /\ Expected
    BY DEF ReadReply, ParserOK, Expected, TypeOK
  <1>2. avail \in Nat /\ need \in Nat /\ n \in Nat /\ got \in Nat /\ hdr.len \in Nat
        /\ (n # need => n < need)
    <2>1. inbuf[hch] \in Seq(Unit) /\ got \in Nat /\ hdr.len \in Nat
      BY <1>1 DEF TypeOK, MessageType
    <2>2. got <= hdr.len
      BY <2>1 DEF ParserOK
    <2> QED
      BY <2>1, <2>2
  <1>3. /\ inbuf' = [inbuf EXCEPT ![hch] = SubSeq(@, n + 1, Len(@))]
        /\ got' = BodyRead(n) /\ parsing' = TRUE
        /\ hpc' = IF n = need THEN "callback" ELSE "exit"
        /\ UNCHANGED <<link, conn, pending, queue, issued, hdr, hch, request, wire>>
    BY <1>1 DEF ReadReply
  <1>4. IF n = need
        THEN answers' = [answers EXCEPT ![hch] = Append(@, [call |-> pending[hch], by |-> hdr.call])]
        ELSE answers' = answers
    BY <1>1 DEF ReadReply
  <1>5. /\ n = need => got' = 0
        /\ n # need => got' \in Nat /\ got' < hdr.len
    <2>1. n = need => got' = 0
      BY <1>3 DEF BodyRead
    <2>2. n # need => got' = got + n
      BY <1>3 DEF BodyRead
    <2> QED
      BY <2>1, <2>2, <1>2
  <1> HIDE DEF avail, need, n
  <1>6. inbuf' \in [Channels -> Seq(Unit)] /\ \A d \in Channels : InOnePlace(d)'
    BY <1>1, <1>2, <1>3, BodyConsumed
  <1> DEFINE a == [call |-> pending[hch], by |-> hdr.call]
  <1>7. a \in [call : Call, by : Call \cup {NoCall}] /\ a.call = pending[hch] /\ a.by = a.call
    <2>1. pending[hch] \in Call
      BY <1>1 DEF TypeOK
    <2> QED
      BY <1>1, <2>1
  <1>8. ~SawIncomplete(hch) => a.call.id = Len(answers[hch]) + 1
    BY <1>1, <1>7 DEF InSequence, Answered
  <1> HIDE DEF a
  <1>9. TypeOK'
    <2>1. answers' \in [Channels -> Seq([call : Call, by : Call \cup {NoCall}])]
      <3>1. answers \in [Channels -> Seq([call : Call, by : Call \cup {NoCall}])]
        BY DEF TypeOK
      <3>2. CASE n = need
        <4>1. answers' = [answers EXCEPT ![hch] = Append(@, a)]
          BY <3>2, <1>4 DEF a
        <4>2. [answers EXCEPT ![hch] = Append(@, a)]
                 \in [Channels -> Seq([call : Call, by : Call \cup {NoCall}])]
          BY <3>1, <1>1, <1>7, AppendTyped, Zenon
        <4> QED
          BY <4>1, <4>2
      <3>3. CASE n # need
        BY <3>1, <3>3, <1>4
      <3> QED
        BY <3>2, <3>3
    <2>2. got' \in Nat /\ hpc' \in {"callback", "exit"} /\ parsing' \in BOOLEAN
      BY <1>3, <1>5
    <2> QED
      BY <1>3, <1>6, <2>1, <2>2 DEF TypeOK
  <1>10. ParserOK'
    BY <1>1, <1>3, <1>5 DEF ParserOK
  <1>11. (\A d \in Channels : Matched(d))'
    <2>1. CASE n = need
      BY <2>1, <1>1, <1>4, <1>7, <1>8, AnswersGrow DEF a
    <2>2. CASE n # need
      BY <2>2, <1>4 DEF Matched, SawIncomplete
    <2> QED
      BY <2>1, <2>2
  <1>12. ASSUME NEW d \in Channels
         PROVE  InSequence(d)'
    <2>1. CASE n # need \/ d # hch
      <3>1. answers'[d] = answers[d]
        BY <2>1, <1>4 DEF TypeOK
      <3>2. Answered(d)' = Answered(d)
        BY <2>1, <1>1, <1>3 DEF Answered
      <3> QED
        BY <3>1, <3>2, <1>3, SameCalls
    <2>2. CASE n = need /\ d = hch
      <3>1. /\ answers[hch] \in Seq([call : Call, by : Call \cup {NoCall}])
            /\ answers'[hch] = Append(answers[hch], a)
        BY <2>2, <1>1, <1>4 DEF TypeOK, a
      <3>2. Len(answers[hch]) \in Nat /\ Len(answers'[hch]) = Len(answers[hch]) + 1
        BY <3>1
      <3>3. ~SawIncomplete(hch)' => ~SawIncomplete(hch)
        <4>1. \A i \in DOMAIN answers[hch] :
                 i \in DOMAIN answers'[hch] /\ answers'[hch][i] = answers[hch][i]
          BY <3>1, <1>7, AppendKeeps
        <4> QED
          BY <4>1, <1>3 DEF SawIncomplete
      <3>4. Answered(hch)' /\ pending'[hch] = pending[hch] /\ pending[hch] # NoCall /\ link'[hch]
            /\ queue'[hch] = queue[hch] /\ issued'[hch] = issued[hch]
        BY <2>2, <1>1, <1>3 DEF Answered
      <3>5. ~SawIncomplete(hch)' =>
               /\ pending'[hch].id = Len(answers'[hch])
               /\ \A i \in 1 .. Len(queue'[hch]) : queue'[hch][i].id = pending'[hch].id + i
               /\ issued'[hch] = pending'[hch].id + Len(queue'[hch])
        <4>1. ~SawIncomplete(hch)' => pending'[hch].id = Len(answers'[hch])
          BY <3>2, <3>3, <3>4, <1>7, <1>8
        <4>2. ~SawIncomplete(hch)' =>
                 /\ \A i \in 1 .. Len(queue'[hch]) : queue'[hch][i].id = pending'[hch].id + i
                 /\ issued'[hch] = pending'[hch].id + Len(queue'[hch])
          <5>1. ~SawIncomplete(hch) =>
                   /\ \A i \in 1 .. Len(queue[hch]) : queue[hch][i].id = pending[hch].id + i
                   /\ issued[hch] = pending[hch].id + Len(queue[hch])
            BY <3>4, <1>1 DEF InSequence
          <5> QED
            BY <5>1, <3>3, <3>4
        <4> QED
          BY <4>1, <4>2
      <3> QED
        BY <2>2, <1>3, <3>4, <3>5 DEF InSequence
    <2> QED
      BY <2>1, <2>2
  <1> QED
    BY <1>6, <1>9, <1>10, <1>11, <1>12

\* A notification is read: it answers nobody.
LEMMA ReadNotifyInv ==
    ASSUME CallsInv, ReadNotify
    PROVE  CallsInv'
  <1> USE DEF CallsInv
  <1>1. /\ hpc = "top" /\ parsing /\ hdr.type = "notify" /\ got = 0 /\ hdr.len \in Nat
        /\ inbuf' = [inbuf EXCEPT ![hch] = SubSeq(@, hdr.len + 1, Len(@))]
        /\ parsing' = FALSE /\ hpc' = "exit" /\ hch' = hch /\ link[hch]
        /\ UNCHANGED <<client, hdr, got, request, wire>>
    BY DEF ReadNotify, ParserOK, TypeOK, MessageType
  <1>2. inbuf' \in [Channels -> Seq(Unit)] /\ \A c \in Channels : InOnePlace(c)'
    BY <1>1, BodyConsumed DEF client
  <1>3. (\A d \in Channels : Matched(d))' /\ \A c \in Channels : InSequence(c)'
    BY <1>1, SameClient
  <1>4. TypeOK'
    BY <1>1, <1>2 DEF TypeOK, client
  <1>5. ParserOK'
    BY <1>1 DEF ParserOK, client
  <1> QED
    BY <1>2, <1>3, <1>4, <1>5

\* What is left is read again, or less than a header of it forgotten.
LEMMA ExitInv ==
    ASSUME CallsInv, Exit
    PROVE  CallsInv'
  <1> USE DEF CallsInv
  <1>1. /\ hpc = "exit" /\ hpc' \in {"top", "idle"} /\ hch' = hch /\ hch \in Channels /\ link[hch]
        /\ inbuf' = inbuf \/ inbuf' = [inbuf EXCEPT ![hch] = <<>>]
        /\ UNCHANGED <<client, parsing, hdr, got, request, wire>>
    BY DEF Exit, parser, TypeOK, ParserOK
  <1>2. (\A d \in Channels : Matched(d))' /\ \A c \in Channels : InSequence(c)'
    BY <1>1, SameClient
  <1>3. TypeOK'
    <2>1. inbuf' \in [Channels -> Seq(Unit)]
      <3>1. inbuf \in [Channels -> Seq(Unit)]
        BY DEF TypeOK
      <3>2. [inbuf EXCEPT ![hch] = <<>>] \in [Channels -> Seq(Unit)]
        BY <1>1, <3>1, EmptyTyped
      <3> QED
        BY <1>1, <3>1, <3>2
    <2> QED
      BY <1>1, <2>1 DEF TypeOK, client
  <1>4. ParserOK'
    BY <1>1 DEF ParserOK, client
  <1>5. ASSUME NEW c \in Channels
        PROVE  InOnePlace(c)'
    <2>1. inbuf'[c] = inbuf[c] \/ inbuf'[c] = <<>>
      BY <1>1 DEF TypeOK
    <2>2. BeingRead(c)' = BeingRead(c)
      BY <1>1 DEF BeingRead
    <2>3. CASE inbuf'[c] = inbuf[c]
      BY <1>1, <2>2, <2>3, SamePlace DEF client
    <2>4. CASE inbuf'[c] = <<>>
      BY <1>1, <2>2, <2>4, NothingThere DEF InOnePlace, client
    <2> QED
      BY <2>1, <2>3, <2>4
  <1> QED
    BY <1>2, <1>3, <1>4, <1>5

\* The pending call is the first of those that waited.
LEMMA ShiftedNumbers ==
    ASSUME NEW m \in Nat, NEW i \in Nat
    PROVE  m + (i + 1) = (m + 1) + i /\ m + i = (m + 1) + (i - 1)
  OBVIOUS

\* The call is over and the next one is made: nothing of the old one is left behind.
LEMMA CallbackEndsInv ==
    ASSUME CallsInv, CallbackEnds
    PROVE  CallsInv'
  <1> USE DEF CallsInv
  <1>1. PICK c \in Channels : c = hch
    BY DEF TypeOK
  <1>2. /\ hpc = "callback" /\ BeingRead(c) /\ got = 0 /\ link[c] /\ pending[c] # NoCall
        /\ parsing' = FALSE /\ hpc' = "exit" /\ hch' = hch
        /\ UNCHANGED <<link, conn, issued, inbuf, hdr, got, wire>>
    BY <1>1 DEF CallbackEnds, ParserOK, BeingRead
  <1>3. /\ NoReplyIn(wire[c]) /\ NoReplyIn(inbuf[c]) /\ request[c] = <<>>
        /\ \A call : RepliesOnce(wire[c], c, call) /\ RepliesOnce(inbuf[c], c, call)
    BY <1>2, AnyCall DEF InOnePlace
  <1>4. ~SawIncomplete(c) =>
           /\ pending[c].id = Len(answers[c]) /\ issued[c] = pending[c].id + Len(queue[c])
           /\ \A i \in 1 .. Len(queue[c]) : queue[c][i].id = pending[c].id + i
    <2>1. Answered(c) /\ InSequence(c) /\ pending[c] # NoCall
      BY <1>1, <1>2 DEF Answered
    <2> QED
      BY <2>1 DEF InSequence
  <1>5. /\ queue[c] \in Seq(Call) /\ answers[c] \in Seq([call : Call, by : Call \cup {NoCall}])
        /\ Len(queue[c]) \in Nat /\ Len(answers[c]) \in Nat
    <2>1. queue[c] \in Seq(Call) /\ answers[c] \in Seq([call : Call, by : Call \cup {NoCall}])
      BY DEF TypeOK
    <2> QED
      BY <2>1, LenProperties
  <1>5a. Len(queue[c]) \in Nat /\ Len(answers[c]) \in Nat
    BY <1>5
  <1> DEFINE next == Head(queue[c])
             Idle == /\ queue[c] = <<>>
                     /\ pending' = [pending EXCEPT ![c] = NoCall]
                     /\ UNCHANGED <<queue, answers, request>>
             Refused == /\ queue[c] # <<>> /\ next.kind = "incomplete"
                        /\ queue' = [queue EXCEPT ![c] = Tail(@)]
                        /\ answers' = [answers EXCEPT ![c] = Append(@, Rejected(next))]
                        /\ pending' = [pending EXCEPT ![c] = NoCall]
                        /\ UNCHANGED request
             Sent == /\ queue[c] # <<>> /\ next.kind # "incomplete"
                     /\ queue' = [queue EXCEPT ![c] = Tail(@)]
                     /\ pending' = [pending EXCEPT ![c] = next]
                     /\ request' = [request EXCEPT ![c] = Append(@, next)]
                     /\ UNCHANGED answers
  <1>6. Idle \/ Refused \/ Sent
    BY <1>1 DEF CallbackEnds
  <1>7. queue[c] # <<>> =>
           /\ next \in Call /\ next # NoCall /\ next = queue[c][1] /\ 1 \in 1 .. Len(queue[c])
           /\ Tail(queue[c]) \in Seq(Call) /\ Len(Tail(queue[c])) = Len(queue[c]) - 1
           /\ \A i \in 1 .. Len(queue[c]) - 1 :
                 Tail(queue[c])[i] = queue[c][i + 1] /\ i + 1 \in 1 .. Len(queue[c])
    <2>1. \A e \in Call : e # NoCall
      BY DEF Call, NoCall
    <2> QED
      BY <2>1, <1>5
  <1>8. queue[c] # <<>> =>
           /\ Rejected(next) \in [call : Call, by : Call \cup {NoCall}]
           /\ Rejected(next).by = NoCall
    BY <1>7 DEF Rejected
  <1> HIDE DEF next
  <1>9. /\ pending' \in [Channels -> Call \cup {NoCall}]
        /\ queue' \in [Channels -> Seq(Call)] /\ request' \in [Channels -> Seq(Call)]
        /\ answers' \in [Channels -> Seq([call : Call, by : Call \cup {NoCall}])]
    <2>0. /\ pending \in [Channels -> Call \cup {NoCall}]
          /\ queue \in [Channels -> Seq(Call)] /\ request \in [Channels -> Seq(Call)]
          /\ answers \in [Channels -> Seq([call : Call, by : Call \cup {NoCall}])]
      BY DEF TypeOK
    <2>1. CASE Idle
      BY <2>0, <2>1
    <2>2. CASE Refused
      <3>1. pending' \in [Channels -> Call \cup {NoCall}] /\ queue' \in [Channels -> Seq(Call)]
        BY <2>0, <2>2, <1>7
      <3>2. answers' \in [Channels -> Seq([call : Call, by : Call \cup {NoCall}])]
        BY <2>0, <2>2, <1>8, AppendTyped
      <3> QED
        BY <2>0, <2>2, <3>1, <3>2
    <2>3. CASE Sent
      <3>1. pending' \in [Channels -> Call \cup {NoCall}] /\ queue' \in [Channels -> Seq(Call)]
        BY <2>0, <2>3, <1>7
      <3>2. request' \in [Channels -> Seq(Call)]
        BY <2>0, <2>3, <1>7, AppendTyped
      <3> QED
        BY <2>0, <2>3, <3>1, <3>2
    <2> QED
      BY <1>6, <2>1, <2>2, <2>3
  <1>10. TypeOK'
    BY <1>1, <1>2, <1>9 DEF TypeOK
  <1>11. ParserOK'
    BY <1>1, <1>2 DEF ParserOK
  <1>12. (\A d \in Channels : Matched(d))'
    <2>1. CASE Idle \/ Sent
      BY <2>1 DEF Matched, SawIncomplete
    <2>2. CASE Refused
      BY <2>2, <1>8, AnswersGrow
    <2> QED
      BY <1>6, <2>1, <2>2
  <1>13. ASSUME NEW d \in Channels
         PROVE  InOnePlace(d)'
    <2>1. CASE d # c
      <3>1. BeingRead(d)' = BeingRead(d)
        <4>1. hdr.chan = c /\ parsing' = FALSE
          BY <1>2 DEF BeingRead
        <4> QED
          BY <2>1, <4>1 DEF BeingRead
      <3>2. pending'[d] = pending[d] /\ request'[d] = request[d]
        BY <2>1, <1>6 DEF TypeOK
      <3> QED
        BY <3>1, <3>2, <1>2, SamePlace
    <2>2. CASE d = c
      <3>1. ~BeingRead(c)' /\ wire'[c] = wire[c] /\ inbuf'[c] = inbuf[c]
        BY <1>2 DEF BeingRead
      <3>2. request'[c] # <<>> => request'[c] = <<pending'[c]>> /\ pending'[c] # NoCall
        <4>1. CASE Idle \/ Refused
          BY <4>1, <1>3
        <4>2. CASE Sent
          <5>1. request'[c] = Append(<<>>, next) /\ pending'[c] = next
            BY <4>2, <1>3 DEF TypeOK
          <5> QED
            BY <5>1, <4>2, <1>7, AppendToNone
        <4> QED
          BY <1>6, <4>1, <4>2
      <3> QED
        BY <2>2, <3>1, <3>2, <1>3 DEF InOnePlace
    <2> QED
      BY <2>1, <2>2
  <1>14. ASSUME NEW d \in Channels
         PROVE  InSequence(d)'
    <2>1. CASE d # c
      <3>1. /\ pending'[d] = pending[d] /\ queue'[d] = queue[d]
        BY <2>1, <1>6 DEF TypeOK
      <3>2. answers'[d] = answers[d]
        BY <2>1, <1>6 DEF TypeOK
      <3>3. Answered(d)' = Answered(d)
        BY <2>1, <1>1, <1>2 DEF Answered
      <3> QED
        BY <3>1, <3>2, <3>3, <1>2, SameCalls
    <2>2. CASE d = c
      <3>1. link'[c] /\ issued'[c] = issued[c] /\ ~Answered(c)'
        BY <1>2 DEF Answered
      <3>2. CASE Idle
        <4>1. pending'[c] = NoCall /\ queue'[c] = <<>> /\ answers'[c] = answers[c]
          BY <3>2 DEF TypeOK
        <4>2. ~SawIncomplete(c) => issued[c] = Len(answers[c])
          BY <3>2, <1>4, <1>5
        <4> QED
          BY <2>2, <3>1, <4>1, <4>2 DEF InSequence, SawIncomplete
      <3>3. CASE Refused
        <4>1. answers'[c] = Append(answers[c], Rejected(next))
          BY <3>3 DEF TypeOK
        <4>2. SawIncomplete(c)'
          BY <4>1, <3>3, <1>5, <1>8, AppendRejected
        <4> QED
          BY <2>2, <3>1, <4>2 DEF InSequence
      <3>4. CASE Sent
        <4>1. /\ pending'[c] = next /\ queue'[c] = Tail(queue[c]) /\ answers'[c] = answers[c]
              /\ pending'[c] # NoCall
          BY <3>4, <1>7 DEF TypeOK
        <4>2. ASSUME ~SawIncomplete(c)
              PROVE  /\ pending'[c].id = Len(answers'[c]) + 1
                     /\ \A i \in 1 .. Len(queue'[c]) : queue'[c][i].id = pending'[c].id + i
                     /\ issued'[c] = pending'[c].id + Len(queue'[c])
          <5>1. next.id = Len(answers[c]) + 1
            BY <4>2, <3>4, <1>4, <1>7
          <5>2. \A i \in 1 .. Len(queue[c]) - 1 : queue[c][i + 1].id = Len(answers[c]) + (i + 1)
            BY <4>2, <3>4, <1>4, <1>7
          <5>3. \A i \in 1 .. Len(queue[c]) - 1 : Tail(queue[c])[i].id = next.id + i
            <6>1. ASSUME NEW i \in 1 .. Len(queue[c]) - 1
                  PROVE  Tail(queue[c])[i].id = next.id + i
              <7>1. Tail(queue[c])[i].id = Len(answers[c]) + (i + 1)
                BY <5>2, <3>4, <1>7
              <7>2. Len(answers[c]) + (i + 1) = (Len(answers[c]) + 1) + i
                <8>1. i \in Nat
                  OBVIOUS
                <8> QED
                  BY <8>1, <1>5a, ShiftedNumbers, Zenon
              <7> QED
                BY <5>1, <7>1, <7>2
            <6> QED
              BY <6>1
          <5>4. issued[c] = next.id + (Len(queue[c]) - 1)
            <6>1. issued[c] = Len(answers[c]) + Len(queue[c])
              BY <4>2, <1>4
            <6>2. Len(answers[c]) + Len(queue[c]) = (Len(answers[c]) + 1) + (Len(queue[c]) - 1)
              BY <1>5a, ShiftedNumbers, Zenon
            <6> QED
              BY <5>1, <6>1, <6>2
          <5> QED
            BY <5>1, <5>3, <5>4, <4>1, <3>1, <3>4, <1>7
        <4> QED
          BY <2>2, <3>1, <4>1, <4>2 DEF InSequence, SawIncomplete
      <3> QED
        BY <1>6, <3>2, <3>3, <3>4
    <2> QED
      BY <2>1, <2>2
  <1> QED
    BY <1>10, <1>11, <1>12, <1>13, <1>14

\* The server answers the request it has read.
LEMMA ServeInv ==
    ASSUME CallsInv, NEW c \in Channels, Serve(c)
    PROVE  CallsInv'
  <1> USE DEF CallsInv
  <1>1. /\ request[c] = <<pending[c]>> /\ pending[c] # NoCall /\ Head(request[c]) = pending[c]
        /\ NoReplyIn(wire[c]) /\ NoReplyIn(inbuf[c]) /\ ~BeingRead(c)
    <2>1. request[c] # <<>>
      BY DEF Serve
    <2>2. request[c] = <<pending[c]>>
      BY <2>1 DEF InOnePlace
    <2>3. Head(<<pending[c]>>) = pending[c]
      OBVIOUS
    <2> QED
      BY <2>1, <2>2, <2>3 DEF InOnePlace
  <1>2. PICK t \in {"response", "blob", "error", "notify"}, ok \in BOOLEAN :
           wire' = [wire EXCEPT ![c] = @ \o Units(Message(t, c, pending[c], ok))]
    BY <1>1 DEF Serve
  <1>3. request' = [request EXCEPT ![c] = Tail(@)]
        /\ UNCHANGED <<client, inbuf, parsing, hdr, got, hpc, hch>>
    BY DEF Serve, parser, handler
  <1> DEFINE us == Units(Message(t, c, pending[c], ok))
  <1>4. us \in Seq(Unit) /\ RepliesOnce(us, c, pending[c])
    BY MessageUnits DEF TypeOK
  <1> HIDE DEF us
  <1>5. wire[c] \in Seq(Unit) /\ wire[c] \o us \in Seq(Unit)
        /\ RepliesOnce(wire[c] \o us, c, pending[c])
    <2>1. wire[c] \in Seq(Unit) /\ RepliesOnce(wire[c], c, pending[c])
      BY DEF TypeOK, InOnePlace
    <2> QED
      BY <2>1, <1>1, <1>4, JoinReplies, ConcatProperties
  <1>6. wire' = [wire EXCEPT ![c] = wire[c] \o us]
    BY <1>2 DEF us, TypeOK
  <1>7. request'[c] = <<>> /\ request' \in [Channels -> Seq(Call)]
    <2>1. Tail(<<pending[c]>>) = <<>>
      OBVIOUS
    <2>2. request' = [request EXCEPT ![c] = <<>>] /\ request \in [Channels -> Seq(Call)]
      BY <1>1, <1>3, <2>1 DEF TypeOK
    <2>3. [request EXCEPT ![c] = <<>>] \in [Channels -> Seq(Call)]
      BY <2>2, EmptyTyped
    <2> QED
      BY <2>2, <2>3
  <1>8. TypeOK'
    <2>1. wire' \in [Channels -> Seq(Unit)]
      BY <1>5, <1>6 DEF TypeOK
    <2> QED
      BY <1>3, <1>7, <2>1 DEF TypeOK, client
  <1>9. ParserOK'
    BY <1>3 DEF ParserOK, client
  <1>10. (\A d \in Channels : Matched(d))' /\ \A d \in Channels : InSequence(d)'
    <2>1. (\A d \in Channels : Matched(d))'
      BY <1>3 DEF Matched, SawIncomplete, client
    <2>2. \A d \in Channels : InSequence(d)'
      BY <1>3, SameCalls DEF Answered, client
    <2> QED
      BY <2>1, <2>2
  <1>11. ASSUME NEW d \in Channels
         PROVE  InOnePlace(d)'
    <2>1. CASE d # c
      BY <2>1, <1>3, <1>6, SamePlace DEF TypeOK, BeingRead, client
    <2>2. CASE d = c
      <3>1. /\ wire'[c] = wire[c] \o us /\ inbuf'[c] = inbuf[c] /\ pending'[c] = pending[c]
            /\ ~BeingRead(c)'
        BY <1>1, <1>3, <1>6 DEF TypeOK, BeingRead, client
      <3> QED
        BY <2>2, <3>1, <1>1, <1>5, <1>7 DEF InOnePlace
    <2> QED
      BY <2>1, <2>2
  <1> QED
    BY <1>8, <1>9, <1>10, <1>11

\* The server tells of another client's change.
LEMMA SendNotificationInv ==
    ASSUME CallsInv, NEW c \in Channels, SendNotification(c)
    PROVE  CallsInv'
  <1> USE DEF CallsInv
  <1> DEFINE us == Units(Message("notify", c, NoCall, TRUE))
  <1>1. /\ wire' = [wire EXCEPT ![c] = @ \o us]
        /\ UNCHANGED <<client, inbuf, parsing, hdr, got, hpc, hch, request>>
    BY DEF SendNotification, parser, handler
  <1>2. us \in Seq(Unit) /\ NoReplyIn(us) /\ RepliesOnce(us, c, pending[c])
    BY MessageUnits, AnyCall
  <1> HIDE DEF us
  <1>3. /\ wire[c] \in Seq(Unit) /\ wire[c] \o us \in Seq(Unit)
        /\ RepliesOnce(wire[c] \o us, c, pending[c])
        /\ NoReplyIn(wire[c]) => NoReplyIn(wire[c] \o us)
    <2>1. wire[c] \in Seq(Unit) /\ RepliesOnce(wire[c], c, pending[c])
      BY DEF TypeOK, InOnePlace
    <2> QED
      BY <2>1, <1>2, JoinReplies, ConcatProperties
  <1>4. wire' = [wire EXCEPT ![c] = wire[c] \o us] /\ wire' \in [Channels -> Seq(Unit)]
    BY <1>1, <1>3 DEF TypeOK
  <1>5. TypeOK'
    BY <1>1, <1>4 DEF TypeOK, client
  <1>6. ParserOK'
    BY <1>1 DEF ParserOK, client
  <1>7. (\A d \in Channels : Matched(d))' /\ \A d \in Channels : InSequence(d)'
    <2>1. (\A d \in Channels : Matched(d))'
      BY <1>1 DEF Matched, SawIncomplete, client
    <2>2. \A d \in Channels : InSequence(d)'
      BY <1>1, SameCalls DEF Answered, client
    <2> QED
      BY <2>1, <2>2
  <1>8. ASSUME NEW d \in Channels
        PROVE  InOnePlace(d)'
    <2>1. CASE d # c
      BY <2>1, <1>1, <1>4, SamePlace DEF TypeOK, BeingRead, client
    <2>2. CASE d = c
      <3>1. /\ wire'[c] = wire[c] \o us /\ inbuf'[c] = inbuf[c] /\ pending'[c] = pending[c]
            /\ request'[c] = request[c] /\ BeingRead(c)' = BeingRead(c)
        BY <1>1, <1>4 DEF TypeOK, BeingRead, client
      <3> QED
        BY <2>2, <3>1, <1>3 DEF InOnePlace
    <2> QED
      BY <2>1, <2>2
  <1> QED
    BY <1>5, <1>6, <1>7, <1>8

\* No step at all.
LEMMA StutterInv ==
    ASSUME CallsInv, UNCHANGED vars
    PROVE  CallsInv'
  <1> USE DEF CallsInv, vars, client, parser, handler, server
  <1>1. TypeOK' /\ ParserOK'
    BY DEF TypeOK, ParserOK
  <1>2. (\A d \in Channels : Matched(d))'
    BY DEF Matched, SawIncomplete
  <1>3. \A c \in Channels : InOnePlace(c)' /\ InSequence(c)'
    BY SamePlace, SameCalls DEF BeingRead, Answered
  <1> QED
    BY <1>1, <1>2, <1>3

\* The steps of the client, of the network and of the server, while the parser is in step.
LEMMA CallsStep == CallsInv /\ ~torn' /\ [Next]_vars => CallsInv'
  <1> SUFFICES ASSUME CallsInv, ~torn', [Next]_vars
               PROVE  CallsInv'
    OBVIOUS
  <1>1. ASSUME NEW c \in Channels, Connected(c)        PROVE CallsInv'
    BY <1>1, ConnectedInv
  <1>2. ASSUME NEW c \in Channels, Disconnected(c)     PROVE CallsInv'
    BY <1>2, DisconnectedInv
  <1>3. ASSUME NEW c \in Channels, Deliver(c)          PROVE CallsInv'
    BY <1>3, DeliverInv
  <1>4. ASSUME NEW c \in Channels, Serve(c)            PROVE CallsInv'
    BY <1>4, ServeInv
  <1>5. ASSUME NEW c \in Channels, SendNotification(c) PROVE CallsInv'
    BY <1>5, SendNotificationInv
  <1>6. ASSUME NEW c \in Channels, NEW k \in Kinds, Issue(c, k) PROVE CallsInv'
    BY <1>6, IssueInv
  <1>7. CASE ReadyRead
    BY <1>7, ReadHeaderInv, ReadReplyInv, ReadNotifyInv, CallbackEndsInv, ExitInv DEF ReadyRead
  <1>8. CASE UNCHANGED vars
    BY <1>8, StutterInv
  <1> QED
    BY <1>1, <1>2, <1>3, <1>4, <1>5, <1>6, <1>7, <1>8 DEF Next

\* A parser that is out of step stays so.
LEMMA TornStays == torn /\ [Next]_vars => torn'
  <1> SUFFICES ASSUME torn, [Next]_vars PROVE torn'
    OBVIOUS
  <1>1. ASSUME NEW c \in Channels, Connected(c) \/ Serve(c) \/ SendNotification(c) PROVE torn'
    BY <1>1 DEF Connected, Serve, SendNotification
  <1>2. ASSUME NEW c \in Channels, Disconnected(c) \/ Deliver(c) PROVE torn'
    BY <1>2 DEF Disconnected, Deliver
  <1>3. ASSUME NEW c \in Channels, NEW k \in Kinds, Issue(c, k) PROVE torn'
    BY <1>3 DEF Issue
  <1>4. CASE ReadyRead
    BY <1>4 DEF ReadyRead, ReadHeader, ReadReply, ReadNotify, CallbackEnds, Exit
  <1>5. CASE UNCHANGED vars
    BY <1>5 DEF vars
  <1> QED
    BY <1>1, <1>2, <1>3, <1>4, <1>5 DEF Next

\* Every step of the client, of the network and of the server keeps the invariant.
THEOREM StepInv == IInv /\ [Next]_vars => IInv'
  BY CallsStep, TornStays DEF IInv

\* The types of all that the calls depend on, while the parser is in step.
THEOREM RpcTypes == Spec => [](~torn => TypeOK)
  <1>1. Init => IInv
    BY InitInv DEF IInv
  <1>2. IInv /\ [Next]_vars => IInv'
    BY StepInv
  <1>3. IInv => (~torn => TypeOK)
    BY DEF IInv, CallsInv
  <1> QED
    BY <1>1, <1>2, <1>3, PTL DEF Spec

\* Every call is answered by its own reply although replies carry no call id, and
\* in the order of the calls unless a request with missing fields strands the queue.
THEOREM CallsMatched == Spec => []AnswersMatchCalls
  <1>1. Init => IInv
    BY InitInv DEF IInv
  <1>2. IInv /\ [Next]_vars => IInv'
    BY StepInv
  <1>3. IInv => AnswersMatchCalls
    BY DEF IInv, CallsInv, AnswersMatchCalls
  <1> QED
    BY <1>1, <1>2, <1>3, PTL DEF Spec

\* A channel has one call on its way at a time: what is sent, answered, received or
\* read is the call that isPending stands for, and it is in one of these places.
THEOREM OneCallOnTheWay == Spec => [](~torn => \A c \in Channels : InOnePlace(c))
  <1>1. Init => IInv
    BY InitInv DEF IInv
  <1>2. IInv /\ [Next]_vars => IInv'
    BY StepInv
  <1>3. IInv => (~torn => \A c \in Channels : InOnePlace(c))
    BY DEF IInv, CallsInv
  <1> QED
    BY <1>1, <1>2, <1>3, PTL DEF Spec

-----------------------------------------------------------------------------
(* The parser in step with the stream.                                       *)

\* A unit of a message of the length its type has.
Sound(u) == u.msg.len = LenOf(u.msg.type) /\ u.part <= 2 + u.msg.len

\* The last unit of a message, and what may come behind a unit.
EndsMessage(u) == u.part = 2 + u.msg.len
Follows(u, v) == IF EndsMessage(u) THEN v.part = 1 ELSE v = [msg |-> u.msg, part |-> u.part + 1]

\* Units of messages sent one behind the other, of the first perhaps only the rest.
Unbroken(s) ==
    /\ \A i \in 1 .. Len(s) : Sound(s[i])
    /\ \A i \in 1 .. Len(s) - 1 : Follows(s[i], s[i + 1])
    /\ s # <<>> => EndsMessage(s[Len(s)])

\* What channel c has still to read: what has been received and what is on its way.
Unread(c) == inbuf[c] \o wire[c]

\* c's message is being read.  In the callback of a reply all of it has been.
HalfRead(c) == parsing /\ hdr.chan = c /\ hpc # "callback"

\* c's next unit is the one the parser takes it for.
InStep(c) ==
    /\ Unbroken(Unread(c))
    /\ HalfRead(c) => Unread(c) # <<>> /\ Unread(c)[1] = [msg |-> hdr, part |-> 3 + got]
    /\ ~HalfRead(c) /\ Unread(c) # <<>> => Unread(c)[1].part = 1

\* What has been received ends where a segment may end, and only the channel whose handler
\* runs has some; a notification's body is there with its header.
Received ==
    /\ \A c \in Channels : inbuf[c] # <<>> =>
          hpc # "idle" /\ hch = c /\ GoodCut(inbuf[c][Len(inbuf[c])])
    /\ parsing => hdr.len = LenOf(hdr.type)
    /\ parsing /\ hdr.type = "notify" => hpc = "top" /\ inbuf[hch] # <<>>
    /\ parsing /\ hpc = "exit" => inbuf[hch] = <<>>

StreamInv == Received /\ \A c \in Channels : InStep(c)

\* Parts of a sequence, put together again and regrouped.
LEMMA CutJoined ==
    ASSUME NEW S, NEW s \in Seq(S), NEW n \in 0 .. Len(s)
    PROVE  SubSeq(s, 1, n) \o SubSeq(s, n + 1, Len(s)) = s
  <1> DEFINE front == SubSeq(s, 1, n)
             rest == SubSeq(s, n + 1, Len(s))
  <1>1. /\ front \in Seq(S) /\ Len(front) = n /\ \A i \in 1 .. n : front[i] = s[i]
        /\ rest \in Seq(S) /\ Len(rest) = Len(s) - n
        /\ \A i \in 1 .. Len(s) - n : rest[i] = s[n + i]
    BY Parts
  <1> HIDE DEF front, rest
  <1>2. /\ front \o rest \in Seq(S) /\ Len(front \o rest) = n + (Len(s) - n)
        /\ \A i \in 1 .. n + (Len(s) - n) :
              (front \o rest)[i] = IF i <= n THEN front[i] ELSE rest[i - n]
    BY <1>1, Concat
  <1>3. Len(front \o rest) = Len(s) /\ Len(s) \in Nat
    BY <1>2
  <1>4. ASSUME NEW i \in 1 .. Len(s) PROVE (front \o rest)[i] = s[i]
    <2>1. CASE i <= n
      BY <2>1, <1>1, <1>2, <1>3
    <2>2. CASE ~(i <= n)
      <3>1. i - n \in 1 .. Len(s) - n /\ n + (i - n) = i
        BY <2>2, <1>3
      <3>2. (front \o rest)[i] = rest[i - n]
        BY <2>2, <1>2, <1>3
      <3>3. rest[i - n] = s[n + (i - n)]
        BY <3>1, <1>1
      <3> QED
        BY <3>1, <3>2, <3>3
    <2> QED
      BY <2>1, <2>2
  <1>5. front \o rest = s
    BY <1>2, <1>3, <1>4, SeqEqual
  <1> QED
    BY <1>5 DEF front, rest

\* Without the first units of s, the same units follow.
LEMMA FrontTaken ==
    ASSUME NEW S, NEW s \in Seq(S), NEW t \in Seq(S), NEW n \in 0 .. Len(s)
    PROVE  SubSeq(s, n + 1, Len(s)) \o t = SubSeq(s \o t, n + 1, Len(s \o t))
  <1> DEFINE rest == SubSeq(s, n + 1, Len(s))
             both == s \o t
             tail == SubSeq(both, n + 1, Len(both))
  <1>1. /\ rest \in Seq(S) /\ Len(rest) = Len(s) - n /\ Len(s) \in Nat /\ Len(t) \in Nat
        /\ \A i \in 1 .. Len(s) - n : rest[i] = s[n + i]
    BY Parts
  <1>2. /\ both \in Seq(S) /\ Len(both) = Len(s) + Len(t)
        /\ \A i \in 1 .. Len(s) + Len(t) : both[i] = IF i <= Len(s) THEN s[i] ELSE t[i - Len(s)]
    BY Concat
  <1> HIDE DEF rest, both
  <1>3. n \in 0 .. Len(both)
    BY <1>1, <1>2
  <1>4. /\ tail \in Seq(S) /\ Len(tail) = Len(both) - n
        /\ \A i \in 1 .. Len(both) - n : tail[i] = both[n + i]
    BY <1>2, <1>3, Parts
  <1> HIDE DEF tail
  <1>5. /\ rest \o t \in Seq(S) /\ Len(rest \o t) = Len(rest) + Len(t)
        /\ \A i \in 1 .. Len(rest) + Len(t) :
              (rest \o t)[i] = IF i <= Len(rest) THEN rest[i] ELSE t[i - Len(rest)]
    BY <1>1, Concat
  <1>6. Len(rest \o t) = Len(tail)
    BY <1>1, <1>2, <1>4, <1>5
  <1>7. ASSUME NEW i \in 1 .. Len(rest \o t) PROVE (rest \o t)[i] = tail[i]
    <2>1. /\ i \in 1 .. Len(both) - n /\ n + i \in 1 .. Len(s) + Len(t)
          /\ i \in 1 .. Len(rest) + Len(t)
      BY <1>1, <1>2, <1>4, <1>5, <1>6
    <2>2. tail[i] = IF n + i <= Len(s) THEN s[n + i] ELSE t[n + i - Len(s)]
      BY <2>1, <1>2, <1>4
    <2>3. CASE n + i <= Len(s)
      <3>1. i <= Len(rest) /\ i \in 1 .. Len(s) - n
        BY <2>3, <1>1, <2>1
      <3> QED
        BY <3>1, <2>1, <2>2, <2>3, <1>1, <1>5
    <2>4. CASE ~(n + i <= Len(s))
      <3>1. ~(i <= Len(rest)) /\ i - Len(rest) = n + i - Len(s)
        BY <2>4, <1>1, <2>1
      <3> QED
        BY <3>1, <2>1, <2>2, <2>4, <1>5
    <2> QED
      BY <2>3, <2>4
  <1>8. rest \o t = tail
    BY <1>4, <1>5, <1>6, <1>7, SeqEqual
  <1> QED
    BY <1>8 DEF rest, both, tail

\* What remains of an unbroken sequence.
LEMMA RestUnbroken ==
    ASSUME NEW s \in Seq(Unit), Unbroken(s), NEW n \in 0 .. Len(s)
    PROVE  Unbroken(SubSeq(s, n + 1, Len(s)))
  <1> DEFINE rest == SubSeq(s, n + 1, Len(s))
  <1>1. /\ rest \in Seq(Unit) /\ Len(rest) = Len(s) - n /\ Len(s) \in Nat
        /\ \A i \in 1 .. Len(s) - n : rest[i] = s[n + i]
    BY Parts
  <1> HIDE DEF rest
  <1>2. ASSUME NEW i \in 1 .. Len(rest) PROVE Sound(rest[i])
    BY <1>1, <1>2 DEF Unbroken
  <1>3. ASSUME NEW i \in 1 .. Len(rest) - 1 PROVE Follows(rest[i], rest[i + 1])
    <2>1. /\ i \in 1 .. Len(s) - n /\ i + 1 \in 1 .. Len(s) - n
          /\ n + i \in 1 .. Len(s) - 1 /\ n + (i + 1) = (n + i) + 1
      BY <1>1
    <2>2. Follows(s[n + i], s[(n + i) + 1])
      BY <2>1 DEF Unbroken
    <2>3. rest[i] = s[n + i] /\ rest[i + 1] = s[n + (i + 1)]
      BY <2>1, <1>1
    <2> QED
      BY <2>1, <2>2, <2>3
  <1>4. ASSUME rest # <<>> PROVE EndsMessage(rest[Len(rest)])
    <2>1. Len(rest) \in 1 .. Len(s) - n /\ n + Len(rest) = Len(s) /\ s # <<>>
      BY <1>1, <1>4
    <2>2. rest[Len(rest)] = s[Len(s)]
      BY <2>1, <1>1
    <2> QED
      BY <2>1, <2>2 DEF Unbroken
  <1>5. Unbroken(rest)
    BY <1>2, <1>3, <1>4 DEF Unbroken
  <1> QED
    BY <1>5 DEF rest

\* A message sent behind the others.
LEMMA SentUnbroken ==
    ASSUME NEW s \in Seq(Unit), NEW t \in Seq(Unit), Unbroken(s), Unbroken(t),
           t # <<>> => t[1].part = 1
    PROVE  Unbroken(s \o t)
  <1> DEFINE u == s \o t
  <1>1. /\ Len(s) \in Nat /\ Len(t) \in Nat /\ u \in Seq(Unit) /\ Len(u) = Len(s) + Len(t)
        /\ \A i \in 1 .. Len(s) + Len(t) : u[i] = IF i <= Len(s) THEN s[i] ELSE t[i - Len(s)]
    BY Concat
  <1> HIDE DEF u
  <1>2. ASSUME NEW i \in 1 .. Len(u) PROVE Sound(u[i])
    <2>1. CASE i <= Len(s)
      BY <1>1, <2>1 DEF Unbroken
    <2>2. CASE ~(i <= Len(s))
      <3>1. i - Len(s) \in 1 .. Len(t) /\ u[i] = t[i - Len(s)]
        BY <1>1, <2>2
      <3> QED
        BY <3>1 DEF Unbroken
    <2> QED
      BY <2>1, <2>2
  <1>3. ASSUME NEW i \in 1 .. Len(u) - 1 PROVE Follows(u[i], u[i + 1])
    <2>1. CASE i < Len(s)
      <3>1. /\ i \in 1 .. Len(s) - 1 /\ i <= Len(s) /\ i + 1 <= Len(s)
            /\ i \in 1 .. Len(s) + Len(t) /\ i + 1 \in 1 .. Len(s) + Len(t)
        BY <1>1, <2>1
      <3>2. u[i] = s[i] /\ u[i + 1] = s[i + 1]
        BY <3>1, <1>1
      <3> QED
        BY <3>1, <3>2 DEF Unbroken
    <2>2. CASE i = Len(s)
      <3>1. /\ i <= Len(s) /\ ~(i + 1 <= Len(s)) /\ i + 1 - Len(s) = 1 /\ s # <<>> /\ t # <<>>
            /\ i \in 1 .. Len(s) + Len(t) /\ i + 1 \in 1 .. Len(s) + Len(t)
        BY <1>1, <2>2
      <3>2. u[i] = s[Len(s)] /\ u[i + 1] = t[1]
        BY <3>1, <1>1, <2>2
      <3> QED
        BY <3>1, <3>2 DEF Unbroken, Follows
    <2>3. CASE i > Len(s)
      <3>1. /\ ~(i <= Len(s)) /\ ~(i + 1 <= Len(s)) /\ i - Len(s) \in 1 .. Len(t) - 1
            /\ i + 1 - Len(s) = (i - Len(s)) + 1
            /\ i \in 1 .. Len(s) + Len(t) /\ i + 1 \in 1 .. Len(s) + Len(t)
        BY <1>1, <2>3
      <3>2. u[i] = t[i - Len(s)] /\ u[i + 1] = t[(i - Len(s)) + 1]
        BY <3>1, <1>1
      <3> QED
        BY <3>1, <3>2 DEF Unbroken
    <2> QED
      BY <2>1, <2>2, <2>3, <1>1
  <1>4. ASSUME u # <<>> PROVE EndsMessage(u[Len(u)])
    <2>1. Len(u) \in 1 .. Len(s) + Len(t)
      BY <1>1, <1>4
    <2>2. CASE t = <<>>
      <3>1. Len(u) = Len(s) /\ Len(u) <= Len(s) /\ s # <<>>
        BY <1>1, <2>1, <2>2
      <3> QED
        BY <3>1, <2>1, <1>1 DEF Unbroken
    <2>3. CASE t # <<>>
      <3>1. ~(Len(u) <= Len(s)) /\ Len(u) - Len(s) = Len(t)
        BY <1>1, <2>3
      <3> QED
        BY <3>1, <2>1, <2>3, <1>1 DEF Unbroken
    <2> QED
      BY <2>2, <2>3
  <1>5. Unbroken(u)
    BY <1>2, <1>3, <1>4 DEF Unbroken
  <1> QED
    BY <1>5 DEF u

\* What is sent is a whole message.
LEMMA MessageUnbroken ==
    ASSUME NEW t \in {"response", "blob", "error", "notify"}, NEW c \in Channels,
           NEW call \in Call \cup {NoCall}, NEW ok \in BOOLEAN
    PROVE  /\ Unbroken(Units(Message(t, c, call, ok)))
           /\ Units(Message(t, c, call, ok)) # <<>>
           /\ Units(Message(t, c, call, ok))[1].part = 1
  <1> DEFINE m == Message(t, c, call, ok)
             us == Units(m)
  <1>1. m.type = t /\ m.len = LenOf(m.type) /\ m.len \in Nat
    BY DEF Message, LenOf
  <1> HIDE DEF m
  <1>2. us \in Seq(Unit)
    BY MessageUnits DEF m
  <1>3. /\ us = [i \in 1 .. (2 + m.len) |-> [msg |-> m, part |-> i]] /\ 2 + m.len \in Nat
    BY <1>1 DEF Units
  <1>4. Len(us) = 2 + m.len
    BY <1>2, <1>3, LenProperties
  <1>5. \A i \in 1 .. Len(us) : us[i] = [msg |-> m, part |-> i]
    BY <1>3, <1>4
  <1> HIDE DEF us
  <1>6. \A i \in 1 .. Len(us) : Sound(us[i])
    BY <1>1, <1>4, <1>5 DEF Sound
  <1>7. \A i \in 1 .. Len(us) - 1 : Follows(us[i], us[i + 1])
    <2>1. ASSUME NEW i \in 1 .. Len(us) - 1 PROVE Follows(us[i], us[i + 1])
      <3>1. /\ i \in 1 .. Len(us) /\ i + 1 \in 1 .. Len(us) /\ i # 2 + m.len
        BY <1>3, <1>4
      <3>2. us[i] = [msg |-> m, part |-> i] /\ us[i + 1] = [msg |-> m, part |-> i + 1]
        BY <3>1, <1>5, Zenon
      <3>3. us[i].msg = m /\ us[i].part = i
        BY <3>2
      <3> QED
        BY <3>1, <3>2, <3>3 DEF Follows, EndsMessage
    <2> QED
      BY <2>1
  <1>8. us # <<>> /\ EndsMessage(us[Len(us)]) /\ us[1].part = 1
    <2>1. 1 \in 1 .. Len(us) /\ Len(us) \in 1 .. Len(us)
      BY <1>1, <1>4
    <2>2. us[1] = [msg |-> m, part |-> 1] /\ us[Len(us)] = [msg |-> m, part |-> Len(us)]
      BY <2>1, <1>5, Zenon
    <2> QED
      BY <2>1, <2>2, <1>2, <1>4 DEF EndsMessage
  <1> QED
    BY <1>6, <1>7, <1>8 DEF Unbroken, us, m

\* The units of one or two lengths a body may have.
LEMMA BodyLengths ==
    ASSUME NEW u \in Unit, Sound(u)
    PROVE  u.msg.len \in {1, 2} /\ (u.msg.type = "notify" => u.msg.len = 1)
  BY DEF Sound, LenOf, Unit, MessageType

\* The units of a message that are half read: its next ones, then the next message.
LEMMA ReadOn ==
    ASSUME NEW s \in Seq(Unit), Unbroken(s), s # <<>>, NEW m \in MessageType, NEW g \in Nat,
           s[1] = [msg |-> m, part |-> 3 + g], m.len = LenOf(m.type), g < m.len,
           NEW n \in 0 .. m.len - g, n <= Len(s)
    PROVE  /\ n < m.len - g => /\ SubSeq(s, n + 1, Len(s)) # <<>>
                               /\ SubSeq(s, n + 1, Len(s))[1] = [msg |-> m, part |-> 3 + (g + n)]
           /\ n = m.len - g /\ SubSeq(s, n + 1, Len(s)) # <<>>
                 => SubSeq(s, n + 1, Len(s))[1].part = 1
  <1> DEFINE rest == SubSeq(s, n + 1, Len(s))
             Then == /\ n < m.len - g => rest # <<>> /\ rest[1] = [msg |-> m, part |-> 3 + (g + n)]
                     /\ n = m.len - g /\ rest # <<>> => rest[1].part = 1
  <1>1. m.len \in {1, 2}
    BY DEF LenOf, MessageType
  <1>2. /\ Len(s) \in Nat /\ Len(s) >= 1 /\ n \in 0 .. Len(s)
        /\ rest \in Seq(Unit) /\ Len(rest) = Len(s) - n
        /\ \A i \in 1 .. Len(s) - n : rest[i] = s[n + i]
    <2>1. n \in 0 .. Len(s)
      BY <1>1
    <2> QED
      BY <2>1, Parts
  <1> HIDE DEF rest
  <1>3. Len(s) > n => rest # <<>> /\ rest[1] = s[n + 1]
    BY <1>2
  <1>4. rest # <<>> => Len(s) > n
    BY <1>2
  <1>5. \A i \in 1 .. Len(s) - 1 : Follows(s[i], s[i + 1])
    BY DEF Unbroken
  <1>6. EndsMessage(s[Len(s)])
    BY DEF Unbroken
  <1>7. ASSUME n = 0 PROVE Then
    <2>1. n < m.len - g /\ Len(s) > n /\ g + n = g /\ n + 1 = 1
      BY <1>1, <1>2, <1>7
    <2> QED
      BY <2>1, <1>3
  <1>8. ASSUME n = 1 PROVE Then
    <2>1. CASE g + 1 = m.len
      <3>1. n = m.len - g /\ EndsMessage(s[1])
        <4>1. s[1].msg = m /\ s[1].part = 3 + g
          OBVIOUS
        <4> QED
          BY <1>1, <1>8, <2>1, <4>1 DEF EndsMessage
      <3>2. Len(s) > 1 => s[1 + 1].part = 1
        <4>1. Len(s) > 1 => Follows(s[1], s[1 + 1])
          BY <1>5, <1>2
        <4> QED
          BY <3>1, <4>1 DEF Follows
      <3> QED
        BY <3>1, <3>2, <1>3, <1>4, <1>8
    <2>2. CASE g + 1 # m.len
      <3>1. n < m.len - g /\ ~EndsMessage(s[1])
        <4>1. s[1].msg = m /\ s[1].part = 3 + g
          OBVIOUS
        <4> QED
          BY <1>1, <1>8, <2>2, <4>1 DEF EndsMessage
      <3>2. Len(s) > 1
        BY <1>2, <1>6, <3>1
      <3>3. s[1 + 1] = [msg |-> m, part |-> (3 + g) + 1]
        <4>1. Follows(s[1], s[1 + 1])
          BY <1>5, <1>2, <3>2
        <4>2. s[1].msg = m /\ s[1].part = 3 + g
          OBVIOUS
        <4> QED
          BY <3>1, <4>1, <4>2 DEF Follows
      <3>4. n # m.len - g /\ (3 + g) + 1 = 3 + (g + n)
        BY <1>1, <1>8, <3>1
      <3>5. rest # <<>> /\ rest[1] = s[1 + 1]
        BY <3>2, <1>3, <1>8
      <3> QED
        BY <3>1, <3>3, <3>4, <3>5
    <2> QED
      BY <2>1, <2>2
  <1>9. ASSUME n = 2 PROVE Then
    <2>1. g = 0 /\ m.len = 2 /\ n = m.len - g
      BY <1>1, <1>9
    <2>2. Len(s) >= 2 /\ ~EndsMessage(s[1])
      <3>1. s[1].msg = m /\ s[1].part = 3
        BY <2>1
      <3> QED
        BY <1>9, <2>1, <3>1 DEF EndsMessage
    <2>3. s[1 + 1] = [msg |-> m, part |-> 4]
      <3>1. Follows(s[1], s[1 + 1])
        BY <1>5, <1>2, <2>2
      <3>2. s[1].msg = m /\ s[1].part + 1 = 4
        BY <2>1
      <3> QED
        BY <2>2, <3>1, <3>2 DEF Follows
    <2>4. EndsMessage(s[2])
      <3>1. s[2].part = 4 /\ s[2].msg.len = 2
        BY <2>1, <2>3
      <3> QED
        BY <3>1 DEF EndsMessage
    <2>5. Len(s) > 2 => s[2 + 1].part = 1
      <3>1. Len(s) > 2 => Follows(s[2], s[2 + 1])
        BY <1>5, <1>2
      <3> QED
        BY <3>1, <2>4 DEF Follows
    <2> QED
      BY <2>1, <2>5, <1>3, <1>4, <1>9
  <1>10. n = 0 \/ n = 1 \/ n = 2
    BY <1>1
  <1> QED
    BY <1>7, <1>8, <1>9, <1>10 DEF rest

\* Behind a header there is its body.
LEMMA HeaderRead ==
    ASSUME NEW s \in Seq(Unit), Unbroken(s), Len(s) >= 2, s[1].part = 1
    PROVE  /\ Len(s) > 2 /\ s[1].msg.len = LenOf(s[1].msg.type)
           /\ s[2] = [msg |-> s[1].msg, part |-> 2]
           /\ SubSeq(s, 3, Len(s)) # <<>>
           /\ SubSeq(s, 3, Len(s))[1] = [msg |-> s[1].msg, part |-> 3]
  <1>1. /\ Len(s) \in Nat /\ s[1] \in Unit /\ Sound(s[1])
    BY DEF Unbroken
  <1>2. s[1].msg.len \in {1, 2}
    BY <1>1, BodyLengths
  <1>3. s[2] = [msg |-> s[1].msg, part |-> 2]
    <2>1. Follows(s[1], s[1 + 1])
      BY <1>1 DEF Unbroken
    <2> QED
      BY <2>1, <1>2 DEF Follows, EndsMessage
  <1>4. ~EndsMessage(s[2])
    BY <1>2, <1>3 DEF EndsMessage
  <1>5. Len(s) > 2
    BY <1>1, <1>4 DEF Unbroken
  <1>6. s[3] = [msg |-> s[1].msg, part |-> 3]
    <2>1. Follows(s[2], s[2 + 1])
      BY <1>1, <1>5 DEF Unbroken
    <2> QED
      BY <2>1, <1>3, <1>4 DEF Follows
  <1> DEFINE rest == SubSeq(s, 3, Len(s))
  <1>7. rest \in Seq(Unit) /\ Len(rest) = Len(s) - 2 /\ rest[1] = s[2 + 1]
    <2>1. 2 \in 0 .. Len(s) /\ 2 + 1 = 3 /\ 1 \in 1 .. Len(s) - 2
      BY <1>1, <1>5
    <2>2. /\ SubSeq(s, 2 + 1, Len(s)) \in Seq(Unit)
          /\ Len(SubSeq(s, 2 + 1, Len(s))) = Len(s) - 2
          /\ \A i \in 1 .. Len(s) - 2 : SubSeq(s, 2 + 1, Len(s))[i] = s[2 + i]
      BY <2>1, Parts, Zenon
    <2> QED
      BY <2>1, <2>2
  <1> HIDE DEF rest
  <1>8. rest # <<>> /\ rest[1] = s[3]
    BY <1>1, <1>5, <1>7
  <1>9. SubSeq(s, 3, Len(s)) # <<>> /\ SubSeq(s, 3, Len(s))[1] = s[3]
    BY <1>8 DEF rest
  <1> QED
    BY <1>1, <1>3, <1>5, <1>6, <1>9 DEF Sound

\* A good segment does not end inside a header or a notification.
LEMMA CutsInReplies ==
    ASSUME NEW u \in Unit, Sound(u), GoodCut(u)
    PROVE  u.part # 1 /\ (u.msg.type = "notify" => EndsMessage(u))
  <1>1. u.msg.len \in {1, 2}
    BY BodyLengths
  <1> QED
    BY <1>1 DEF GoodCut, EndsMessage

\* Three parts in a row.
LEMMA Regrouped ==
    ASSUME NEW r \in Seq(Unit), NEW s \in Seq(Unit), NEW t \in Seq(Unit)
    PROVE  r \o (s \o t) = (r \o s) \o t
  BY ConcatAssociative

\* What is left of the units received ends as they did.
LEMMA RestEnds ==
    ASSUME NEW s \in Seq(Unit), NEW n \in 0 .. Len(s), SubSeq(s, n + 1, Len(s)) # <<>>
    PROVE  SubSeq(s, n + 1, Len(s))[Len(SubSeq(s, n + 1, Len(s)))] = s[Len(s)]
  <1> DEFINE rest == SubSeq(s, n + 1, Len(s))
  <1>1. /\ rest \in Seq(Unit) /\ Len(rest) = Len(s) - n /\ Len(s) \in Nat
        /\ \A i \in 1 .. Len(s) - n : rest[i] = s[n + i]
    BY Parts
  <1>2. rest # <<>>
    OBVIOUS
  <1> HIDE DEF rest
  <1>3. Len(rest) \in 1 .. Len(s) - n /\ n + Len(rest) = Len(s)
    BY <1>1, <1>2
  <1>4. rest[Len(rest)] = s[Len(s)]
    BY <1>1, <1>3
  <1> QED
    BY <1>4 DEF rest

\* A channel's unread units are units.
LEMMA UnreadType ==
    ASSUME CallsInv, NEW c \in Channels
    PROVE  /\ inbuf[c] \in Seq(Unit) /\ wire[c] \in Seq(Unit) /\ Unread(c) \in Seq(Unit)
           /\ Len(inbuf[c]) \in Nat /\ Len(Unread(c)) = Len(inbuf[c]) + Len(wire[c])
           /\ Len(wire[c]) \in Nat /\ Len(Unread(c)) \in Nat /\ Len(inbuf[c]) <= Len(Unread(c))
           /\ \A i \in 1 .. Len(inbuf[c]) : Unread(c)[i] = inbuf[c][i]
           /\ inbuf[c] = <<>> => Unread(c) = wire[c]
  <1>1. inbuf[c] \in Seq(Unit) /\ wire[c] \in Seq(Unit)
    BY DEF CallsInv, TypeOK
  <1> DEFINE a == inbuf[c]
             b == wire[c]
             u == a \o b
  <1>2. a \in Seq(Unit) /\ b \in Seq(Unit)
    BY <1>1
  <1> HIDE DEF a, b
  <1>3. /\ u \in Seq(Unit) /\ Len(u) = Len(a) + Len(b)
        /\ \A i \in 1 .. Len(a) : u[i] = a[i]
    BY <1>2, Concat
  <1>4. Len(a) \in Nat /\ Len(b) \in Nat
    BY <1>2
  <1>5. a = <<>> => u = b
    BY <1>2, ConcatEmptySeq
  <1>7. Len(u) \in Nat /\ Len(a) <= Len(u)
    BY <1>3, <1>4
  <1> HIDE DEF u
  <1>6. Unread(c) = u
    BY DEF Unread, u, a, b
  <1> QED
    BY <1>2, <1>3, <1>4, <1>5, <1>6, <1>7 DEF a, b

\* A channel that reads nothing and is sent nothing stays in step.
LEMMA StaysInStep ==
    ASSUME NEW c \in Channels, InStep(c), inbuf'[c] = inbuf[c], wire'[c] = wire[c],
           HalfRead(c)' = HalfRead(c), HalfRead(c) => hdr' = hdr /\ got' = got
    PROVE  InStep(c)'
  <1>1. Unread(c)' = Unread(c)
    BY DEF Unread
  <1> QED
    BY <1>1 DEF InStep

\* Nothing is unread at first.
LEMMA InitStream == Init => StreamInv
  <1> SUFFICES ASSUME Init PROVE StreamInv
    OBVIOUS
  <1>1. ASSUME NEW c \in Channels PROVE Unread(c) = <<>> /\ inbuf[c] = <<>>
    <2>1. inbuf[c] = <<>> /\ wire[c] = <<>> /\ <<>> \in Seq(Unit)
      BY DEF Init
    <2> QED
      BY <2>1, ConcatEmptySeq DEF Unread
  <1>2. Unbroken(<<>>)
    BY DEF Unbroken
  <1>3. ~parsing
    BY DEF Init
  <1> QED
    BY <1>1, <1>2, <1>3 DEF StreamInv, Received, InStep, HalfRead

\* Steps that concern calls, and the end of a callback.
LEMMA CallsStream ==
    ASSUME StreamInv, UNCHANGED <<inbuf, wire, hch, hdr, got>>,
           \/ UNCHANGED <<parsing, hpc>>
           \/ hpc = "callback" /\ hpc' = "exit" /\ parsing' = FALSE
    PROVE  StreamInv'
  <1>1. Received'
    BY DEF StreamInv, Received, GoodCut
  <1>2. ASSUME NEW c \in Channels PROVE InStep(c)'
    <2>1. HalfRead(c)' = HalfRead(c)
      BY DEF HalfRead
    <2> QED
      BY <2>1, StaysInStep DEF StreamInv
  <1> QED
    BY <1>1, <1>2 DEF StreamInv

\* The connection is lost; nothing of a half-read message with it.
LEMMA DisconnectedStream ==
    ASSUME StreamInv, ~torn', CallsInv, NEW c \in Channels, Disconnected(c)
    PROVE  StreamInv'
  <1>1. /\ hpc = "idle" /\ ~(parsing /\ hdr.chan = c)
        /\ inbuf' = [inbuf EXCEPT ![c] = <<>>] /\ wire' = [wire EXCEPT ![c] = <<>>]
        /\ UNCHANGED <<parsing, hdr, got, hpc, hch>>
    BY DEF Disconnected, parser, handler
  <1>2. ASSUME NEW d \in Channels
        PROVE  /\ d = c => inbuf'[d] = <<>> /\ wire'[d] = <<>>
               /\ d # c => inbuf'[d] = inbuf[d] /\ wire'[d] = wire[d]
    BY <1>1 DEF CallsInv, TypeOK
  <1>3. Received'
    BY <1>1, <1>2 DEF StreamInv, Received, GoodCut
  <1>4. ASSUME NEW d \in Channels PROVE InStep(d)'
    <2>1. HalfRead(d)' = HalfRead(d)
      BY <1>1 DEF HalfRead
    <2>2. CASE d # c
      BY <2>1, <2>2, <1>1, <1>2, StaysInStep DEF StreamInv
    <2>3. CASE d = c
      <3>1. Unread(d)' = <<>> /\ ~HalfRead(d)'
        <4>1. inbuf'[d] = <<>> /\ wire'[d] = <<>> /\ <<>> \in Seq(Unit)
          BY <1>2, <2>3
        <4>2. Unread(d)' = <<>>
          BY <4>1, ConcatEmptySeq DEF Unread
        <4> QED
          BY <4>2, <2>1, <2>3, <1>1 DEF HalfRead
      <3>2. Unbroken(<<>>)
        BY DEF Unbroken
      <3> QED
        BY <3>1, <3>2 DEF InStep
    <2> QED
      BY <2>2, <2>3
  <1> QED
    BY <1>3, <1>4 DEF StreamInv

\* The server writes a message behind those on their way.
LEMMA SendsStream ==
    ASSUME StreamInv, CallsInv, NEW c \in Channels, NEW t \in {"response", "blob", "error", "notify"},
           NEW call \in Call \cup {NoCall}, NEW ok \in BOOLEAN,
           wire' = [wire EXCEPT ![c] = @ \o Units(Message(t, c, call, ok))],
           UNCHANGED <<inbuf, parsing, hdr, got, hpc, hch>>
    PROVE  StreamInv'
  <1> DEFINE us == Units(Message(t, c, call, ok))
             w == wire[c] \o us
  <1>1. us \in Seq(Unit) /\ Unbroken(us) /\ us # <<>> /\ us[1].part = 1
    BY MessageUnits, MessageUnbroken
  <1>2. ASSUME NEW d \in Channels
        PROVE  /\ d = c => wire'[d] = w
               /\ d # c => wire'[d] = wire[d]
    BY DEF CallsInv, TypeOK
  <1> HIDE DEF us
  <1>3. Received'
    BY DEF StreamInv, Received, GoodCut
  <1>4. ASSUME NEW d \in Channels PROVE InStep(d)'
    <2>1. HalfRead(d)' = HalfRead(d)
      BY DEF HalfRead
    <2>2. CASE d # c
      BY <2>1, <2>2, <1>2, StaysInStep DEF StreamInv
    <2>3. CASE d = c
      <3>1. /\ inbuf[c] \in Seq(Unit) /\ wire[c] \in Seq(Unit) /\ Unread(c) \in Seq(Unit)
            /\ Len(Unread(c)) \in Nat /\ Len(us) \in Nat
        <4>1. inbuf[c] \in Seq(Unit) /\ wire[c] \in Seq(Unit) /\ Unread(c) \in Seq(Unit)
          BY UnreadType
        <4> QED
          BY <4>1, <1>1
      <3>2. Unread(c)' = Unread(c) \o us
        <4>1. Unread(c)' = inbuf[c] \o w
          BY <1>2 DEF Unread
        <4>2. inbuf[c] \o (wire[c] \o us) = (inbuf[c] \o wire[c]) \o us
          BY <3>1, <1>1, Regrouped
        <4> QED
          BY <4>1, <4>2 DEF Unread
      <3>3. Unbroken(Unread(c) \o us)
        BY <3>1, <1>1, SentUnbroken DEF StreamInv, InStep
      <3>4. /\ Unread(c) # <<>> => (Unread(c) \o us)[1] = Unread(c)[1]
            /\ Unread(c) = <<>> => (Unread(c) \o us)[1] = us[1]
            /\ Unread(c) # <<>> => Unread(c) \o us # <<>>
        <4>1. Len(us) >= 1
          BY <1>1
        <4>2. /\ Unread(c) \o us \in Seq(Unit)
              /\ Len(Unread(c) \o us) = Len(Unread(c)) + Len(us)
              /\ \A i \in 1 .. Len(Unread(c)) + Len(us) :
                    (Unread(c) \o us)[i] = IF i <= Len(Unread(c)) THEN Unread(c)[i]
                                           ELSE us[i - Len(Unread(c))]
          BY <3>1, <1>1, Concat
        <4>3. CASE Unread(c) = <<>>
          <5>1. Unread(c) \o us = us
            BY <4>3, <1>1, ConcatEmptySeq
          <5> QED
            BY <4>3, <5>1
        <4>4. CASE Unread(c) # <<>>
          <5> DEFINE u == Unread(c)
                     v == u \o us
          <5>1. u \in Seq(Unit) /\ u # <<>> /\ v \in Seq(Unit) /\ Len(v) = Len(u) + Len(us)
            BY <4>2, <4>4, <3>1
          <5>4. \A i \in 1 .. Len(u) + Len(us) : v[i] = IF i <= Len(u) THEN u[i] ELSE us[i - Len(u)]
            BY <4>2
          <5> HIDE DEF u, v
          <5>5. Len(u) >= 1
            BY <5>1
          <5>2. Len(v) # 0 /\ v[1] = u[1]
            BY <5>1, <5>4, <5>5, <3>1
          <5>3. v # <<>>
            BY <5>2
          <5> QED
            BY <5>2, <5>3, <4>4 DEF u, v
        <4> QED
          BY <4>3, <4>4
      <3>5. HalfRead(c) => Unread(c) # <<>> /\ Unread(c)[1] = [msg |-> hdr, part |-> 3 + got]
        BY DEF StreamInv, InStep
      <3>6. ~HalfRead(c) /\ Unread(c) # <<>> => Unread(c)[1].part = 1
        BY DEF StreamInv, InStep
      <3> QED
        BY <2>1, <2>3, <3>2, <3>3, <3>4, <3>5, <3>6, <1>1 DEF InStep
    <2> QED
      BY <2>2, <2>3
  <1> QED
    BY <1>3, <1>4 DEF StreamInv

\* A segment arrives: what is unread stays the same.
LEMMA DeliverStream ==
    ASSUME StreamInv, CallsInv, ~torn', NEW c \in Channels, Deliver(c)
    PROVE  StreamInv'
  <1>1. PICK n \in 1 .. Len(wire[c]) :
           /\ torn' = (torn \/ ~GoodCut(wire[c][n]) \/ (parsing /\ hdr.chan # c))
           /\ inbuf' = [inbuf EXCEPT ![c] = @ \o SubSeq(wire[c], 1, n)]
           /\ wire' = [wire EXCEPT ![c] = SubSeq(@, n + 1, Len(@))]
    BY DEF Deliver
  <1>2. /\ hpc = "idle" /\ hpc' = "top" /\ hch' = c
        /\ UNCHANGED <<parsing, hdr, got>>
    BY DEF Deliver, parser
  <1> DEFINE w == wire[c]
             front == SubSeq(w, 1, n)
             rest == SubSeq(w, n + 1, Len(w))
  <1>3. /\ \A d \in Channels : inbuf[d] = <<>>
        /\ ~(parsing /\ hdr.type = "notify")
    BY <1>2 DEF StreamInv, Received
  <1>4. w \in Seq(Unit) /\ n \in 0 .. Len(w) /\ n # 0
    BY DEF CallsInv, TypeOK
  <1> HIDE DEF w
  <1>5. /\ front \in Seq(Unit) /\ Len(front) = n /\ front[n] = w[n] /\ front \o rest = w
    <2>1. n \in 1 .. n
      BY <1>4
    <2>2. /\ SubSeq(w, 1, n) \in Seq(Unit) /\ Len(SubSeq(w, 1, n)) = n
          /\ \A i \in 1 .. n : SubSeq(w, 1, n)[i] = w[i]
      BY <1>4, Parts, Zenon
    <2>3. front \o rest = w
      BY <1>4, CutJoined
    <2> QED
      BY <2>1, <2>2, <2>3
  <1>6. ASSUME NEW d \in Channels
        PROVE  /\ d = c => inbuf'[d] = front /\ wire'[d] = rest
               /\ d # c => inbuf'[d] = inbuf[d] /\ wire'[d] = wire[d]
    <2>1. inbuf[c] \o front = front
      BY <1>3, <1>5, ConcatEmptySeq
    <2> QED
      BY <2>1, <1>1 DEF CallsInv, TypeOK, w
  <1> HIDE DEF front, rest
  <1>7. Received'
    <2>1. ASSUME NEW d \in Channels, inbuf'[d] # <<>>
          PROVE  hpc' # "idle" /\ hch' = d /\ GoodCut(inbuf'[d][Len(inbuf'[d])])
      <3>1. d = c
        BY <2>1, <1>3, <1>6
      <3> QED
        BY <3>1, <1>1, <1>2, <1>5, <1>6 DEF w
    <2> QED
      BY <2>1, <1>2, <1>3 DEF StreamInv, Received, GoodCut
  <1>8. ASSUME NEW d \in Channels PROVE InStep(d)'
    <2>1. HalfRead(d)' = HalfRead(d)
      BY <1>2 DEF HalfRead
    <2>2. Unread(d)' = Unread(d)
      <3>1. CASE d # c
        BY <3>1, <1>6 DEF Unread
      <3>2. CASE d = c
        <4>1. Unread(c) = w
          BY <1>3, UnreadType DEF w
        <4>2. Unread(c)' = front \o rest
          BY <1>6 DEF Unread
        <4> QED
          BY <4>1, <4>2, <3>2, <1>5
      <3> QED
        BY <3>1, <3>2
    <2> QED
      BY <2>1, <2>2, <1>2 DEF StreamInv, InStep
  <1> QED
    BY <1>7, <1>8 DEF StreamInv

\* The channel whose handler runs takes n units; the parser knows then what comes next.
LEMMA TakesStream ==
    ASSUME StreamInv, CallsInv, hpc # "idle", hpc' # "idle", hch' = hch, wire' = wire,
           NEW n \in Nat, n <= Len(inbuf[hch]),
           inbuf' = [inbuf EXCEPT ![hch] = SubSeq(@, n + 1, Len(@))],
           \A d \in Channels \ {hch} : ~HalfRead(d) /\ ~HalfRead(d)',
           HalfRead(hch)' =>
              /\ SubSeq(Unread(hch), n + 1, Len(Unread(hch))) # <<>>
              /\ SubSeq(Unread(hch), n + 1, Len(Unread(hch)))[1]
                   = [msg |-> hdr', part |-> 3 + got'],
           ~HalfRead(hch)' /\ SubSeq(Unread(hch), n + 1, Len(Unread(hch))) # <<>> =>
              SubSeq(Unread(hch), n + 1, Len(Unread(hch)))[1].part = 1
    PROVE  /\ \A d \in Channels : InStep(d)'
           /\ \A d \in Channels : inbuf'[d] # <<>> =>
                 hpc' # "idle" /\ hch' = d /\ GoodCut(inbuf'[d][Len(inbuf'[d])])
  <1> DEFINE u == Unread(hch)
             rest == SubSeq(u, n + 1, Len(u))
             left == SubSeq(inbuf[hch], n + 1, Len(inbuf[hch]))
  <1>1. /\ hch \in Channels /\ inbuf[hch] \in Seq(Unit) /\ wire[hch] \in Seq(Unit)
        /\ u \in Seq(Unit) /\ n \in 0 .. Len(inbuf[hch]) /\ n \in 0 .. Len(u)
    <2>1. hch \in Channels
      BY DEF CallsInv, TypeOK
    <2>2. /\ inbuf[hch] \in Seq(Unit) /\ wire[hch] \in Seq(Unit) /\ u \in Seq(Unit)
          /\ Len(inbuf[hch]) \in Nat /\ Len(u) \in Nat /\ Len(inbuf[hch]) <= Len(u)
      BY <2>1, UnreadType, Zenon
    <2> DEFINE k == Len(inbuf[hch])
               m == Len(u)
    <2>3. k \in Nat /\ m \in Nat /\ k <= m /\ n <= k
      BY <2>2
    <2> HIDE DEF k, m
    <2>4. n \in 0 .. k /\ n \in 0 .. m
      BY <2>3
    <2> QED
      BY <2>1, <2>2, <2>4 DEF k, m
  <1>2. ASSUME NEW d \in Channels
        PROVE  /\ d = hch => inbuf'[d] = left
               /\ d # hch => inbuf'[d] = inbuf[d]
    BY <1>1 DEF CallsInv, TypeOK
  <1>3. ASSUME NEW d \in Channels PROVE InStep(d)'
    <2>1. CASE d # hch
      <3>1. inbuf'[d] = inbuf[d] /\ wire'[d] = wire[d] /\ InStep(d) /\ ~HalfRead(d) /\ ~HalfRead(d)'
        BY <2>1, <1>2 DEF StreamInv
      <3>2. HalfRead(d)' = HalfRead(d)
        BY <3>1 DEF HalfRead
      <3> QED
        BY <3>1, <3>2, StaysInStep
    <2>2. CASE d = hch
      <3>1. Unread(hch)' = rest
        <4>1. Unread(hch)' = left \o wire[hch]
          BY <1>1, <1>2 DEF Unread
        <4>2. SubSeq(inbuf[hch], n + 1, Len(inbuf[hch])) \o wire[hch]
                = SubSeq(inbuf[hch] \o wire[hch], n + 1, Len(inbuf[hch] \o wire[hch]))
          BY <1>1, FrontTaken
        <4> QED
          BY <4>1, <4>2 DEF Unread
      <3>2. Unbroken(rest)
        <4>1. Unbroken(u)
          BY <1>1 DEF StreamInv, InStep
        <4> HIDE DEF u
        <4> QED
          BY <1>1, <4>1, RestUnbroken
      <3> HIDE DEF rest
      <3>3. /\ HalfRead(hch)' => rest # <<>> /\ rest[1] = [msg |-> hdr', part |-> 3 + got']
            /\ ~HalfRead(hch)' /\ rest # <<>> => rest[1].part = 1
        BY DEF rest
      <3> QED
        BY <2>2, <3>1, <3>2, <3>3 DEF InStep
    <2> QED
      BY <2>1, <2>2
  <1>4. ASSUME NEW d \in Channels, inbuf'[d] # <<>>
        PROVE  hpc' # "idle" /\ hch' = d /\ GoodCut(inbuf'[d][Len(inbuf'[d])])
    <2>1. d = hch
      BY <1>2, <1>4 DEF StreamInv, Received
    <2>2. left # <<>> /\ inbuf[hch] # <<>>
      <3>1. left # <<>>
        BY <1>2, <1>4, <2>1
      <3>2. Len(left) = Len(inbuf[hch]) - n /\ left \in Seq(Unit)
        BY <1>1, Parts
      <3> HIDE DEF left
      <3>3. Len(inbuf[hch]) # 0
        BY <1>1, <3>1, <3>2
      <3> QED
        BY <3>1, <3>3
    <2>3. left[Len(left)] = inbuf[hch][Len(inbuf[hch])]
      BY <2>2, <1>1, RestEnds
    <2>4. GoodCut(inbuf[hch][Len(inbuf[hch])])
      BY <2>2, <1>1 DEF StreamInv, Received
    <2> HIDE DEF left
    <2> QED
      BY <2>1, <2>3, <2>4, <1>2
  <1> QED
    BY <1>3, <1>4

\* A header is read, and what it says of the body is what follows.
LEMMA ReadHeaderStream ==
    ASSUME StreamInv, CallsInv, ReadHeader
    PROVE  StreamInv'
  <1>1. /\ hpc = "top" /\ ~parsing /\ hch' = hch /\ hch \in Channels /\ got = 0 /\ got' = 0
        /\ wire' = wire /\ hpc' \in {"top", "exit"}
    BY DEF ReadHeader, CallsInv, ParserOK, TypeOK
  <1> DEFINE s == inbuf[hch]
             u == Unread(hch)
             rest == SubSeq(u, 3, Len(u))
  <1>2. /\ s \in Seq(Unit) /\ Len(s) \in Nat /\ u \in Seq(Unit) /\ Len(s) <= Len(u) /\ Len(u) \in Nat
        /\ \A i \in 1 .. Len(s) : u[i] = s[i]
    BY <1>1, UnreadType, Zenon
  <1>3. CASE Len(s) < 2
    <2>1. UNCHANGED <<inbuf, parsing, hdr>>
      BY <1>3 DEF ReadHeader
    <2>2. Received'
      BY <1>1, <2>1 DEF StreamInv, Received, GoodCut
    <2>3. ASSUME NEW d \in Channels PROVE InStep(d)'
      <3>1. HalfRead(d)' = HalfRead(d) /\ ~HalfRead(d)
        BY <1>1, <2>1 DEF HalfRead
      <3> QED
        BY <3>1, <1>1, <2>1, StaysInStep DEF StreamInv
    <2> QED
      BY <2>2, <2>3 DEF StreamInv
  <1>4. CASE ~(Len(s) < 2)
    <2>1. /\ Head(s).part = 1 /\ hdr' = Head(s).msg /\ parsing' = TRUE /\ hpc' = "top"
          /\ inbuf' = [inbuf EXCEPT ![hch] = SubSeq(@, 3, Len(@))]
      BY <1>1, <1>4 DEF ReadHeader
    <2>2. hdr'.chan = hch
      BY ReadHeaderInv, <1>1, <2>1 DEF CallsInv, ParserOK
    <2>3. /\ Unbroken(u) /\ Len(u) >= 2 /\ Head(s) = s[1] /\ s[1] = u[1] /\ s[2] = u[2]
          /\ u[1].part = 1 /\ hdr' = u[1].msg /\ s # <<>>
      <3>1. Head(s) = s[1] /\ 1 \in 1 .. Len(s) /\ 2 \in 1 .. Len(s) /\ Len(u) >= 2 /\ s # <<>>
        BY <1>2, <1>4
      <3>2. s[1] = u[1] /\ s[2] = u[2]
        BY <3>1, <1>2
      <3>3. Unbroken(u)
        BY <1>1 DEF StreamInv, InStep
      <3> QED
        BY <3>1, <3>2, <3>3, <2>1
    <2>4. /\ Len(u) > 2 /\ hdr'.len = LenOf(hdr'.type) /\ u[2] = [msg |-> hdr', part |-> 2]
          /\ rest # <<>> /\ rest[1] = [msg |-> hdr', part |-> 3]
      <3> HIDE DEF u
      <3> QED
        BY <1>2, <2>3, HeaderRead
    <2>5. \A d \in Channels \ {hch} : ~HalfRead(d) /\ ~HalfRead(d)'
      BY <1>1, <2>2 DEF HalfRead
    <2>6. HalfRead(hch)'
      BY <1>1, <2>1, <2>2 DEF HalfRead
    <2>7. /\ \A d \in Channels : InStep(d)'
          /\ \A d \in Channels : inbuf'[d] # <<>> =>
                hpc' # "idle" /\ hch' = d /\ GoodCut(inbuf'[d][Len(inbuf'[d])])
      <3>1. hpc # "idle" /\ hpc' # "idle" /\ 2 \in Nat /\ 2 <= Len(inbuf[hch]) /\ 2 + 1 = 3
        BY <1>1, <1>2, <1>4, <2>1
      <3>2. 3 + got' = 3
        BY <1>1
      <3>3. inbuf' = [inbuf EXCEPT ![hch] = SubSeq(@, 2 + 1, Len(@))]
        BY <2>1, <3>1
      <3>4. /\ SubSeq(Unread(hch), 2 + 1, Len(Unread(hch))) # <<>>
            /\ SubSeq(Unread(hch), 2 + 1, Len(Unread(hch)))[1] = [msg |-> hdr', part |-> 3 + got']
        BY <2>4, <3>1, <3>2
      <3> HIDE DEF u, s
      <3> QED
        BY <3>1, <3>3, <3>4, <1>1, <2>5, <2>6, TakesStream
    <2>8. hdr'.type = "notify" => inbuf'[hch] # <<>>
      <3> SUFFICES ASSUME hdr'.type = "notify", inbuf'[hch] = <<>> PROVE FALSE
        OBVIOUS
      <3>1. Len(s) = 2
        <4>1. inbuf'[hch] = SubSeq(s, 3, Len(s))
          BY <1>1, <2>1 DEF CallsInv, TypeOK
        <4>2. 2 \in 0 .. Len(s) /\ 2 + 1 = 3
          BY <1>2, <1>4
        <4>3. Len(SubSeq(s, 2 + 1, Len(s))) = Len(s) - 2
          BY <4>2, <1>2, Parts
        <4> HIDE DEF s
        <4>4. Len(s) - 2 = 0
          BY <4>1, <4>2, <4>3
        <4> QED
          BY <4>4, <1>2
      <3>2. GoodCut(u[2])
        BY <3>1, <2>3, <1>1 DEF StreamInv, Received
      <3>3. u[2] \in Unit /\ Sound(u[2]) /\ u[2].msg.type = "notify" /\ u[2].part = 2
        <4>1. 2 \in 1 .. Len(u)
          BY <1>2, <2>4
        <4>2. u[2] \in Unit
          BY <1>2, <4>1, ElementOfSeq, Zenon
        <4>3. Sound(u[2])
          BY <2>3, <4>1 DEF Unbroken
        <4> QED
          BY <4>2, <4>3, <2>4
      <3>4. EndsMessage(u[2]) /\ u[2].msg.len = 1
        BY <3>2, <3>3, CutsInReplies, BodyLengths
      <3> QED
        BY <3>3, <3>4 DEF EndsMessage
    <2>9. Received'
      BY <1>1, <2>1, <2>4, <2>7, <2>8 DEF Received
    <2> QED
      BY <2>7, <2>9 DEF StreamInv
  <1> QED
    BY <1>3, <1>4

\* As much of a reply's body is read as is there.
LEMMA ReadReplyStream ==
    ASSUME StreamInv, CallsInv, ReadReply
    PROVE  StreamInv'
  <1> DEFINE s == inbuf[hch]
             u == Unread(hch)
             avail == Len(s)
             need == hdr.len - got
             n == IF avail < need THEN avail ELSE need
             rest == SubSeq(u, n + 1, Len(u))
  <1>1. /\ hpc = "top" /\ parsing /\ hdr.type # "notify" /\ hch \in Channels
        /\ hdr.chan = hch /\ Expected /\ hdr \in MessageType
    BY DEF ReadReply, CallsInv, ParserOK, Expected, TypeOK
  <1>2. /\ inbuf' = [inbuf EXCEPT ![hch] = SubSeq(@, n + 1, Len(@))]
        /\ got' = BodyRead(n) /\ parsing' = TRUE
        /\ hpc' = IF n = need THEN "callback" ELSE "exit"
        /\ UNCHANGED <<hdr, hch, wire>>
    BY <1>1 DEF ReadReply
  <1>3. /\ s \in Seq(Unit) /\ avail \in Nat /\ u \in Seq(Unit) /\ avail <= Len(u) /\ Len(u) \in Nat
    BY <1>1, UnreadType, Zenon
  <1>4. hdr.len = LenOf(hdr.type) /\ hdr.len \in {1, 2}
    <2>1. hdr.len = LenOf(hdr.type)
      BY <1>1 DEF StreamInv, Received
    <2> QED
      BY <1>1, <2>1 DEF LenOf, MessageType
  <1>5. got \in Nat /\ got < hdr.len
    BY <1>4 DEF CallsInv, ParserOK, TypeOK
  <1>6. Unbroken(u) /\ u # <<>> /\ u[1] = [msg |-> hdr, part |-> 3 + got]
    <2>1. HalfRead(hch)
      BY <1>1 DEF HalfRead
    <2> QED
      BY <2>1, <1>1 DEF StreamInv, InStep
  <1> HIDE DEF s, u
  <1>7. n \in Nat /\ n \in 0 .. hdr.len - got /\ n <= Len(u) /\ n <= avail /\ (n # need => n = avail /\ n < need)
    BY <1>3, <1>4, <1>5
  <1> HIDE DEF n
  <1>8. /\ n < need => rest # <<>> /\ rest[1] = [msg |-> hdr, part |-> 3 + (got + n)]
        /\ n = need /\ rest # <<>> => rest[1].part = 1
    BY <1>1, <1>3, <1>4, <1>5, <1>6, <1>7, ReadOn
  <1>9. \A d \in Channels \ {hch} : ~HalfRead(d) /\ ~HalfRead(d)'
    BY <1>1, <1>2 DEF HalfRead
  <1> HIDE DEF rest
  <1>10. HalfRead(hch)' => rest # <<>> /\ rest[1] = [msg |-> hdr', part |-> 3 + got']
    <2> SUFFICES ASSUME HalfRead(hch)'
                 PROVE  rest # <<>> /\ rest[1] = [msg |-> hdr', part |-> 3 + got']
      OBVIOUS
    <2>1. n # need
      BY <1>2 DEF HalfRead
    <2>2. got' = got + n
      BY <1>2, <2>1 DEF BodyRead
    <2> QED
      BY <2>1, <2>2, <1>2, <1>7, <1>8
  <1>11. ~HalfRead(hch)' /\ rest # <<>> => rest[1].part = 1
    <2> SUFFICES ASSUME ~HalfRead(hch)', rest # <<>> PROVE rest[1].part = 1
      OBVIOUS
    <2>1. n = need
      BY <1>1, <1>2 DEF HalfRead
    <2> QED
      BY <2>1, <1>8
  <1>12. /\ \A d \in Channels : InStep(d)'
         /\ \A d \in Channels : inbuf'[d] # <<>> =>
               hpc' # "idle" /\ hch' = d /\ GoodCut(inbuf'[d][Len(inbuf'[d])])
    <2>1. hpc # "idle" /\ hpc' # "idle"
      BY <1>1, <1>2
    <2>2. n \in Nat /\ n <= Len(inbuf[hch])
      BY <1>7 DEF s
    <2>3. /\ HalfRead(hch)' =>
                /\ SubSeq(Unread(hch), n + 1, Len(Unread(hch))) # <<>>
                /\ SubSeq(Unread(hch), n + 1, Len(Unread(hch)))[1]
                     = [msg |-> hdr', part |-> 3 + got']
          /\ ~HalfRead(hch)' /\ SubSeq(Unread(hch), n + 1, Len(Unread(hch))) # <<>> =>
                SubSeq(Unread(hch), n + 1, Len(Unread(hch)))[1].part = 1
      BY <1>10, <1>11 DEF rest, u
    <2> QED
      BY <2>1, <2>2, <2>3, <1>2, <1>9, TakesStream
  <1>13. hpc' = "exit" => inbuf'[hch] = <<>>
    <2> SUFFICES ASSUME n # need PROVE inbuf'[hch] = <<>>
      BY <1>2
    <2>1. n = Len(s) /\ n + 1 > Len(s)
      BY <1>7, <1>3
    <2>2. inbuf'[hch] = SubSeq(s, n + 1, Len(s))
      BY <1>1, <1>2 DEF CallsInv, TypeOK, s
    <2>3. n \in 0 .. Len(s)
      BY <1>7, <2>1
    <2>4. SubSeq(s, n + 1, Len(s)) \in Seq(Unit) /\ Len(SubSeq(s, n + 1, Len(s))) = Len(s) - n
      BY <1>3, <2>3, Parts
    <2> QED
      BY <2>1, <2>2, <2>4, <1>3
  <1>14. Received'
    BY <1>1, <1>2, <1>4, <1>12, <1>13 DEF Received
  <1> QED
    BY <1>12, <1>14 DEF StreamInv

\* A notification came whole, and is taken whole.
LEMMA ReadNotifyStream ==
    ASSUME StreamInv, CallsInv, ReadNotify
    PROVE  StreamInv'
  <1> DEFINE u == Unread(hch)
             rest == SubSeq(u, 1 + 1, Len(u))
  <1>1. /\ hpc = "top" /\ parsing /\ hdr.type = "notify" /\ hch \in Channels /\ hdr.chan = hch
        /\ hdr \in MessageType /\ got = 0
        /\ parsing' = FALSE /\ hpc' = "exit" /\ UNCHANGED <<hdr, got, hch, wire>>
        /\ inbuf' = [inbuf EXCEPT ![hch] = SubSeq(@, hdr.len + 1, Len(@))]
    BY DEF ReadNotify, CallsInv, ParserOK, TypeOK
  <1>2. hdr.len = LenOf(hdr.type) /\ hdr.len = 1 /\ inbuf[hch] # <<>>
    <2>1. hdr.len = LenOf(hdr.type) /\ inbuf[hch] # <<>>
      BY <1>1 DEF StreamInv, Received
    <2> QED
      BY <1>1, <2>1 DEF LenOf
  <1>3. /\ inbuf[hch] \in Seq(Unit) /\ Len(inbuf[hch]) \in Nat /\ u \in Seq(Unit)
        /\ Len(u) \in Nat /\ Len(inbuf[hch]) <= Len(u)
    BY <1>1, UnreadType, Zenon
  <1>4. Unbroken(u) /\ u # <<>> /\ u[1] = [msg |-> hdr, part |-> 3 + got]
    <2>1. HalfRead(hch)
      BY <1>1 DEF HalfRead
    <2> QED
      BY <2>1, <1>1 DEF StreamInv, InStep
  <1>5. 1 <= Len(inbuf[hch]) /\ 1 <= Len(u)
    <2>1. Len(inbuf[hch]) # 0
      BY <1>2, <1>3
    <2> QED
      BY <2>1, <1>3
  <1> HIDE DEF u
  <1>6. rest # <<>> => rest[1].part = 1
    <2>1. got \in Nat /\ got < hdr.len /\ 1 \in 0 .. hdr.len - got /\ 1 = hdr.len - got
      BY <1>1, <1>2
    <2> QED
      BY <1>1, <1>2, <1>3, <1>4, <1>5, <2>1, ReadOn
  <1>7. \A d \in Channels : (d # hch => ~HalfRead(d)) /\ ~HalfRead(d)'
    BY <1>1 DEF HalfRead
  <1>8. /\ \A d \in Channels : InStep(d)'
        /\ \A d \in Channels : inbuf'[d] # <<>> =>
              hpc' # "idle" /\ hch' = d /\ GoodCut(inbuf'[d][Len(inbuf'[d])])
    <2>1. hpc # "idle" /\ hpc' # "idle" /\ 1 \in Nat
      BY <1>1
    <2>2. SubSeq(Unread(hch), 1 + 1, Len(Unread(hch))) # <<>> =>
             SubSeq(Unread(hch), 1 + 1, Len(Unread(hch)))[1].part = 1
      BY <1>6 DEF u
    <2>3. inbuf' = [inbuf EXCEPT ![hch] = SubSeq(@, 1 + 1, Len(@))]
      BY <1>1, <1>2
    <2>4. \A d \in Channels \ {hch} : ~HalfRead(d) /\ ~HalfRead(d)'
      BY <1>7
    <2>5. ~HalfRead(hch)'
      BY <1>1, <1>7
    <2> QED
      BY <2>1, <2>2, <2>3, <2>4, <2>5, <1>1, <1>5, TakesStream
  <1>9. Received'
    BY <1>1, <1>8 DEF Received
  <1> QED
    BY <1>8, <1>9 DEF StreamInv

\* Less than a header is thrown away at the exit: there is nothing, then.
LEMMA ExitStream ==
    ASSUME StreamInv, CallsInv, Exit
    PROVE  StreamInv'
  <1>1. /\ hpc = "exit" /\ hch' = hch /\ hch \in Channels /\ wire' = wire
        /\ UNCHANGED <<parsing, hdr, got>>
        /\ inbuf[hch] \in Seq(Unit) /\ Len(inbuf[hch]) \in Nat
    <2>1. inbuf[hch] \in Seq(Unit) /\ hch \in Channels
      BY DEF CallsInv, TypeOK
    <2> QED
      BY <2>1 DEF Exit, parser
  <1>2. inbuf' = inbuf /\ (hpc' = "idle" => inbuf[hch] = <<>>) /\ hpc' \in {"top", "idle"}
    <2>1. CASE Len(inbuf[hch]) >= 2
      BY <2>1 DEF Exit
    <2>2. CASE ~(Len(inbuf[hch]) >= 2)
      <3>1. inbuf[hch] = <<>>
        <4> SUFFICES ASSUME inbuf[hch] # <<>> PROVE FALSE
          OBVIOUS
        <4>1. Len(inbuf[hch]) = 1
          <5> DEFINE s == inbuf[hch]
          <5>1. s \in Seq(Unit) /\ s # <<>> /\ Len(s) \in Nat /\ ~(Len(s) >= 2)
            BY <1>1, <2>2
          <5> HIDE DEF s
          <5>2. Len(s) # 0
            BY <5>1
          <5>3. Len(s) = 1
            <6> SUFFICES ASSUME NEW n \in Nat, n # 0, ~(n >= 2) PROVE n = 1
              BY <5>1, <5>2
            <6> QED
              OBVIOUS
          <5> QED
            BY <5>3 DEF s
        <4>2. ~parsing
          BY <1>1 DEF StreamInv, Received
        <4>3. GoodCut(inbuf[hch][1])
          BY <1>1, <4>1 DEF StreamInv, Received
        <4>4. /\ Unread(hch)[1] = inbuf[hch][1] /\ Len(Unread(hch)) >= 1
              /\ Unread(hch) \in Seq(Unit)
          <5>1. /\ \A i \in 1 .. Len(inbuf[hch]) : Unread(hch)[i] = inbuf[hch][i]
                /\ Len(inbuf[hch]) <= Len(Unread(hch)) /\ Unread(hch) \in Seq(Unit)
                /\ Len(Unread(hch)) \in Nat
            BY <1>1, UnreadType, Zenon
          <5> QED
            BY <5>1, <4>1
        <4>5. Unread(hch)[1].part = 1 /\ Sound(Unread(hch)[1]) /\ Unread(hch)[1] \in Unit
          <5>1. Unread(hch) # <<>> /\ 1 \in 1 .. Len(Unread(hch))
            BY <4>4
          <5>2. ~HalfRead(hch)
            BY <4>2 DEF HalfRead
          <5>3. InStep(hch)
            BY <1>1 DEF StreamInv
          <5>4. Unread(hch)[1].part = 1 /\ Sound(Unread(hch)[1])
            BY <5>1, <5>2, <5>3 DEF InStep, Unbroken
          <5>5. Unread(hch)[1] \in Unit
            BY <5>1, <4>4, ElementOfSeq, Zenon
          <5> QED
            BY <5>4, <5>5
        <4> QED
          BY <4>3, <4>4, <4>5, CutsInReplies
      <3>2. hpc' = "idle" /\ inbuf' = [inbuf EXCEPT ![hch] = <<>>]
        BY <2>2 DEF Exit
      <3>3. inbuf' = inbuf
        BY <3>1, <3>2 DEF CallsInv, TypeOK
      <3> QED
        BY <3>1, <3>2, <3>3
    <2> QED
      BY <2>1, <2>2
  <1>3. Received'
    <2>1. ~(parsing /\ hdr.type = "notify")
      BY <1>1 DEF StreamInv, Received
    <2>2. ASSUME NEW d \in Channels, inbuf'[d] # <<>>
          PROVE  hpc' # "idle" /\ hch' = d /\ GoodCut(inbuf'[d][Len(inbuf'[d])])
      BY <1>1, <1>2, <2>2 DEF StreamInv, Received
    <2> QED
      BY <1>1, <1>2, <2>1, <2>2 DEF StreamInv, Received
  <1>4. ASSUME NEW d \in Channels PROVE InStep(d)'
    <2>1. HalfRead(d)' = HalfRead(d)
      BY <1>1, <1>2 DEF HalfRead
    <2> QED
      BY <2>1, <1>1, <1>2, StaysInStep DEF StreamInv
  <1> QED
    BY <1>3, <1>4 DEF StreamInv

\* The server's reply, of whatever type.
LEMMA ServeStream ==
    ASSUME StreamInv, CallsInv, NEW c \in Channels, Serve(c)
    PROVE  StreamInv'
  <1>1. Head(request[c]) \in Call
    <2>1. request[c] \in Seq(Call) /\ request[c] # <<>>
      BY DEF CallsInv, TypeOK, Serve
    <2> QED
      BY <2>1
  <1> DEFINE call == Head(request[c])
  <1> HIDE DEF call
  <1>2. PICK t \in {"response", "blob", "error", "notify"}, ok \in BOOLEAN :
           wire' = [wire EXCEPT ![c] = @ \o Units(Message(t, c, call, ok))]
    BY DEF Serve, call
  <1>3. UNCHANGED <<inbuf, parsing, hdr, got, hpc, hch>>
    BY DEF Serve, parser, handler
  <1> QED
    BY <1>1, <1>2, <1>3, SendsStream DEF call

\* Every step keeps the parser in step with the stream.
LEMMA NextStream ==
    ASSUME CallsInv, StreamInv, ~torn', [Next]_vars
    PROVE  StreamInv'
  <1>1. ASSUME NEW c \in Channels, Connected(c) PROVE StreamInv'
    BY <1>1, CallsStream DEF Connected, parser, handler
  <1>2. ASSUME NEW c \in Channels, NEW k \in Kinds, Issue(c, k) PROVE StreamInv'
    BY <1>2, CallsStream DEF Issue, parser, handler
  <1>3. ASSUME NEW c \in Channels, Disconnected(c) PROVE StreamInv'
    BY <1>3, DisconnectedStream
  <1>4. ASSUME NEW c \in Channels, Deliver(c) PROVE StreamInv'
    BY <1>4, DeliverStream
  <1>5. ASSUME NEW c \in Channels, Serve(c) PROVE StreamInv'
    BY <1>5, ServeStream
  <1>6. ASSUME NEW c \in Channels, SendNotification(c) PROVE StreamInv'
    <2>1. /\ wire' = [wire EXCEPT ![c] = @ \o Units(Message("notify", c, NoCall, TRUE))]
          /\ UNCHANGED <<inbuf, parsing, hdr, got, hpc, hch>>
      BY <1>6 DEF SendNotification, parser, handler
    <2>2. NoCall \in Call \cup {NoCall} /\ TRUE \in BOOLEAN
          /\ "notify" \in {"response", "blob", "error", "notify"}
      OBVIOUS
    <2> QED
      BY <2>1, <2>2, SendsStream
  <1>7. CASE CallbackEnds
    BY <1>7, CallsStream DEF CallbackEnds
  <1>8. CASE ReadHeader \/ ReadReply \/ ReadNotify \/ Exit
    BY <1>8, ReadHeaderStream, ReadReplyStream, ReadNotifyStream, ExitStream
  <1>9. CASE UNCHANGED vars
    BY <1>9, CallsStream DEF vars, parser, handler
  <1> QED
    BY <1>1, <1>2, <1>3, <1>4, <1>5, <1>6, <1>7, <1>8, <1>9 DEF Next, ReadyRead

\* on_mpSocket_readyRead() takes each unit for what it is, however TCP cuts and interleaves,
\* until a segment ends inside a header or a notification, or another channel's bytes or a
\* disconnect come inside a half-read message: nothing else takes the parser out of step.
THEOREM StreamAlignedHolds == Spec => []StreamAligned
  <1> DEFINE SInv == ~torn => CallsInv /\ StreamInv
  <1>1. Init => SInv
    BY InitInv, InitStream
  <1>2. SInv /\ [Next]_vars => SInv'
    BY CallsStep, NextStream, TornStays
  <1>3. SInv => StreamAligned
    <2> SUFFICES ASSUME CallsInv, StreamInv, hpc = "idle", NEW c \in Channels, wire[c] # <<>>
                 PROVE  IF parsing /\ hdr.chan = c
                        THEN Head(wire[c]) = [msg |-> hdr, part |-> 3 + got]
                        ELSE Head(wire[c]).part = 1
      BY DEF StreamAligned
    <2>1. inbuf[c] = <<>>
      BY DEF StreamInv, Received
    <2>2. Unread(c) = wire[c] /\ Head(wire[c]) = wire[c][1]
      <3> DEFINE w == wire[c]
      <3>1. w \in Seq(Unit) /\ w # <<>>
        BY DEF CallsInv, TypeOK
      <3>2. Unread(c) = <<>> \o w
        BY <2>1 DEF Unread
      <3> HIDE DEF w
      <3>3. <<>> \o w = w /\ Head(w) = w[1]
        BY <3>1
      <3> QED
        BY <3>2, <3>3 DEF w
    <2>3. InStep(c)
      BY DEF StreamInv
    <2> QED
      BY <2>2, <2>3 DEF InStep, HalfRead
  <1> QED
    BY <1>1, <1>2, <1>3, PTL DEF Spec
=============================================================================
