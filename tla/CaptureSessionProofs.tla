------------------------- MODULE CaptureSessionProofs -------------------------
(***************************************************************************)
(* Proofs about CaptureSession, for any clients, requests and bounds.        *)
(***************************************************************************)
EXTENDS CaptureSession, FiniteSetTheorems, TLAPS

USE DEF Goto

\* The invariant holds before any request is made.
LEMMA InitInv == Init => IInv
<1> SUFFICES ASSUME Init PROVE IInv
    OBVIOUS
<1>1. ControlOK
    BY DEF Init, ControlOK, Locked
<1>2. ContentOK
    <2>1. NoReply \in [len : Nat, body : Seq(Nat)]
        BY DEF NoReply
    <2> QED
        BY <2>1 DEF Init, ContentOK
<1>3. LockHeld
    BY DEF Init, LockHeld, Locked
<1>4. Handshake /\ Signalling
    BY DEF Init, Handshake, Signalling, Someone, Opening, Looping, Gone
<1> QED
    BY <1>1, <1>2, <1>3, <1>4 DEF IInv, TypeOK

\* Every step keeps the types of what controls the clients and the worker.
LEMMA NextControl == ControlOK /\ [Next]_vars => ControlOK'
<1> SUFFICES ASSUME ControlOK, [Next]_vars PROVE ControlOK'
    OBVIOUS
<1> USE DEF ControlOK, Locked
<1>1. ASSUME NEW c \in Clients, Request(c) PROVE ControlOK'
    <2>1. Ops[c] \subseteq {"start", "stop", "fetch"}
        BY CaptureAssumption
    <2> QED
        BY <1>1, <2>1 DEF Request, thread
<1>2. ASSUME NEW c \in Clients, LockForWrite(c) \/ Unlock(c)
      PROVE  ControlOK'
    <2>1. CASE LockForWrite(c)
        BY <2>1 DEF LockForWrite, thread
    <2>2. CASE Unlock(c)
        BY <2>2 DEF Unlock, thread
    <2> QED
        BY <1>2, <2>1, <2>2
<1>3. ASSUME NEW c \in Clients, Start(c) \/ QThreadStart(c) \/ StartReturn(c)
      PROVE  ControlOK'
    <2>1. CASE Start(c)
        BY <2>1 DEF Start, thread
    <2>2. CASE QThreadStart(c)
        BY <2>2 DEF QThreadStart, thread
    <2>3. CASE StartReturn(c)
        BY <2>3 DEF StartReturn, thread
    <2> QED
        BY <1>3, <2>1, <2>2, <2>3
<1>4. ASSUME NEW c \in Clients, Stop(c) \/ StopSet(c) \/ Break(c) \/ Kill(c) \/ StopReturn(c)
      PROVE  ControlOK'
    <2>1. CASE Stop(c)
        BY <2>1 DEF Stop, thread
    <2>2. CASE StopSet(c)
        BY <2>2 DEF StopSet, thread
    <2>3. CASE Break(c)
        BY <2>3 DEF Break, thread
    <2>4. CASE Kill(c)
        BY <2>4 DEF Kill, thread
    <2>5. CASE StopReturn(c)
        BY <2>5 DEF StopReturn, thread
    <2> QED
        BY <1>4, <2>1, <2>2, <2>3, <2>4, <2>5
<1>5. ASSUME NEW c \in Clients, SendBlobHeader(c) \/ SendBlob(c) \/ Sent(c)
      PROVE  ControlOK'
    <2>1. CASE SendBlobHeader(c)
        BY <2>1 DEF SendBlobHeader, thread
    <2>2. CASE SendBlob(c)
        BY <2>2 DEF SendBlob, thread
    <2>3. CASE Sent(c)
        BY <2>3 DEF Sent, thread
    <2> QED
        BY <1>5, <2>1, <2>2, <2>3
<1>6. CASE WorkerStep
    <2>1. CASE RunOpen
        BY <2>1 DEF RunOpen
    <2>2. CASE PreRun
        BY <2>2 DEF PreRun
    <2>3. CASE SetRunning
        BY <2>3 DEF SetRunning
    <2>4. CASE NextPacket
        BY <2>4 DEF NextPacket
    <2>5. CASE CheckStop
        BY <2>5 DEF CheckStop
    <2>6. CASE PostRun
        BY <2>6 DEF PostRun
    <2>7. CASE RunClose
        BY <2>7 DEF RunClose
    <2>8. CASE RunFinish
        BY <2>8 DEF RunFinish
    <2>9. CASE QFinishBegin
        BY <2>9 DEF QFinishBegin
    <2>10. CASE QFinishEnd
        BY <2>10 DEF QFinishEnd
    <2> QED
        BY <1>6, <2>1, <2>2, <2>3, <2>4, <2>5, <2>6, <2>7, <2>8, <2>9, <2>10 DEF WorkerStep
<1>7. CASE SignalBreakHandler
    BY <1>7 DEF SignalBreakHandler
<1>8. CASE UNCHANGED vars
    BY <1>8 DEF vars, thread
<1> QED
    BY <1>1, <1>2, <1>3, <1>4, <1>5, <1>6, <1>7, <1>8 DEF Next, ClientStep

\* Every step keeps the types of the file and the replies.
LEMMA NextContent == ContentOK /\ [Next]_vars => ContentOK'
<1> SUFFICES ASSUME ContentOK, [Next]_vars PROVE ContentOK'
    OBVIOUS
<1> USE DEF ContentOK
<1>1. ASSUME NEW c \in Clients, Request(c) PROVE ContentOK'
    <2>1. NoReply \in [len : Nat, body : Seq(Nat)]
        BY DEF NoReply
    <2> QED
        BY <1>1, <2>1 DEF Request
<1>2. ASSUME NEW c \in Clients, SendBlobHeader(c) PROVE ContentOK'
    <2>1. [len |-> file.len, body |-> <<>>] \in [len : Nat, body : Seq(Nat)]
        OBVIOUS
    <2> QED
        BY <1>2, <2>1 DEF SendBlobHeader
<1>3. ASSUME NEW c \in Clients, SendBlob(c) PROVE ContentOK'
    <2>1. CASE pos < file.len
        <3> DEFINE r == [len |-> reply[c].len, body |-> Append(reply[c].body, file.capture)]
        <3>1. reply' = [reply EXCEPT ![c] = r]
            BY <1>3, <2>1 DEF SendBlob
        <3>2. r \in [len : Nat, body : Seq(Nat)]
            OBVIOUS
        <3> HIDE DEF r
        <3> QED
            BY <1>3, <2>1, <3>1, <3>2 DEF SendBlob
    <2>2. CASE ~(pos < file.len)
        BY <1>3, <2>2 DEF SendBlob
    <2> QED
        BY <2>1, <2>2
<1>4. ASSUME NEW c \in Clients,
             \/ LockForWrite(c) \/ Unlock(c) \/ Start(c) \/ QThreadStart(c) \/ StartReturn(c)
             \/ Stop(c) \/ StopSet(c) \/ Break(c) \/ Kill(c) \/ StopReturn(c) \/ Sent(c)
      PROVE ContentOK'
    BY <1>4 DEF LockForWrite, Unlock, Start, QThreadStart, StartReturn, Stop, StopSet, Break,
                Kill, StopReturn, Sent, content
<1>5. CASE RunOpen
    BY <1>5 DEF RunOpen
<1>6. CASE NextPacket
    BY <1>6 DEF NextPacket
<1>7. CASE \/ PreRun \/ SetRunning \/ CheckStop \/ PostRun \/ SignalBreakHandler
           \/ RunClose \/ RunFinish \/ QFinishBegin \/ QFinishEnd
    BY <1>7 DEF PreRun, SetRunning, CheckStop, PostRun, SignalBreakHandler,
                RunClose, RunFinish, QFinishBegin, QFinishEnd, content
<1>8. CASE UNCHANGED vars
    BY <1>8 DEF vars, content
<1> QED
    BY <1>1, <1>2, <1>3, <1>4, <1>5, <1>6, <1>7, <1>8 DEF Next, ClientStep, WorkerStep

\* Every step keeps the lock with the client inside its critical section.
LEMMA NextLock == ControlOK /\ LockHeld /\ [Next]_vars => LockHeld'
<1> SUFFICES ASSUME ControlOK, LockHeld, [Next]_vars PROVE LockHeld'
    OBVIOUS
<1> USE DEF ControlOK, LockHeld, Locked
<1>1. ASSUME NEW c \in Clients, Request(c) PROVE LockHeld'
    BY <1>1 DEF Request
<1>2. ASSUME NEW c \in Clients, LockForWrite(c) PROVE LockHeld'
    BY <1>2 DEF LockForWrite
<1>3. ASSUME NEW c \in Clients, Unlock(c) PROVE LockHeld'
    BY <1>3 DEF Unlock
<1>4. ASSUME NEW c \in Clients, Start(c) \/ QThreadStart(c) \/ StartReturn(c)
      PROVE  LockHeld'
    <2>1. CASE Start(c)
        BY <2>1 DEF Start
    <2>2. CASE QThreadStart(c)
        BY <2>2 DEF QThreadStart
    <2>3. CASE StartReturn(c)
        BY <2>3 DEF StartReturn
    <2> QED
        BY <1>4, <2>1, <2>2, <2>3
<1>5. ASSUME NEW c \in Clients, Stop(c) \/ StopSet(c) \/ Break(c) \/ Kill(c) \/ StopReturn(c)
      PROVE  LockHeld'
    <2>1. CASE Stop(c)
        BY <2>1 DEF Stop
    <2>2. CASE StopSet(c)
        BY <2>2 DEF StopSet
    <2>3. CASE Break(c)
        BY <2>3 DEF Break
    <2>4. CASE Kill(c)
        BY <2>4 DEF Kill
    <2>5. CASE StopReturn(c)
        BY <2>5 DEF StopReturn
    <2> QED
        BY <1>5, <2>1, <2>2, <2>3, <2>4, <2>5
<1>6. ASSUME NEW c \in Clients, SendBlobHeader(c) \/ SendBlob(c) \/ Sent(c)
      PROVE  LockHeld'
    <2>1. CASE SendBlobHeader(c)
        BY <2>1 DEF SendBlobHeader
    <2>2. CASE SendBlob(c)
        BY <2>2 DEF SendBlob
    <2>3. CASE Sent(c)
        BY <2>3 DEF Sent
    <2> QED
        BY <1>6, <2>1, <2>2, <2>3
<1>7. ASSUME WorkerStep \/ SignalBreakHandler PROVE LockHeld'
    BY <1>7 DEF WorkerStep, SignalBreakHandler, RunOpen, PreRun, SetRunning, NextPacket,
                CheckStop, PostRun, RunClose, RunFinish, QFinishBegin, QFinishEnd
<1>8. CASE UNCHANGED vars
    BY <1>8 DEF vars
<1> QED
    BY <1>1, <1>2, <1>3, <1>4, <1>5, <1>6, <1>7, <1>8 DEF Next, ClientStep

\* Two clients are never in the critical section together: what the handshake of
\* one client with the worker needs.
LEMMA OneInside ==
    ASSUME LockHeld, NEW c \in Clients, NEW d \in Clients,
           cpc[c] \in Locked, cpc[d] \in Locked
    PROVE  c = d
BY DEF LockHeld

\* Every step keeps the handshake over state_ and that over the signal.  Neither is
\* inductive alone: the worker closes its handle only for a client that waits.
LEMMA NextHandshake == IInv /\ [Next]_vars => Handshake' /\ Signalling'
<1> SUFFICES ASSUME IInv, [Next]_vars PROVE Handshake' /\ Signalling'
    OBVIOUS
<1> USE DEF IInv, TypeOK, ControlOK, Handshake, Signalling, Someone, Opening, Looping, Gone
<1>1. ASSUME NEW c \in Clients, Request(c) PROVE Handshake' /\ Signalling'
    BY <1>1 DEF Request, thread
<1>2. ASSUME NEW c \in Clients, LockForWrite(c) \/ Unlock(c)
      PROVE  Handshake' /\ Signalling'
    <2>1. CASE LockForWrite(c)
        BY <2>1 DEF LockForWrite, thread
    <2>2. CASE Unlock(c)
        BY <2>2 DEF Unlock, thread
    <2> QED
        BY <1>2, <2>1, <2>2
<1>3. ASSUME NEW c \in Clients, Start(c) PROVE Handshake' /\ Signalling'
    BY <1>3, OneInside DEF Start, Locked
<1>4. ASSUME NEW c \in Clients, QThreadStart(c) PROVE Handshake' /\ Signalling'
    BY <1>4, OneInside DEF QThreadStart, Locked
<1>5. ASSUME NEW c \in Clients, StartReturn(c) PROVE Handshake' /\ Signalling'
    BY <1>5, OneInside DEF StartReturn, thread, Locked
<1>6. ASSUME NEW c \in Clients, Stop(c) PROVE Handshake' /\ Signalling'
    BY <1>6, OneInside DEF Stop, thread, Locked
<1>7. ASSUME NEW c \in Clients, StopSet(c) \/ Break(c) \/ Kill(c)
      PROVE  Handshake' /\ Signalling'
    <2>1. CASE StopSet(c)
        BY <2>1, OneInside DEF StopSet, thread, Locked
    <2>2. CASE Break(c)
        BY <2>2, OneInside DEF Break, thread, Locked
    <2>3. CASE Kill(c)
        BY <2>3, OneInside DEF Kill, thread, Locked
    <2> QED
        BY <1>7, <2>1, <2>2, <2>3
<1>8. ASSUME NEW c \in Clients, StopReturn(c) PROVE Handshake' /\ Signalling'
    BY <1>8, OneInside DEF StopReturn, thread, Locked
<1>9. ASSUME NEW c \in Clients, SendBlobHeader(c) \/ SendBlob(c) \/ Sent(c)
      PROVE  Handshake' /\ Signalling'
    <2>1. CASE SendBlobHeader(c)
        BY <2>1 DEF SendBlobHeader, thread
    <2>2. CASE SendBlob(c)
        BY <2>2 DEF SendBlob, thread
    <2>3. CASE Sent(c)
        BY <2>3 DEF Sent, thread
    <2> QED
        BY <1>9, <2>1, <2>2, <2>3
<1>10. CASE RunOpen \/ PreRun \/ SetRunning
    <2>1. CASE RunOpen
        BY <2>1, OneInside DEF RunOpen, Locked
    <2>2. CASE PreRun
        BY <2>2, OneInside DEF PreRun, Locked
    <2>3. CASE SetRunning
        BY <2>3, OneInside DEF SetRunning, Locked
    <2> QED
        BY <1>10, <2>1, <2>2, <2>3
<1>11. CASE NextPacket \/ CheckStop \/ SignalBreakHandler
    <2>1. CASE NextPacket
        BY <2>1 DEF NextPacket
    <2>2. CASE CheckStop
        BY <2>2 DEF CheckStop
    <2>3. CASE SignalBreakHandler
        BY <2>3 DEF SignalBreakHandler
    <2> QED
        BY <1>11, <2>1, <2>2, <2>3
<1>12. CASE PostRun
    BY <1>12, OneInside DEF PostRun, Locked
<1>13. CASE RunClose \/ RunFinish \/ QFinishBegin \/ QFinishEnd
    <2>1. CASE RunClose
        BY <2>1, OneInside DEF RunClose, Locked
    <2>2. CASE RunFinish
        BY <2>2, OneInside DEF RunFinish, Locked
    <2>3. CASE QFinishBegin
        BY <2>3, OneInside DEF QFinishBegin, Locked
    <2>4. CASE QFinishEnd
        BY <2>4, OneInside DEF QFinishEnd, Locked
    <2> QED
        BY <1>13, <2>1, <2>2, <2>3, <2>4
<1>14. CASE UNCHANGED vars
    BY <1>14 DEF vars, thread
<1> QED
    BY <1>1, <1>2, <1>3, <1>4, <1>5, <1>6, <1>7, <1>8, <1>9, <1>10, <1>11, <1>12, <1>13, <1>14
       DEF Next, ClientStep, WorkerStep

\* The inductive invariant holds for every set of clients and every mix of requests.
THEOREM InductiveInvariant == Spec => []IInv
<1>1. IInv /\ [Next]_vars => IInv'
    BY NextControl, NextContent, NextLock, NextHandshake DEF IInv, TypeOK
<1> QED
    BY InitInv, <1>1, PTL DEF Spec

\* The handle pcap_breakloop gets is open, and the thread pthread_kill gets has its
\* handler: postRun()'s wait for the signal is what makes it so.
THEOREM StopUsesLiveSessionHolds == Spec => []StopUsesLiveSession
<1>1. IInv => StopUsesLiveSession
    BY DEF IInv, Signalling, StopUsesLiveSession, Looping
<1> QED
    BY InductiveInvariant, <1>1, PTL

\* A capture never starts with a stop request left from an earlier one, which the
\* transmit thread, without such a wait, does not guarantee.
THEOREM StopFlagFreshHolds == Spec => []StopFlagFresh
<1>1. IInv => StopFlagFresh
    BY DEF IInv, Signalling, StopFlagFresh, Opening, Looping
<1> QED
    BY InductiveInvariant, <1>1, PTL

-----------------------------------------------------------------------------
(* The capture a client fetches, when the others only stop captures.         *)

OnlyFetcher(f) == f \in Clients /\ \A c \in Clients \ {f} : Ops[c] \subseteq {"stop"}

\* Nobody but f starts the worker, so that it stays gone while f copies.
LEMMA WorkerStays ==
    ASSUME NEW f, OnlyFetcher(f), IInv, FetchAlone(f),
           wpc \in Gone, wpc' \notin Gone, [Next]_vars
    PROVE  QThreadStart(f)
<1>1. PICK c \in Clients : QThreadStart(c)
    BY DEF Next, ClientStep, WorkerStep, Request, LockForWrite, Unlock, Start,
           StartReturn, Stop, StopSet, Break, Kill, StopReturn, SendBlobHeader, SendBlob, Sent,
           RunOpen, PreRun, SetRunning, NextPacket, CheckStop, PostRun, RunClose, RunFinish,
           QFinishBegin, QFinishEnd, SignalBreakHandler, vars, thread, Gone
<1>2. cpc[c] = "qstart"
    BY <1>1 DEF QThreadStart
<1> QED
    BY <1>1, <1>2 DEF FetchAlone

\* What the others may do: ask for a stop, and wait for it.
LEMMA OthersOnlyStop ==
    ASSUME NEW f, OnlyFetcher(f), IInv, FetchAlone(f), [Next]_vars, NEW d \in Clients \ {f}
    PROVE  /\ op'[d] = "stop"
           /\ cpc'[d] \notin {"qstart", "startWait", "size", "copy", "sent"}
<1> USE DEF IInv, TypeOK, ControlOK
<1>1. op[d] = "stop" /\ cpc[d] \notin {"qstart", "startWait", "size", "copy", "sent"}
    BY DEF FetchAlone
<1>2. ASSUME NEW c \in Clients, Request(c) PROVE op'[d] = "stop" /\ cpc'[d] \in {cpc[d], "lock"}
    <2>1. Ops[d] \subseteq {"stop"}
        BY DEF OnlyFetcher
    <2> QED
        BY <1>1, <1>2, <2>1 DEF Request
<1>3. ASSUME NEW c \in Clients, ClientStep(c)
      PROVE  op' = op /\ cpc'[d] \notin {"qstart", "startWait", "size", "copy", "sent"}
    <2>1. CASE LockForWrite(c) \/ Unlock(c)
        BY <1>1, <2>1 DEF LockForWrite, Unlock
    <2>2. CASE Start(c) \/ QThreadStart(c) \/ StartReturn(c)
        BY <1>1, <2>2 DEF Start, QThreadStart, StartReturn
    <2>3. CASE Stop(c) \/ StopSet(c) \/ Break(c) \/ Kill(c) \/ StopReturn(c)
        BY <1>1, <2>3 DEF Stop, StopSet, Break, Kill, StopReturn
    <2>4. CASE SendBlobHeader(c) \/ SendBlob(c) \/ Sent(c)
        BY <1>1, <2>4 DEF SendBlobHeader, SendBlob, Sent
    <2> QED
        BY <1>3, <2>1, <2>2, <2>3, <2>4 DEF ClientStep
<1>4. CASE WorkerStep \/ SignalBreakHandler
    BY <1>1, <1>4 DEF WorkerStep, SignalBreakHandler, RunOpen, PreRun, SetRunning, NextPacket,
                CheckStop, PostRun, RunClose, RunFinish, QFinishBegin, QFinishEnd
<1>5. CASE UNCHANGED vars
    BY <1>1, <1>5 DEF vars
<1> QED
    BY <1>1, <1>2, <1>3, <1>4, <1>5 DEF Next

\* When f goes to copy, the worker is gone: f has stopped it, and nobody else starts it.
LEMMA GoneWhenCopying ==
    ASSUME NEW f, OnlyFetcher(f), IInv, FetchAlone(f), [Next]_vars,
           (cpc'[f] = "unlock" /\ op'[f] = "fetch") \/ cpc'[f] \in {"size", "copy", "sent"}
    PROVE  wpc' \in Gone
<1> USE DEF IInv, TypeOK, ControlOK
<1>1. f \in Clients
    BY DEF OnlyFetcher
<1>2. ASSUME cpc[f] \in {"test", "stopWait"}, state_ # "kRunning" PROVE wpc \in Gone
    <2>1. ~ Someone({"startWait"})
        BY <1>1, <1>2 DEF FetchAlone, Someone
    <2> QED
        BY <1>2, <2>1 DEF Handshake, Opening, Looping, Gone
<1>3. wpc \in Gone
    <2>1. CASE (cpc[f] = "unlock" /\ op[f] = "fetch") \/ cpc[f] \in {"size", "copy", "sent"}
        BY <2>1 DEF FetchAlone
    <2>2. CASE ~ ((cpc[f] = "unlock" /\ op[f] = "fetch") \/ cpc[f] \in {"size", "copy", "sent"})
        <3>1. ASSUME NEW c \in Clients, Request(c) \/ ClientStep(c)
              PROVE  (Stop(f) /\ state_ # "kRunning") \/ StopReturn(f)
            <4>1. CASE Request(c)
                BY <1>1, <2>2, <4>1 DEF Request
            <4>2. CASE LockForWrite(c) \/ Unlock(c)
                BY <1>1, <2>2, <4>2 DEF LockForWrite, Unlock
            <4>3. CASE Start(c) \/ QThreadStart(c) \/ StartReturn(c)
                <5>1. CASE Start(c)
                    BY <1>1, <2>2, <5>1 DEF Start
                <5>2. CASE QThreadStart(c)
                    BY <1>1, <2>2, <5>2 DEF QThreadStart
                <5>3. CASE StartReturn(c)
                    <6>1. op' = op /\ (c = f => op[f] # "fetch")
                        BY <5>3 DEF StartReturn, FetchAlone
                    <6> QED
                        BY <1>1, <2>2, <5>3, <6>1 DEF StartReturn
                <5> QED
                    BY <4>3, <5>1, <5>2, <5>3
            <4>4. CASE Stop(c) \/ StopSet(c) \/ Break(c) \/ Kill(c) \/ StopReturn(c)
                <5>1. CASE Stop(c)
                    BY <1>1, <2>2, <5>1 DEF Stop
                <5>2. CASE StopSet(c) \/ Break(c) \/ Kill(c)
                    BY <1>1, <2>2, <5>2 DEF StopSet, Break, Kill
                <5>3. CASE StopReturn(c)
                    BY <1>1, <2>2, <5>3 DEF StopReturn
                <5> QED
                    BY <4>4, <5>1, <5>2, <5>3
            <4>5. CASE SendBlobHeader(c) \/ SendBlob(c) \/ Sent(c)
                BY <1>1, <2>2, <4>5 DEF SendBlobHeader, SendBlob, Sent
            <4> QED
                BY <3>1, <4>1, <4>2, <4>3, <4>4, <4>5 DEF ClientStep
        <3>2. (Stop(f) /\ state_ # "kRunning") \/ StopReturn(f)
            <4>1. CASE WorkerStep \/ SignalBreakHandler
                <5>1. cpc' = cpc /\ op' = op
                    BY <4>1 DEF WorkerStep, SignalBreakHandler, RunOpen, PreRun, SetRunning,
                                NextPacket, CheckStop, PostRun, RunClose, RunFinish,
                                QFinishBegin, QFinishEnd
                <5> QED
                    BY <2>2, <5>1
            <4>2. CASE UNCHANGED vars
                BY <2>2, <4>2 DEF vars
            <4> QED
                BY <3>1, <4>1, <4>2 DEF Next
        <3> QED
            BY <3>2, <1>2 DEF Stop, StopReturn
    <2> QED
        BY <2>1, <2>2
<1>4. cpc'[f] # "startWait"
    OBVIOUS
<1> QED
    <2>1. SUFFICES ASSUME wpc' \notin Gone PROVE FALSE
        OBVIOUS
    <2>2. QThreadStart(f)
        BY <1>3, <2>1, WorkerStays
    <2> QED
        BY <1>1, <1>4, <2>2 DEF QThreadStart

\* f starts the worker only when that was its request.
LEMMA StartIsAsked ==
    ASSUME NEW f, OnlyFetcher(f), IInv, FetchAlone(f), [Next]_vars,
           cpc'[f] \in {"qstart", "startWait"}
    PROVE  op'[f] = "start"
<1> USE DEF IInv, TypeOK, ControlOK
<1>1. f \in Clients /\ (cpc[f] \in {"qstart", "startWait"} => op[f] = "start")
    BY DEF OnlyFetcher, FetchAlone
<1>2. ASSUME NEW c \in Clients, Request(c) PROVE op'[f] = "start"
    BY <1>1, <1>2 DEF Request
<1>3. ASSUME NEW c \in Clients, ClientStep(c) PROVE op'[f] = "start"
    <2>1. CASE LockForWrite(c) \/ Unlock(c)
        BY <1>1, <2>1 DEF LockForWrite, Unlock
    <2>2. CASE Start(c) \/ QThreadStart(c) \/ StartReturn(c)
        BY <1>1, <2>2 DEF Start, QThreadStart, StartReturn
    <2>3. CASE Stop(c) \/ StopSet(c) \/ Break(c) \/ Kill(c) \/ StopReturn(c)
        BY <1>1, <2>3 DEF Stop, StopSet, Break, Kill, StopReturn
    <2>4. CASE SendBlobHeader(c) \/ SendBlob(c) \/ Sent(c)
        BY <1>1, <2>4 DEF SendBlobHeader, SendBlob, Sent
    <2> QED
        BY <1>3, <2>1, <2>2, <2>3, <2>4 DEF ClientStep
<1>4. CASE WorkerStep \/ SignalBreakHandler
    BY <1>1, <1>4 DEF WorkerStep, SignalBreakHandler, RunOpen, PreRun, SetRunning, NextPacket,
                CheckStop, PostRun, RunClose, RunFinish, QFinishBegin, QFinishEnd
<1>5. CASE UNCHANGED vars
    BY <1>1, <1>5 DEF vars
<1> QED
    BY <1>2, <1>3, <1>4, <1>5 DEF Next

\* What FetchAlone says of the reply.
CopiedSoFar(f) ==
    cpc[f] \in {"copy", "sent"} =>
        /\ reply[f].len = file.len /\ Len(reply[f].body) = pos /\ pos <= file.len
        /\ \A m \in 1 .. Len(reply[f].body) : reply[f].body[m] = file.capture
        /\ cpc[f] = "sent" => pos = file.len

\* While f copies only f touches the file's position and its own reply, and nobody the file.
LEMMA CopyGoesOn ==
    ASSUME NEW f, OnlyFetcher(f), IInv, FetchAlone(f), [Next]_vars
    PROVE  CopiedSoFar(f)'
<1>1. /\ f \in Clients /\ CopiedSoFar(f)
      /\ cpc \in [Clients -> {"idle", "lock", "size", "copy", "sent"} \union Locked]
      /\ reply \in [Clients -> [len : Nat, body : Seq(Nat)]]
      /\ file.len \in Nat /\ file.capture \in Nat /\ pos \in Nat
    BY DEF OnlyFetcher, FetchAlone, CopiedSoFar, IInv, TypeOK, ControlOK, ContentOK
<1>2. ASSUME NEW c \in Clients, Request(c) PROVE CopiedSoFar(f)'
    BY <1>1, <1>2 DEF Request, CopiedSoFar
<1>3. ASSUME NEW c \in Clients, SendBlobHeader(c) PROVE CopiedSoFar(f)'
    <2>1. c = f
        BY <1>3 DEF SendBlobHeader, FetchAlone
    <2>2. reply'[f] = [len |-> file.len, body |-> <<>>] /\ pos' = 0 /\ file' = file
          /\ cpc'[f] = "copy"
        BY <1>1, <1>3, <2>1 DEF SendBlobHeader
    <2>3. reply'[f].len = file.len /\ reply'[f].body = <<>>
        BY <2>2
    <2> QED
        BY <1>1, <2>2, <2>3 DEF CopiedSoFar
<1>4. ASSUME NEW c \in Clients, SendBlob(c) PROVE CopiedSoFar(f)'
    <2>1. c = f /\ cpc[f] = "copy" /\ file' = file
        BY <1>4 DEF SendBlob, FetchAlone
    <2>2. /\ reply[f].len = file.len /\ Len(reply[f].body) = pos /\ pos <= file.len
          /\ \A m \in 1 .. Len(reply[f].body) : reply[f].body[m] = file.capture
          /\ reply[f].body \in Seq(Nat)
        BY <1>1, <2>1 DEF CopiedSoFar
    <2>3. CASE pos < file.len
        <3>1. /\ reply' = [reply EXCEPT
                     ![f] = [len |-> @.len, body |-> Append(@.body, file.capture)]]
              /\ pos' = pos + 1 /\ cpc' = cpc
            BY <1>4, <2>1, <2>3 DEF SendBlob
        <3>2. /\ reply'[f].len = reply[f].len
              /\ reply'[f].body = Append(reply[f].body, file.capture)
            BY <1>1, <3>1
        <3> DEFINE b == reply[f].body
        <3>3. /\ Len(Append(b, file.capture)) = Len(b) + 1
              /\ \A m \in 1 .. Len(b) + 1 :
                    Append(b, file.capture)[m] = IF m <= Len(b) THEN b[m] ELSE file.capture
            BY <2>2
        <3>4. /\ Len(reply'[f].body) = pos' /\ pos' <= file.len
              /\ \A m \in 1 .. Len(reply'[f].body) : reply'[f].body[m] = file.capture
            BY <1>1, <2>2, <2>3, <3>1, <3>2, <3>3
        <3> QED
            BY <2>1, <2>2, <3>1, <3>2, <3>4 DEF CopiedSoFar
    <2>4. CASE ~ (pos < file.len)
        <3>1. reply' = reply /\ pos' = pos /\ pos = file.len
            BY <1>1, <1>4, <2>2, <2>4 DEF SendBlob
        <3> QED
            BY <2>1, <2>2, <3>1 DEF CopiedSoFar
    <2> QED
        BY <2>3, <2>4
<1>5. ASSUME cpc'[f] = cpc[f], reply' = reply, pos' = pos,
             file' = file \/ wpc \notin Gone
      PROVE  CopiedSoFar(f)'
    <2>1. cpc[f] \in {"copy", "sent"} => file' = file
        BY <1>5 DEF FetchAlone
    <2> QED
        BY <1>1, <1>5, <2>1 DEF CopiedSoFar
<1>6. ASSUME NEW c \in Clients, Sent(c) PROVE CopiedSoFar(f)'
    BY <1>1, <1>6 DEF Sent, content, CopiedSoFar
<1>7. ASSUME NEW c \in Clients,
             \/ LockForWrite(c) \/ Unlock(c) \/ Start(c) \/ QThreadStart(c) \/ StartReturn(c)
             \/ Stop(c) \/ StopSet(c) \/ Break(c) \/ Kill(c) \/ StopReturn(c)
      PROVE  CopiedSoFar(f)'
    <2>1. reply' = reply /\ pos' = pos /\ file' = file
        BY <1>7 DEF LockForWrite, Unlock, Start, QThreadStart, StartReturn, Stop, StopSet,
                    Break, Kill, StopReturn, content
    <2>2. cpc'[f] = cpc[f] \/ cpc'[f] \notin {"copy", "sent"}
        BY <1>1, <1>7 DEF LockForWrite, Unlock, Start, QThreadStart, StartReturn, Stop, StopSet,
                    Break, Kill, StopReturn
    <2> QED
        BY <1>5, <2>1, <2>2 DEF CopiedSoFar
<1>8. CASE WorkerStep \/ SignalBreakHandler
    <2>1. cpc' = cpc /\ reply' = reply /\ pos' = pos /\ (file' = file \/ wpc \notin Gone)
        BY <1>8 DEF WorkerStep, SignalBreakHandler, RunOpen, PreRun, SetRunning, NextPacket,
                CheckStop, PostRun, RunClose, RunFinish, QFinishBegin, QFinishEnd, content, Gone
    <2> QED
        BY <1>5, <2>1
<1>9. CASE UNCHANGED vars
    BY <1>5, <1>9 DEF vars, content
<1> QED
    BY <1>2, <1>3, <1>4, <1>6, <1>7, <1>8, <1>9 DEF Next, ClientStep

LEMMA NextAlone ==
    ASSUME NEW f, OnlyFetcher(f)
    PROVE  IInv /\ FetchAlone(f) /\ [Next]_vars => FetchAlone(f)'
<1> SUFFICES ASSUME IInv, FetchAlone(f), [Next]_vars PROVE FetchAlone(f)'
    OBVIOUS
<1> QED
    BY OthersOnlyStop, GoneWhenCopying, StartIsAsked, CopyGoesOn DEF FetchAlone, CopiedSoFar

\* getCaptureBuffer replies with one whole capture, of the length its header announces,
\* though it has given the port's lock up before it copies, when the other clients do
\* no more than stop captures.
THEOREM BlobWholeHolds ==
    ASSUME NEW f, OnlyFetcher(f)
    PROVE  Spec => []BlobWhole
<1>1. Init => FetchAlone(f)
    BY DEF Init, FetchAlone, OnlyFetcher
<1>2. IInv /\ FetchAlone(f) => BlobWhole
    <2> SUFFICES ASSUME IInv, FetchAlone(f), NEW c \in Clients, cpc[c] = "sent"
                 PROVE  /\ Len(reply[c].body) = reply[c].len
                        /\ Cardinality(ToSet(reply[c].body)) <= 1
        BY DEF BlobWhole
    <2>1. c = f
        BY DEF FetchAlone
    <2>2. /\ Len(reply[c].body) = reply[c].len
          /\ \A m \in 1 .. Len(reply[c].body) : reply[c].body[m] = file.capture
        BY <2>1 DEF FetchAlone
    <2>3. ToSet(reply[c].body) \subseteq {file.capture}
        BY <2>2 DEF ToSet
    <2>4. IsFiniteSet({file.capture}) /\ Cardinality({file.capture}) = 1
        BY FS_Singleton
    <2>5. Cardinality(ToSet(reply[c].body)) <= 1
        BY <2>3, <2>4, FS_Subset
    <2> QED
        BY <2>2, <2>5
<1> QED
    BY <1>1, <1>2, NextAlone, InductiveInvariant, PTL DEF Spec
=============================================================================
