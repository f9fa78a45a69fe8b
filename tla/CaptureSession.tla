---------------------------- MODULE CaptureSession ----------------------------
(***************************************************************************)
(* A port's capture: PortCapturer, the PcapSession thread underneath it, and *)
(* the requests startCapture, stopCapture and getCaptureBuffer.             *)
(*                                                                          *)
(*   clients   one connection thread each.  A request holds the port's write *)
(*             lock while it starts or stops the thread.  getCaptureBuffer   *)
(*             gives the lock up and then copies the capture file into its   *)
(*             reply, through the one QFile object of the port.             *)
(*   worker    the QThread: run() reads packets until stop_, and then waits  *)
(*             in postRun() for the signal stop() sends it.                 *)
(*                                                                          *)
(* EmulationTransceiver and PcapRxStats have the same start(), stop() and    *)
(* run() around another loop body.                                          *)
(***************************************************************************)
EXTENDS Naturals, FiniteSets, SequencesExt

CONSTANTS
    Clients,
    Ops,            \* the requests each client makes
    MaxCaptures,    \* bound: captures started
    MaxLen          \* bound: units in a capture file, its header being one

ASSUME CaptureAssumption ==
    /\ Ops \in [Clients -> SUBSET {"start", "stop", "fetch"}]
    /\ MaxCaptures \in Nat /\ MaxLen \in Nat \ {0}

VARIABLES
    lock,      \* holder of portLock, or none: a set of at most one client
    op, cpc,   \* each client's request and where it is in it
    state_, stop_,    \* as in TxThread
    qthread, wpc,     \* QThread; where the worker is
    handle,    \* handle_: "null" or "open"
    signal,    \* SIGUSR1 sent and not yet delivered
    seen,      \* signalSeen_ of the worker: "absent", "no", "yes"
    file,      \* the capture file: number of the capture in it, units written
    pos,       \* the position of the QFile
    reply      \* what each getCaptureBuffer has sent: length announced, units

thread == <<state_, stop_, qthread, wpc, handle, signal, seen>>
content == <<file, pos, reply>>
vars == <<lock, op, cpc, thread, content>>

Gone == {"none", "ret"}
Locked == {"test", "qstart", "startWait", "stopSet", "break", "kill", "stopWait", "unlock"}
NoReply == [len |-> 0, body |-> <<>>]

Init ==
    /\ lock = {}
    /\ op \in [Clients -> {"stop"}] /\ cpc = [c \in Clients |-> "idle"]
    /\ state_ = "kNotStarted" /\ stop_ = FALSE
    /\ qthread = "idle" /\ wpc = "none"
    /\ handle = "null" /\ signal = FALSE /\ seen = "absent"
    /\ file = [capture |-> 0, len |-> 0] /\ pos = 0
    /\ reply = [c \in Clients |-> NoReply]

Goto(c, pc) == cpc' = [cpc EXCEPT ![c] = pc]

-----------------------------------------------------------------------------
(* The requests                                                            *)

Request(c) ==
    /\ cpc[c] = "idle"
    /\ \E o \in Ops[c] : op' = [op EXCEPT ![c] = o]
    /\ reply' = [reply EXCEPT ![c] = NoReply]
    /\ Goto(c, "lock")
    /\ UNCHANGED <<lock, thread, file, pos>>

LockForWrite(c) ==
    /\ cpc[c] = "lock" /\ lock = {}
    /\ lock' = {c}
    /\ Goto(c, "test")
    /\ UNCHANGED <<op, thread, content>>

\* start(): nothing when running, else state_ is reset ...
Start(c) ==
    /\ cpc[c] = "test" /\ op[c] = "start"
    /\ IF state_ = "kRunning"
       THEN Goto(c, "unlock") /\ UNCHANGED state_
       ELSE Goto(c, "qstart") /\ state_' = "kNotStarted"
    /\ UNCHANGED <<lock, op, stop_, qthread, wpc, handle, signal, seen, content>>

\* ... QThread::start() ...
QThreadStart(c) ==
    /\ cpc[c] = "qstart" /\ qthread # "finishing"
    /\ Goto(c, "startWait")
    /\ IF qthread = "idle"
       THEN qthread' = "running" /\ wpc' = "open"
       ELSE UNCHANGED <<qthread, wpc>>
    /\ UNCHANGED <<lock, op, state_, stop_, handle, signal, seen, content>>

\* ... and a sleep until state_ has left kNotStarted.
StartReturn(c) ==
    /\ cpc[c] = "startWait" /\ state_ # "kNotStarted"
    /\ Goto(c, "unlock")
    /\ UNCHANGED <<lock, op, thread, content>>

\* stop(), by stopCapture and getCaptureBuffer: nothing when not running ...
Stop(c) ==
    /\ cpc[c] = "test" /\ op[c] # "start"
    /\ Goto(c, IF state_ = "kRunning" THEN "stopSet" ELSE "unlock")
    /\ UNCHANGED <<lock, op, thread, content>>

StopSet(c) ==
    /\ cpc[c] = "stopSet"
    /\ stop_' = TRUE
    /\ Goto(c, "break")
    /\ UNCHANGED <<lock, op, state_, qthread, wpc, handle, signal, seen, content>>

\* ... pcap_breakloop(handle_) makes pcap_next_ex return, as its timeout does ...
Break(c) ==
    /\ cpc[c] = "break"
    /\ Goto(c, "kill")
    /\ UNCHANGED <<lock, op, thread, content>>

\* ... the signal ...
Kill(c) ==
    /\ cpc[c] = "kill"
    /\ signal' = TRUE
    /\ Goto(c, "stopWait")
    /\ UNCHANGED <<lock, op, state_, stop_, qthread, wpc, handle, seen, content>>

\* Mutant: stop() does not wait for the thread.
StopReturnAtOnce(c) ==
    /\ cpc[c] = "stopWait" /\ Goto(c, "unlock")
    /\ UNCHANGED <<lock, op, thread, content>>

\* ... and a sleep until the thread has finished.
StopReturn(c) ==
    /\ cpc[c] = "stopWait" /\ state_ # "kRunning"
    /\ Goto(c, "unlock")
    /\ UNCHANGED <<lock, op, thread, content>>

Unlock(c) ==
    /\ cpc[c] = "unlock"
    /\ lock' = {}
    /\ Goto(c, IF op[c] = "fetch" THEN "size" ELSE "idle")
    /\ UNCHANGED <<op, thread, content>>

\* sendRpcReply: the header announces the size of the file, which is then rewound ...
SendBlobHeader(c) ==
    /\ cpc[c] = "size"
    /\ reply' = [reply EXCEPT ![c] = [len |-> file.len, body |-> <<>>]]
    /\ pos' = 0
    /\ Goto(c, "copy")
    /\ UNCHANGED <<lock, op, thread, file>>

\* ... and copied until atEnd().
SendBlob(c) ==
    /\ cpc[c] = "copy"
    /\ IF pos < file.len
       THEN /\ reply' = [reply EXCEPT
                   ![c] = [len |-> @.len, body |-> Append(@.body, file.capture)]]
            /\ pos' = pos + 1
            /\ UNCHANGED cpc
       ELSE Goto(c, "sent") /\ UNCHANGED <<reply, pos>>
    /\ UNCHANGED <<lock, op, thread, file>>

Sent(c) ==
    /\ cpc[c] = "sent"
    /\ Goto(c, "idle")
    /\ UNCHANGED <<lock, op, thread, content>>

-----------------------------------------------------------------------------
(* The worker                                                              *)

\* pcap_open_live and pcap_dump_open, which truncates the file; or neither.
RunOpen ==
    /\ wpc = "open"
    /\ \/ /\ file.capture < MaxCaptures
          /\ handle' = "open" /\ wpc' = "preRun"
          /\ file' = [capture |-> file.capture + 1, len |-> 1]
       \/ wpc' = "exit" /\ UNCHANGED <<handle, file>>
    /\ UNCHANGED <<lock, op, cpc, state_, stop_, qthread, signal, seen, pos, reply>>

\* preRun(): the handler is installed and signalSeen_ has an entry, before anyone
\* can see kRunning.
PreRun ==
    /\ wpc = "preRun"
    /\ seen' = "no" /\ wpc' = "running"
    /\ UNCHANGED <<lock, op, cpc, state_, stop_, qthread, handle, signal, content>>

SetRunning ==
    /\ wpc = "running"
    /\ state_' = "kRunning" /\ wpc' = "next"
    /\ UNCHANGED <<lock, op, cpc, stop_, qthread, handle, signal, seen, content>>

\* pcap_next_ex: a packet; a timeout, an error or the broken loop; anything else.
NextPacket ==
    /\ wpc = "next"
    /\ \/ file.len < MaxLen /\ file' = [file EXCEPT !.len = @ + 1] /\ UNCHANGED stop_
       \/ UNCHANGED <<file, stop_>>
       \/ stop_' = TRUE /\ UNCHANGED file
    /\ wpc' = "check"
    /\ UNCHANGED <<lock, op, cpc, state_, qthread, handle, signal, seen, pos, reply>>

\* Mutant: the loop has no test of stop_.
CheckStopNever ==
    /\ wpc = "check"
    /\ wpc' = "next"
    /\ UNCHANGED <<lock, op, cpc, state_, stop_, qthread, handle, signal, seen, content>>

CheckStop ==
    /\ wpc = "check"
    /\ wpc' = IF stop_ THEN "postRun" ELSE "next"
    /\ UNCHANGED <<lock, op, cpc, state_, stop_, qthread, handle, signal, seen, content>>

\* signalBreakHandler, in the worker's context.
SignalBreakHandler ==
    /\ signal /\ wpc \notin Gone
    /\ signal' = FALSE /\ seen' = "yes"
    /\ UNCHANGED <<lock, op, cpc, state_, stop_, qthread, wpc, handle, content>>

\* Mutant: the thread does not wait for the signal.
PostRunAtOnce ==
    /\ wpc = "postRun"
    /\ seen' = "absent" /\ wpc' = "close"
    /\ UNCHANGED <<lock, op, cpc, state_, stop_, qthread, handle, signal, content>>

\* postRun(): "don't exit the thread until we see the signal".
PostRun ==
    /\ wpc = "postRun" /\ seen = "yes"
    /\ seen' = "absent" /\ wpc' = "close"
    /\ UNCHANGED <<lock, op, cpc, state_, stop_, qthread, handle, signal, content>>

\* pcap_dump_close, pcap_close; the request to stop is consumed.
RunClose ==
    /\ wpc = "close"
    /\ handle' = "null" /\ stop_' = FALSE /\ wpc' = "exit"
    /\ UNCHANGED <<lock, op, cpc, state_, qthread, signal, seen, content>>

RunFinish ==
    /\ wpc = "exit"
    /\ state_' = "kFinished" /\ wpc' = "ret"
    /\ UNCHANGED <<lock, op, cpc, stop_, qthread, handle, signal, seen, content>>

(* QThreadPrivate::finish()                                                 *)
QFinishBegin ==
    /\ wpc = "ret" /\ qthread = "running"
    /\ qthread' = "finishing"
    /\ UNCHANGED <<lock, op, cpc, state_, stop_, wpc, handle, signal, seen, content>>

QFinishEnd ==
    /\ qthread = "finishing"
    /\ qthread' = "idle" /\ wpc' = "none"
    /\ UNCHANGED <<lock, op, cpc, state_, stop_, handle, signal, seen, content>>

-----------------------------------------------------------------------------
ClientStep(c) ==
    \/ LockForWrite(c) \/ Unlock(c)
    \/ Start(c) \/ QThreadStart(c) \/ StartReturn(c)
    \/ Stop(c) \/ StopSet(c) \/ Break(c) \/ Kill(c) \/ StopReturn(c)
    \/ SendBlobHeader(c) \/ SendBlob(c) \/ Sent(c)
WorkerStep ==
    \/ RunOpen \/ PreRun \/ SetRunning \/ NextPacket \/ CheckStop \/ PostRun
    \/ RunClose \/ RunFinish \/ QFinishBegin \/ QFinishEnd

Next ==
    \/ \E c \in Clients : Request(c) \/ ClientStep(c)
    \/ WorkerStep
    \/ SignalBreakHandler

\* Every runnable thread runs, pcap_next_ex returns (its timeout is 1000 ms), a signal
\* is delivered.
Fairness ==
    /\ WF_vars(WorkerStep) /\ WF_vars(SignalBreakHandler)
    /\ \A c \in Clients : WF_vars(ClientStep(c))

Spec == Init /\ [][Next]_vars /\ Fairness

-----------------------------------------------------------------------------
(* Properties                                                              *)

ControlOK ==
    /\ lock \in SUBSET Clients
    /\ op \in [Clients -> {"start", "stop", "fetch"}]
    /\ cpc \in [Clients -> {"idle", "lock", "size", "copy", "sent"} \union Locked]
    /\ state_ \in {"kNotStarted", "kRunning", "kFinished"} /\ stop_ \in BOOLEAN
    /\ qthread \in {"idle", "running", "finishing"}
    /\ wpc \in {"none", "open", "preRun", "running", "next", "check", "postRun",
                "close", "exit", "ret"}
    /\ handle \in {"null", "open"}
    /\ signal \in BOOLEAN /\ seen \in {"absent", "no", "yes"}
ContentOK ==
    /\ file \in [capture : Nat, len : Nat] /\ pos \in Nat
    /\ reply \in [Clients -> [len : Nat, body : Seq(Nat)]]

\* The type invariant.
TypeOK == ControlOK /\ ContentOK

\* Where the clients and the worker are.
Someone(pcs) == \E c \in Clients : cpc[c] \in pcs
Opening == {"open", "preRun", "running"}
Looping == {"next", "check", "postRun"}

\* stop() uses handle_ and thread_ only while the thread is between opening and
\* closing them: pcap_breakloop never gets a closed handle, pthread_kill never a
\* thread that has no handler or is gone.
StopUsesLiveSession ==
    Someone({"stopSet", "break", "kill"}) => handle = "open" /\ seen # "absent"

\* No capture begins with the request to stop of an earlier one.
StopFlagFresh == wpc \in Opening => ~stop_

\* A client is inside its request's critical section just when it has the lock.
LockHeld ==
    /\ \A c \in Clients : cpc[c] \in Locked <=> c \in lock
    /\ \A c, d \in lock : c = d

\* How the client in start() or stop() and the worker hand state_ to each other.
Handshake ==
    /\ wpc = "none" <=> qthread = "idle"
    /\ qthread = "finishing" => wpc = "ret"
    /\ wpc \in Opening => state_ = "kNotStarted" /\ Someone({"startWait"})
    /\ wpc \in Looping => state_ = "kRunning"
    /\ wpc = "close" => state_ = "kRunning" /\ Someone({"stopWait"})
    /\ wpc = "exit" => \/ state_ = "kRunning" /\ Someone({"stopWait"})
                       \/ state_ = "kNotStarted" /\ Someone({"startWait"})
    /\ wpc \in Gone => state_ # "kRunning"
    /\ Someone({"qstart"}) => state_ = "kNotStarted" /\ wpc \in Gone

\* The signal goes to a thread inside its loop, from the client that then waits.
Signalling ==
    /\ handle = "open" <=> wpc \in {"preRun", "running", "close"} \union Looping
    /\ seen # "absent" <=> wpc \in {"running"} \union Looping
    /\ seen = "yes" => ~signal
    /\ signal \/ seen = "yes" => wpc \in Looping /\ Someone({"stopWait"})
    /\ Someone({"stopSet", "break", "kill"}) => wpc \in Looping
    /\ stop_ => wpc \in {"close"} \union Looping

\* The inductive strengthening of StopUsesLiveSession and StopFlagFresh.
IInv == TypeOK /\ LockHeld /\ Handshake /\ Signalling

\* The reply to getCaptureBuffer is one whole capture, of the length its header
\* announces.
BlobWhole ==
    \A c \in Clients : cpc[c] = "sent" =>
        /\ Len(reply[c].body) = reply[c].len
        /\ Cardinality(ToSet(reply[c].body)) <= 1

\* When f alone starts captures and fetches them, the worker is gone while f copies, and
\* what f has copied is the capture in the file: the strengthening of BlobWhole.
FetchAlone(f) ==
    /\ \A c \in Clients \ {f} :
          op[c] = "stop" /\ cpc[c] \notin {"qstart", "startWait", "size", "copy", "sent"}
    /\ cpc[f] \in {"qstart", "startWait"} => op[f] = "start"
    /\ (cpc[f] = "unlock" /\ op[f] = "fetch") \/ cpc[f] \in {"size", "copy", "sent"} =>
          wpc \in Gone
    /\ cpc[f] \in {"copy", "sent"} =>
          /\ reply[f].len = file.len /\ Len(reply[f].body) = pos /\ pos <= file.len
          /\ \A m \in 1 .. Len(reply[f].body) : reply[f].body[m] = file.capture
    /\ cpc[f] = "sent" => pos = file.len

\* stop() returns and the lock is given up, although the thread itself waits for stop().
StopReturns == \A c \in Clients : cpc[c] = "stopSet" ~> c \notin lock
=============================================================================
