---------------------------- MODULE TxThreadProofs ----------------------------
(* For every set of well-formed packet lists: the transmit thread's inductive  *)
(* invariant, and from it that isRunning() can be trusted under the port lock, *)
(* that the list never changes under run(), and that run() reads inside it.    *)
EXTENDS TxThread, PacketListProofs

\* What the assumption on the lists says of one of them.
LEMMA ListType ==
    ASSUME NEW l \in PacketLists
    PROVE  /\ l.seqs \in Seq(SequenceType)
           /\ l.returnTo \in {-1, 0}
           /\ Tiled(l.seqs)
  BY PacketListsAssumption

\* From one head of a tiled list to the next, every index between lies in the list.
LEMMA HeadsAdvance ==
    ASSUME NEW l \in PacketLists, NEW heads, TiledBy(l.seqs, heads),
           NEW h \in heads, h # Len(l.seqs) + 1
    PROVE  /\ h \in 1 .. Len(l.seqs)
           /\ l.seqs[h].repeatSize \in Nat \ {0}
           /\ l.seqs[h].repeatCount \in Nat
           /\ h + l.seqs[h].repeatSize \in heads
           /\ h + l.seqs[h].repeatSize \in 1 .. Len(l.seqs) + 1
  <1>1. l.seqs \in Seq(SequenceType) /\ Len(l.seqs) \in Nat
    BY ListType
  <1>2. h \in 1 .. Len(l.seqs) + 1 /\ h + l.seqs[h].repeatSize \in heads
    BY DEF TiledBy
  <1>3. h \in 1 .. Len(l.seqs)
    BY <1>1, <1>2
  <1>4. l.seqs[h] \in SequenceType
    BY <1>1, <1>3, Lists!ElementOfSeq
  <1>5. heads \subseteq 1 .. Len(l.seqs) + 1
    BY DEF TiledBy
  <1> QED
    BY <1>2, <1>3, <1>4, <1>5 DEF SequenceType

\* Steps that neither load a list nor move the cursor nor enter the list.
LEMMA CursorStays ==
    ASSUME Cursor, list' = list, at' = at,
           wpc' \in Sending => wpc \in Sending,
           wpc' \in {"send", "check"} => wpc \in {"send", "check"}
    PROVE  Cursor'
  BY DEF Cursor, seqs

\* The cursor run() starts with, and the empty wire, have their types.
LEMMA StartOfRun ==
    /\ [i |-> 1, j |-> 0, k |-> 0, p |-> 1]
          \in [i : Nat \ {0}, j : Nat, k : Nat, p : Nat \ {0}]
    /\ <<>> \in Seq(Nat)
  <1>1. <<>> \in Seq(Nat)
    OBVIOUS
  <1>2. [i |-> 1, j |-> 0, k |-> 0, p |-> 1]
          \in [i : Nat \ {0}, j : Nat, k : Nat, p : Nat \ {0}]
    OBVIOUS
  <1> QED
    BY <1>1, <1>2

\* A new PcapTxThread satisfies the invariant, whatever list it gets first.
THEOREM InitInv == Init => IInv
  <1> SUFFICES ASSUME Init PROVE IInv
    OBVIOUS
  <1>1. TypeOK
    BY StartOfRun DEF Init, TypeOK
  <1>2. Handshake
    BY DEF Init, Handshake, Sending, Gone
  <1>3. Cursor
    <2>1. Tiled(seqs)
      BY ListType DEF Init, seqs
    <2> QED
      BY <2>1 DEF Tiled, Cursor, Init, Sending
  <1> QED
    BY <1>1, <1>2, <1>3 DEF IInv

\* The controller's own steps: the cursor stays, state_ is handed over.
LEMMA ControllerInv ==
    ASSUME IInv, \/ StartCall \/ QThreadStart \/ StartReturn
                 \/ StopCall \/ StopSet \/ StopReturn
    PROVE  IInv'
  <1> USE DEF IInv
  <1>1. list' = list /\ at' = at /\ wire' = wire
    BY DEF StartCall, QThreadStart, StartReturn, StopCall, StopSet, StopReturn
  <1>2. wpc' = wpc \/ wpc' = "enter"
    BY DEF StartCall, QThreadStart, StartReturn, StopCall, StopSet, StopReturn
  <1>3. TypeOK'
    <2>1. CASE StartCall    BY <2>1 DEF TypeOK, StartCall
    <2>2. CASE QThreadStart BY <2>2 DEF TypeOK, QThreadStart
    <2>3. CASE StartReturn  BY <2>3 DEF TypeOK, StartReturn
    <2>4. CASE StopCall     BY <2>4 DEF TypeOK, StopCall
    <2>5. CASE StopSet      BY <2>5 DEF TypeOK, StopSet
    <2>6. CASE StopReturn   BY <2>6 DEF TypeOK, StopReturn
    <2> QED BY <2>1, <2>2, <2>3, <2>4, <2>5, <2>6
  <1>4. Handshake'
    <2> USE DEF Handshake, TypeOK, Sending, Gone
    <2>1. CASE StartCall    BY <2>1 DEF StartCall
    <2>2. CASE QThreadStart BY <2>2 DEF QThreadStart
    <2>3. CASE StartReturn  BY <2>3 DEF StartReturn
    <2>4. CASE StopCall     BY <2>4 DEF StopCall
    <2>5. CASE StopSet      BY <2>5 DEF StopSet
    <2>6. CASE StopReturn   BY <2>6 DEF StopReturn
    <2> QED BY <2>1, <2>2, <2>3, <2>4, <2>5, <2>6
  <1>5. Cursor'
    BY <1>1, <1>2, CursorStays DEF Sending
  <1> QED
    BY <1>3, <1>4, <1>5

\* Loading another list keeps the invariant: the thread is gone when it happens.
LEMMA LoadListInv ==
    ASSUME IInv, LoadList
    PROVE  IInv'
  <1> USE DEF IInv, LoadList
  <1>1. wpc \in Gone
    BY DEF Handshake, TypeOK, Sending, Gone
  <1>2. TypeOK'
    BY DEF TypeOK
  <1>3. Handshake'
    BY DEF Handshake
  <1>4. Cursor'
    <2>1. Tiled(seqs')
      BY ListType DEF seqs
    <2>2. wpc' \notin Sending
      BY <1>1 DEF Gone, Sending
    <2> QED
      BY <2>1, <2>2 DEF Tiled, Cursor, Sending
  <1> QED
    BY <1>2, <1>3, <1>4

\* run() up to its first set, and from the end of its last one.
LEMMA RunFrameInv ==
    ASSUME IInv, \/ RunEnter \/ RunEnd \/ CheckStop \/ RunStopped
                 \/ RunAccount \/ RunFinish \/ QFinishBegin \/ QFinishEnd
    PROVE  IInv'
  <1> USE DEF IInv
  <1>1. TypeOK'
    <2>1. CASE RunEnter     BY <2>1, StartOfRun DEF TypeOK, RunEnter
    <2>2. CASE RunEnd       BY <2>2 DEF TypeOK, RunEnd
    <2>3. CASE CheckStop    BY <2>3 DEF TypeOK, CheckStop
    <2>4. CASE RunStopped   BY <2>4 DEF TypeOK, RunStopped
    <2>5. CASE RunAccount   BY <2>5 DEF TypeOK, RunAccount
    <2>6. CASE RunFinish    BY <2>6 DEF TypeOK, RunFinish
    <2>7. CASE QFinishBegin BY <2>7 DEF TypeOK, QFinishBegin
    <2>8. CASE QFinishEnd   BY <2>8 DEF TypeOK, QFinishEnd
    <2> QED BY <2>1, <2>2, <2>3, <2>4, <2>5, <2>6, <2>7, <2>8
  <1>2. Handshake'
    <2> USE DEF Handshake, TypeOK, Sending, Gone
    <2>1. CASE RunEnter     BY <2>1 DEF RunEnter
    <2>2. CASE RunEnd       BY <2>2 DEF RunEnd
    <2>3. CASE CheckStop    BY <2>3 DEF CheckStop
    <2>4. CASE RunStopped   BY <2>4 DEF RunStopped
    <2>5. CASE RunAccount   BY <2>5 DEF RunAccount
    <2>6. CASE RunFinish    BY <2>6 DEF RunFinish
    <2>7. CASE QFinishBegin BY <2>7 DEF QFinishBegin
    <2>8. CASE QFinishEnd   BY <2>8 DEF QFinishEnd
    <2> QED BY <2>1, <2>2, <2>3, <2>4, <2>5, <2>6, <2>7, <2>8
  <1>3. Cursor'
    <2>1. CASE RunEnter /\ seqs # <<>>
      <3>1. PICK heads \in SUBSET (1 .. Len(seqs) + 1) : TiledBy(seqs, heads)
        BY DEF Cursor
      <3>2. 1 \in heads
        BY <3>1 DEF TiledBy
      <3> QED
        BY <2>1, <3>1, <3>2 DEF RunEnter, Cursor, seqs, Sending
    <2>2. CASE ~(RunEnter /\ seqs # <<>>)
      <3>1. list' = list /\ at' = at
        BY <2>2 DEF RunEnter, RunEnd, CheckStop, RunStopped, RunAccount, RunFinish,
                    QFinishBegin, QFinishEnd
      <3>2. /\ wpc' \in Sending => wpc \in Sending
            /\ wpc' \in {"send", "check"} => wpc \in {"send", "check"}
        BY <2>2 DEF RunEnter, RunEnd, CheckStop, RunStopped, RunAccount, RunFinish,
                    QFinishBegin, QFinishEnd, Sending
      <3> QED
        BY <3>1, <3>2, CursorStays
    <2> QED
      BY <2>1, <2>2
  <1> QED
    BY <1>1, <1>2, <1>3

\* The type of run()'s cursor.
CursorType == [i : Nat \ {0}, j : Nat, k : Nat, p : Nat \ {0}]

\* Moving one field of the cursor leaves it a cursor.
LEMMA MoveField ==
    ASSUME NEW c \in CursorType
    PROVE  /\ \A n \in Nat \ {0} : [c EXCEPT !.i = n] \in CursorType
           /\ \A n \in Nat : [c EXCEPT !.j = n] \in CursorType
           /\ \A n \in Nat : [c EXCEPT !.k = n] \in CursorType
           /\ \A n \in Nat \ {0} : [c EXCEPT !.p = n] \in CursorType
  BY DEF CursorType

\* The moves of more than one field that run() makes.
LEMMA MoveCursor ==
    ASSUME NEW c \in CursorType, NEW m \in Nat
    PROVE  /\ [c EXCEPT !.j = m, !.k = 0, !.p = 1] \in CursorType
           /\ [c EXCEPT !.k = m, !.p = 1] \in CursorType
  <1> DEFINE cj == [c EXCEPT !.j = m]
             cjk == [cj EXCEPT !.k = 0]
             ck == [c EXCEPT !.k = m]
  <1>1. cj \in CursorType
    BY MoveField
  <1>2. cjk \in CursorType
    <2> HIDE DEF cj
    <2> QED BY <1>1, MoveField
  <1>3. ck \in CursorType
    BY MoveField
  <1>4. [cjk EXCEPT !.p = 1] \in CursorType
    <2> HIDE DEF cjk
    <2> QED BY <1>2, MoveField
  <1>5. [ck EXCEPT !.p = 1] \in CursorType
    <2> HIDE DEF ck
    <2> QED BY <1>3, MoveField
  <1> QED
    BY <1>4, <1>5

\* The walk from set to set, sequence to sequence and packet to packet.
LEMMA RunWalkInv ==
    ASSUME IInv, RunNextSet \/ RunLoop \/ SendPacket \/ SequenceDone
    PROVE  IInv'
  <1> USE DEF IInv
  <1>1. PICK heads \in SUBSET (1 .. Len(seqs) + 1) :
            /\ TiledBy(seqs, heads)
            /\ wpc \in Sending => at.i \in heads
            /\ wpc \in {"send", "check"} =>
                  at.i # Len(seqs) + 1 /\ at.k < seqs[at.i].repeatSize
    BY DEF Cursor
  <1>2. /\ wpc \in Sending
        /\ wpc' \in Sending
        /\ at.i \in heads
        /\ list' = list
        /\ seqs' = seqs
    <2>1. list' = list /\ wpc \in Sending /\ wpc' \in Sending
      BY DEF RunNextSet, RunLoop, SendPacket, SequenceDone, Sending
    <2> QED
      BY <2>1, <1>1 DEF seqs
  <1>3. at \in [i : Nat \ {0}, j : Nat, k : Nat, p : Nat \ {0}] /\ list \in PacketLists
    BY DEF TypeOK
  <1>4. seqs \in Seq(SequenceType) /\ Len(seqs) \in Nat
    BY <1>3, ListType DEF seqs
  <1>5. ASSUME at.i # Len(seqs) + 1
        PROVE  /\ at.i \in 1 .. Len(seqs)
               /\ seqs[at.i].repeatSize \in Nat \ {0}
               /\ seqs[at.i].repeatCount \in Nat
               /\ at.i + seqs[at.i].repeatSize \in heads
               /\ at.i + seqs[at.i].repeatSize \in 1 .. Len(seqs) + 1
    BY <1>1, <1>2, <1>3, <1>5, HeadsAdvance DEF seqs
  <1>6. Handshake'
    BY <1>2 DEF Handshake, RunNextSet, RunLoop, SendPacket, SequenceDone, Sending, Gone
  <1>7. 1 \in heads
    BY <1>1 DEF TiledBy
  \* the type of the cursor and where it stands, action by action
  <1>8. /\ at' \in [i : Nat \ {0}, j : Nat, k : Nat, p : Nat \ {0}]
        /\ at'.i \in heads
        /\ wpc' \in {"send", "check"} =>
              at'.i # Len(seqs) + 1 /\ at'.k < seqs[at'.i].repeatSize
    <2>1. CASE RunNextSet
      <3>1. wpc = "set" /\ at.i # Len(seqs) + 1
        BY <2>1, <1>3, <1>4 DEF RunNextSet
      <3>2. CASE seqs[at.i].repeatCount > 0
        <4>1. wpc' = "send" /\ at' = [at EXCEPT !.j = 0, !.k = 0, !.p = 1]
          BY <2>1, <3>2 DEF RunNextSet
        <4>2. at'.i = at.i /\ at'.k = 0
          BY <4>1, <1>3
        <4>3. at' \in [i : Nat \ {0}, j : Nat, k : Nat, p : Nat \ {0}]
          BY <4>1, <1>3, MoveCursor DEF CursorType
        <4> QED
          BY <4>2, <4>3, <3>1, <1>2, <1>5
      <3>3. CASE ~(seqs[at.i].repeatCount > 0)
        <4>1. wpc' = "set" /\ at' = [at EXCEPT !.i = @ + seqs[at.i].repeatSize]
          BY <2>1, <3>1, <3>3 DEF RunNextSet
        <4>2. at'.i = at.i + seqs[at.i].repeatSize
          BY <4>1, <1>3
        <4>3. at' \in [i : Nat \ {0}, j : Nat, k : Nat, p : Nat \ {0}]
          <5>1. at.i + seqs[at.i].repeatSize \in Nat \ {0}
            BY <1>3, <1>5, <3>1
          <5> QED
            BY <4>1, <5>1, <1>3, MoveField DEF CursorType
        <4> QED
          BY <4>1, <4>2, <4>3, <3>1, <1>5
      <3> QED
        BY <3>2, <3>3
    <2>2. CASE RunLoop
      <3>1. list.returnTo = 0
        BY <2>2, <1>3, ListType DEF RunLoop
      <3>2. wpc' = "set" /\ at' = [at EXCEPT !.i = 1]
        BY <2>2, <3>1 DEF RunLoop
      <3>3. at' \in [i : Nat \ {0}, j : Nat, k : Nat, p : Nat \ {0}] /\ at'.i = 1
        BY <3>2, <1>3, MoveField DEF CursorType
      <3> QED
        BY <3>2, <3>3, <1>7
    <2>3. CASE SendPacket
      <3>1. wpc = "send" /\ at' = [at EXCEPT !.p = @ + 1]
        BY <2>3 DEF SendPacket
      <3>2. at' \in [i : Nat \ {0}, j : Nat, k : Nat, p : Nat \ {0}]
            /\ at'.i = at.i /\ at'.k = at.k
        BY <3>1, <1>3, MoveField DEF CursorType
      <3> QED
        BY <3>1, <3>2, <1>1, <1>2
    <2>4. CASE SequenceDone
      <3>1. wpc = "send" /\ at.i # Len(seqs) + 1
        BY <2>4, <1>1 DEF SequenceDone
      <3>2. CASE /\ at.k + 1 < seqs[at.i].repeatSize
                 /\ at' = [at EXCEPT !.k = @ + 1, !.p = 1] /\ wpc' = wpc
        <4>1. at' \in [i : Nat \ {0}, j : Nat, k : Nat, p : Nat \ {0}]
          <5>1. at.j + 1 \in Nat /\ at.k + 1 \in Nat
            BY <1>3
          <5> QED
            BY <5>1, <3>2, <1>3, MoveCursor DEF CursorType
        <4>2. at'.i = at.i /\ at'.k = at.k + 1
          BY <3>2, <1>3
        <4> QED
          BY <4>1, <4>2, <3>1, <3>2, <1>2
      <3>3. CASE at' = [at EXCEPT !.j = @ + 1, !.k = 0, !.p = 1] /\ wpc' = wpc
        <4>1. at' \in [i : Nat \ {0}, j : Nat, k : Nat, p : Nat \ {0}]
          <5>1. at.j + 1 \in Nat /\ at.k + 1 \in Nat
            BY <1>3
          <5> QED
            BY <5>1, <3>3, <1>3, MoveCursor DEF CursorType
        <4>2. at'.i = at.i /\ at'.k = 0
          BY <3>3, <1>3
        <4> QED
          BY <4>1, <4>2, <3>1, <1>2, <1>5
      <3>4. CASE at' = [at EXCEPT !.i = @ + seqs[at.i].repeatSize] /\ wpc' = "set"
        <4>1. at'.i = at.i + seqs[at.i].repeatSize
          BY <3>4, <1>3
        <4>2. at' \in [i : Nat \ {0}, j : Nat, k : Nat, p : Nat \ {0}]
          <5>1. at.i + seqs[at.i].repeatSize \in Nat \ {0}
            BY <1>3, <1>5, <3>1
          <5> QED
            BY <5>1, <3>4, <1>3, MoveField DEF CursorType
        <4> QED
          BY <4>1, <4>2, <3>1, <3>4, <1>5
      <3> QED
        BY <2>4, <3>2, <3>3, <3>4 DEF SequenceDone
    <2> QED
      BY <2>1, <2>2, <2>3, <2>4
  <1>9. wire' \in Seq(Nat)
    <2>1. CASE ~SendPacket
      BY <2>1, StartOfRun DEF TypeOK, RunNextSet, RunLoop, SequenceDone
    <2>2. CASE SendPacket
      <3>1. wpc = "send" /\ at.i # Len(seqs) + 1 /\ at.k < seqs[at.i].repeatSize
        BY <2>2, <1>1 DEF SendPacket
      <3>2. at.i + at.k \in 1 .. Len(seqs)
        <4>1. /\ at.i \in Nat \ {0} /\ at.k \in Nat
              /\ seqs[at.i].repeatSize \in Nat
              /\ at.i + seqs[at.i].repeatSize <= Len(seqs) + 1
          BY <3>1, <1>3, <1>4, <1>5
        <4> QED
          BY <4>1, <3>1, <1>4
      <3>3. seqs[at.i + at.k] \in SequenceType
        BY <3>2, <1>4, Lists!ElementOfSeq
      <3>4. seqs[at.i + at.k].pkts \in Seq(PacketType)
        BY <3>3 DEF SequenceType
      <3>5. at.p \in 1 .. Len(seqs[at.i + at.k].pkts)
        BY <2>2, <3>4, <1>3 DEF SendPacket
      <3>6. seqs[at.i + at.k].pkts[at.p] \in PacketType
        BY <3>4, <3>5, Lists!ElementOfSeq
      <3>7. seqs[at.i + at.k].pkts[at.p].guid \in Nat
        BY <3>6 DEF PacketType
      <3> QED
        BY <2>2, <3>7 DEF SendPacket, TypeOK
    <2> QED
      BY <2>1, <2>2
  <1>10. TypeOK'
    <2>1. UNCHANGED <<list, state_, stop_, qthread, cpc>>
      BY DEF RunNextSet, RunLoop, SendPacket, SequenceDone
    <2> QED
      BY <2>1, <1>2, <1>8, <1>9 DEF TypeOK, Sending
  <1>11. Cursor'
    BY <1>1, <1>2, <1>8 DEF Cursor
  <1> QED
    BY <1>6, <1>10, <1>11

\* Every step of the controller and of the worker keeps the invariant.
THEOREM NextInv == IInv /\ [Next]_vars => IInv'
  <1> SUFFICES ASSUME IInv, [Next]_vars PROVE IInv'
    OBVIOUS
  <1>1. CASE LoadList
    BY <1>1, LoadListInv
  <1>2. CASE StartCall \/ StopCall \/ ControllerStep
    BY <1>2, ControllerInv DEF ControllerStep
  <1>3. CASE WorkerStep
    BY <1>3, RunFrameInv, RunWalkInv DEF WorkerStep
  <1>4. CASE UNCHANGED vars
    BY <1>4 DEF vars, IInv, TypeOK, Handshake, Cursor, seqs
  <1> QED
    BY <1>1, <1>2, <1>3, <1>4 DEF Next

\* The inductive invariant holds of every behaviour of the transmit thread: its
\* state is well typed, state_ is handed over as Handshake says, and the cursor
\* of run() stands on a set of the list.
THEOREM InductiveInvariant == Spec => []IInv
  BY InitInv, NextInv, PTL DEF Spec

\* isRunning() = false under the port lock means that no thread is inside run():
\* the Q_ASSERT of clearPacketList() protects what it is meant to.
THEOREM NotRunningMeansGoneHolds == Spec => []NotRunningMeansGone
  <1>1. IInv => NotRunningMeansGone
    BY DEF IInv, TypeOK, Handshake, NotRunningMeansGone, Sending, Gone
  <1> QED
    BY <1>1, InductiveInvariant, PTL

\* run() never reads packetSequenceList_ out of range, whatever sets the list has.
THEOREM ReadsInsideListHolds == Spec => []ReadsInsideList
  <1>1. IInv => ReadsInsideList
    <2> SUFFICES ASSUME IInv, wpc \in {"send", "check"}
                 PROVE  at.i \in 1 .. Len(seqs) /\ at.i + at.k <= Len(seqs)
      BY DEF ReadsInsideList
    <2>1. PICK heads \in SUBSET (1 .. Len(seqs) + 1) :
              /\ TiledBy(seqs, heads)
              /\ at.i \in heads
              /\ at.i # Len(seqs) + 1 /\ at.k < seqs[at.i].repeatSize
      BY DEF IInv, Cursor, Sending
    <2>2. at.i \in Nat /\ at.k \in Nat /\ list \in PacketLists
      BY DEF IInv, TypeOK
    <2>3. Len(seqs) \in Nat
      BY <2>2, ListType DEF seqs
    <2>4. /\ at.i \in 1 .. Len(seqs)
          /\ seqs[at.i].repeatSize \in Nat
          /\ at.i + seqs[at.i].repeatSize \in 1 .. Len(seqs) + 1
      BY <2>1, <2>2, HeadsAdvance DEF seqs
    <2> QED
      BY <2>1, <2>2, <2>3, <2>4
  <1> QED
    BY <1>1, InductiveInvariant, PTL

\* The packet list, which has no lock of its own, is never changed under run().
THEOREM ListStableInRunHolds == Spec => ListStableInRun
  <1>1. IInv /\ [Next]_vars => [list' # list => wpc \in Gone /\ wpc' \in Gone]_vars
    <2> SUFFICES ASSUME IInv, Next, list' # list
                 PROVE  wpc \in Gone /\ wpc' \in Gone
      OBVIOUS
    <2>1. LoadList
      BY DEF Next, StartCall, StopCall, ControllerStep, QThreadStart, StartReturn,
             StopSet, StopReturn, WorkerStep, RunEnter, RunNextSet, RunLoop, RunEnd,
             SendPacket, CheckStop, SequenceDone, RunStopped, RunAccount, RunFinish,
             QFinishBegin, QFinishEnd
    <2> QED
      BY <2>1 DEF LoadList, IInv, TypeOK, Handshake, Sending, Gone
  <1> QED
    BY <1>1, InductiveInvariant, PTL DEF Spec, ListStableInRun


-----------------------------------------------------------------------------
(* What has been sent of a set, from the start of the set to its end.        *)

LEMMA SentType ==
    ASSUME NEW sq, Enclosed(sq), NEW i \in 1 .. Len(sq), NEW j \in Nat, NEW k \in Nat,
           k < sq[i].repeatSize, NEW p \in Nat \ {0}, p <= Len(sq[i + k].pkts) + 1
    PROVE  /\ i + k \in 1 .. Len(sq) /\ sq[i + k] \in SequenceType
           /\ Repeat(SetPackets(sq, i), j) \in Seq(Entry)
           /\ PacketsOf(sq, i, k) \in Seq(Entry)
           /\ Repeat(SetPackets(sq, i), j) \o PacketsOf(sq, i, k) \in Seq(Entry)
           /\ SequencePackets(sq[i + k]) \in Seq(Entry)
           /\ Len(SequencePackets(sq[i + k])) = Len(sq[i + k].pkts)
           /\ Len(sq[i + k].pkts) \in Nat
           /\ SubSeq(SequencePackets(sq[i + k]), 1, p - 1) \in Seq(Entry)
           /\ SentOfSet(sq, i, j, k, p) \in Seq(Entry)
  <1>1. /\ sq \in Seq(SequenceType) /\ Len(sq) \in Nat /\ i \in Nat \ {0}
        /\ sq[i].repeatSize \in Nat /\ i + sq[i].repeatSize <= Len(sq) + 1
        /\ SetPackets(sq, i) \in Seq(Entry)
    BY SequenceAt DEF Enclosed
  <1>2. i + k \in 1 .. Len(sq)
    BY <1>1
  <1>3. sq[i + k] \in SequenceType
    BY <1>1, <1>2, Lists!ElementOfSeq
  <1>4. Repeat(SetPackets(sq, i), j) \in Seq(Entry)
    BY <1>1, RepeatType
  <1>5. PacketsOf(sq, i, k) \in Seq(Entry)
    BY <1>1, <1>2, PacketsOfType
  <1>6. /\ SequencePackets(sq[i + k]) \in Seq(Entry)
        /\ Len(SequencePackets(sq[i + k])) = Len(sq[i + k].pkts)
        /\ Len(sq[i + k].pkts) \in Nat
    BY <1>3, SequencePacketsType
  <1>7. SubSeq(SequencePackets(sq[i + k]), 1, p - 1) \in Seq(Entry)
    <2>1. ASSUME NEW q \in 1 .. p - 1 PROVE SequencePackets(sq[i + k])[q] \in Entry
      <3>1. q \in 1 .. Len(SequencePackets(sq[i + k]))
        BY <1>6
      <3> QED
        BY <1>6, <3>1, Lists!ElementOfSeq
    <2>2. 1 \in Int /\ p - 1 \in Int
      OBVIOUS
    <2> QED
      BY <2>1, <2>2, Lists!SubSeqProperties
  <1>8. Repeat(SetPackets(sq, i), j) \o PacketsOf(sq, i, k) \in Seq(Entry)
    BY <1>4, <1>5, Lists!ConcatProperties
  <1>9. SentOfSet(sq, i, j, k, p) \in Seq(Entry)
    BY <1>7, <1>8, Lists!ConcatProperties DEF SentOfSet
  <1> QED
    BY <1>2, <1>3, <1>4, <1>5, <1>6, <1>7, <1>8, <1>9

\* At the head of a sequence.
LEMMA SentHead ==
    ASSUME NEW sq, Enclosed(sq), NEW i \in 1 .. Len(sq), NEW j \in Nat, NEW k \in Nat,
           k < sq[i].repeatSize
    PROVE  SentOfSet(sq, i, j, k, 1) = Repeat(SetPackets(sq, i), j) \o PacketsOf(sq, i, k)
  <1>1. SubSeq(SequencePackets(sq[i + k]), 1, 1 - 1) = <<>>
    BY Lists!SubSeqEmpty
  <1>2. i \in 1 .. Len(sq) /\ sq[i].repeatSize \in Nat /\ 1 \in Nat \ {0}
    BY SequenceAt
  <1>3. i + k \in 1 .. Len(sq) /\ Len(sq) \in Nat
    BY SequenceAt
  <1>4. sq[i + k] \in SequenceType
    BY <1>3, SequenceAt
  <1>5. 1 <= Len(sq[i + k].pkts) + 1
    BY <1>4, SequencePacketsType
  <1>6. Repeat(SetPackets(sq, i), j) \o PacketsOf(sq, i, k) \in Seq(Entry)
    BY <1>2, <1>5, SentType
  <1> QED
    BY <1>1, <1>6, Lists!ConcatEmptySeq DEF SentOfSet

\* At the head of a repetition, and at the end of the last one of all.
LEMMA SentRepetition ==
    ASSUME NEW sq, Enclosed(sq), NEW i \in 1 .. Len(sq), NEW j \in Nat
    PROVE  SentOfSet(sq, i, j, 0, 1) = Repeat(SetPackets(sq, i), j)
  <1>1. 0 \in Nat /\ 0 < sq[i].repeatSize
    BY SequenceAt
  <1>2. Repeat(SetPackets(sq, i), j) \in Seq(Entry)
    BY SequenceAt, RepeatType
  <1>3. SentOfSet(sq, i, j, 0, 1) = Repeat(SetPackets(sq, i), j) \o PacketsOf(sq, i, 0)
    BY <1>1, SentHead
  <1>4. PacketsOf(sq, i, 0) = <<>>
    BY PacketsOfNone
  <1>5. Repeat(SetPackets(sq, i), j) \o <<>> = Repeat(SetPackets(sq, i), j)
    BY <1>2, Lists!ConcatEmptySeq
  <1> QED
    BY <1>3, <1>4, <1>5

\* One packet more.
LEMMA SentPacket ==
    ASSUME NEW sq, Enclosed(sq), NEW i \in 1 .. Len(sq), NEW j \in Nat, NEW k \in Nat,
           k < sq[i].repeatSize, NEW p \in Nat \ {0}, p <= Len(sq[i + k].pkts)
    PROVE  /\ SequencePackets(sq[i + k])[p] \in Entry
           /\ SequencePackets(sq[i + k])[p].guid = sq[i + k].pkts[p].guid
           /\ SentOfSet(sq, i, j, k, p + 1)
                 = Append(SentOfSet(sq, i, j, k, p), SequencePackets(sq[i + k])[p])
  <1>1. i + k \in 1 .. Len(sq)
    BY SequenceAt
  <1>2. sq[i + k] \in SequenceType
    BY <1>1, SequenceAt
  <1>3. Len(sq[i + k].pkts) \in Nat /\ p <= Len(sq[i + k].pkts) + 1
    BY <1>2, SequencePacketsType
  <1>types. /\ i + k \in 1 .. Len(sq) /\ sq[i + k] \in SequenceType
            /\ Repeat(SetPackets(sq, i), j) \in Seq(Entry)
            /\ PacketsOf(sq, i, k) \in Seq(Entry)
            /\ Repeat(SetPackets(sq, i), j) \o PacketsOf(sq, i, k) \in Seq(Entry)
            /\ SequencePackets(sq[i + k]) \in Seq(Entry)
            /\ Len(SequencePackets(sq[i + k])) = Len(sq[i + k].pkts)
            /\ Len(sq[i + k].pkts) \in Nat
            /\ SubSeq(SequencePackets(sq[i + k]), 1, p - 1) \in Seq(Entry)
            /\ SentOfSet(sq, i, j, k, p) \in Seq(Entry)
    BY <1>3, SentType
  <1> DEFINE s == SequencePackets(sq[i + k])
             a == Repeat(SetPackets(sq, i), j) \o PacketsOf(sq, i, k)
  <1>4. /\ a \in Seq(Entry) /\ s \in Seq(Entry) /\ Len(s) = Len(sq[i + k].pkts)
        /\ SubSeq(s, 1, p - 1) \in Seq(Entry)
    BY <1>types
  <1>5. p \in 1 .. Len(s)
    BY <1>3, <1>4
  <1>6. s[p] \in Entry
    BY <1>4, <1>5, Lists!ElementOfSeq
  <1>7. SubSeq(s, 1, (p + 1) - 1) = SubSeq(s, 1, p - 1) \o <<s[p]>>
    <2>1. (p + 1) - 1 = p /\ 1 \in 1 .. Len(s) /\ p \in 1 .. Len(s)
      BY <1>4, <1>5
    <2> HIDE DEF s
    <2> QED
      BY <2>1, <1>4, Lists!SubSeqRecursiveSecond
  <1>8. a \o (SubSeq(s, 1, p - 1) \o <<s[p]>>) = (a \o SubSeq(s, 1, p - 1)) \o <<s[p]>>
    <2>1. <<s[p]>> \in Seq(Entry)
      BY <1>6
    <2> HIDE DEF s, a
    <2> QED
      BY ONLY <1>4, <2>1, CatAssoc
  <1>9. a \o SubSeq(s, 1, p - 1) \in Seq(Entry)
    <2> HIDE DEF s, a
    <2> QED
      BY <1>4, Lists!ConcatProperties
  <1>10. Append(a \o SubSeq(s, 1, p - 1), s[p]) = (a \o SubSeq(s, 1, p - 1)) \o <<s[p]>>
    <2> HIDE DEF s, a
    <2> QED
      BY <1>6, <1>9, Lists!AppendIsConcat
  <1>11. s[p].guid = sq[i + k].pkts[p].guid
    BY <1>2, <1>4, <1>5, SequencePacketsType
  <1> QED
    BY <1>6, <1>7, <1>8, <1>10, <1>11 DEF SentOfSet

\* A sequence is through: the next one of the set, or one repetition more.
LEMMA SentSequence ==
    ASSUME NEW sq, Enclosed(sq), NEW i \in 1 .. Len(sq), NEW j \in Nat, NEW k \in Nat,
           k < sq[i].repeatSize, NEW p \in Nat \ {0}, p = Len(sq[i + k].pkts) + 1
    PROVE  /\ k + 1 < sq[i].repeatSize =>
                 SentOfSet(sq, i, j, k + 1, 1) = SentOfSet(sq, i, j, k, p)
           /\ k + 1 >= sq[i].repeatSize =>
                 Repeat(SetPackets(sq, i), j + 1) = SentOfSet(sq, i, j, k, p)
  <1> DEFINE s == SequencePackets(sq[i + k])
             r == Repeat(SetPackets(sq, i), j)
             q == PacketsOf(sq, i, k)
  <1>1. /\ i + k \in 1 .. Len(sq) /\ sq \in Seq(SequenceType) /\ sq[i].repeatSize \in Nat \ {0}
        /\ i \in Nat \ {0} /\ SetPackets(sq, i) \in Seq(Entry) /\ Len(sq) \in Nat
    BY SequenceAt DEF Enclosed
  <1>2. sq[i + k] \in SequenceType
    BY <1>1, SequenceAt
  <1>3. /\ r \in Seq(Entry) /\ q \in Seq(Entry) /\ s \in Seq(Entry)
        /\ Len(s) = Len(sq[i + k].pkts) /\ Len(s) \in Nat
    <2>1. Len(sq[i + k].pkts) \in Nat /\ p <= Len(sq[i + k].pkts) + 1
      BY <1>2, SequencePacketsType
    <2> QED
      BY <2>1, SentType
  <1>4. SentOfSet(sq, i, j, k, p) = (r \o q) \o s
    <2>1. p - 1 = Len(s)
      BY <1>3
    <2>2. SubSeq(s, 1, p - 1) = s
      <3> HIDE DEF s
      <3> QED
        BY <2>1, <1>3, Lists!SubSeqFull
    <2> QED
      BY <2>2 DEF SentOfSet
  <1>5. PacketsOf(sq, i, k + 1) = q \o s
    <2>1. i + k <= Len(sq)
      BY <1>1
    <2> QED
      BY <1>1, <2>1, PacketsOfNext
  <1>6. (r \o q) \o s = r \o (q \o s)
    <2> HIDE DEF r, q, s
    <2> QED
      BY <1>3, CatAssoc
  <1>7. ASSUME k + 1 < sq[i].repeatSize
        PROVE  SentOfSet(sq, i, j, k + 1, 1) = SentOfSet(sq, i, j, k, p)
    <2>1. SentOfSet(sq, i, j, k + 1, 1) = r \o PacketsOf(sq, i, k + 1)
      <3>1. k + 1 \in Nat
        OBVIOUS
      <3> QED
        BY <1>7, <3>1, SentHead
    <2>2. r \o PacketsOf(sq, i, k + 1) = r \o (q \o s)
      BY <1>5
    <2> HIDE DEF r, q, s
    <2> QED
      BY <2>1, <2>2, <1>4, <1>6
  <1>8. ASSUME k + 1 >= sq[i].repeatSize
        PROVE  Repeat(SetPackets(sq, i), j + 1) = SentOfSet(sq, i, j, k, p)
    <2>1. k + 1 = sq[i].repeatSize
      BY <1>1, <1>8
    <2>2. SetPackets(sq, i) = q \o s
      BY <2>1, <1>5 DEF SetPackets
    <2>3. Repeat(SetPackets(sq, i), j + 1) = r \o SetPackets(sq, i)
      BY <1>1, RepeatOnce
    <2>4. r \o SetPackets(sq, i) = r \o (q \o s)
      BY <2>2
    <2> HIDE DEF r, q, s
    <2> QED
      BY <2>3, <2>4, <1>4, <1>6
  <1> QED
    BY <1>7, <1>8

\* What has been sent of a set is how its repetitions begin.
LEMMA SentBegins ==
    ASSUME NEW sq, Enclosed(sq), NEW i \in 1 .. Len(sq), NEW j \in Nat, NEW k \in Nat,
           k < sq[i].repeatSize, NEW p \in Nat \ {0}, p <= Len(sq[i + k].pkts) + 1,
           j < sq[i].repeatCount
    PROVE  Begins(Entry, SentOfSet(sq, i, j, k, p),
                  Repeat(SetPackets(sq, i), sq[i].repeatCount))
  <1>1. /\ sq \in Seq(SequenceType) /\ sq[i].repeatSize \in Nat \ {0}
        /\ sq[i].repeatCount \in Nat /\ i + sq[i].repeatSize <= Len(sq) + 1
        /\ i \in Nat \ {0} /\ SetPackets(sq, i) \in Seq(Entry) /\ Len(sq) \in Nat
        /\ i + k <= Len(sq)
    <2>1. /\ sq[i].repeatSize \in Nat \ {0} /\ sq[i].repeatCount \in Nat
          /\ i + sq[i].repeatSize \in i + 1 .. Len(sq) + 1
          /\ SetPackets(sq, i) \in Seq(Entry)
      BY SequenceAt
    <2>2. sq \in Seq(SequenceType) /\ Len(sq) \in Nat
      BY DEF Enclosed
    <2> QED
      BY <2>1, <2>2
  <1>types. /\ i + k \in 1 .. Len(sq) /\ sq[i + k] \in SequenceType
            /\ Repeat(SetPackets(sq, i), j) \in Seq(Entry)
            /\ PacketsOf(sq, i, k) \in Seq(Entry)
            /\ Repeat(SetPackets(sq, i), j) \o PacketsOf(sq, i, k) \in Seq(Entry)
            /\ SequencePackets(sq[i + k]) \in Seq(Entry)
            /\ Len(SequencePackets(sq[i + k])) = Len(sq[i + k].pkts)
            /\ Len(sq[i + k].pkts) \in Nat
            /\ SubSeq(SequencePackets(sq[i + k]), 1, p - 1) \in Seq(Entry)
            /\ SentOfSet(sq, i, j, k, p) \in Seq(Entry)
    BY SentType
  <1> DEFINE s == SequencePackets(sq[i + k])
             r == Repeat(SetPackets(sq, i), j)
             q == PacketsOf(sq, i, k)
             h == SubSeq(s, 1, p - 1)
  <1>2. /\ r \in Seq(Entry) /\ q \in Seq(Entry) /\ s \in Seq(Entry) /\ h \in Seq(Entry)
        /\ Len(s) = Len(sq[i + k].pkts) /\ Len(s) \in Nat
        /\ SentOfSet(sq, i, j, k, p) \in Seq(Entry)
    BY <1>types
  <1>3. Begins(Entry, h, s)
    <2> DEFINE t == SubSeq(s, p, Len(s))
    <2>1. t \in Seq(Entry)
      <3>1. ASSUME NEW m \in p .. Len(s) PROVE s[m] \in Entry
        <4>1. m \in 1 .. Len(s)
          BY <1>2
        <4> HIDE DEF s
        <4> QED
          BY <4>1, <1>2, Lists!ElementOfSeq
      <3>2. p \in Int /\ Len(s) \in Int
        BY <1>2
      <3> HIDE DEF s
      <3> QED
        BY <3>1, <3>2, Lists!SubSeqProperties
    <2>2. h \o t = s
      <3>1. /\ 1 \in 1 .. Len(s) + 1 /\ p - 1 \in 1 - 1 .. Len(s)
            /\ Len(s) \in p - 1 .. Len(s) /\ (p - 1) + 1 = p
        BY <1>2
      <3>2. SubSeq(s, 1, p - 1) \o SubSeq(s, (p - 1) + 1, Len(s)) = SubSeq(s, 1, Len(s))
        <4> HIDE DEF s, t
        <4> QED
          BY <3>1, <1>2, Lists!ConcatAdjacentSubSeq
      <3>3. SubSeq(s, 1, Len(s)) = s
        <4> HIDE DEF s, t
        <4> QED
          BY <1>2, Lists!SubSeqFull
      <3> QED
        BY <3>1, <3>2, <3>3
    <2> HIDE DEF h, s, t
    <2> QED
      BY <2>1, <2>2 DEF Begins
  <1>4. Begins(Entry, q \o h, q \o s)
    <2> HIDE DEF q, h, s
    <2> QED
      BY <1>2, <1>3, BeginsAfter
  <1>5. Begins(Entry, q \o s, SetPackets(sq, i))
    <2>1. PacketsOf(sq, i, k + 1) = q \o s
      BY <1>1, <1>2, PacketsOfNext
    <2>2. k + 1 \in Nat /\ k + 1 <= sq[i].repeatSize
      BY <1>1
    <2>3. Begins(Entry, PacketsOf(sq, i, k + 1), PacketsOf(sq, i, sq[i].repeatSize))
      BY <1>1, <2>2, PacketsOfBegins
    <2> QED
      BY <2>1, <2>3 DEF SetPackets
  <1>6. q \o h \in Seq(Entry) /\ q \o s \in Seq(Entry)
    <2> HIDE DEF q, h, s
    <2> QED
      BY <1>2, Lists!ConcatProperties
  <1>7. Begins(Entry, q \o h, SetPackets(sq, i))
    <2> HIDE DEF q, h, s
    <2> QED
      BY <1>1, <1>4, <1>5, <1>6, BeginsTrans
  <1>8. Begins(Entry, r \o (q \o h), r \o SetPackets(sq, i))
    <2> HIDE DEF q, h, r
    <2> QED
      BY <1>1, <1>2, <1>6, <1>7, BeginsAfter
  <1>9. SentOfSet(sq, i, j, k, p) = r \o (q \o h)
    <2>1. (r \o q) \o h = r \o (q \o h)
      <3> HIDE DEF q, h, r, s
      <3> QED
        BY <1>2, CatAssoc, Zenon
    <2> QED
      BY <2>1 DEF SentOfSet
  <1>10. r \o SetPackets(sq, i) = Repeat(SetPackets(sq, i), j + 1)
    BY <1>1, RepeatOnce
  <1>11. /\ j + 1 \in Nat /\ j + 1 <= sq[i].repeatCount
    BY <1>1
  <1>12. Begins(Entry, Repeat(SetPackets(sq, i), j + 1),
                Repeat(SetPackets(sq, i), sq[i].repeatCount))
    BY <1>1, <1>11, RepeatBegins
  <1>13. /\ Repeat(SetPackets(sq, i), j + 1) \in Seq(Entry)
         /\ Repeat(SetPackets(sq, i), sq[i].repeatCount) \in Seq(Entry)
    BY <1>1, <1>11, RepeatType
  <1>14. Begins(Entry, SentOfSet(sq, i, j, k, p), Repeat(SetPackets(sq, i), j + 1))
    <2> HIDE DEF q, h, r, s
    <2> QED
      BY <1>8, <1>9, <1>10
  <1> QED
    BY <1>2, <1>12, <1>13, <1>14, BeginsTrans

-----------------------------------------------------------------------------
(* How far run() has come in the whole list.                                 *)

\* Walked, with what was sent before the set as a sequence instead of a length.
WalkedBehind(sq, i, s, w) ==
    \E b \in Seq(Entry) :
        TransmitOrder(sq) = b \o TransmitFrom(sq)[i] /\ w = Guids(b \o s)

LEMMA WalkedIff ==
    ASSUME NEW sq, Enclosed(sq), NEW i \in 1 .. Len(sq) + 1, NEW s, NEW w
    PROVE  Walked(sq, i, s, w) <=> WalkedBehind(sq, i, s, w)
  <1> DEFINE order == TransmitOrder(sq)
             rest == TransmitFrom(sq)[i]
  <1>1. order \in Seq(Entry) /\ rest \in Seq(Entry) /\ Len(order) \in Nat
    BY TransmitType
  <1> HIDE DEF order, rest
  <1>2. ASSUME NEW n \in 0 .. Len(order)
        PROVE  SubSeq(order, 1, n) \in Seq(Entry)
    <2>1. ASSUME NEW m \in 1 .. n PROVE order[m] \in Entry
      <3>1. m \in 1 .. Len(order)
        BY <1>1
      <3> QED
        BY <3>1, <1>1, Lists!ElementOfSeq
    <2>2. 1 \in Int /\ n \in Int
      OBVIOUS
    <2> QED
      BY <2>1, <2>2, Lists!SubSeqProperties
  <1>3. ASSUME NEW b \in Seq(Entry), order = b \o rest
        PROVE  Len(b) \in 0 .. Len(order) /\ SubSeq(order, 1, Len(b)) = b
    <2>1. /\ Len(b) \in Nat /\ Len(rest) \in Nat /\ Len(order) = Len(b) + Len(rest)
          /\ \A m \in 1 .. Len(b) + Len(rest) :
                order[m] = IF m <= Len(b) THEN b[m] ELSE rest[m - Len(b)]
      BY <1>1, <1>3, Lists!ConcatProperties
    <2>2. Len(b) \in 0 .. Len(order)
      BY <2>1
    <2> DEFINE c == SubSeq(order, 1, Len(b))
    <2>3. c \in Seq(Entry)
      BY <1>2, <2>2
    <2>4. Len(c) = Len(b) /\ \A m \in 1 .. Len(b) : c[m] = order[m]
      <3>1. \A m \in 1 .. Len(b) : order[m] \in Entry
        <4>1. ASSUME NEW m \in 1 .. Len(b) PROVE order[m] \in Entry
          <5>1. m \in 1 .. Len(order)
            BY <2>1
          <5> QED
            BY <5>1, <1>1, Lists!ElementOfSeq
        <4> QED
          BY <4>1
      <3>2. /\ Len(c) = IF 1 <= Len(b) THEN Len(b) - 1 + 1 ELSE 0
            /\ \A m \in 1 .. Len(b) - 1 + 1 : c[m] = order[1 + m - 1]
        <4>1. 1 \in Int /\ Len(b) \in Int
          BY <2>1
        <4> QED
          BY <3>1, <4>1, Lists!SubSeqProperties
      <3>3. Len(c) = Len(b)
        BY <3>2, <2>1
      <3>4. ASSUME NEW m \in 1 .. Len(b) PROVE c[m] = order[m]
        <4>1. m \in 1 .. Len(b) - 1 + 1 /\ 1 + m - 1 = m
          BY <2>1
        <4> HIDE DEF c
        <4> QED
          BY <4>1, <3>2
      <3> QED
        BY <3>3, <3>4
    <2>5. ASSUME NEW m \in 1 .. Len(b) PROVE c[m] = b[m]
      <3>1. m \in 1 .. Len(b) + Len(rest) /\ m <= Len(b)
        BY <2>1
      <3> HIDE DEF c
      <3> QED
        BY <2>1, <2>4, <3>1
    <2>6. c = b
      <3> HIDE DEF c
      <3> QED
        BY <2>3, <2>4, <2>5, Lists!SeqEqual
    <2> QED
      BY <2>2, <2>6
  <1>4. ASSUME NEW n \in 0 .. Len(order), order = SubSeq(order, 1, n) \o rest,
               w = Guids(SubSeq(order, 1, n) \o s)
        PROVE  \E b \in Seq(Entry) : order = b \o rest /\ w = Guids(b \o s)
    BY <1>2, <1>4
  <1>5. ASSUME NEW b \in Seq(Entry), order = b \o rest, w = Guids(b \o s)
        PROVE  \E n \in 0 .. Len(order) :
                  order = SubSeq(order, 1, n) \o rest /\ w = Guids(SubSeq(order, 1, n) \o s)
    BY <1>3, <1>5
  <1> QED
    BY <1>4, <1>5 DEF order, rest, Walked, WalkedBehind

\* Before the first packet.
LEMMA WalkedNothing ==
    ASSUME NEW sq, Enclosed(sq)
    PROVE  WalkedBehind(sq, 1, <<>>, <<>>)
  <1>1. TransmitFrom(sq)[1] \in Seq(Entry) /\ TransmitOrder(sq) = TransmitFrom(sq)[1]
    <2>1. 1 \in 1 .. Len(sq) + 1
      BY DEF Enclosed
    <2> QED
      BY <2>1, TransmitType DEF TransmitOrder
  <1>2. <<>> \in Seq(Entry) /\ <<>> \o TransmitFrom(sq)[1] = TransmitFrom(sq)[1]
        /\ <<>> \o <<>> = <<>>
    BY <1>1, Lists!ConcatEmptySeq
  <1>3. Guids(<<>>) = <<>>
    BY DEF Guids
  <1> QED
    BY <1>1, <1>2, <1>3 DEF WalkedBehind

\* Behind the last set, what is on the wire is the whole list.
LEMMA WalkedAll ==
    ASSUME NEW sq, Enclosed(sq), NEW w, WalkedBehind(sq, Len(sq) + 1, <<>>, w)
    PROVE  w = Guids(TransmitOrder(sq))
  <1>1. PICK b \in Seq(Entry) :
            TransmitOrder(sq) = b \o TransmitFrom(sq)[Len(sq) + 1] /\ w = Guids(b \o <<>>)
    BY DEF WalkedBehind
  <1>2. TransmitFrom(sq)[Len(sq) + 1] = <<>>
    BY TransmitStep
  <1> QED
    BY <1>1, <1>2

\* A set is through once all its repetitions are.
LEMMA WalkedSet ==
    ASSUME NEW sq, Enclosed(sq), NEW i \in 1 .. Len(sq), NEW w,
           WalkedBehind(sq, i, Repeat(SetPackets(sq, i), sq[i].repeatCount), w)
    PROVE  WalkedBehind(sq, i + sq[i].repeatSize, <<>>, w)
  <1> DEFINE r == Repeat(SetPackets(sq, i), sq[i].repeatCount)
             rest == TransmitFrom(sq)[i + sq[i].repeatSize]
  <1>1. PICK b \in Seq(Entry) :
            TransmitOrder(sq) = b \o TransmitFrom(sq)[i] /\ w = Guids(b \o r)
    BY DEF WalkedBehind
  <1>2. TransmitFrom(sq)[i] = r \o rest
    BY TransmitStep
  <1>3. r \in Seq(Entry)
    BY SequenceAt
  <1>4. rest \in Seq(Entry)
    <2>1. i + sq[i].repeatSize \in 1 .. Len(sq) + 1
      BY SequenceAt
    <2> QED
      BY <2>1, TransmitType
  <1> HIDE DEF r, rest
  <1>5. b \o (r \o rest) = (b \o r) \o rest
    BY <1>3, <1>4, CatAssoc
  <1>6. b \o r \in Seq(Entry) /\ (b \o r) \o <<>> = b \o r
    BY <1>3, Lists!ConcatProperties, Lists!ConcatEmptySeq
  <1>7. TransmitOrder(sq) = (b \o r) \o rest /\ w = Guids((b \o r) \o <<>>)
    BY <1>1, <1>2, <1>5, <1>6
  <1> QED
    BY <1>6, <1>7 DEF WalkedBehind, rest

\* The next packet of a set is the next of the whole list.
LEMMA WalkedPacket ==
    ASSUME NEW sq, Enclosed(sq), NEW i \in 1 .. Len(sq), NEW s \in Seq(Entry),
           NEW e \in Entry, NEW w, WalkedBehind(sq, i, s, w),
           Begins(Entry, Append(s, e), Repeat(SetPackets(sq, i), sq[i].repeatCount))
    PROVE  /\ WalkedBehind(sq, i, Append(s, e), Append(w, e.guid))
           /\ w \in Seq(Nat) /\ Len(w) < Len(TransmitOrder(sq))
           /\ Guids(TransmitOrder(sq))[Len(w) + 1] = e.guid
  <1> DEFINE r == Repeat(SetPackets(sq, i), sq[i].repeatCount)
             rest == TransmitFrom(sq)[i + sq[i].repeatSize]
             order == TransmitOrder(sq)
  <1>1. PICK b \in Seq(Entry) : order = b \o TransmitFrom(sq)[i] /\ w = Guids(b \o s)
    BY DEF WalkedBehind
  <1>2. TransmitFrom(sq)[i] = r \o rest
    BY TransmitStep
  <1>3. r \in Seq(Entry) /\ order \in Seq(Entry)
    BY SequenceAt, TransmitType
  <1>4. rest \in Seq(Entry)
    <2>1. i + sq[i].repeatSize \in 1 .. Len(sq) + 1
      BY SequenceAt
    <2> QED
      BY <2>1, TransmitType
  <1>5. Append(s, e) \in Seq(Entry)
    OBVIOUS
  <1>6. Begins(Entry, Append(s, e), r)
    OBVIOUS
  <1> HIDE DEF r, rest, order
  <1>7. /\ b \o s \in Seq(Entry) /\ r \o rest \in Seq(Entry) /\ b \o r \in Seq(Entry)
        /\ b \o Append(s, e) \in Seq(Entry) /\ b \o (r \o rest) \in Seq(Entry)
    <2>1. r \o rest \in Seq(Entry)
      BY <1>3, <1>4, Lists!ConcatProperties
    <2> QED
      BY <2>1, <1>3, <1>5, Lists!ConcatProperties
  <1>8. b \o Append(s, e) = Append(b \o s, e)
    <2>1. Append(s, e) = s \o <<e>> /\ Append(b \o s, e) = (b \o s) \o <<e>>
      BY <1>7, Lists!AppendIsConcat
    <2>2. <<e>> \in Seq(Entry)
      OBVIOUS
    <2>3. (b \o s) \o <<e>> = b \o (s \o <<e>>)
      BY <2>2, CatAssoc
    <2> QED
      BY <2>1, <2>3
  <1>9. Begins(Entry, Append(s, e), r \o rest)
    <2>1. Begins(Entry, r, r \o rest)
      BY <1>3, <1>4, BeginsCat
    <2> QED
      BY <2>1, <1>3, <1>5, <1>6, <1>7, BeginsTrans
  <1>10. Begins(Entry, b \o Append(s, e), order)
    <2>1. Begins(Entry, b \o Append(s, e), b \o (r \o rest))
      BY <1>5, <1>7, <1>9, BeginsAfter
    <2> QED
      BY <2>1, <1>1, <1>2
  <1>11. Len(b \o s) < Len(order) /\ order[Len(b \o s) + 1] = e
    <2>1. Begins(Entry, Append(b \o s, e), order)
      BY <1>8, <1>10
    <2> DEFINE a == b \o s
    <2>2. a \in Seq(Entry) /\ Begins(Entry, Append(a, e), order)
      BY <1>7, <2>1
    <2> HIDE DEF a
    <2>3. Len(a) < Len(order) /\ order[Len(a) + 1] = e
      BY <2>2, <1>3, BeginsNext
    <2> QED
      BY <2>3 DEF a
  <1>12. /\ Guids(b \o s) \in Seq(Nat) /\ Len(Guids(b \o s)) = Len(b \o s)
         /\ Len(b \o s) \in Nat
    BY <1>7, GuidsType
  <1>13. Guids(order)[Len(b \o s) + 1] = e.guid
    <2>1. Len(b \o s) + 1 \in 1 .. Len(order)
      BY <1>3, <1>11, <1>12
    <2> QED
      BY <2>1, <1>11 DEF Guids
  <1>14. Append(w, e.guid) = Guids(b \o Append(s, e))
    BY <1>1, <1>7, <1>8, GuidsAppend
  <1>15. WalkedBehind(sq, i, Append(s, e), Append(w, e.guid))
    BY <1>1, <1>14 DEF WalkedBehind, order
  <1> QED
    BY <1>1, <1>11, <1>12, <1>13, <1>15 DEF order

-----------------------------------------------------------------------------
(* Walk is an invariant.                                                     *)

\* Where the cursor stands while run() sends, and one step further.
LEMMA Standing ==
    ASSUME IInv
    PROVE  /\ Enclosed(seqs) /\ Len(seqs) \in Nat /\ at \in CursorType
           /\ at.j \in Nat /\ at.k \in Nat /\ at.p \in Nat \ {0}
           /\ wpc \in Sending => at.i \in 1 .. Len(seqs) + 1
           /\ wpc \in {"send", "check"} =>
                 at.i \in 1 .. Len(seqs) /\ at.k < seqs[at.i].repeatSize
  <1>1. list \in PacketLists /\ at \in CursorType
    BY DEF IInv, TypeOK, CursorType
  <1>2. Enclosed(seqs) /\ seqs \in Seq(SequenceType)
    BY <1>1, ListType, TiledEnclosed DEF seqs
  <1>3. Len(seqs) \in Nat
    BY <1>2
  <1>4. PICK heads \in SUBSET (1 .. Len(seqs) + 1) :
            /\ wpc \in Sending => at.i \in heads
            /\ wpc \in {"send", "check"} =>
                  at.i # Len(seqs) + 1 /\ at.k < seqs[at.i].repeatSize
    BY DEF IInv, Cursor
  <1>5. wpc \in {"send", "check"} => wpc \in Sending
    BY DEF Sending
  <1>6. at.j \in Nat /\ at.k \in Nat /\ at.p \in Nat \ {0}
    BY <1>1 DEF CursorType
  <1>7. wpc \in Sending => at.i \in 1 .. Len(seqs) + 1
    BY <1>4
  <1>8. wpc \in {"send", "check"} => at.i \in 1 .. Len(seqs) /\ at.k < seqs[at.i].repeatSize
    BY <1>3, <1>4, <1>5, <1>7
  <1> QED
    BY <1>1, <1>2, <1>3, <1>6, <1>7, <1>8

\* The sequence run() reads has a length.
LEMMA LengthAt ==
    ASSUME IInv, wpc \in {"send", "check"}
    PROVE  Len(seqs[at.i + at.k].pkts) \in Nat /\ at.i + at.k \in 1 .. Len(seqs)
  <1>1. /\ Enclosed(seqs) /\ at.i \in 1 .. Len(seqs) /\ at.k \in Nat /\ Len(seqs) \in Nat
        /\ at.k < seqs[at.i].repeatSize
    BY Standing
  <1>2. at.i + seqs[at.i].repeatSize <= Len(seqs) + 1 /\ seqs[at.i].repeatSize \in Nat
    BY <1>1, SequenceAt
  <1>3. at.i + at.k \in 1 .. Len(seqs)
    BY <1>1, <1>2
  <1> QED
    BY <1>1, <1>3, SequenceAt, SequencePacketsType

LEMMA WalkedFact ==
    ASSUME IInv, Walk
    PROVE  /\ wpc = "set" => WalkedBehind(seqs, at.i, <<>>, wire)
           /\ wpc \in {"send", "check"} =>
                 WalkedBehind(seqs, at.i, SentOfSet(seqs, at.i, at.j, at.k, at.p), wire)
  <1>1. wpc = "set" => at.i \in 1 .. Len(seqs) + 1
    BY Standing DEF Sending
  <1>2. wpc \in {"send", "check"} => at.i \in 1 .. Len(seqs) + 1
    BY Standing DEF Sending
  <1>3. Enclosed(seqs)
    BY Standing
  <1> QED
    BY <1>1, <1>2, <1>3, WalkedIff DEF Walk

\* run() enters the list, or goes back to its start.
LEMMA WalkStart ==
    ASSUME IInv, list' = list, at'.i = 1, wire' = <<>>, wpc' = "set"
    PROVE  Walk'
  <1>1. Enclosed(seqs) /\ 1 \in 1 .. Len(seqs) + 1
    BY Standing
  <1>2. Walked(seqs, 1, <<>>, <<>>)
    BY <1>1, WalkedNothing, WalkedIff
  <1>3. seqs' = seqs
    BY DEF seqs
  <1> QED
    BY <1>2, <1>3 DEF Walk

\* Steps behind which run() is not sending, or is where it was.
LEMMA WalkStays ==
    ASSUME IInv, Walk, list' = list, at' = at, wire' = wire,
           wpc' = "set" => wpc = "set",
           wpc' \in {"send", "check"} => wpc \in {"send", "check"},
           wpc' = "stopped" => stop_'
    PROVE  Walk'
  <1>1. seqs' = seqs
    BY DEF seqs
  <1> QED
    BY <1>1 DEF Walk

\* The next set, skipped or entered.
LEMMA WalkNextSet ==
    ASSUME IInv, Walk, RunNextSet
    PROVE  Walk'
  <1>1. /\ wpc = "set" /\ at.i <= Len(seqs) /\ list' = list /\ wire' = wire
        /\ seqs' = seqs
    BY DEF RunNextSet, seqs
  <1>2. /\ Enclosed(seqs) /\ Len(seqs) \in Nat /\ at \in CursorType
        /\ at.i \in 1 .. Len(seqs)
    <2>1. wpc \in Sending
      BY <1>1 DEF Sending
    <2> QED
      BY <1>1, <2>1, Standing
  <1>3. WalkedBehind(seqs, at.i, <<>>, wire)
    BY <1>1, WalkedFact
  <1>4. /\ seqs[at.i].repeatCount \in Nat /\ seqs[at.i].repeatSize \in Nat \ {0}
        /\ at.i + seqs[at.i].repeatSize \in 1 .. Len(seqs) + 1
        /\ SetPackets(seqs, at.i) \in Seq(Entry)
    BY <1>2, SequenceAt
  <1>5. CASE seqs[at.i].repeatCount > 0
    <2>1. /\ wpc' = "send" /\ at' = [at EXCEPT !.j = 0, !.k = 0, !.p = 1]
          /\ at'.i = at.i /\ at'.j = 0 /\ at'.k = 0 /\ at'.p = 1
      BY <1>1, <1>2, <1>5 DEF RunNextSet, CursorType
    <2>2. SentOfSet(seqs, at.i, 0, 0, 1) = <<>>
      <3>1. SentOfSet(seqs, at.i, 0, 0, 1) = Repeat(SetPackets(seqs, at.i), 0)
        BY <1>2, SentRepetition
      <3> QED
        BY <3>1, <1>4, RepeatNone
    <2>3. Walked(seqs, at.i, SentOfSet(seqs, at.i, 0, 0, 1), wire)
      <3>1. at.i \in 1 .. Len(seqs) + 1
        BY <1>2
      <3> QED
        BY <1>2, <1>3, <2>2, <3>1, WalkedIff
    <2>4. 1 <= Len(seqs[at.i + 0].pkts) + 1
      <3>1. at.i + 0 = at.i /\ seqs[at.i] \in SequenceType
        BY <1>2, SequenceAt
      <3>2. Len(seqs[at.i].pkts) \in Nat
        BY <3>1, SequencePacketsType
      <3> QED
        BY <3>1, <3>2
    <2> QED
      BY <1>1, <1>5, <2>1, <2>3, <2>4 DEF Walk
  <1>6. CASE ~ (seqs[at.i].repeatCount > 0)
    <2>1. wpc' = "set" /\ at'.i = at.i + seqs[at.i].repeatSize
      BY <1>1, <1>2, <1>6 DEF RunNextSet, CursorType
    <2>2. Repeat(SetPackets(seqs, at.i), seqs[at.i].repeatCount) = <<>>
      <3>1. seqs[at.i].repeatCount = 0
        BY <1>4, <1>6
      <3> QED
        BY <3>1, <1>4, RepeatNone
    <2>3. WalkedBehind(seqs, at.i + seqs[at.i].repeatSize, <<>>, wire)
      BY <1>2, <1>3, <2>2, WalkedSet
    <2>4. Walked(seqs, at.i + seqs[at.i].repeatSize, <<>>, wire)
      BY <1>2, <1>4, <2>3, WalkedIff
    <2> QED
      BY <1>1, <2>1, <2>4 DEF Walk
  <1> QED
    BY <1>5, <1>6

\* What SendPacket does to the wire: the packet is the next one of the list.
LEMMA SendPacketNext ==
    ASSUME IInv, Walk, SendPacket
    PROVE  /\ WalkedBehind(seqs, at.i, SentOfSet(seqs, at.i, at.j, at.k, at.p + 1), wire')
           /\ wire \in Seq(Nat) /\ Len(wire) < Len(Guids(TransmitOrder(seqs)))
           /\ wire' = Append(wire, Guids(TransmitOrder(seqs))[Len(wire) + 1])
  <1> DEFINE i == at.i
             j == at.j
             k == at.k
             p == at.p
             sq == seqs
             e == SequencePackets(sq[i + k])[p]
             s == SentOfSet(sq, i, j, k, p)
  <1>1. /\ wpc = "send" /\ p <= Len(sq[i + k].pkts)
        /\ wire' = Append(wire, sq[i + k].pkts[p].guid)
    BY DEF SendPacket
  <1>2. /\ Enclosed(sq) /\ i \in 1 .. Len(sq) /\ j \in Nat /\ k \in Nat /\ p \in Nat \ {0}
        /\ k < sq[i].repeatSize
    BY <1>1, Standing
  <1>3. j < sq[i].repeatCount /\ WalkedBehind(sq, i, s, wire)
    BY <1>1, WalkedFact DEF Walk
  <1> HIDE DEF i, j, k, p, sq
  <1>4. /\ e \in Entry /\ e.guid = sq[i + k].pkts[p].guid
        /\ SentOfSet(sq, i, j, k, p + 1) = Append(s, e)
    <2>1. p <= Len(sq[i + k].pkts) /\ Enclosed(sq) /\ i \in 1 .. Len(sq) /\ j \in Nat
      BY <1>1, <1>2
    <2>2. k \in Nat /\ k < sq[i].repeatSize /\ p \in Nat \ {0}
      BY <1>2
    <2>3. /\ SequencePackets(sq[i + k])[p] \in Entry
          /\ SequencePackets(sq[i + k])[p].guid = sq[i + k].pkts[p].guid
          /\ SentOfSet(sq, i, j, k, p + 1)
                = Append(SentOfSet(sq, i, j, k, p), SequencePackets(sq[i + k])[p])
      <3> HIDE DEF e, s
      <3> QED
        BY <2>1, <2>2, SentPacket
    <2> QED
      BY <2>3 DEF e, s
  <1>5. Len(sq[i + k].pkts) \in Nat /\ s \in Seq(Entry)
    <2>1. i + k \in 1 .. Len(sq)
      <3>1. i + sq[i].repeatSize <= Len(sq) + 1 /\ sq[i].repeatSize \in Nat /\ Len(sq) \in Nat
        BY <1>2, SequenceAt
      <3> QED
        BY <1>2, <3>1
    <2>2. Len(sq[i + k].pkts) \in Nat
      BY <1>2, <2>1, SequenceAt, SequencePacketsType
    <2>3. p <= Len(sq[i + k].pkts) + 1
      BY <1>1, <1>2, <2>2
    <2>4. s \in Seq(Entry)
      BY <1>2, <2>3, SentType
    <2> QED
      BY <2>2, <2>4
  <1>6. Begins(Entry, Append(s, e), Repeat(SetPackets(sq, i), sq[i].repeatCount))
    <2>1. p + 1 \in Nat \ {0} /\ p + 1 <= Len(sq[i + k].pkts) + 1
      BY <1>1, <1>2, <1>5
    <2>2. Begins(Entry, SentOfSet(sq, i, j, k, p + 1),
                 Repeat(SetPackets(sq, i), sq[i].repeatCount))
      BY <1>2, <1>3, <2>1, SentBegins
    <2> QED
      BY <2>2, <1>4
  <1> HIDE DEF e, s
  <1>7. /\ WalkedBehind(sq, i, Append(s, e), Append(wire, e.guid))
        /\ wire \in Seq(Nat) /\ Len(wire) < Len(TransmitOrder(sq))
        /\ Guids(TransmitOrder(sq))[Len(wire) + 1] = e.guid
    BY <1>2, <1>3, <1>4, <1>5, <1>6, WalkedPacket
  <1>8. Len(Guids(TransmitOrder(sq))) = Len(TransmitOrder(sq))
    BY <1>2, TransmitType, GuidsType
  <1> QED
    BY <1>1, <1>4, <1>7, <1>8 DEF i, j, k, p, sq

LEMMA WalkSend ==
    ASSUME IInv, Walk, SendPacket
    PROVE  Walk'
  <1>1. /\ wpc = "send" /\ wpc' = "check" /\ at' = [at EXCEPT !.p = @ + 1]
        /\ list' = list /\ seqs' = seqs /\ at.p <= Len(seqs[at.i + at.k].pkts)
    BY DEF SendPacket, seqs
  <1>2. /\ at \in CursorType /\ Enclosed(seqs) /\ at.i \in 1 .. Len(seqs)
        /\ Len(seqs) \in Nat
    BY <1>1, Standing
  <1>3. /\ at'.i = at.i /\ at'.j = at.j /\ at'.k = at.k /\ at'.p = at.p + 1
        /\ at.p \in Nat /\ at.i \in 1 .. Len(seqs) + 1
    BY <1>1, <1>2 DEF CursorType
  <1>4. Walked(seqs, at.i, SentOfSet(seqs, at.i, at.j, at.k, at.p + 1), wire')
    BY <1>2, <1>3, SendPacketNext, WalkedIff
  <1>5. at.j < seqs[at.i].repeatCount
    BY <1>1 DEF Walk
  <1>6. at.p + 1 <= Len(seqs[at.i + at.k].pkts) + 1
    BY <1>1, <1>3, LengthAt
  <1> QED
    BY <1>1, <1>3, <1>4, <1>5, <1>6 DEF Walk

\* A sequence is through.
LEMMA WalkSequenceDone ==
    ASSUME IInv, Walk, SequenceDone
    PROVE  Walk'
  <1>1. /\ wpc = "send" /\ list' = list /\ seqs' = seqs /\ wire' = wire
        /\ at.p > Len(seqs[at.i + at.k].pkts)
    BY DEF SequenceDone, seqs
  <1>2. /\ at \in CursorType /\ Enclosed(seqs) /\ at.i \in 1 .. Len(seqs)
        /\ Len(seqs) \in Nat /\ at.j \in Nat /\ at.k \in Nat /\ at.p \in Nat \ {0}
        /\ at.k < seqs[at.i].repeatSize
    BY <1>1, Standing
  <1>3. /\ at.j < seqs[at.i].repeatCount
        /\ at.p <= Len(seqs[at.i + at.k].pkts) + 1
        /\ WalkedBehind(seqs, at.i, SentOfSet(seqs, at.i, at.j, at.k, at.p), wire)
    BY <1>1, WalkedFact DEF Walk
  <1>4. at.p = Len(seqs[at.i + at.k].pkts) + 1
    BY <1>1, <1>2, <1>3, LengthAt
  <1>5. /\ seqs[at.i].repeatSize \in Nat \ {0} /\ seqs[at.i].repeatCount \in Nat
        /\ at.i + seqs[at.i].repeatSize \in 1 .. Len(seqs) + 1
        /\ at.i \in 1 .. Len(seqs) + 1
    BY <1>2, SequenceAt
  <1>6. ASSUME NEW m \in 1 .. Len(seqs) PROVE 1 <= Len(seqs[m].pkts) + 1
    <2>1. seqs[m] \in SequenceType
      BY <1>2, SequenceAt
    <2>2. Len(seqs[m].pkts) \in Nat
      BY <2>1, SequencePacketsType
    <2> QED
      BY <2>2
  <1>10. at.k + 1 >= seqs[at.i].repeatSize =>
            Repeat(SetPackets(seqs, at.i), at.j + 1) = SentOfSet(seqs, at.i, at.j, at.k, at.p)
    <2> DEFINE i == at.i
               j == at.j
               k == at.k
               p == at.p
    <2>1. /\ Enclosed(seqs) /\ i \in 1 .. Len(seqs) /\ j \in Nat /\ k \in Nat
          /\ k < seqs[i].repeatSize /\ p \in Nat \ {0} /\ p = Len(seqs[i + k].pkts) + 1
      BY <1>2, <1>4
    <2> HIDE DEF i, j, k, p
    <2>2. k + 1 >= seqs[i].repeatSize =>
             Repeat(SetPackets(seqs, i), j + 1) = SentOfSet(seqs, i, j, k, p)
      BY <2>1, SentSequence
    <2> QED
      BY <2>2 DEF i, j, k, p
  <1>7. CASE /\ at.k + 1 < seqs[at.i].repeatSize
             /\ at' = [at EXCEPT !.k = @ + 1, !.p = 1] /\ wpc' = wpc
    <2>1. at'.i = at.i /\ at'.j = at.j /\ at'.k = at.k + 1 /\ at'.p = 1
      BY <1>2, <1>7 DEF CursorType
    <2>2. SentOfSet(seqs, at.i, at.j, at.k + 1, 1) = SentOfSet(seqs, at.i, at.j, at.k, at.p)
      BY <1>2, <1>4, <1>7, SentSequence
    <2>3. Walked(seqs, at.i, SentOfSet(seqs, at.i, at.j, at.k + 1, 1), wire)
      BY <1>2, <1>3, <1>5, <2>2, WalkedIff
    <2>4. 1 <= Len(seqs[at.i + (at.k + 1)].pkts) + 1
      <3>1. at.i + (at.k + 1) \in 1 .. Len(seqs)
        BY <1>2, <1>5, <1>7
      <3> QED
        BY <3>1, <1>6
    <2> QED
      BY <1>1, <1>3, <1>7, <2>1, <2>3, <2>4 DEF Walk
  <1>8. CASE /\ at.k + 1 >= seqs[at.i].repeatSize /\ at.j + 1 < seqs[at.i].repeatCount
             /\ at' = [at EXCEPT !.j = @ + 1, !.k = 0, !.p = 1] /\ wpc' = wpc
    <2>1. at'.i = at.i /\ at'.j = at.j + 1 /\ at'.k = 0 /\ at'.p = 1
      BY <1>2, <1>8 DEF CursorType
    <2>2. SentOfSet(seqs, at.i, at.j + 1, 0, 1) = SentOfSet(seqs, at.i, at.j, at.k, at.p)
      <3>1. SentOfSet(seqs, at.i, at.j + 1, 0, 1) = Repeat(SetPackets(seqs, at.i), at.j + 1)
        BY <1>2, SentRepetition
      <3>2. Repeat(SetPackets(seqs, at.i), at.j + 1) = SentOfSet(seqs, at.i, at.j, at.k, at.p)
        <4>1. at.k + 1 >= seqs[at.i].repeatSize
          BY <1>8
        <4> QED
          BY <4>1, <1>10
      <3> QED
        BY <3>1, <3>2
    <2>3. Walked(seqs, at.i, SentOfSet(seqs, at.i, at.j + 1, 0, 1), wire)
      BY <1>2, <1>3, <1>5, <2>2, WalkedIff
    <2>4. 1 <= Len(seqs[at.i + 0].pkts) + 1
      <3>1. at.i + 0 = at.i
        BY <1>2
      <3> QED
        BY <3>1, <1>2, <1>6
    <2> QED
      BY <1>1, <1>8, <2>1, <2>3, <2>4 DEF Walk
  <1>9. CASE /\ at.k + 1 >= seqs[at.i].repeatSize /\ at.j + 1 >= seqs[at.i].repeatCount
             /\ at' = [at EXCEPT !.i = @ + seqs[at.i].repeatSize] /\ wpc' = "set"
    <2>1. at'.i = at.i + seqs[at.i].repeatSize
      BY <1>2, <1>9 DEF CursorType
    <2>2. Repeat(SetPackets(seqs, at.i), seqs[at.i].repeatCount)
             = SentOfSet(seqs, at.i, at.j, at.k, at.p)
      <3>1. at.j + 1 = seqs[at.i].repeatCount
        BY <1>2, <1>3, <1>5, <1>9
      <3>2. Repeat(SetPackets(seqs, at.i), at.j + 1) = SentOfSet(seqs, at.i, at.j, at.k, at.p)
        <4>1. at.k + 1 >= seqs[at.i].repeatSize
          BY <1>9
        <4> QED
          BY <4>1, <1>10
      <3> QED
        BY <3>1, <3>2
    <2>3. WalkedBehind(seqs, at.i + seqs[at.i].repeatSize, <<>>, wire)
      BY <1>2, <1>3, <2>2, WalkedSet
    <2>4. Walked(seqs, at.i + seqs[at.i].repeatSize, <<>>, wire)
      BY <1>2, <1>5, <2>3, WalkedIff
    <2> QED
      BY <1>1, <1>9, <2>1, <2>4 DEF Walk
  <1> QED
    BY <1>7, <1>8, <1>9 DEF SequenceDone

\* Every step keeps Walk.
LEMMA NextWalk == IInv /\ Walk /\ [Next]_vars => Walk'
  <1> SUFFICES ASSUME IInv, Walk, [Next]_vars PROVE Walk'
    OBVIOUS
  <1>1. CASE LoadList
    <2>1. wpc \in Gone /\ wpc' = wpc
      BY <1>1 DEF LoadList, IInv, Handshake, TypeOK, Sending, Gone
    <2> QED
      BY <2>1 DEF Walk, Gone
  <1>2. CASE StartCall \/ QThreadStart \/ StartReturn \/ StopCall \/ StopSet \/ StopReturn
    <2>1. /\ list' = list /\ at' = at /\ wire' = wire
          /\ wpc' = wpc \/ wpc' = "enter"
      BY <1>2 DEF StartCall, QThreadStart, StartReturn, StopCall, StopSet, StopReturn
    <2>2. wpc = "stopped" => stop_'
      <3>1. wpc = "stopped" => stop_
        BY DEF Walk
      <3>2. CASE StopSet
        BY <3>2 DEF StopSet
      <3>3. CASE ~ StopSet
        <4>1. stop_' = stop_
          BY <1>2, <3>3 DEF StartCall, QThreadStart, StartReturn, StopCall, StopReturn
        <4> QED
          BY <3>1, <4>1
      <3> QED
        BY <3>2, <3>3
    <2> QED
      BY <2>1, <2>2, WalkStays
  <1>3. CASE RunEnter
    <2>1. CASE seqs = <<>>
      BY <1>3, <2>1 DEF RunEnter, Walk
    <2>2. CASE seqs # <<>>
      <3>1. list' = list /\ at'.i = 1 /\ wire' = <<>> /\ wpc' = "set"
        BY <1>3, <2>2 DEF RunEnter
      <3> QED
        BY <3>1, WalkStart
    <2> QED
      BY <2>1, <2>2
  <1>4. CASE RunNextSet
    BY <1>4, WalkNextSet
  <1>5. CASE RunLoop
    <2>1. list' = list /\ wire' = <<>> /\ wpc' = "set" /\ at' = [at EXCEPT !.i = list.returnTo + 1]
      BY <1>5 DEF RunLoop
    <2>2. list.returnTo = 0
      BY <1>5, ListType DEF RunLoop, IInv, TypeOK
    <2>3. at'.i = 1
      BY <2>1, <2>2, Standing DEF CursorType
    <2> QED
      BY <2>1, <2>3, WalkStart
  <1>6. CASE SendPacket
    BY <1>6, WalkSend
  <1>7. CASE SequenceDone
    BY <1>7, WalkSequenceDone
  <1>8. CASE CheckStop
    <2>1. /\ list' = list /\ at' = at /\ wire' = wire /\ stop_' = stop_ /\ wpc = "check"
          /\ wpc' = IF stop_ THEN "stopped" ELSE "send"
      BY <1>8 DEF CheckStop
    <2> QED
      BY <2>1, WalkStays
  <1>9. CASE RunEnd \/ RunStopped \/ RunAccount \/ RunFinish \/ QFinishBegin \/ QFinishEnd
    <2>1. /\ list' = list /\ at' = at /\ wire' = wire
          /\ wpc' \notin {"set", "send", "check", "stopped"}
      BY <1>9 DEF RunEnd, RunStopped, RunAccount, RunFinish, QFinishBegin, QFinishEnd,
                  IInv, Handshake
    <2> QED
      BY <2>1 DEF Walk
  <1>10. CASE UNCHANGED vars
    <2>1. list' = list /\ at' = at /\ wire' = wire /\ wpc' = wpc /\ stop_' = stop_
      BY <1>10 DEF vars
    <2>2. wpc = "stopped" => stop_
      BY DEF Walk
    <2> QED
      BY <2>1, <2>2, WalkStays
  <1> QED
    BY <1>1, <1>2, <1>3, <1>4, <1>5, <1>6, <1>7, <1>8, <1>9, <1>10
       DEF Next, ControllerStep, WorkerStep

\* In every behaviour of the transmit thread, what is on the wire is the packet list up to
\* the set the cursor of run() stands on and the part of the set it has gone through.
THEOREM WalkHolds == Spec => []Walk
  <1>1. Init => Walk
    BY DEF Init, Walk
  <1> QED
    BY <1>1, NextWalk, InductiveInvariant, PTL DEF Spec

-----------------------------------------------------------------------------
(* A request to stop that nobody waits for.                                  *)

LEMMA NextLateStop == IInv /\ LateStop /\ [Next]_vars => LateStop'
  <1> SUFFICES ASSUME IInv, LateStop, [Next]_vars PROVE LateStop'
    OBVIOUS
  <1>1. CASE LoadList
    <2>1. wpc' \notin Sending
      BY <1>1 DEF LoadList, IInv, Handshake, TypeOK, Sending, Gone
    <2> QED
      BY <2>1 DEF LateStop
  <1>2. CASE StartCall \/ QThreadStart \/ StartReturn \/ StopCall
    <2>1. wpc' \in Sending => wpc \in Sending
      BY <1>2 DEF StartCall, QThreadStart, StartReturn, StopCall, Sending
    <2>2. stop_' = stop_ /\ wire' = wire /\ cpc # "stopWait"
          /\ (wpc' = wpc \/ wpc' = "enter")
      BY <1>2 DEF StartCall, QThreadStart, StartReturn, StopCall
    <2> QED
      BY <2>1, <2>2 DEF LateStop, Sending
  <1>3. CASE StopSet
    BY <1>3 DEF StopSet, LateStop
  <1>4. CASE StopReturn
    <2>1. wpc' \notin Sending
      BY <1>4 DEF StopReturn, IInv, Handshake
    <2> QED
      BY <2>1 DEF LateStop
  <1>5. CASE RunEnter \/ RunLoop
    <2>1. wpc' = "exit" \/ (wire' = <<>> /\ wpc' = "set")
      BY <1>5 DEF RunEnter, RunLoop
    <2> QED
      BY <2>1 DEF LateStop, Sending
  <1>6. CASE RunNextSet \/ SequenceDone
    <2>1. /\ wpc \in {"set", "send"} /\ wpc' \in {"set", "send"}
          /\ wire' = wire /\ stop_' = stop_ /\ cpc' = cpc
      BY <1>6 DEF RunNextSet, SequenceDone
    <2> QED
      BY <2>1 DEF LateStop, Sending
  <1>7. CASE SendPacket
    <2>1. /\ wpc = "send" /\ wpc' = "check" /\ stop_' = stop_ /\ cpc' = cpc
          /\ \E g : wire' = Append(wire, g)
      BY <1>7 DEF SendPacket
    <2>2. stop_' /\ cpc' # "stopWait" => wire = <<>>
      BY <2>1 DEF LateStop, Sending
    <2>3. ASSUME wire = <<>> PROVE Len(wire') = 1
      BY <2>1, <2>3
    <2> QED
      BY <2>1, <2>2, <2>3 DEF LateStop
  <1>8. CASE CheckStop
    <2>1. stop_' = stop_ /\ (stop_ => wpc' = "stopped")
      BY <1>8 DEF CheckStop
    <2> QED
      BY <2>1 DEF LateStop, Sending
  <1>9. CASE RunEnd \/ RunStopped \/ RunAccount \/ RunFinish \/ QFinishBegin \/ QFinishEnd
    <2>1. wpc' \notin Sending
      BY <1>9 DEF RunEnd, RunStopped, RunAccount, RunFinish, QFinishBegin, QFinishEnd,
                  IInv, Handshake, Sending
    <2> QED
      BY <2>1 DEF LateStop
  <1>10. CASE UNCHANGED vars
    BY <1>10 DEF vars, LateStop
  <1> QED
    BY <1>1, <1>2, <1>3, <1>4, <1>5, <1>6, <1>7, <1>8, <1>9, <1>10
       DEF Next, ControllerStep, WorkerStep

\* A request that stop() left behind ends a transmission after its first packet or not at
\* all: no transmission is cut in the middle unless a stop() waits for it.
THEOREM LateStopHolds == Spec => LateStopEndsAtFirstPacket
  <1>1. Init => LateStop
    BY DEF Init, LateStop
  <1>2. LateStop /\ [Next]_vars
           => [wpc = "check" /\ wpc' = "stopped" /\ cpc # "stopWait" => Len(wire) = 1]_vars
    <2> SUFFICES ASSUME LateStop, Next, wpc = "check", wpc' = "stopped", cpc # "stopWait"
                 PROVE  Len(wire) = 1
      OBVIOUS
    <2>1. stop_
      BY DEF Next, LoadList, StartCall, StopCall, ControllerStep, QThreadStart, StartReturn,
             StopSet, StopReturn, WorkerStep, RunEnter, RunNextSet, RunLoop, RunEnd,
             SendPacket, CheckStop, SequenceDone, RunStopped, RunAccount, RunFinish,
             QFinishBegin, QFinishEnd
    <2> QED
      BY <2>1 DEF LateStop, Sending
  <1> QED
    BY <1>1, <1>2, NextLateStop, InductiveInvariant, PTL DEF Spec, LateStopEndsAtFirstPacket

-----------------------------------------------------------------------------
(* The thread implements the Transmitter.                                    *)

LEMMA AbsWhole == Abs!Whole = Whole
  BY DEF Abs!Whole, Whole, Abs!Guids, Guids, Abs!TransmitOrder, TransmitOrder,
         Abs!TransmitFrom, TransmitFrom, Abs!Repeat, Repeat, Abs!SetPackets, SetPackets,
         Abs!PacketsOf, PacketsOf, Abs!FlattenSeq, FlattenSeq, seqs,
         Abs!SequencePackets, SequencePackets

\* The two values of the refinement mapping.
Running == state_ = "kRunning"
Pending == stop_ \/ (state_ = "kRunning" /\ wpc \in {"exit", "finish"} /\ wire # Whole)

\* The list does not change when only the thread moves.
LEMMA WholeStays == list' = list => Whole' = Whole
  BY DEF Whole, seqs

LEMMA InitRefines == Init => Abs!Init
  BY DEF Init, Abs!Init

LEMMA PendingType ==
    ASSUME IInv
    PROVE  stop_ \in BOOLEAN /\ (wpc \notin {"exit", "finish"} => Pending = stop_)
           /\ Pending \in BOOLEAN /\ Running \in BOOLEAN
  BY DEF IInv, TypeOK, Pending, Running

\* A step in which the thread is not at its end, and nothing the Transmitter knows moves.
LEMMA Stutters ==
    ASSUME list' = list, wire' = wire, Running' = Running, Pending' = Pending
    PROVE  UNCHANGED Abs!tvars
  BY DEF Abs!tvars, Running, Pending, Abs!Whole

\* The end of the list: the whole of it is on the wire.
LEMMA EndOfList ==
    ASSUME IInv, Walk, wpc = "set", at.i > Len(seqs)
    PROVE  wire = Whole
  <1>1. at.i = Len(seqs) + 1 /\ Enclosed(seqs)
    BY Standing DEF Sending
  <1>2. WalkedBehind(seqs, Len(seqs) + 1, <<>>, wire)
    BY <1>1, WalkedFact
  <1> QED
    BY <1>1, <1>2, WalkedAll DEF Whole

\* The steps in which the thread does not come to its end or leave it.
LEMMA PendingStays ==
    ASSUME IInv, IInv', stop_' = stop_, wpc \notin {"exit", "finish"},
           wpc' \notin {"exit", "finish"}
    PROVE  Pending' = Pending
  <1>1. stop_ \in BOOLEAN /\ stop_' \in BOOLEAN
    BY DEF IInv, TypeOK
  <1>2. Pending = stop_ /\ Pending' = stop_'
    BY <1>1 DEF Pending
  <1> QED
    BY <1>1, <1>2

LEMMA ControllerRefines ==
    ASSUME IInv, IInv',
           \/ StartCall \/ QThreadStart \/ StartReturn \/ StopCall \/ StopReturn
    PROVE  UNCHANGED Abs!tvars
  <1>1. list' = list /\ wire' = wire /\ stop_' = stop_
    BY DEF StartCall, QThreadStart, StartReturn, StopCall, StopReturn
  <1>2. Running' = Running
    BY DEF StartCall, QThreadStart, StartReturn, StopCall, StopReturn, Running
  <1>3. Pending' = Pending
    <2>1. CASE QThreadStart
      <3>1. \/ wpc \notin {"exit", "finish"} /\ wpc' \notin {"exit", "finish"}
            \/ wpc' = wpc
        BY <2>1 DEF QThreadStart, IInv, Handshake, Gone
      <3>2. CASE wpc' = wpc
        BY <3>2, <1>1, <1>2, WholeStays DEF Pending, Running
      <3> QED
        BY <3>1, <3>2, <1>1, PendingStays
    <2>2. CASE StartCall \/ StartReturn \/ StopCall \/ StopReturn
      <3>1. wpc' = wpc
        BY <2>2 DEF StartCall, StartReturn, StopCall, StopReturn
      <3> QED
        BY <3>1, <1>1, <1>2, WholeStays DEF Pending, Running
    <2> QED
      BY <2>1, <2>2
  <1> QED
    BY <1>1, <1>2, <1>3, Stutters

LEMMA LoadRefines ==
    ASSUME IInv, IInv', LoadList
    PROVE  Abs!Load
  <1>1. ~ Running /\ ~ Running' /\ Running' = Running
    BY DEF LoadList, Running
  <1>2. Pending' = Pending
    BY <1>1, PendingType DEF LoadList, Pending, Running
  <1> QED
    BY <1>1, <1>2 DEF Abs!Load, Pending, Running, LoadList, Abs!Whole

LEMMA StopRefines ==
    ASSUME IInv, IInv', StopSet
    PROVE  Abs!RequestStop
  <1>1. list' = list /\ wire' = wire /\ stop_' = TRUE /\ Running' = Running
    BY DEF StopSet, Running
  <1>2. Pending' = TRUE
    BY <1>1 DEF Pending
  <1> QED
    BY <1>1, <1>2 DEF Abs!RequestStop, Pending, Running

LEMMA EnterRefines ==
    ASSUME IInv, IInv', RunEnter
    PROVE  Abs!Begin \/ UNCHANGED Abs!tvars
  <1>1. /\ wpc = "enter" /\ state_ = "kNotStarted" /\ list' = list /\ stop_' = stop_
        /\ stop_ \in BOOLEAN
    BY DEF RunEnter, IInv, TypeOK, Handshake
  <1>2. Pending = stop_
    BY <1>1 DEF Pending
  <1>3. CASE seqs = <<>>
    <2>1. state_' = state_ /\ wire' = wire
      BY <1>3 DEF RunEnter
    <2>2. Pending' = stop_'
      BY <1>1, <2>1 DEF Pending
    <2>3. Running' = Running
      BY <2>1 DEF Running
    <2> QED
      BY <1>1, <1>2, <2>1, <2>2, <2>3, Stutters
  <1>4. CASE seqs # <<>>
    <2>1. state_' = "kRunning" /\ wire' = <<>> /\ wpc' = "set"
      BY <1>4 DEF RunEnter
    <2>2. Pending' = stop_'
      BY <1>1, <2>1 DEF Pending
    <2>3. ~ Running /\ Running' = TRUE
      BY <1>1, <2>1 DEF Running
    <2> QED
      BY <1>1, <1>2, <2>1, <2>2, <2>3 DEF Abs!Begin, Pending, Running
  <1> QED
    BY <1>3, <1>4

LEMMA WalkRefines ==
    ASSUME IInv, IInv', Walk, RunNextSet \/ SequenceDone \/ CheckStop \/ RunEnd \/ RunAccount
    PROVE  UNCHANGED Abs!tvars
  <1>1. list' = list /\ wire' = wire /\ stop_' = stop_ /\ state_' = state_
    BY DEF RunNextSet, SequenceDone, CheckStop, RunEnd, RunAccount
  <1>2. Running' = Running
    BY <1>1 DEF Running
  <1>3. Pending' = Pending
    <2>1. CASE RunNextSet \/ SequenceDone \/ CheckStop
      <3>1. wpc \notin {"exit", "finish"} /\ wpc' \notin {"exit", "finish"}
        BY <2>1 DEF RunNextSet, SequenceDone, CheckStop
      <3> QED
        BY <3>1, <1>1, PendingStays
    <2>2. CASE RunEnd
      <3>1. wire = Whole /\ wpc = "set"
        BY <2>2, EndOfList DEF RunEnd
      <3>2. wire' = Whole'
        BY <3>1, <1>1, WholeStays
      <3> QED
        BY <3>1, <3>2, <1>1, PendingType DEF Pending
    <2>3. CASE RunAccount
      <3>1. wpc = "exit" /\ wpc' = "finish"
        BY <2>3 DEF RunAccount
      <3> QED
        BY <3>1, <1>1, WholeStays DEF Pending
    <2> QED
      BY <2>1, <2>2, <2>3
  <1> QED
    BY <1>1, <1>2, <1>3, Stutters

LEMMA LoopRefines ==
    ASSUME IInv, IInv', Walk, RunLoop
    PROVE  Abs!NextPass
  <1>1. /\ wpc = "set" /\ at.i > Len(seqs) /\ list.returnTo >= 0 /\ list' = list
        /\ wire' = <<>> /\ stop_' = stop_ /\ state_' = state_ /\ wpc' = wpc
    BY DEF RunLoop
  <1>2. wire = Whole
    BY <1>1, EndOfList
  <1>3. Running /\ Running' = Running
    BY <1>1 DEF IInv, Handshake, Sending, Running
  <1>4. Pending' = Pending
    BY <1>1, PendingStays
  <1> QED
    BY <1>1, <1>2, <1>3, <1>4, AbsWhole DEF Abs!NextPass, Pending, Running

LEMMA SendRefines ==
    ASSUME IInv, IInv', Walk, SendPacket
    PROVE  Abs!Emit
  <1>1. /\ wpc = "send" /\ wpc' = "check" /\ list' = list
        /\ stop_' = stop_ /\ state_' = state_
    BY DEF SendPacket
  <1>2. Len(wire) < Len(Whole) /\ wire' = Append(wire, Whole[Len(wire) + 1])
    BY SendPacketNext DEF Whole
  <1>3. Running /\ Running' = Running
    BY <1>1 DEF IInv, Handshake, Sending, Running
  <1>4. Pending' = Pending
    BY <1>1, PendingStays
  <1> QED
    BY <1>1, <1>2, <1>3, <1>4, AbsWhole DEF Abs!Emit, Pending, Running

LEMMA StoppedRefines ==
    ASSUME IInv, IInv', Walk, RunStopped
    PROVE  Abs!DropRequest \/ UNCHANGED Abs!tvars
  <1>1. /\ wpc = "stopped" /\ wpc' = "exit" /\ stop_' = FALSE /\ list' = list
        /\ wire' = wire /\ state_' = state_ /\ state_ = "kRunning"
    BY DEF RunStopped, IInv, Handshake
  <1>2. Pending = TRUE /\ Running /\ Running' = Running
    BY <1>1 DEF Walk, Pending, Running
  <1>3. CASE wire = Whole
    <2>1. Pending' = FALSE
      BY <1>1, <1>3, WholeStays DEF Pending
    <2> QED
      BY <1>1, <1>2, <1>3, <2>1, AbsWhole DEF Abs!DropRequest, Pending, Running
  <1>4. CASE wire # Whole
    <2>1. Pending' = TRUE
      BY <1>1, <1>4, WholeStays DEF Pending
    <2> QED
      BY <1>1, <1>2, <2>1, Stutters
  <1> QED
    BY <1>3, <1>4

LEMMA FinishRefines ==
    ASSUME IInv, IInv', RunFinish
    PROVE  Abs!EndComplete \/ Abs!EndStopped \/ UNCHANGED Abs!tvars
  <1>1. /\ wpc = "finish" /\ wpc' = "ret" /\ stop_' = stop_ /\ list' = list
        /\ wire' = wire /\ state_' = "kFinished" /\ stop_ \in BOOLEAN
    BY DEF RunFinish, IInv, TypeOK
  <1>2. Pending' = stop_' /\ Running' = FALSE
    BY <1>1 DEF Pending, Running
  <1>3. CASE state_ = "kRunning" /\ wire = Whole
    <2>1. Pending = stop_ /\ Running
      BY <1>1, <1>3 DEF Pending, Running
    <2> QED
      BY <1>1, <1>2, <1>3, <2>1, AbsWhole DEF Abs!EndComplete, Pending, Running
  <1>4. CASE state_ = "kRunning" /\ wire # Whole
    <2>1. Pending = TRUE /\ Running /\ Pending' \in BOOLEAN
      BY <1>1, <1>2, <1>4 DEF Pending, Running
    <2> QED
      BY <1>1, <1>2, <2>1 DEF Abs!EndStopped, Pending, Running
  <1>5. CASE state_ # "kRunning"
    <2>1. Pending = stop_ /\ Running = FALSE
      BY <1>1, <1>5 DEF Pending, Running
    <2> QED
      BY <1>1, <1>2, <2>1, Stutters
  <1> QED
    BY <1>3, <1>4, <1>5

LEMMA QFinishRefines ==
    ASSUME IInv, IInv', QFinishBegin \/ QFinishEnd
    PROVE  UNCHANGED Abs!tvars
  <1>1. /\ list' = list /\ wire' = wire /\ stop_' = stop_ /\ state_' = state_
        /\ wpc \notin {"exit", "finish"} /\ wpc' \notin {"exit", "finish"}
    BY DEF QFinishBegin, QFinishEnd, IInv, Handshake
  <1>2. Running' = Running
    BY <1>1 DEF Running
  <1> QED
    BY <1>1, <1>2, PendingStays, Stutters

\* Every step of the two threads is a step of the Transmitter, or none.
LEMMA NextRefines ==
    IInv /\ IInv' /\ Walk /\ [Next]_vars => [Abs!Next]_Abs!tvars
  <1> SUFFICES ASSUME IInv, IInv', Walk, [Next]_vars
               PROVE  Abs!Next \/ UNCHANGED Abs!tvars
    OBVIOUS
  <1>1. CASE LoadList
    BY <1>1, LoadRefines DEF Abs!Next
  <1>2. CASE StartCall \/ QThreadStart \/ StartReturn \/ StopCall \/ StopReturn
    BY <1>2, ControllerRefines
  <1>3. CASE StopSet
    BY <1>3, StopRefines DEF Abs!Next
  <1>4. CASE RunEnter
    BY <1>4, EnterRefines DEF Abs!Next
  <1>5. CASE RunNextSet \/ SequenceDone \/ CheckStop \/ RunEnd \/ RunAccount
    BY <1>5, WalkRefines
  <1>6. CASE RunLoop
    BY <1>6, LoopRefines DEF Abs!Next
  <1>7. CASE SendPacket
    BY <1>7, SendRefines DEF Abs!Next
  <1>8. CASE RunStopped
    BY <1>8, StoppedRefines DEF Abs!Next
  <1>9. CASE RunFinish
    BY <1>9, FinishRefines DEF Abs!Next
  <1>10. CASE QFinishBegin \/ QFinishEnd
    BY <1>10, QFinishRefines
  <1>11. CASE UNCHANGED vars
    <2>1. /\ list' = list /\ wire' = wire /\ stop_' = stop_ /\ state_' = state_ /\ wpc' = wpc
      BY <1>11 DEF vars
    <2>2. Running' = Running /\ Pending' = Pending
      BY <2>1, WholeStays DEF Running, Pending
    <2> QED
      BY <2>1, <2>2, Stutters
  <1> QED
    BY <1>1, <1>2, <1>3, <1>4, <1>5, <1>6, <1>7, <1>8, <1>9, <1>10, <1>11
       DEF Next, ControllerStep, WorkerStep

\* The two threads of PcapTxThread, with their shared flags and no lock, implement the
\* Transmitter, whatever lists are loaded: what goes on the wire is the loaded list, in
\* order, from its start, and a transmission ends where it is through or was asked to.
THEOREM Refinement == Spec => ImplementsTransmitter
  <1>1. Spec => Abs!Init /\ [][Abs!Next]_Abs!tvars
    BY InitRefines, NextRefines, WalkHolds, InductiveInvariant, PTL DEF Spec
  <1> QED
    BY <1>1 DEF ImplementsTransmitter, Abs!Spec

=============================================================================
