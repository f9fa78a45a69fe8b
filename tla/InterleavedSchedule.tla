-------------------------- MODULE InterleavedSchedule --------------------------
(***************************************************************************)
(* AbstractPort::updatePacketList(): the sequential scheduler, or            *)
(* updatePacketListInterleaved(), which lets a clock go over the duration    *)
(* of one pass, sends a packet (a burst) of every stream that is due, and    *)
(* loops the list.                                                          *)
(*                                                                          *)
(* Times are pairs of seconds and nanoseconds, as in the code, with Second   *)
(* of the latter in one of the former.  Rates below one in Second are left   *)
(* to the sequential scheduler; a stream without a rate is never sent.       *)
(***************************************************************************)
EXTENDS SequentialSchedule

CONSTANTS PacedLists,   \* the stream lists a port may hold when it interleaves them
          Second        \* nanoseconds in a second

ASSUME SecondAssumption == Second \in Nat \ {0}

\* A stream's guid is its id, of which a port has each once (PortService!StreamIdsUnique).
ASSUME PacedListsAssumption ==
    /\ PacedLists \subseteq Seq(StreamType)
    /\ \A l \in PacedLists : \A m, n \in DOMAIN l : l[m].guid = l[n].guid => m = n

VARIABLES
    mode,      \* the port's transmit_mode
    plan,      \* of each enabled stream what is known and what is due
    clock,     \* sec and nsec
    slot,      \* index of the stream looked at
    minGap, duration,
    lastTx     \* lastPktTxSec and lastPktTxNsec

ivars == <<mode, plan, clock, slot, minGap, duration, lastTx>>
allVars == <<vars, ivars>>

Time(t) == [s |-> t \div Second, n |-> t % Second]
Nsec(t) == t.s * Second + t.n
Later(t, d) == Time(Nsec(t) + d)

\* The enabled streams, in the order of the list.
EnabledOf(l) ==
    LET among[n \in 0 .. Len(l)] ==
            IF n = 0 THEN <<>>
            ELSE IF l[n].enabled THEN Append(among[n - 1], l[n]) ELSE among[n - 1]
    IN  among[Len(l)]

Active == EnabledOf(streamList_)
HasRate(s) == CeilGap(s.gap) > 0

\* How many gaps of a second are rounded up: (gap - floor(gap)) * rate.  The product is
\* a whole number of which the doubles may fall short.
RoundedUp(s) ==
    LET exact == (s.gap.num * Second) \div (s.gap.whole * s.gap.den + s.gap.num)
    IN  IF s.gap.num = 0 THEN {0} ELSE {r \in {exact - 1, exact} : r >= 0}

\* A pass takes a second, or the longest gap.
Duration(streams, rounded) ==
    LET longest(n) == IF streams[n].unit = "bursts" \/ rounded[n] > 0
                      THEN CeilGap(streams[n].gap) ELSE streams[n].gap.whole
    IN  Max({Second} \cup {longest(n) : n \in DOMAIN streams})

\* Without any rate minGap is ULLONG_MAX, and the clock leaps past the end.
MinGap(streams, otherwise) ==
    LET gaps == {streams[n].gap.whole : n \in DOMAIN streams} \ {0}
    IN  IF gaps = {} THEN otherwise ELSE Min(gaps)

InitMode ==
    /\ \/ mode = "sequential" /\ Init
       \/ mode = "interleaved" /\ InitWith(PacedLists)
    /\ plan = <<>> /\ clock = Time(0) /\ slot = 0
    /\ minGap = 0 /\ duration = 0 /\ lastTx = Time(0)

Sequential == mode = "sequential" /\ Next /\ UNCHANGED ivars

InterleaveStart ==
    /\ mode = "interleaved" /\ pc = "stream" /\ Active # <<>>
    /\ \E rounded \in [DOMAIN Active -> UNION {RoundedUp(Active[n]) : n \in DOMAIN Active}] :
          /\ \A n \in DOMAIN Active : rounded[n] \in RoundedUp(Active[n])
          /\ plan' = [n \in DOMAIN Active |->
                        [up |-> rounded[n], due |-> Time(0), count |-> 0, bursts |-> 0]]
          /\ duration' = Duration(Active, rounded)
          /\ minGap' = MinGap(Active, duration')
    /\ slot' = 1 /\ pc' = "slot"
    /\ UNCHANGED <<streamList_, list, i, j, now, mode, clock, lastTx>>

InterleaveNothing ==
    /\ mode = "interleaved" /\ pc = "stream" /\ Active = <<>>
    /\ pc' = "looped"
    /\ UNCHANGED <<streamList_, list, i, j, now, ivars>>

Gap(s, n, up) == IF n < up THEN CeilGap(s.gap) ELSE s.gap.whole

\* Mutant: the next packet is due a gap after this one was sent, not after it was due.
SendFrameFromClock(st, s) ==
    LET p == [st.p EXCEPT !.count = @ + 1,
                 !.due = IF s.unit = "packets"
                         THEN Later(clock, Gap(s, st.p.count + 1, st.p.up)) ELSE @]
    IN  [p |-> p, last |-> clock,
         list |-> AppendToPacketList(st.list, [guid |-> s.guid, ts |-> Nsec(clock) \div 1000])]

\* One frame of stream s: of a stream whose frames vary, that of the stream with this
\* number among all streams is built.
SendFrame(st, s) ==
    LET varies == s.frames > 1
        from == IF varies THEN streamList_[slot] ELSE s
        p == [st.p EXCEPT !.count = @ + 1,
                 !.due = IF s.unit = "packets" THEN Later(@, Gap(s, st.p.count + 1, st.p.up)) ELSE @]
    IN  IF ~FrameBuilds(from, IF varies THEN st.p.count ELSE 0) THEN st
        ELSE [p |-> p, last |-> clock,
              list |-> AppendToPacketList(st.list, [guid |-> from.guid, ts |-> Nsec(clock) \div 1000])]

\* Mutant: a stream is due at the beginning of the second in which it is.
IsDueInSecond(p) == p.due.s <= clock.s

\* Seconds and nanoseconds are each compared alone.
IsDue(p) == ~(p.due.s > clock.s \/ p.due.n > clock.n)

\* The frames of a slot: those of a burst, or one; none of a stream without a rate.
SendFrames(s) ==
    LET size == IF ~HasRate(s) THEN 0 ELSE IF s.unit = "bursts" THEN s.burst ELSE 1
        sent[n \in 0 .. size] ==
            IF n = 0 THEN [p |-> plan[slot], last |-> lastTx, list |-> list]
            ELSE SendFrame(sent[n - 1], s)
    IN  sent[size]

SlotSend ==
    /\ pc = "slot" /\ slot <= Len(plan) /\ IsDue(plan[slot])
    /\ LET s == Active[slot]
           st == SendFrames(s)
       IN  /\ plan' = [plan EXCEPT ![slot] =
                         [st.p EXCEPT !.bursts = @ + 1,
                             !.due = IF s.unit = "bursts"
                                     THEN Later(@, Gap(s, st.p.bursts + 1, st.p.up)) ELSE @]]
           /\ list' = st.list /\ lastTx' = st.last
    /\ slot' = slot + 1
    /\ UNCHANGED <<streamList_, pc, i, j, now, mode, clock, minGap, duration>>

SlotWait ==
    /\ pc = "slot" /\ slot <= Len(plan) /\ ~IsDue(plan[slot])
    /\ slot' = slot + 1
    /\ UNCHANGED <<streamList_, list, pc, i, j, now, mode, plan, clock, minGap, duration, lastTx>>

\* The clock goes on; past the end the list is made to loop.
Tick ==
    /\ pc = "slot" /\ slot > Len(plan)
    /\ clock' = Later(clock, minGap)
    /\ IF clock'.s < Time(duration).s \/ clock'.n < Time(duration).n
       THEN slot' = 1 /\ UNCHANGED <<list, pc>>
       ELSE /\ list' = SetPacketListLoopMode(list, TRUE, (duration - Nsec(lastTx)) \div 1000)
            /\ pc' = "looped" /\ UNCHANGED slot
    /\ UNCHANGED <<streamList_, i, j, now, mode, plan, minGap, duration, lastTx>>

Looped == pc = "looped" /\ UNCHANGED allVars

InterleavedNext == InterleaveStart \/ InterleaveNothing \/ SlotSend \/ SlotWait \/ Tick \/ Looped

NextMode == Sequential \/ InterleavedNext

ModeSpec == InitMode /\ [][NextMode]_allVars /\ WF_allVars(NextMode)
-----------------------------------------------------------------------------
(***************************************************************************)
(* Properties                                                              *)
(***************************************************************************)
Interleaved == pc = "looped"

\* The guid and the time of each packet of the list, in microseconds.
Stamped == FlattenSeq([q \in DOMAIN list.seqs |-> list.seqs[q].pkts])
\* How many of the first m packets are of stream s.
OfStream(s, m) == Cardinality({q \in 1 .. m : Stamped[q].guid = s.guid})

\* How many packets a stream sends at a time.
AtOnce(s) == IF s.unit = "bursts" THEN s.burst ELSE 1

\* No disabled stream comes before one that is sent and whose frames vary.
NumbersAgree ==
    \A n \in DOMAIN Active : Active[n].frames > 1 => streamList_[n] = Active[n]

\* The pass takes one second, and the frames of stream s are its own and all build; its
\* bursts are not empty, and its rate is one in a nanosecond at most (of a higher one the
\* clock, which never goes on by less than a nanosecond, falls behind).
Steady(s) ==
    /\ duration = Second /\ NumbersAgree
    /\ s.unbuilt = {} /\ s.gap.whole > 0 /\ AtOnce(s) > 0

\* Each packet (burst) of a steady stream is in the list at the time it is due, or less
\* than the smallest gap later; and any pass, pause at its end included, takes its
\* duration, so that the repeated list keeps time.
PacketsOnTime ==
    Interleaved =>
      /\ \A n \in DOMAIN Active, m \in DOMAIN Stamped :
           LET s == Active[n]
               nth == OfStream(s, m - 1) \div AtOnce(s)
               t == Stamped[m].ts
           IN  Steady(s) /\ Stamped[m].guid = s.guid =>
                 /\ t >= (nth * s.gap.whole) \div 1000
                 /\ t <= (nth * CeilGap(s.gap) + minGap) \div 1000
      /\ Stamped # <<>> =>
           /\ list.returnTo = 0
           /\ Last(Stamped).ts + list.loopDelay \in {duration \div 1000 - 1, duration \div 1000}

\* No stream is forgotten: of a steady stream the pass has every packet that falls due
\* before the last step of the clock, and none for which there was no time.
NoneForgotten ==
    Interleaved =>
        \A n \in DOMAIN Active :
            LET s == Active[n]
                sent == OfStream(s, Len(Stamped))
                turns == sent \div AtOnce(s)
            IN  Steady(s) =>
                  /\ sent % AtOnce(s) = 0
                  /\ turns * CeilGap(s.gap) > Nsec(clock) - minGap
                  /\ (turns - 1) * s.gap.whole < Second
=============================================================================
