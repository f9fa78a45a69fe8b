----------------------------- MODULE FrameBytes -----------------------------
(***************************************************************************)
(* What the protocols build their frames from: numbers in network byte       *)
(* order, counters and addresses that change from frame to frame, fields of   *)
(* any number of bits packed into bytes, and the Internet checksum.  A byte    *)
(* is 0 .. 255, a byte array a sequence of bytes.                              *)
(***************************************************************************)
EXTENDS Integers, Sequences, SequencesExt

\* x & y and x | y, of bytes.
And(x, y) ==
    LET Both(bit) == bit * ((x \div bit) % 2) * ((y \div bit) % 2)
    IN  Both(1) + Both(2) + Both(4) + Both(8) + Both(16) + Both(32) + Both(64) + Both(128)
Or(x, y) == x + y - And(x, y)

\* The last w bytes of n, most significant first: qToBigEndian.
Bytes(n, w) ==
    LET rest[d \in 1 .. w] == IF d = w THEN n ELSE rest[d + 1] \div 256
    IN  [d \in 1 .. w |-> rest[d] % 256]
Zeros(w) == [d \in 1 .. w |-> 0]
Number(bytes) ==
    LET upTo[d \in 0 .. Len(bytes)] == IF d = 0 THEN 0 ELSE 256 * upTo[d - 1] + bytes[d]
    IN  upTo[Len(bytes)]

Total(numbers) ==
    LET upTo[n \in 0 .. Len(numbers)] == IF n = 0 THEN 0 ELSE upTo[n - 1] + numbers[n]
    IN  upTo[Len(numbers)]

\* bytes + n, modulo what the bytes hold.
Plus(bytes, n) ==
    LET w == Len(bytes)
        carry[d \in 1 .. w] == IF d = w THEN n ELSE (bytes[d + 1] + carry[d + 1]) \div 256
    IN  [d \in 1 .. w |-> (bytes[d] + carry[d]) % 256]

Inverted(mask) == [d \in DOMAIN mask |-> 255 - mask[d]]
\* The bits of new where the mask has a one, of old elsewhere.
Merge(old, new, mask) ==
    [d \in DOMAIN old |-> Or(And(old[d], 255 - mask[d]), And(new[d], mask[d]))]

\* A value that takes count values, up or down, one or step apart.
OnesOf(v, frameIndex) == (IF v.mode = "dec" THEN -1 ELSE 1) * (frameIndex % v.count)
StepsOf(v, frameIndex) == OnesOf(v, frameIndex) * v.step

\* varyCounter(): a variable field overwrites the masked bits of 1, 2 or 4 bytes
\* of a protocol, if the protocol has them.
Counter(v, frameIndex) ==
    [offset |-> v.offset, mask |-> v.mask, value |-> Plus(v.value, StepsOf(v, frameIndex))]
Overwrite(buf, c) ==
    LET at == [d \in DOMAIN c.mask |-> c.offset + d]
        field == Merge([d \in DOMAIN at |-> buf[at[d]]], c.value, c.mask)
    IN  IF c.offset + Len(c.mask) > Len(buf) THEN buf
        ELSE [d \in DOMAIN buf |-> IF d \in c.offset + 1 .. c.offset + Len(c.mask)
                                   THEN field[d - c.offset] ELSE buf[d]]
Overwritten(buf, counters) ==
    LET by[n \in 0 .. Len(counters)] == IF n = 0 THEN buf ELSE Overwrite(by[n - 1], counters[n])
    IN  by[Len(counters)]

-----------------------------------------------------------------------------
(* protocolFrameValue(): fields of bits[f] bits, given in whole bytes, are    *)
(* put one behind the other; pos bits of the last byte are in use.             *)

\* Spare bits in front of the value are shifted out; then the value is cut at pos, and
\* its rest moved up to start a new byte.
Spare(bits, value) == 8 * Len(value) - bits
Cut(acc, bits, value, up) ==
    LET spare == Spare(bits, value)
        Next(d) == IF d > Len(value) THEN 0 ELSE value[d]
        left == IF spare = 0 THEN value
                ELSE [d \in DOMAIN value |->
                    Or((value[d] * 2 ^ spare) % 256, Next(d + 1) \div 2 ^ (8 - spare))]
        High(d) == IF d > Len(left) THEN 0 ELSE left[d] \div 2 ^ acc.pos
        more == IF spare = 0 THEN Len(left) ELSE Len(left) - 1
    IN  [bytes |-> IF acc.pos = 0 THEN acc.bytes \o left
                   ELSE [acc.bytes EXCEPT ![Len(acc.bytes)] = Or(@, High(1))]
                          \o [d \in 1 .. more |-> Or((left[d] * 2 ^ up) % 256, High(d + 1))],
         pos |-> (acc.pos + bits) % 8]

\* Mutant: the rest moves up by as much as the first part was moved down.
PackFieldUpByPos(acc, bits, value) == Cut(acc, bits, value, acc.pos)

\* So it does for a field of whole bytes, which is right for pos = 4, the only one
\* that the protocols have there.
PackField(acc, bits, value) ==
    Cut(acc, bits, value, IF Spare(bits, value) = 0 THEN acc.pos ELSE 8 - acc.pos)

Pack(bits, values) ==
    LET upTo[f \in 0 .. Len(values)] ==
            IF f = 0 THEN [bytes |-> <<>>, pos |-> 0]
            ELSE IF bits[f] = 0 THEN upTo[f - 1] ELSE PackField(upTo[f - 1], bits[f], values[f])
    IN  upTo[Len(values)].bytes

-----------------------------------------------------------------------------
(* The Internet checksum.                                                     *)

Word(bytes, n) == 256 * bytes[n] + (IF n < Len(bytes) THEN bytes[n + 1] ELSE 0)
Folded(sum) == IF sum = 0 THEN 0 ELSE 1 + ((sum - 1) % 65535)
\* ~cksum of a byte array: a last single byte counts as the high one.
Sum16(bytes) ==
    Folded(FoldLeftDomain(LAMBDA sum, n : IF n % 2 = 1 THEN sum + Word(bytes, n) ELSE sum, 0, bytes))
Swap16(word) == 256 * (word % 256) + word \div 256
=============================================================================
