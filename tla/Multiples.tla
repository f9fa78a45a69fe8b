------------------------------ MODULE Multiples ------------------------------
(* AbstractProtocol's gcd and lcm, by which the counts of frames are combined. *)
EXTENDS Integers, Sequences

Gcd(u, v) == CHOOSE g \in 1 .. u :
    /\ u % g = 0 /\ v % g = 0
    /\ \A h \in 1 .. u : u % h = 0 /\ v % h = 0 => h <= g

\* lcm() takes a zero for a one.
Lcm(u, v) ==
    LET Corrected(n) == IF n = 0 THEN 1 ELSE n
    IN  (Corrected(u) * Corrected(v)) \div Gcd(Corrected(u), Corrected(v))

\* The lcm of a sequence of counts.
LcmOf(counts) ==
    LET upTo[n \in 0 .. Len(counts)] == IF n = 0 THEN 1 ELSE Lcm(upTo[n - 1], counts[n])
    IN  upTo[Len(counts)]
=============================================================================
