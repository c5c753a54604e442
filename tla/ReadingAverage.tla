--------------------------- MODULE ReadingAverage ---------------------------
(***************************************************************************)
(* The value the robot transmits for one field of a window of readings.    *)
(***************************************************************************)
EXTENDS Integers, Sequences

CONSTANT IntRange    \* the numbers an int can tell apart: 2^32 in the build

ASSUME IntAssumption == IntRange \in Nat \ {0}

\* The fields of a frame, in order: the voltage and the four speeds.
toTransmit == <<"VCA", "DFL", "DFR", "DBL", "DBR">>

\* Mutant: val *= -1 forgotten.
Signed(n) == n

Abs(n) == IF n < 0 THEN -n ELSE n

\* What the loop over a window adds up.
Total(w, f) ==
    LET total_value[n \in 0..Len(w)] ==
            IF n = 0 THEN 0 ELSE total_value[n - 1] + Abs(w[n][f])
    IN  total_value[Len(w)]

\* total_value is an int that wraps around, and is divided by a size_t, which
\* reads it as unsigned; the quotient is cut to 16 bits.  Zero if there is no
\* reading.
Average(w, f) ==
    IF w = <<>> THEN 0 ELSE ((Total(w, f) % IntRange) \div Len(w)) % 65536

Averages(w) == [i \in 1..Len(toTransmit) |-> Average(w, toTransmit[i])]
=============================================================================
