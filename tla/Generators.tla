----------------------------- MODULE Generators -----------------------------
(***************************************************************************)
(* What the value generators make of a draw: limiters, noise, truncation,  *)
(* lengths and addresses.  A draw is what the generator's bytes decode to: *)
(* an integer of Width bits (unsigned where the code reads it so), a       *)
(* sequence of bytes, or a fraction in steps of 1 / Ratio.  The engines    *)
(* (random, hash) differ only in where the draw comes from.                *)
(*                                                                         *)
(* Code: internal/generators/ and internal/generators/transformers/.       *)
(***************************************************************************)
EXTENDS Integers, Sequences, FiniteSets

CONSTANTS
    Half,    \* 2^63 of the code: an int64 is in -Half .. Half - 1
    Ratio,   \* the fractions of a float draw are i / Ratio
    Nano,    \* nanoseconds in a second
    Unit,    \* a float or numeric is a multiple of 1 / Unit
    Float8,  \* the largest float of 8 bytes: beyond it there is infinity
    Saturates, \* what int64 makes of a float outside of it: the nearest end
               \* (arm64), or the smallest int64 whatever the float is (amd64)
    Part     \* seconds in the part a timestamp is truncated to

ASSUME HalfAssumption == Half \in Nat \ {0}
ASSUME ScaleAssumption ==
    /\ Ratio \in Nat \ {0} /\ Nano \in Nat \ {0}
    /\ Unit \in Nat \ {0} /\ Part \in Nat \ {0}
ASSUME FloatAssumption == Float8 \in Nat \ {0} /\ Saturates \in BOOLEAN

Int64 == -Half .. Half - 1
Uint64 == 0 .. 2 * Half - 1

\* Go: the value of an integer x after it is converted to int64, or computed
\* in it.
Wrap(x) == ((x + Half) % (2 * Half)) - Half

\* Go: the float x, truncated to an integer, after it is converted to int64; the
\* language leaves open what becomes of one that is no int64.
ToInt64(x) ==
    IF x \in Int64 THEN x ELSE IF Saturates /\ x > 0 THEN Half - 1 ELSE -Half

\* Go: remainder and quotient, truncated towards zero.
Rem(a, b) == LET n == IF b < 0 THEN -b ELSE b IN IF a < 0 THEN -((-a) % n) ELSE a % n
Quo(a, b) == IF a < 0 THEN -((-a) \div b) ELSE a \div b

-----------------------------------------------------------------------------
(* Limits: every limiter of numbers refuses a minimum that is not below    *)
(* the maximum; those of timestamps refuse one that is after it.           *)

LimitsOk(min, max) == min < max

\* A mutant: the distance and the draw stay signed.
IntLimit_Signed(min, max, v) == Wrap(min + Rem(Wrap(v), Wrap(max - min)))

\* Int64Limiter.Limit, v unsigned
IntLimit(min, max, v) ==
    LET distance == (max - min) % (2 * Half)
        res      == Wrap(min + Wrap(v % distance))
    IN  IF res < 0 THEN Rem(res, min) ELSE Rem(res, max)

\* NoiseInt64Limiter.Limit, and that of floats before rounding
Clamp(min, max, v) == IF v < min THEN min ELSE IF v > max THEN max ELSE v

\* How many times 10^-precision, here step, is next to v; halves away from zero
Steps(step, v) == IF v < 0 THEN -(((-v) * 2 + step) \div (2 * step))
                           ELSE (v * 2 + step) \div (2 * step)

\* decimal.Round, exact
Round(step, v) == Steps(step, v) * step

\* Round of floats: the number of steps is converted to an int64.
RoundFloat(step, v) == ToInt64(Steps(step, v)) * step

\* RandomNumericLimiter.Limit, v not negative
NumericLimit(min, max, step, v) ==
    LET res  == min + (v % (max - min))
        back == IF res > max THEN Rem(res, max)
                ELSE IF res < min THEN Rem(res, min) ELSE res
    IN  Round(step, back)

\* Float64Limiter.Limit, v a fraction.  A distance that no float holds is
\* infinite, and so is what is added to the minimum; times zero it is no
\* number, of which arm64 makes zero.
FloatLimit(min, max, step, v) ==
    IF max - min > Float8
    THEN (IF v = 0 /\ Saturates THEN 0 ELSE ToInt64(Half)) * step
    ELSE RoundFloat(step, min + Quo(v * (max - min), Ratio))

\* NoiseNumericLimiter.Limit: only a value that needs no limit is rounded.
ClampRound(min, max, step, v) ==
    IF v < min THEN min ELSE IF v > max THEN max ELSE Round(step, v)

\* NoiseFloat64Limiter.Limit
ClampRoundFloat(min, max, step, v) ==
    IF v < min THEN min ELSE IF v > max THEN max ELSE RoundFloat(step, v)

-----------------------------------------------------------------------------
(* Noise *)

\* The multiplier in 1 / Ratio, its sign from one more byte.
Multiplier(minRatio, maxRatio, frac, negative) ==
    LET m == minRatio + Quo(frac * (maxRatio - minRatio), Ratio)
    IN  IF (negative /\ m > 0) \/ (~negative /\ m < 0) THEN -m ELSE m

\* original + int64(float64(original) * multiplier), in 64 bits
NoiseInt(original, m) == Wrap(original + ToInt64(Quo(original * m, Ratio)))

\* Nothing wraps before a float is rounded, or in numerics; an infinite float
\* is beyond every limit as well.
NoiseFloat(original, m) == original + Quo(original * m, Ratio)

-----------------------------------------------------------------------------
(* Timestamps: [sec, nano] *)

Before(a, b) == a.sec < b.sec \/ (a.sec = b.sec /\ a.nano < b.nano)
FromNanos(n) == [sec |-> n \div Nano, nano |-> n % Nano]

\* DateTruncater: the parts below a second are never truncated.
Truncate(part, t) ==
    CASE part = "none" -> t
      [] part = "nanosecond" -> t
      [] part = "second" -> [sec |-> t.sec, nano |-> 0]
      [] part = "larger" -> [sec |-> t.sec - (t.sec % Part), nano |-> 0]

\* A mutant: the seconds of the maximum are used as they are.
TimestampSpan_Plain(min, max) == max.sec + 1

\* maxValueFromZero
TimestampSpan(min, max) ==
    1 + CASE min.sec < 0 /\ max.sec < 0  -> -min.sec - (-max.sec)
          [] min.sec < 0 /\ max.sec >= 0 -> max.sec + (-min.sec)
          [] OTHER -> max.sec - min.sec

\* TimestampLimiter.Limit: the nanoseconds are reduced in the first second
\* and in the last, by one more than those of the limit.
TimestampLimit(min, max, sec, nano) ==
    LET s == Rem(sec, TimestampSpan(min, max)) + min.sec
        n == IF s = min.sec THEN nano % (min.nano + 1)
             ELSE IF s = max.sec THEN nano % (max.nano + 1) ELSE nano
    IN  [sec |-> s, nano |-> n]

\* Timestamp.Transform: the draw is read as signed, and the smallest int64 has
\* no absolute value.
RandomTimestamp(min, max, part, draw, nano) ==
    LET sec == IF Wrap(draw) < 0 THEN Wrap(-Wrap(draw)) ELSE Wrap(draw)
    IN  Truncate(part, TimestampLimit(min, max, sec, nano))

\* NoiseTimestampLimiter.Limit: limits is {} or one pair.
ClampTimestamp(limits, t) ==
    IF \E l \in limits : Before(l[2], t) THEN (CHOOSE l \in limits : TRUE)[2]
    ELSE IF \E l \in limits : Before(t, l[1]) THEN (CHOOSE l \in limits : TRUE)[1]
    ELSE t

\* NoiseTimestamp.Transform: the ratios are durations in nanoseconds.
NoiseTimestamp(limits, part, minRatio, maxRatio, draw, negative, t) ==
    LET off   == Rem(Wrap(draw), maxRatio - minRatio)
        delta == minRatio + (IF off < 0 THEN -off ELSE off)
        n     == t.sec * Nano + t.nano
    IN  Truncate(part, ClampTimestamp(limits,
                           FromNanos(IF negative THEN n - delta ELSE n + delta)))
=============================================================================
