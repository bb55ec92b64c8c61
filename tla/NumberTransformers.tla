------------------------- MODULE NumberTransformers -------------------------
(***************************************************************************)
(* The transformers of numbers and of times.  A transformer t is a record  *)
(*   column, size, keepNull                                                *)
(*   min, max              parameters, static or dynamic                   *)
(*   minRatio, maxRatio    of a noise, in 1 / Ratio or in nanoseconds      *)
(*   step, part            the precision, the part times are truncated to  *)
(*   unit, minUnit, maxUnit   of a unix timestamp                          *)
(* a row a function from columns to values, and a draw d a record          *)
(*   v, frac, negative, nano                                               *)
(* A transformer's operator gives the row it returns, or Fail; the limits  *)
(* its constructor computes are an operator of their own, and Fail where   *)
(* the constructor refuses.  Keeping the old row for Fail is the caller's. *)
(*                                                                         *)
(* Code: internal/db/postgres/transformers/ (numbers and times).           *)
(***************************************************************************)
EXTENDS Parameters

CONSTANTS
    Int2, Int4,       \* half the range of the columns of 2 and 4 bytes
    Float4,           \* the largest float of 4 bytes
    NumericMax,       \* the largest numeric a generator makes
    ZeroTime          \* the time of Go's time.Time{}

Dynamic(t) == t.min.dynamic \/ t.max.dynamic

\* limitIsValid, numericLimitIsValid: one side is enough.
LimitIsValid(v, lo, hi) == v >= lo \/ v <= hi

\* The limits of a constructor: a static value replaces a threshold.
StaticLimits(t, lo, hi) ==
    LET min == IF Dynamic(t) \/ t.min.value = Unset THEN lo ELSE t.min.value
        max == IF Dynamic(t) \/ t.max.value = Unset THEN hi ELSE t.max.value
    IN  IF LimitIsValid(min, lo, hi) /\ LimitIsValid(max, lo, hi) /\ LimitsOk(min, max)
        THEN <<min, max>> ELSE Fail

\* The limits of a row: two zeros stand for no limits.
RowLimits(t, row, lo, hi) ==
    LET min == Scan(t.min, row, 0)
        max == Scan(t.max, row, 0)
    IN  IF min = Fail \/ max = Fail THEN Fail
        ELSE IF ~LimitIsValid(min, lo, hi) \/ ~LimitIsValid(max, lo, hi) THEN Fail
        ELSE IF min = 0 /\ max = 0 THEN <<lo, hi>>
        ELSE IF LimitsOk(min, max) THEN <<min, max>> ELSE Fail

-----------------------------------------------------------------------------
(* Integers *)

\* getIntThresholds: a column of 8 bytes has the thresholds of 2 bytes.
IntThreshold(size) == IF size = 4 THEN Int4 ELSE Int2

\* What the column takes; the driver refuses the rest.
IntRange(size) ==
    CASE size = 2 -> -Int2 .. Int2 - 1
      [] size = 4 -> -Int4 .. Int4 - 1
      [] OTHER -> Int64

SetInt(t, row, v) == IF v \in IntRange(t.size) THEN Set(t, row, v) ELSE Fail

NewRandomInt(t) == StaticLimits(t, -IntThreshold(t.size), IntThreshold(t.size) - 1)

RandomInt(t, row, d) ==
    LET l == IF Dynamic(t) THEN RowLimits(t, row, -IntThreshold(t.size), IntThreshold(t.size) - 1)
             ELSE NewRandomInt(t)
    IN  IF Kept(t, row) THEN row
        ELSE IF l = Fail THEN Fail ELSE SetInt(t, row, IntLimit(l[1], l[2], d.v))

NewNoiseInt(t) == StaticLimits(t, -IntThreshold(t.size), IntThreshold(t.size) - 1)

\* The constructor does not keep the dynamic mode: dynamic limits are not used.
NoiseIntRow(t, row, d) ==
    LET l == NewNoiseInt(t)
        m == Multiplier(t.minRatio, t.maxRatio, d.frac, d.negative)
    IN  IF row[t.column] = Null THEN row
        ELSE SetInt(t, row, Clamp(l[1], l[2], NoiseInt(row[t.column], m)))

-----------------------------------------------------------------------------
(* Floats and numerics: multiples of 1 / Unit *)

FloatThreshold(size) == IF size = 4 THEN Float4 ELSE Float8

\* The limits are required; two zeros stand for those of 8 bytes.
NewRandomFloat(t) ==
    IF Dynamic(t) \/ (t.min.value = 0 /\ t.max.value = 0) THEN <<-Float8, Float8>>
    ELSE StaticLimits(t, -FloatThreshold(t.size), FloatThreshold(t.size))

RandomFloat(t, row, d) ==
    LET l == IF Dynamic(t) THEN RowLimits(t, row, -Float8, Float8) ELSE NewRandomFloat(t)
    IN  IF Kept(t, row) THEN row
        ELSE IF l = Fail THEN Fail ELSE Set(t, row, FloatLimit(l[1], l[2], t.step, d.frac))

NewNoiseFloat(t) == StaticLimits(t, -FloatThreshold(t.size), FloatThreshold(t.size))

\* getMinAndMaxFloatDynamicValueNoiseIntTrans: the dynamic maximum is read
\* from the minimum's parameter and then replaced by 0.
NoiseFloatLimits(t, row) ==
    LET max0 == FloatThreshold(t.size)
        min  == IF t.min.dynamic THEN Scan(t.min, row, 0) ELSE -max0
        max  == IF t.max.dynamic THEN 0 ELSE max0
    IN  IF min = Fail THEN Fail ELSE IF LimitsOk(min, max) THEN <<min, max>> ELSE Fail

NoiseFloatRow(t, row, d) ==
    LET l == IF Dynamic(t) THEN NoiseFloatLimits(t, row) ELSE NewNoiseFloat(t)
        m == Multiplier(t.minRatio, t.maxRatio, d.frac, d.negative)
    IN  IF row[t.column] = Null THEN row
        ELSE IF l = Fail THEN Fail
        ELSE Set(t, row, ClampRoundFloat(l[1], l[2], t.step, NoiseFloat(row[t.column], m)))

NewRandomNumeric(t) == StaticLimits(t, -NumericMax, NumericMax)

\* The limiter of a row has no precision.
RandomNumeric(t, row, d) ==
    LET l == IF Dynamic(t) THEN RowLimits(t, row, -NumericMax, NumericMax)
             ELSE NewRandomNumeric(t)
        step == IF Dynamic(t) THEN 1 ELSE t.step
    IN  IF Kept(t, row) THEN row
        ELSE IF l = Fail THEN Fail ELSE Set(t, row, NumericLimit(l[1], l[2], step, d.v))

NewNoiseNumeric(t) == StaticLimits(t, -NumericMax, NumericMax)

NoiseNumericRow(t, row, d) ==
    LET l == IF Dynamic(t) THEN RowLimits(t, row, -NumericMax, NumericMax)
             ELSE NewNoiseNumeric(t)
        m == Multiplier(t.minRatio, t.maxRatio, d.frac, d.negative)
    IN  IF row[t.column] = Null THEN row
        ELSE IF l = Fail THEN Fail
        ELSE Set(t, row, ClampRound(l[1], l[2], t.step, NoiseFloat(row[t.column], m)))

-----------------------------------------------------------------------------
(* Times *)

\* The limits of a row or of a constructor, from two times.
TimeLimits(min, max) ==
    IF min = Fail \/ max = Fail THEN Fail
    ELSE IF Before(max, min) THEN Fail ELSE <<min, max>>

NewRandomDate(t) ==
    IF Dynamic(t) THEN <<ZeroTime, ZeroTime>> ELSE TimeLimits(t.min.value, t.max.value)

RandomDate(t, row, d) ==
    LET l == IF Dynamic(t) THEN TimeLimits(Scan(t.min, row, ZeroTime), Scan(t.max, row, ZeroTime))
             ELSE NewRandomDate(t)
    IN  IF Kept(t, row) THEN row
        ELSE IF l = Fail THEN Fail
        ELSE Set(t, row, RandomTimestamp(l[1], l[2], t.part, d.v, d.nano))

\* getTimeByUnit: microseconds are read as milliseconds, and the nanoseconds
\* of a second are a remainder of one less.
TimeByUnit(unit, v) ==
    CASE unit = "nano" -> FromNanos(Quo(v, Nano) * Nano + Rem(v, Nano - 1))
      [] unit = "micro" -> UnixToTime("milli", v)
      [] OTHER -> UnixToTime(unit, v)

\* getUnixTimestampMinAndMaxThresholds: both limits are in the minimum's unit.
NewUnixTimestamp(t) ==
    IF Dynamic(t) THEN <<ZeroTime, ZeroTime>>
    ELSE TimeLimits(TimeByUnit(t.minUnit, t.min.value), TimeByUnit(t.minUnit, t.max.value))

UnixTimestampLimits(t, row) ==
    LET min == Scan(t.min, row, 0)
        max == Scan(t.max, row, 0)
    IN  IF min = Fail \/ max = Fail THEN Fail
        ELSE TimeLimits(TimeByUnit(t.minUnit, min), TimeByUnit(t.maxUnit, max))

UnixTimestamp(t, row, d) ==
    LET l == IF Dynamic(t) THEN UnixTimestampLimits(t, row) ELSE NewUnixTimestamp(t)
    IN  IF Kept(t, row) THEN row
        ELSE IF l = Fail THEN Fail
        ELSE Set(t, row, TimeToUnix(t.unit, RandomTimestamp(l[1], l[2], t.part, d.v, d.nano)))

\* The ratios of NewNoiseDateTransformerBase: the minimum is a twentieth of
\* the maximum when it is not given.
NoiseRatios(t) ==
    <<IF t.minRatio = Unset THEN t.maxRatio \div 20 ELSE t.minRatio, t.maxRatio>>

\* Both limits are the maximum, and both are left out without a minimum; a
\* missing maximum is ZeroTime.
NewNoiseDate(t) ==
    LET max == IF t.max.value = Unset THEN ZeroTime ELSE t.max.value
    IN  IF t.maxRatio = 0 \/ t.minRatio = 0 \/ NoiseRatios(t)[1] >= t.maxRatio THEN Fail
        ELSE IF Dynamic(t) \/ t.min.value = Unset THEN {} ELSE {<<max, max>>}

NoiseDateLimits(t, row) ==
    LET min == IF IsEmpty(t.min, row) THEN ZeroTime ELSE Scan(t.min, row, ZeroTime)
        max == IF IsEmpty(t.max, row) THEN ZeroTime ELSE Scan(t.max, row, ZeroTime)
        l   == TimeLimits(min, max)
    IN  IF l = Fail THEN Fail ELSE {l}

NoiseDate(t, row, d) ==
    LET l == IF Dynamic(t) THEN NoiseDateLimits(t, row) ELSE NewNoiseDate(t)
        r == NoiseRatios(t)
    IN  IF row[t.column] = Null THEN row
        ELSE IF l = Fail THEN Fail
        ELSE Set(t, row, NoiseTimestamp(l, t.part, r[1], r[2], d.v, d.negative, row[t.column]))

-----------------------------------------------------------------------------
(* All of them *)

NumberKinds == {"RandomInt", "NoiseInt", "RandomFloat", "NoiseFloat",
                "RandomNumeric", "NoiseNumeric", "RandomUnixTimestamp"}
TimeKinds == {"RandomDate", "NoiseDate"}

NewNumber(kind, t) ==
    CASE kind = "RandomInt" -> NewRandomInt(t)
      [] kind = "NoiseInt" -> NewNoiseInt(t)
      [] kind = "RandomFloat" -> NewRandomFloat(t)
      [] kind = "NoiseFloat" -> NewNoiseFloat(t)
      [] kind = "RandomNumeric" -> NewRandomNumeric(t)
      [] kind = "NoiseNumeric" -> NewNoiseNumeric(t)
      [] kind = "RandomUnixTimestamp" -> NewUnixTimestamp(t)
      [] kind = "RandomDate" -> NewRandomDate(t)
      [] kind = "NoiseDate" -> NewNoiseDate(t)

TransformNumber(kind, t, row, d) ==
    CASE kind = "RandomInt" -> RandomInt(t, row, d)
      [] kind = "NoiseInt" -> NoiseIntRow(t, row, d)
      [] kind = "RandomFloat" -> RandomFloat(t, row, d)
      [] kind = "NoiseFloat" -> NoiseFloatRow(t, row, d)
      [] kind = "RandomNumeric" -> RandomNumeric(t, row, d)
      [] kind = "NoiseNumeric" -> NoiseNumericRow(t, row, d)
      [] kind = "RandomUnixTimestamp" -> UnixTimestamp(t, row, d)
      [] kind = "RandomDate" -> RandomDate(t, row, d)
      [] kind = "NoiseDate" -> NoiseDate(t, row, d)
=============================================================================
