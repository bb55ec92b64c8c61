---------------------------- MODULE RowTransform ----------------------------
(***************************************************************************)
(* The transformation of a table, row after row: the parameters of its     *)
(* transformers are initialized, the transformers are made, and each line  *)
(* of the COPY stream is decoded, goes through the transformers in their   *)
(* order, and is encoded.  What a transformer keeps between two rows is    *)
(* its memory.                                                             *)
(*                                                                         *)
(* A table is a record family ("text": lines are bytes; any other: typed   *)
(* values, one to a column), columns (a sequence of names), types (of      *)
(* parameters, a function from names), lines, when and chain.  An element  *)
(* of a chain is a record kind, t, when and raw (defs, static, dynamic):   *)
(* the parameters of raw replace those of the same name in t.  A condition *)
(* is Unset, "broken", or a column that must not be NULL.                  *)
(*                                                                         *)
(* Code: dumpers/transformation_pipeline.go (TransformSync, Dump),         *)
(* transformers/utils/definition.go (Instance), pkg/toolkit/record.go.     *)
(***************************************************************************)
EXTENDS NumberTransformers, RecordTransformers, RowCodec

CONSTANTS
    Tables,          \* the tables, a sequence of sets of such that are alike
    Seeds,           \* what the random engine may take
    NumberDraw(_),   \* the draw of a number or a time that a seed gives
    Bytes(_, _)      \* the text of a value of a family

VARIABLES
    table,    \* the table, or Unset
    pc,       \* "configure", "decode", "transform", "encode", "done",
              \* "refused" or "failed"
    memory,   \* the transformers, each with what it remembers
    row,      \* the row: raw and new
    shared,   \* for each column the places its value shares, {} or one pair
              \* of a transformer and a place in it
    step,     \* the next transformer
    values,   \* of the lines that were transformed: what their columns were
    written   \* the lines that were written

vars == <<table, pc, memory, row, shared, step, values, written>>

Cells == DOMAIN table.columns
Column(c) == CHOOSE i \in Cells : table.columns[i] = c

\* Lines of texts are bytes; the others have their values.
Fields(tb, line) == IF tb.family = "text" THEN Split(line) ELSE line
Value(tb, field) == IF tb.family = "text" THEN DecodeAttr(field) ELSE field

Cell(i) == IF row.new[i] # Unset THEN row.new[i] ELSE Value(table, row.raw[i])

\* The row as its transformers see it.
Current == [c \in {table.columns[i] : i \in Cells} |-> Cell(Column(c))]

Holds(when) == when = Unset \/ Current[when] # Null

-----------------------------------------------------------------------------
(* Configuration *)

Kinds == NumberKinds \cup TimeKinds \cup TextKinds \cup RecordKinds

ParameterWarnings(tb, e) ==
    InitParameters(e.raw.defs, e.raw.static, e.raw.dynamic, tb.types)

\* The transformer with the parameters that result.
WithParameters(e) ==
    [f \in DOMAIN e.t |->
        IF f \in DOMAIN e.raw.defs /\ e.raw.defs[f].isColumn THEN e.raw.static[f]
        ELSE IF f \in DOMAIN e.raw.dynamic THEN DynamicParam(e.raw.defs[f], e.raw.dynamic[f])
        ELSE IF f \in DOMAIN e.raw.defs
        THEN StaticParam(e.raw.defs[f],
                         IF f \in DOMAIN e.raw.static THEN e.raw.static[f] ELSE Unset)
        ELSE e.t[f]]

\* What New makes of it: the transformer or Fail.
New(tb, e) ==
    LET t == WithParameters(e) IN
    CASE e.kind \in NumberKinds \cup TimeKinds -> IF NewNumber(e.kind, t) = Fail THEN Fail ELSE t
      [] e.kind \in TextKinds -> NewText(e.kind, t)
      [] e.kind \in RecordKinds ->
           NewOfRecord(e.kind, t, [c \in {tb.columns[i] : i \in DOMAIN tb.columns} |-> Null])

\* Instance and the condition of one transformer.
Accepted(tb, e) ==
    /\ ParameterWarnings(tb, e) = {}
    /\ New(tb, e) # Fail
    /\ e.when # "broken"

-----------------------------------------------------------------------------
(* What the tables are *)

IsSeq(s) == Len(s) \in Nat /\ s = [i \in 1 .. Len(s) |-> s[i]]
Names(tb) == {tb.columns[i] : i \in DOMAIN tb.columns}

\* The kinds that ask an engine for bytes.
DrawingKinds ==
    NumberKinds \cup TimeKinds \cup {"RandomCompany", "RandomPerson"} \cup
    {"RandomChoice", "Email", "RandomString", "RandomBool", "RandomUuid", "RandomIp", "RandomMac"}

\* What is known of a transformer whose parameters have no warnings.
IsTransformer(tb, e) ==
    LET t == WithParameters(e) IN
    /\ e.kind \in Kinds
    /\ e.kind \in DrawingKinds => "engine" \in DOMAIN t
    /\ IF e.kind \in RecordKinds
       THEN /\ {"column", "keepNull"} \cap DOMAIN t = {} /\ "columns" \in DOMAIN t
            /\ IsSeq(t.columns) /\ (e.kind = "RandomPerson" => "gender" \in DOMAIN t)
            /\ \A i \in DOMAIN t.columns : {"name", "keepNull", "hashing"} \subseteq DOMAIN t.columns[i]
            /\ \A i, j \in DOMAIN t.columns : t.columns[i].name = t.columns[j].name => i = j
       ELSE "column" \in DOMAIN t /\ t.column \in Names(tb)

\* A text is a sequence of bytes, and the value of a text column may be NULL.
Byte == 0 .. 255
Texts == Seq(Byte)
TextValues == Texts \cup {Null}

\* What the transformers of a table of texts have: values that are texts, and
\* choices that are not empty.
TextFields(kind) ==
    CASE kind = "Dict" -> {"values", "default"}
      [] kind = "RandomChoice" -> {"values"}
      [] kind = "Replace" -> {"value"}
      [] kind = "Hash" -> {"salt", "maxLength"}
      [] kind = "Email" -> {"domains", "providers", "maxRandomLength"}
      [] kind = "RandomString" -> {"symbols", "min", "max"}
      [] OTHER -> {}

MakesTexts(tb, kind, t) ==
    /\ kind \in {"Dict", "RandomChoice", "Replace", "SetNull", "Hash", "Masking", "RegexpReplace",
                 "Template", "Email", "RandomString", "RandomUuid"}
    /\ TextFields(kind) \subseteq DOMAIN t
    /\ kind = "Dict" =>
         t.values \in [DOMAIN t.values -> TextValues] /\ t.default \in TextValues \cup {Unset}
    /\ kind = "RandomChoice" =>
         IsSeq(t.values) /\ t.values # <<>> /\ \A i \in DOMAIN t.values : t.values[i] \in TextValues
    /\ kind = "Replace" =>
         /\ {"dynamic", "column", "value"} \subseteq DOMAIN t.value
         /\ t.value.value \in TextValues \cup {Unset}
         /\ t.value.dynamic => t.value.column \in Names(tb)
    /\ kind = "Hash" => t.salt \in Texts /\ t.maxLength \in Nat
    /\ kind = "Email" =>
         /\ \A l \in {t.domains, t.providers} : IsSeq(l) /\ \A i \in DOMAIN l : l[i] \in Texts
         /\ t.providers # <<>> /\ t.maxRandomLength \in Nat
    /\ kind = "RandomString" => t.symbols \in Texts \ {<<>>} /\ t.min \in Nat /\ t.max \in Nat

\* What a column has in the lines.
InLines(tb, c) ==
    {Value(tb, Fields(tb, tb.lines[j])[i]) :
       j \in DOMAIN tb.lines, i \in {k \in DOMAIN tb.columns : tb.columns[k] = c}} \ {Null}

\* A parameter decodes into S, or not at all, whatever row of the table it is
\* read from.
Gives(tb, p, S) ==
    /\ p.dynamic \in BOOLEAN /\ p.value \in S \cup {Unset}
    /\ p.dynamic => /\ p.column \in Names(tb)
                    /\ \A v \in InLines(tb, p.column) : Cast(p.cast, v) \in S \cup {Fail}

Required(p) == p.dynamic \/ p.value # Unset

Time == [sec : Int, nano : 0 .. Nano - 1]
Subnet == {net \in [base : Nat, bits : Nat] : 2 ^ net.bits \in Nat}

\* The kinds with limits or a shape, and what they have: parameters of their
\* type, values of their type in their column, and a precision.
IntKinds == {"RandomInt", "NoiseInt"}
LimitedKinds == NumberKinds \ {"RandomUnixTimestamp"}
ShapedKinds == {"RandomString", "Email", "Masking"}

ValueFields(kind) ==
    CASE kind \in LimitedKinds ->
           {"keepNull", "size", "min", "max", "minRatio", "maxRatio", "step"}
      [] kind = "RandomDate" -> {"keepNull", "min", "max", "part"}
      [] kind = "RandomIp" -> {"subnet"}
      [] kind = "RandomMac" -> {"keepVendor", "castType", "managementType"}
      [] kind = "Email" -> {"keepNull", "keepDomain", "localTemplate", "domainTemplate", "validate"}
      [] kind = "Masking" -> {"type"}
      [] kind = "RandomString" -> {"keepNull"}
      [] OTHER -> {}

MakesValues(tb, kind, t) ==
    /\ ValueFields(kind) \subseteq DOMAIN t
    /\ kind \in LimitedKinds =>
         /\ \A p \in {t.min, t.max} : Gives(tb, p, IF kind \in IntKinds THEN Int64 ELSE Int)
         /\ t.step \in Nat \ {0} /\ t.minRatio \in Int /\ t.maxRatio \in Int
         /\ InLines(tb, t.column) \subseteq Int
    /\ kind = "RandomDate" =>
         /\ \A p \in {t.min, t.max} : Gives(tb, p, Time) /\ (Dynamic(t) \/ Required(p))
         /\ t.part \in {"none", "nanosecond", "second", "larger"}
    /\ kind = "RandomIp" => Gives(tb, t.subnet, Subnet) /\ Required(t.subnet)
    /\ kind = "RandomMac" => InLines(tb, t.column) \subseteq {m \in Texts : Len(m) >= 3}
    /\ kind \in ShapedKinds => tb.family = "text"
    /\ kind \in {"RandomIp", "RandomMac", "RandomDate"} \cup LimitedKinds =>
         \A v \in InLines(tb, t.column) \cup {Null} : Bytes(tb.family, v) \in Texts

\* A line of texts that pg_dump could have written: each field decodes.
IsLine(line) ==
    line \in Texts /\ \A i \in DOMAIN Split(line) : DecodeAttr(Split(line)[i]) # Fail

\* The columns have different names, NewRow refuses a row without any, and the
\* COPY stream has no less of them than the table.
IsTable(tb) ==
    /\ IsSeq(tb.columns) /\ tb.columns # <<>> /\ IsSeq(tb.lines) /\ IsSeq(tb.chain)
    /\ \A i, j \in DOMAIN tb.columns : tb.columns[i] = tb.columns[j] => i = j
    /\ \A j \in DOMAIN tb.lines :
         LET fields == Fields(tb, tb.lines[j])
         IN  IsSeq(fields) /\ Len(fields) >= Len(tb.columns)
    /\ \A k \in DOMAIN tb.chain :
         ParameterWarnings(tb, tb.chain[k]) = {} =>
           /\ IsTransformer(tb, tb.chain[k])
           /\ MakesValues(tb, tb.chain[k].kind, WithParameters(tb.chain[k]))
           /\ tb.family = "text" =>
                MakesTexts(tb, tb.chain[k].kind, WithParameters(tb.chain[k]))
    /\ tb.family = "text" => \A j \in DOMAIN tb.lines : IsLine(tb.lines[j])

ASSUME TableAssumption == \A n \in DOMAIN Tables : \A tb \in Tables[n] : IsTable(tb)

\* NULL, nil and an error are three things; nil is no name of a type, and an
\* error no text.
ASSUME NothingAssumption ==
    /\ Null # Unset /\ Null # Fail /\ Unset # Fail
    /\ Fail \notin Texts
    /\ Unset \notin Numbers \cup Times /\ Unset \notin {"random", "original"}
    /\ Unset \notin Int /\ Unset \notin Texts /\ Unset \notin Time

\* Draws of 64 bits and fractions of one; the ranges of the columns are ranges
\* of an int64.
ASSUME DrawAssumption ==
    \A s \in Seeds : NumberDraw(s) \in
        [v : Uint64, frac : 0 .. Ratio, negative : BOOLEAN, nano : 0 .. Nano - 1]
ASSUME WidthAssumption ==
    /\ Int2 \in 1 .. Half /\ Int4 \in 1 .. Half
    /\ {Float4, NumericMax} \subseteq Nat \ {0}
    /\ ZeroTime \in Time

\* What the operators of a table of texts give, for the texts of T and up to n
\* bytes; a digest has the digits of hexadecimal numbers.
Hexadecimal == 48 .. 57 \cup 97 .. 102
TextOperators(T, n) ==
    /\ \A v \in T : /\ {Digest(v), Substitute(v), Masked(v)} \subseteq Texts
                    /\ \A i \in DOMAIN Digest(v) : Digest(v)[i] \in Hexadecimal
                    /\ Seed(v) \in Seeds
    /\ \A v \in T \cup {Null} : Bytes("text", v) \in Texts /\ Template(v) \in Texts \cup {Fail}
    /\ \A s \in Seeds : \A m \in 0 .. n : Stream(s, m) \in Texts /\ Len(Stream(s, m)) = m
    /\ \A s \in Seeds : \A m \in 0 .. n : Word(s, m) \in Nat

-----------------------------------------------------------------------------
(* The run *)

Init ==
    /\ table = Unset
    /\ pc = "configure"
    /\ memory = <<>>
    /\ row = Unset
    /\ shared = <<>>
    /\ step = 0
    /\ values = <<>>
    /\ written = <<>>

\* The transformers of a table: one that is refused ends the dump before it
\* begins.
Configure ==
    /\ pc = "configure"
    /\ \E n \in DOMAIN Tables : \E tb \in Tables[n] :
         LET ok == tb.when # "broken" /\ \A k \in DOMAIN tb.chain : Accepted(tb, tb.chain[k])
             cells == DOMAIN tb.columns
         IN  /\ table' = tb
             /\ pc' = IF ok THEN "decode" ELSE "refused"
             /\ memory' = IF ok THEN [k \in DOMAIN tb.chain |-> New(tb, tb.chain[k])] ELSE <<>>
             /\ row' = [raw |-> [i \in cells |-> Unset], new |-> [i \in cells |-> Unset]]
             /\ shared' = [i \in cells |-> {}]
    /\ UNCHANGED <<step, values, written>>

-----------------------------------------------------------------------------
(* Rows *)

Stop == pc' = "failed" /\ UNCHANGED <<table, memory, row, shared, step, values, written>>

\* Dump: the next line, and the condition of the table.
DecodeLine ==
    /\ pc = "decode"
    /\ Len(written) < Len(table.lines)
    /\ LET line == table.lines[Len(written) + 1] IN
       IF Len(Fields(table, line)) > Len(table.columns) THEN Stop
       ELSE /\ row' = [row EXCEPT !.raw = Fields(table, line)]
            /\ step' = 1
            /\ pc' = "transform"
            /\ shared' = [i \in Cells |-> {}]
            /\ UNCHANGED <<table, memory, values, written>>

Draw(e, t) ==
    LET column == IF "column" \in DOMAIN t THEN t.column ELSE t.columns[1].name
    IN  IF "engine" \in DOMAIN t /\ t.engine = "hash"
        THEN {Seed(Bytes(table.family, Current[column]))} ELSE Seeds

After(e, t, seed) ==
    CASE e.kind \in NumberKinds \cup TimeKinds ->
           TransformNumber(e.kind, t, Current, NumberDraw(seed))
      [] e.kind \in TextKinds -> TransformText(e.kind, t, Current, seed)
      [] e.kind \in RecordKinds -> TransformRecord(e.kind, t, Current, seed)

\* The columns a transformer sets: the one it has, unless it is NULL and stays
\* so, or those it changes.
Sets(e, t, after) ==
    {i \in Cells :
        \/ after[table.columns[i]] # Cell(i)
        \/ "column" \in DOMAIN t /\ t.column = table.columns[i] /\ Cell(i) # Null}

\* TransformSync: a transformer whose condition does not hold is left out.
\* RegexpReplace writes the place that the value it found is shared with.
TransformRow ==
    /\ pc = "transform"
    /\ step <= Len(table.chain)
    /\ LET e == table.chain[step]
           t == memory[step]
       IN  IF ~Holds(table.when) \/ ~Holds(e.when)
           THEN step' = step + 1 /\ UNCHANGED <<table, pc, memory, row, shared, values, written>>
           ELSE \E seed \in Draw(e, t) :
                  LET after == After(e, t, seed)
                      sets  == Sets(e, t, after)
                      here  == IF "column" \in DOMAIN t THEN Column(t.column) ELSE 1
                      place == IF e.kind \in TextKinds THEN SharedPlace(e.kind, t, Current, seed)
                               ELSE {}
                      write == e.kind = "RegexpReplace" /\ here \in sets /\ shared[here] # {}
                      of    == CHOOSE p \in shared[here] : TRUE
                  IN  IF after = Fail THEN Stop
                      ELSE /\ row' = [row EXCEPT !.new =
                                 [i \in Cells |-> IF i \in sets THEN after[table.columns[i]] ELSE @[i]]]
                           /\ shared' = [i \in Cells |->
                                 IF e.kind = "RegexpReplace" \/ i \notin sets THEN shared[i]
                                 ELSE {<<step, p>> : p \in place}]
                           /\ memory' = [k \in DOMAIN memory |->
                                 IF write /\ k = of[1]
                                 THEN Overwrite(memory[k], of[2], after[t.column])
                                 ELSE IF k = step /\ e.kind \in RecordKinds
                                 THEN RecordAfter(e.kind, t, Current) ELSE memory[k]]
                           /\ step' = step + 1
                           /\ UNCHANGED <<table, pc, values, written>>

\* The row is encoded, and what was set is cleared.
EncodeLine ==
    /\ pc = "transform"
    /\ step > Len(table.chain)
    /\ values' = Append(values, Current)
    /\ written' = Append(written, IF table.family = "text" THEN Line(row)
                                   ELSE [i \in Cells |-> Cell(i)])
    /\ row' = Cleared(row)
    /\ pc' = "decode"
    /\ UNCHANGED <<table, memory, shared, step>>

Finish ==
    /\ pc = "decode"
    /\ Len(written) = Len(table.lines)
    /\ pc' = "done"
    /\ UNCHANGED <<table, memory, row, shared, step, values, written>>

Ended == pc \in {"done", "refused", "failed"} /\ UNCHANGED vars

Next == Configure \/ DecodeLine \/ TransformRow \/ EncodeLine \/ Finish \/ Ended

Spec == Init /\ [][Next]_vars

-----------------------------------------------------------------------------
(* Properties *)

\* The types; a row is written for each one that was transformed.
TypeOK ==
    /\ pc \in {"configure", "decode", "transform", "done", "refused", "failed"}
    /\ Len(written) = Len(values)
    /\ pc # "configure" => Len(row.new) = Len(table.columns) /\ Len(shared) = Len(row.new)
    /\ pc \in {"decode", "transform", "done"} => Len(memory) = Len(table.chain)

\* What a line was before it was transformed.
Original(j) ==
    [c \in {table.columns[i] : i \in Cells} |->
        Value(table, Fields(table, table.lines[j])[Column(c)])]

Meets(when, r) == when = Unset \/ r[when] # Null

\* Property(e, t, before, after) of each row that one transformer alone made.
AloneEach(Property(_, _, _, _)) ==
    table # Unset /\ Len(table.chain) = 1 =>
        LET e == table.chain[1] IN
        \A j \in DOMAIN values :
          Meets(table.when, Original(j)) /\ Meets(e.when, Original(j)) =>
            Property(e, New(table, e), Original(j), values[j])

\* What the configuration and the row declare as a limit.
Declared(p, before, none) ==
    IF p.dynamic /\ before[p.column] # Null THEN Cast(p.cast, before[p.column])
    ELSE IF p.value = Unset THEN none ELSE p.value

\* The noise of integers and floats does not take dynamic limits.
TakesLimits(e, t) == e.kind \in {"NoiseInt", "NoiseFloat"} => ~Dynamic(t)

\* Two zeros stand for no limits; a limit that is missing beside a dynamic one
\* is a zero.
Unlimited(t, before) ==
    IF Dynamic(t) THEN Scan(t.min, before, 0) = 0 /\ Scan(t.max, before, 0) = 0
    ELSE t.min.value = 0 /\ t.max.value = 0

FloatKinds == {"RandomFloat", "NoiseFloat"}

Threshold(e, t) ==
    CASE e.kind \in IntKinds -> IntThreshold(t.size)
      [] e.kind \in FloatKinds -> FloatThreshold(t.size)
      [] OTHER -> NumericMax

\* A float is counted in steps by an int64: between these limits no count leaves
\* it, or what becomes of it then is between them as well.
Countable(min, max, unit) ==
    LET below == min <= -(Half * unit)
        above == max >= (Half - 1) * unit
    IN  IF max - min > Float8 THEN below /\ above
        ELSE below \/ max <= (Half - 1) * unit

NumberInLimits(e, t, before, after) ==
    e.kind \in LimitedKinds /\ after[t.column] # Null =>
        LET v == after[t.column]
            none == Unlimited(t, before)
            b == IF none /\ e.kind = "RandomFloat" THEN Float8 ELSE Threshold(e, t)
            min == IF none THEN -b ELSE Declared(t.min, before, -b)
            max == IF none THEN b ELSE Declared(t.max, before, b)
            slack == IF e.kind \in IntKinds THEN 0 ELSE t.step
            counted == e.kind \in FloatKinds => Countable(min, max, t.step)
        IN  TakesLimits(e, t) /\ max >= 0 /\ counted =>
              2 * (min - v) <= slack /\ 2 * (v - max) <= slack

TimeInLimits(e, t, before, after) ==
    e.kind = "RandomDate" /\ after[t.column] # Null =>
        LET v == after[t.column]
            min == Declared(t.min, before, ZeroTime)
            max == Declared(t.max, before, ZeroTime)
            least == min.sec - (Half % (max.sec - min.sec + 1))
        IN  t.part # "larger" => (v.sec >= min.sec \/ v.sec = least) /\ ~Before(max, v)

\* The columns of a transformer that keep NULL: a company of the random engine
\* does not look for NULL, and five transformers have no keep_null.
KeepsNull(e, t) ==
    IF e.kind \in {"RandomPerson", "RandomCompany"}
    THEN {t.columns[i].name : i \in {j \in DOMAIN t.columns :
            t.columns[j].keepNull /\ (e.kind = "RandomPerson" \/ t.engine = "hash")}}
    ELSE IF e.kind = "RealAddress"
    THEN {t.columns[i].name : i \in {j \in DOMAIN t.columns : t.columns[j].keepNull}}
    ELSE IF e.kind \in {"NoiseInt", "NoiseFloat", "NoiseNumeric", "NoiseDate",
                        "Hash", "Masking", "RegexpReplace"}
    THEN {t.column}
    ELSE IF e.kind \in {"Dict", "SetNull", "Template", "RandomIp", "RandomMac"} THEN {}
    ELSE IF "keepNull" \in DOMAIN t /\ t.keepNull THEN {t.column} ELSE {}

NullStays(e, t, before, after) ==
    \A c \in KeepsNull(e, t) : before[c] = Null => after[c] = Null

\* keep_null of each transformer and of each of its columns: a NULL that is to
\* be kept is there after the row went through it.
KeptNull == AloneEach(NullStays)

-----------------------------------------------------------------------------

InShape(e, t, before, after) ==
    LET v == after[t.column]
        old == before[t.column] IN
    CASE e.kind = "RandomString" /\ v # Null ->
           Len(v) \in t.min .. t.max /\ \A i \in DOMAIN v : \E k \in DOMAIN t.symbols : v[i] = t.symbols[k]
      [] e.kind = "RandomIp" ->
           LET net == Declared(t.subnet, before, Unset)
           IN  v > net.base /\ v < net.base + 2 ^ net.bits - 1
      [] e.kind = "RandomMac" ->
           IF t.keepVendor THEN \A i \in 1 .. 3 : v[i] = old[i]
           ELSE /\ t.castType # "any" => (v[1] % 2 = 1) = (t.castType = "group")
                /\ t.managementType # "any" =>
                     ((v[1] \div 2) % 2 = 1) = (t.managementType = "local")
      [] e.kind = "Email" /\ v # Null ->
           t.keepDomain /\ t.domainTemplate = Unset => Domain(v) = Domain(old)
      [] e.kind = "Masking" /\ v # Null /\ t.type \in {"default", "postcode"} ->
           Len(v) = Len(old) /\ \A i \in 3 .. Len(v) : v[i] = Star
      [] OTHER -> TRUE

ShapeAsAsked(e, t, before, after) ==
    "column" \in DOMAIN t => InShape(e, t, before, after)

\* A number is generated between the limits that the configuration declares
\* or that the columns of its own row give, whatever the draw, also where the
\* distance leaves the signed integers; a float or a numeric may pass a limit
\* by the rounding to its precision.  Limits below zero are left out: there
\* Int64Limiter.Limit gives 0.  So are limits of floats of which the maximum and
\* not the minimum is out of the range in which Round counts (int64, in steps
\* of the precision): there a float may come out far below its minimum.  A time is generated in the seconds of its
\* limits and not after the maximum, for limits before 1970, after it and on
\* both sides of it, unless it is truncated to more than a second;
\* the smallest int64 alone, which has no absolute value, may give one before
\* the minimum.
\* (generators/transformers/, limiters, TimestampLimiter.Limit)
\* A text has its length and its symbols, an address of a network is neither
\* the network's nor that of its broadcast, a hardware address has its vendor
\* or its two bits, an email its domain, a masked text its length.
ValuesInLimits == /\ AloneEach(NumberInLimits) /\ AloneEach(TimeInLimits)
                  /\ AloneEach(ShapeAsAsked)

DeclaredColumns(e) ==
    IF e.kind = "TemplateRecord" THEN {table.columns[i] : i \in Cells}
    ELSE LET t == WithParameters(e) IN
         IF "column" \in DOMAIN t THEN {t.column}
         ELSE {t.columns[i].name : i \in DOMAIN t.columns}

\* The columns that no transformer of the table declares are written byte for
\* byte as they came, whatever escapes they use; TemplateRecord alone sets any
\* column.  (Row.Encode, Record.SetRawColumnValueByIdx)
OnlyDeclared ==
    table # Unset => \A j \in DOMAIN written :
        LET out == Fields(table, written[j])
            in  == Fields(table, table.lines[j])
        IN  \A i \in Cells :
              (\A k \in DOMAIN table.chain : table.columns[i] \notin DeclaredColumns(table.chain[k]))
                  => out[i] = in[i]

\* Nothing of a transformer is drawn, and nothing of it is known to change.
Stable(k) ==
    LET e == table.chain[k]
        t == WithParameters(e) IN
    /\ IF "engine" \in DOMAIN t THEN t.engine = "hash"
       ELSE e.kind \notin {"RealAddress", "Faker"}
    /\ e.kind # "RandomCompany"
    /\ e.kind = "RandomPerson" => ~t.gender.dynamic
    /\ e.kind = "RegexpReplace" =>
         \A l \in 1 .. k - 1 :
           table.chain[l].kind \in {"Dict", "Replace", "RandomChoice"} =>
             WithParameters(table.chain[l]).column # t.column

\* Two lines that are equal are equal after they went through transformers of
\* the hash engine and such that draw nothing, whatever rows came before
\* either: what was set for a row does not reach another one.  Three
\* transformers are left out that do change: RandomCompany, whose buffer
\* grows, RandomPerson with a dynamic gender, and RegexpReplace after a
\* transformer that shares its value.
RowsIndependent ==
    values # <<>> /\ (\A k \in DOMAIN table.chain : Stable(k)) =>
        \A i, j \in DOMAIN values : table.lines[i] = table.lines[j] => values[i] = values[j]

-----------------------------------------------------------------------------

Marks == {NullText, <<Backslash, Point>>}

\* The two sequences of EncodeAttr's own, with a byte after them, and the
\* control characters it has no letter for.
Special(v) ==
    \/ \E i \in 1 .. Len(v) - 2 : SubSeq(v, i, i + 1) \in Marks
    \/ \E i \in DOMAIN v : v[i] < 32 /\ v[i] \notin DOMAIN Letters

\* What a transformer set is what a reader of the line decodes, in as many
\* columns as there were: delimiters, line ends, backslashes and a text that
\* looks like NULL are all escaped.  (EncodeAttr, DecodeAttr, Row.Encode)
ReadBackAsSet ==
    table # Unset /\ table.family = "text" => \A j \in DOMAIN written :
        LET out == Split(written[j]) IN
        /\ Len(out) = Len(table.columns)
        /\ \A i \in Cells :
             LET v == values[j][table.columns[i]]
             IN  ~Special(Data(v)) => DecodeAttr(out[i]) = v

-----------------------------------------------------------------------------

\* Numbers are interchangeable, and so are times.
Sort(type) == IF type \in Numbers THEN "number" ELSE IF type \in Times THEN "time" ELSE type
SortAfter(cast, type) ==
    CASE cast[1] = "unixToTime" -> IF type \in Numbers THEN "time" ELSE "none"
      [] cast[1] = "timeToUnix" -> IF type \in Times THEN "number" ELSE "none"
      [] OTHER -> Sort(type)

\* Each parameter that is required is there, none is given twice or unknown,
\* each column it names exists, and what a dynamic parameter reads, after its
\* cast, can be compared with the column it belongs to.
Valid(r, types) ==
    LET column == CHOOSE c \in {r.static[n] : n \in {m \in DOMAIN r.defs \cap DOMAIN r.static :
                                    r.defs[m].isColumn}} : TRUE
    IN  /\ \A n \in DOMAIN r.defs : r.defs[n].required => n \in DOMAIN r.static \cup DOMAIN r.dynamic
        /\ DOMAIN r.static \cap DOMAIN r.dynamic = {}
        /\ DOMAIN r.static \cup DOMAIN r.dynamic \subseteq DOMAIN r.defs
        /\ \A n \in DOMAIN r.static : r.defs[n].isColumn => r.static[n] \in DOMAIN types
        /\ \A n \in DOMAIN r.dynamic :
             LET d == r.dynamic[n] IN
             /\ d.column \in DOMAIN types
             /\ d.cast \in CastNames =>
                  SortAfter(d.cast, types[d.column].type) = Sort(types[column].type)

\* A row is only transformed under a configuration that is valid.
\* (InitParameters and the Init of both kinds of parameters)
ValidOnly ==
    pc \notin {"configure", "refused"} =>
        \A k \in DOMAIN table.chain : Valid(table.chain[k].raw, table.types)
=============================================================================
