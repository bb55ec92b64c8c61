------------------------- MODULE RowTransformProofs -------------------------
(***************************************************************************)
(* What the transformation of a table ensures, for every table, every      *)
(* chain of transformers and whatever is drawn.                            *)
(***************************************************************************)
EXTENDS RowTransform, SetInduction, SequenceTheorems, FiniteSetTheorems, TLAPS

-----------------------------------------------------------------------------
(* Sequences *)

\* A sequence is a sequence of its elements.
LEMMA SeqIsSeq ==
  ASSUME NEW s, IsSeq(s)
  PROVE  s \in Seq({s[i] : i \in DOMAIN s}) /\ DOMAIN s = 1 .. Len(s)
<1>1. Len(s) \in Nat /\ s = [i \in 1 .. Len(s) |-> s[i]]
  BY DEF IsSeq
<1>2. DOMAIN s = 1 .. Len(s)
  BY <1>1
<1>3. s \in [1 .. Len(s) -> {s[i] : i \in DOMAIN s}]
  BY <1>1, <1>2
<1> QED BY <1>1, <1>2, <1>3

\* What a function from 1 .. n is as a sequence.
LEMMA FunctionIsSeq ==
  ASSUME NEW n \in Nat, NEW s, s = [i \in 1 .. n |-> s[i]]
  PROVE  IsSeq(s) /\ Len(s) = n
<1>1. s \in [1 .. n -> {s[i] : i \in 1 .. n}]
  OBVIOUS
<1>2. s \in Seq({s[i] : i \in 1 .. n})
  BY <1>1
<1>3. Len(s) = n
  BY <1>1, <1>2
<1> QED BY <1>3 DEF IsSeq

\* Append adds one element at the end.
LEMMA AppendIsSeq ==
  ASSUME NEW s, IsSeq(s), NEW e
  PROVE  /\ IsSeq(Append(s, e)) /\ Len(Append(s, e)) = Len(s) + 1
         /\ \A i \in 1 .. Len(s) : Append(s, e)[i] = s[i]
         /\ Append(s, e)[Len(s) + 1] = e
         /\ DOMAIN Append(s, e) = 1 .. Len(s) + 1
<1> DEFINE S == {s[i] : i \in DOMAIN s} \cup {e}
<1>1. s \in Seq(S) /\ e \in S
  <2>1. s \in [1 .. Len(s) -> S] /\ Len(s) \in Nat
    BY DEF IsSeq
  <2> QED BY <2>1
<1> HIDE DEF S
<1>2. Append(s, e) \in Seq(S) /\ Len(Append(s, e)) = Len(s) + 1
  BY <1>1
<1>3. \A i \in 1 .. Len(s) : Append(s, e)[i] = s[i]
  BY <1>1
<1>4. Append(s, e)[Len(s) + 1] = e
  BY <1>1
<1>5. Append(s, e) = [i \in 1 .. Len(Append(s, e)) |-> Append(s, e)[i]]
  <2> DEFINE r == Append(s, e)
  <2>1. r \in Seq(S)
    BY <1>2
  <2> HIDE DEF r
  <2>2. r = [i \in 1 .. Len(r) |-> r[i]]
    BY <2>1
  <2> QED BY <2>2 DEF r
<1>6. Len(Append(s, e)) \in Nat /\ DOMAIN Append(s, e) = 1 .. Len(s) + 1
  BY <1>2
<1> QED BY <1>2, <1>3, <1>4, <1>5, <1>6 DEF IsSeq

\* The cast functions take and give what can be compared.
LEMMA CastsCompare ==
  ASSUME NEW cast \in CastNames, NEW type, NEW linkType,
         type \in CastTypes(cast)[1], linkType \in CastTypes(cast)[2]
  PROVE  SortAfter(cast, type) = Sort(linkType) /\ linkType \in Numbers \cup Times
<1>0. /\ "int" \notin Times /\ "float" \notin Times
      /\ \A x \in Times : x \notin Numbers
  BY DEF Times, Numbers
<1>1. CASE \E u \in DOMAIN PerSecond, x \in Times : cast = <<"unixToTime", u, x>>
  <2>1. PICK u \in DOMAIN PerSecond, x \in Times : cast = <<"unixToTime", u, x>>
    BY <1>1
  <2>2. cast[1] = "unixToTime" /\ cast[3] = x
    BY <2>1
  <2>3. CastTypes(cast) = <<Numbers, {x}>>
    BY <2>2 DEF CastTypes
  <2>4. type \in Numbers /\ linkType = x
    BY <2>3
  <2> QED BY <2>2, <2>4, <1>0 DEF SortAfter, Sort
<1>2. CASE \E u \in DOMAIN PerSecond, x \in Times : cast = <<"timeToUnix", u, x>>
  <2>1. PICK u \in DOMAIN PerSecond, x \in Times : cast = <<"timeToUnix", u, x>>
    BY <1>2
  <2>2. cast[1] = "timeToUnix" /\ cast[3] = x /\ cast[2] = u
    BY <2>1
  <2>3. CastTypes(cast) = <<IF u = "nano" /\ x = "timestamptz" THEN {"date"} ELSE {x}, Numbers>>
    BY <2>2 DEF CastTypes
  <2>4. type \in Times /\ linkType \in Numbers
    BY <2>3 DEF Times
  <2> QED BY <2>2, <2>4, <1>0 DEF SortAfter, Sort
<1>3. CASE cast = <<"floatToInt">>
  <2>1. cast[1] = "floatToInt"
    BY <1>3
  <2>2. CastTypes(cast) = <<{"float"}, {"int"}>>
    BY <2>1 DEF CastTypes
  <2>3. type = "float" /\ linkType = "int"
    BY <2>2
  <2> QED BY <2>1, <2>3 DEF SortAfter, Sort, Numbers
<1>4. CASE cast = <<"intToFloat">>
  <2>1. cast[1] = "intToFloat"
    BY <1>4
  <2>2. CastTypes(cast) = <<{"int"}, {"float"}>>
    BY <2>1 DEF CastTypes
  <2>3. type = "int" /\ linkType = "float"
    BY <2>2
  <2> QED BY <2>1, <2>3 DEF SortAfter, Sort, Numbers
<1> QED BY <1>1, <1>2, <1>3, <1>4 DEF CastNames

\* Parameters without a warning are valid.
LEMMA NoWarningsValid ==
  ASSUME NEW tb, NEW e, ParameterWarnings(tb, e) = {}
  PROVE  Valid(e.raw, tb.types)
<1> DEFINE defs == e.raw.defs
           static == e.raw.static
           dynamic == e.raw.dynamic
           types == tb.types
           links == {static[n] : n \in {m \in DOMAIN defs \cap DOMAIN static : defs[m].isColumn}}
           linkType == IF links = {} THEN Unset ELSE types[CHOOSE c \in links : TRUE].type
<1>1. /\ NameWarnings(defs, static, dynamic) = {}
      /\ ColumnWarnings(defs, static, dynamic, types) = {}
      /\ OtherWarnings(defs, static, dynamic, types) = {}
  BY DEF ParameterWarnings, InitParameters
<1>2. /\ \A n \in DOMAIN defs : defs[n].required => n \in DOMAIN static \cup DOMAIN dynamic
      /\ DOMAIN static \cap DOMAIN dynamic = {}
      /\ DOMAIN static \cup DOMAIN dynamic \subseteq DOMAIN defs
  BY <1>1 DEF NameWarnings
<1>3. ASSUME NEW n \in DOMAIN defs, defs[n].isColumn
      PROVE  /\ n \in DOMAIN static => StaticWarnings(defs[n], static[n], types) = {}
             /\ n \notin DOMAIN dynamic
  <2> DEFINE W(m) == IF m \in DOMAIN static THEN StaticWarnings(defs[m], static[m], types)
                     ELSE IF m \in DOMAIN dynamic THEN {"dynamicColumn"} ELSE {}
  <2>1. W(n) \subseteq ColumnWarnings(defs, static, dynamic, types)
    BY <1>3 DEF ColumnWarnings
  <2>2. W(n) = {}
    BY <2>1, <1>1
  <2> QED BY <2>2, <1>2
<1>4. ASSUME NEW n \in DOMAIN defs, ~defs[n].isColumn, n \in DOMAIN dynamic
      PROVE  DynamicWarnings(defs[n], dynamic[n], types, linkType) = {}
  <2> DEFINE V(m) == IF m \in DOMAIN static THEN static[m] ELSE Unset
             W(m) == IF m \in DOMAIN dynamic
                     THEN DynamicWarnings(defs[m], dynamic[m], types, linkType)
                     ELSE StaticWarnings(defs[m], V(m), types)
  <2>1. OtherWarnings(defs, static, dynamic, types)
          = UNION {W(m) : m \in {m \in DOMAIN defs : ~defs[m].isColumn}}
    BY DEF OtherWarnings
  <2>2. W(n) = {}
    BY <2>1, <1>1, <1>4
  <2> QED BY <2>2, <1>4
<1>5. ASSUME NEW n \in DOMAIN static, defs[n].isColumn PROVE static[n] \in DOMAIN types
  <2>1. StaticWarnings(defs[n], static[n], types) = {}
    BY <1>2, <1>3, <1>5
  <2> QED BY <2>1, <1>5 DEF StaticWarnings
<1>6. ASSUME NEW n \in DOMAIN dynamic
      PROVE  /\ dynamic[n].column \in DOMAIN types
             /\ dynamic[n].cast \in CastNames =>
                  /\ types[dynamic[n].column].type \in CastTypes(dynamic[n].cast)[1]
                  /\ linkType \in CastTypes(dynamic[n].cast)[2]
  <2>1. DynamicWarnings(defs[n], dynamic[n], types, linkType) = {}
    BY <1>2, <1>3, <1>4
  <2> HIDE DEF linkType
  <2> QED BY <2>1 DEF DynamicWarnings
<1>7. ASSUME NEW n \in DOMAIN dynamic, dynamic[n].cast \in CastNames
      PROVE  SortAfter(dynamic[n].cast, types[dynamic[n].column].type)
               = Sort(types[CHOOSE c \in links : TRUE].type)
  <2>1. /\ SortAfter(dynamic[n].cast, types[dynamic[n].column].type) = Sort(linkType)
        /\ linkType \in Numbers \cup Times
    <3> HIDE DEF linkType
    <3> QED BY <1>6, <1>7, CastsCompare
  <2>2. links # {}
    BY <2>1, NothingAssumption
  <2> QED BY <2>1, <2>2
<1> HIDE DEF linkType
<1> QED BY <1>2, <1>5, <1>6, <1>7 DEF Valid

-----------------------------------------------------------------------------
(* What a transformer changes of a row *)

\* A transformer of one column fails, leaves the row, or sets its column.
OneColumn(t, r, after) == after = Fail \/ after = r \/ \E v : after = Set(t, r, v)

\* To set a column leaves the others.
LEMMA SetOther ==
  ASSUME NEW t, NEW r, NEW v, NEW c \in DOMAIN r, c # t.column
  PROVE  Set(t, r, v)[c] = r[c]
  BY DEF Set

\* Set leaves the columns of the row.
LEMMA SetDomain ==
  ASSUME NEW t, NEW r, NEW v
  PROVE  DOMAIN Set(t, r, v) = DOMAIN r
  BY DEF Set

\* The transformers of numbers and times are of one column.
LEMMA NumberOneColumn ==
  ASSUME NEW kind \in NumberKinds \cup TimeKinds, NEW t, NEW r, NEW d
  PROVE  OneColumn(t, r, TransformNumber(kind, t, r, d))
<1>1. OneColumn(t, r, RandomInt(t, r, d))
  BY DEF OneColumn, RandomInt, SetInt
<1>2. OneColumn(t, r, NoiseIntRow(t, r, d))
  BY DEF OneColumn, NoiseIntRow, SetInt
<1>3. OneColumn(t, r, RandomFloat(t, r, d))
  BY DEF OneColumn, RandomFloat
<1>4. OneColumn(t, r, NoiseFloatRow(t, r, d))
  BY DEF OneColumn, NoiseFloatRow
<1>5. OneColumn(t, r, RandomNumeric(t, r, d))
  BY DEF OneColumn, RandomNumeric
<1>6. OneColumn(t, r, NoiseNumericRow(t, r, d))
  BY DEF OneColumn, NoiseNumericRow
<1>7. OneColumn(t, r, UnixTimestamp(t, r, d))
  BY DEF OneColumn, UnixTimestamp
<1>8. OneColumn(t, r, RandomDate(t, r, d))
  BY DEF OneColumn, RandomDate
<1>9. OneColumn(t, r, NoiseDate(t, r, d))
  BY DEF OneColumn, NoiseDate
<1> QED
  BY <1>1, <1>2, <1>3, <1>4, <1>5, <1>6, <1>7, <1>8, <1>9
  DEF TransformNumber, NumberKinds, TimeKinds

\* So are those of texts, addresses, truth values and documents.
LEMMA TextOneColumn ==
  ASSUME NEW kind \in TextKinds, NEW t, NEW r, NEW seed
  PROVE  OneColumn(t, r, TransformText(kind, t, r, seed))
<1>1. OneColumn(t, r, Dict(t, r))
  BY DEF OneColumn, Dict
<1>2. OneColumn(t, r, RandomChoice(t, r, seed))
  BY DEF OneColumn, RandomChoice
<1>3. OneColumn(t, r, Replace(t, r))
  BY DEF OneColumn, Replace
<1>4. OneColumn(t, r, SetNull(t, r)) /\ OneColumn(t, r, Hash(t, r))
  BY DEF OneColumn, SetNull, Hash
<1>5. OneColumn(t, r, Masking(t, r)) /\ OneColumn(t, r, RegexpReplace(t, r))
  BY DEF OneColumn, Masking, RegexpReplace
<1>6. OneColumn(t, r, TemplateValue(t, r))
  BY DEF OneColumn, TemplateValue
<1>7. OneColumn(t, r, Email(t, r, seed))
  BY DEF OneColumn, Email
<1>8. OneColumn(t, r, RandomText(t, r, seed))
  BY DEF OneColumn, RandomText
<1>9. OneColumn(t, r, RandomBool(t, r, seed)) /\ OneColumn(t, r, RandomUuid(t, r, seed))
  BY DEF OneColumn, RandomBool, RandomUuid
<1>10. OneColumn(t, r, Faker(t, r, seed))
  BY DEF OneColumn, Faker
<1>11. OneColumn(t, r, Ip(t, r, seed))
  BY DEF OneColumn, Ip
<1>12. OneColumn(t, r, Mac(t, r, seed))
  BY DEF OneColumn, Mac
<1>13. OneColumn(t, r, Json(t, r))
  BY DEF OneColumn, Json
<1> QED
  BY <1>1, <1>2, <1>3, <1>4, <1>5, <1>6, <1>7, <1>8, <1>9, <1>10, <1>11, <1>12, <1>13
  DEF TransformText, TextKinds

\* NULL that is kept stays: the row comes back as it was.
LEMMA NumberKeeps ==
  ASSUME NEW kind \in NumberKinds \cup TimeKinds, NEW t, NEW r, NEW d,
         r[t.column] = Null,
         t.keepNull \/ kind \in {"NoiseInt", "NoiseFloat", "NoiseNumeric", "NoiseDate"}
  PROVE  TransformNumber(kind, t, r, d) = r
<1>1. t.keepNull => /\ RandomInt(t, r, d) = r /\ RandomFloat(t, r, d) = r
                    /\ RandomNumeric(t, r, d) = r /\ UnixTimestamp(t, r, d) = r
                    /\ RandomDate(t, r, d) = r
  BY DEF RandomInt, RandomFloat, RandomNumeric, UnixTimestamp, RandomDate, Kept
<1>2. /\ NoiseIntRow(t, r, d) = r /\ NoiseFloatRow(t, r, d) = r
      /\ NoiseNumericRow(t, r, d) = r /\ NoiseDate(t, r, d) = r
  BY DEF NoiseIntRow, NoiseFloatRow, NoiseNumericRow, NoiseDate
<1> QED BY <1>1, <1>2 DEF TransformNumber, NumberKinds, TimeKinds

\* So does a transformer of texts.
LEMMA TextKeeps ==
  ASSUME NEW kind \in TextKinds, NEW t, NEW r, NEW seed, r[t.column] = Null,
         \/ kind \in {"Hash", "Masking", "RegexpReplace"}
         \/ t.keepNull /\ kind \notin {"Dict", "SetNull", "Template", "RandomIp", "RandomMac"}
  PROVE  TransformText(kind, t, r, seed) = r
<1>1. Hash(t, r) = r /\ Masking(t, r) = r /\ RegexpReplace(t, r) = r
  BY DEF Hash, Masking, RegexpReplace
<1>2. t.keepNull => /\ RandomChoice(t, r, seed) = r /\ Replace(t, r) = r
                    /\ Email(t, r, seed) = r /\ RandomText(t, r, seed) = r
  BY DEF RandomChoice, Replace, Email, RandomText, Kept
<1>3. t.keepNull => /\ RandomBool(t, r, seed) = r /\ RandomUuid(t, r, seed) = r
                    /\ Faker(t, r, seed) = r /\ Json(t, r) = r
  BY DEF RandomBool, RandomUuid, Faker, Json, Kept
<1> QED BY <1>1, <1>2, <1>3 DEF TransformText, TextKinds

\* The columns a transformer of several columns lists.
Listed(t) == {t.columns[i].name : i \in DOMAIN t.columns}
ListsOnce(t) ==
    /\ IsSeq(t.columns) /\ "columns" \in DOMAIN t /\ t = [f \in DOMAIN t |-> t[f]]
    /\ \A i, j \in DOMAIN t.columns : t.columns[i].name = t.columns[j].name => i = j

\* FillColumns leaves what is not listed.
LEMMA FillOthers ==
  ASSUME NEW t, NEW r, NEW keeps, NEW attributes, NEW c \in DOMAIN r, c \notin Listed(t)
  PROVE  FillColumns(t, r, keeps, attributes)[c] = r[c]
  BY DEF FillColumns, Listed

\* FillColumns leaves NULL where it is asked to keep it.
LEMMA FillKeeps ==
  ASSUME NEW t, ListsOnce(t), NEW r, NEW c \in DOMAIN r, NEW i \in DOMAIN t.columns,
         t.columns[i].name = c, r[c] = Null, t.columns[i].keepNull
  PROVE  \A keeps, attributes : keeps => FillColumns(t, r, keeps, attributes)[c] = Null
<1> DEFINE of == {j \in DOMAIN t.columns : t.columns[j].name = c}
<1>1. of = {i}
  BY DEF ListsOnce
<1>2. (CHOOSE j \in of : TRUE) = i
  BY <1>1
<1> QED BY <1>1, <1>2 DEF FillColumns

\* And leaves the columns of the row.
LEMMA FillDomain ==
  ASSUME NEW t, NEW r, NEW keeps, NEW attributes
  PROVE  DOMAIN FillColumns(t, r, keeps, attributes) = DOMAIN r
  BY DEF FillColumns

\* An address fills the columns before the first NULL that is kept.
LEMMA AddressFills ==
  ASSUME NEW t, ListsOnce(t), NEW r, NEW draw
  PROVE  \E u, b, a : /\ Address(t, r, draw) = FillColumns(u, r, b, a)
                      /\ Listed(u) \subseteq Listed(t)
                      /\ \A i \in DOMAIN t.columns :
                           r[t.columns[i].name] = Null /\ t.columns[i].keepNull =>
                             t.columns[i].name \notin Listed(u)
<1> DEFINE kept == {i \in DOMAIN t.columns : r[t.columns[i].name] = Null /\ t.columns[i].keepNull}
           end == IF kept = {} THEN Len(t.columns)
                  ELSE (CHOOSE i \in kept : \A j \in kept : i <= j) - 1
           u == [t EXCEPT !.columns = SubSeq(@, 1, end)]
<1>1. DOMAIN t.columns = 1 .. Len(t.columns) /\ Len(t.columns) \in Nat
  BY SeqIsSeq DEF ListsOnce, IsSeq
<1>2. end \in 0 .. Len(t.columns) /\ \A i \in kept : i > end
  <2>1. CASE kept = {}
    BY <2>1, <1>1
  <2>2. CASE kept # {}
    <3>1. \E i \in kept : \A j \in kept : i <= j
      <4>1. kept \subseteq Nat
        BY <1>1
      <4> HIDE DEF kept
      <4> QED BY <4>1, <2>2, LeastExists
    <3> DEFINE m == CHOOSE i \in kept : \A j \in kept : i <= j
    <3>2. m \in kept /\ \A j \in kept : m <= j
      BY <3>1
    <3>3. end = m - 1
      BY <2>2
    <3> HIDE DEF m, end
    <3> QED BY <3>2, <3>3, <1>1
  <2> QED BY <2>1, <2>2
<1> HIDE DEF end
<1>3. u.columns = SubSeq(t.columns, 1, end)
  BY DEF ListsOnce
<1>4. DOMAIN u.columns = 1 .. end /\ \A i \in 1 .. end : u.columns[i] = t.columns[i]
  <2> DEFINE S == {t.columns[i] : i \in DOMAIN t.columns}
  <2>1. t.columns \in Seq(S)
    BY SeqIsSeq DEF ListsOnce
  <2> HIDE DEF S
  <2> QED BY <2>1, <1>2, <1>3
<1>5. Listed(u) = {t.columns[i].name : i \in 1 .. end}
  BY <1>4 DEF Listed
<1>6. ASSUME NEW i \in kept PROVE t.columns[i].name \notin Listed(u)
  <2>1. ASSUME NEW j \in 1 .. end, t.columns[j].name = t.columns[i].name PROVE FALSE
    <3>1. j \in DOMAIN t.columns /\ i \in DOMAIN t.columns
      BY <1>1, <1>2
    <3>2. j = i
      BY <3>1, <2>1 DEF ListsOnce
    <3> QED BY <3>2, <1>2, <1>1
  <2> QED BY <2>1, <1>5
<1>7. Address(t, r, draw) = FillColumns(u, r, FALSE, [address |-> <<draw>>])
  BY DEF Address, end
<1>8. Listed(u) \subseteq Listed(t)
  BY <1>5, <1>2, <1>1 DEF Listed
<1> HIDE DEF u
<1> QED BY <1>6, <1>7, <1>8

\* A transformer as New made it, whatever it remembers by now.
Like(t, t0) ==
    /\ DOMAIN t = DOMAIN t0 /\ t = [f \in DOMAIN t |-> t[f]]
    /\ \A f \in DOMAIN t \ {"default", "value", "values", "filled", "cached"} : t[f] = t0[f]

\* An element of a chain whose transformer was made.
Made(tb, e) == IsTransformer(tb, e) /\ Accepted(tb, e)

\* What NewColumns makes: the columns are those that were there.
LEMMA NewColumnsIs ==
  ASSUME NEW t, ListsOnce(t), NEW r, NewColumns(t, r) # Fail,
         \A i \in DOMAIN t.columns : {"name", "keepNull", "hashing"} \subseteq DOMAIN t.columns[i]
  PROVE  /\ ListsOnce(NewColumns(t, r)) /\ DOMAIN NewColumns(t, r) = DOMAIN t
         /\ Listed(NewColumns(t, r)) = Listed(t) /\ Listed(t) \subseteq DOMAIN r
         /\ \A f \in DOMAIN t \ {"columns"} : NewColumns(t, r)[f] = t[f]
<1> DEFINE hashing == \E i \in DOMAIN t.columns : t.columns[i].hashing
           cols == [i \in DOMAIN t.columns |->
                      [t.columns[i] EXCEPT
                         !.keepNull = IF @ = Unset THEN TRUE ELSE @,
                         !.hashing = @ \/ (~hashing /\ t.engine = "hash")]]
           u == NewColumns(t, r)
<1>1. /\ u = [t EXCEPT !.columns = cols]
      /\ \A i \in DOMAIN t.columns : t.columns[i].name \in DOMAIN r
  BY DEF NewColumns
<1>2. DOMAIN cols = DOMAIN t.columns /\ \A i \in DOMAIN t.columns : cols[i].name = t.columns[i].name
  OBVIOUS
<1> HIDE DEF u
<1>3. u.columns = cols /\ DOMAIN u = DOMAIN t /\ u = [f \in DOMAIN u |-> u[f]]
      /\ \A f \in DOMAIN t \ {"columns"} : u[f] = t[f]
  <2> HIDE DEF cols
  <2> QED BY <1>1 DEF ListsOnce
<1>4. IsSeq(cols)
  <2>1. DOMAIN t.columns = 1 .. Len(t.columns) /\ Len(t.columns) \in Nat
    BY SeqIsSeq DEF ListsOnce, IsSeq
  <2>2. cols = [i \in 1 .. Len(t.columns) |-> cols[i]]
    BY <2>1
  <2> HIDE DEF cols
  <2> QED BY <2>1, <2>2, FunctionIsSeq
<1> HIDE DEF cols
<1>5. ListsOnce(u)
  BY <1>2, <1>3, <1>4 DEF ListsOnce
<1>6. Listed(u) = Listed(t) /\ Listed(t) \subseteq DOMAIN r
  BY <1>1, <1>2, <1>3 DEF Listed
<1> QED BY <1>3, <1>5, <1>6 DEF u

\* What New makes of an element that is accepted.
LEMMA NewIs ==
  ASSUME NEW tb, NEW e, Made(tb, e), NEW w, w = WithParameters(e), NEW t, t = New(tb, e)
  PROVE  /\ t # Fail /\ t = [f \in DOMAIN t |-> t[f]] /\ DOMAIN t = DOMAIN w
         /\ \A f \in DOMAIN w \ {"columns"} : t[f] = w[f]
         /\ e.kind \notin RecordKinds => t = w
         /\ e.kind \in RecordKinds => ListsOnce(t) /\ Listed(t) = Listed(w)
         /\ e.kind \in RecordKinds \ {"TemplateRecord"} => Listed(t) \subseteq Names(tb)
<1>1. w = [f \in DOMAIN w |-> w[f]]
  BY DEF WithParameters
<1>2. IsTransformer(tb, e) /\ t # Fail
  BY DEF Made, Accepted
<1>3. CASE e.kind \in NumberKinds \cup TimeKinds
  <2>1. t = w /\ e.kind \notin RecordKinds
    BY <1>2, <1>3 DEF New, NumberKinds, TimeKinds, RecordKinds, TextKinds
  <2> QED BY <2>1, <1>1, <1>2
<1>4. CASE e.kind \in TextKinds
  <2>1. NewText(e.kind, w) \in {w, Fail}
    BY <1>4 DEF NewText, NewDict, NewRandomChoice, NewReplace, NewEmail, NewRandomString
  <2>2. t = w /\ e.kind \notin RecordKinds
    BY <1>2, <1>4, <2>1 DEF New, NumberKinds, TimeKinds, RecordKinds, TextKinds
  <2> QED BY <2>2, <1>1, <1>2
<1>5. CASE e.kind \in RecordKinds
  <2> DEFINE r == [c \in Names(tb) |-> Null]
  <2>1. t = NewOfRecord(e.kind, w, r)
    BY <1>5 DEF New, NumberKinds, TimeKinds, RecordKinds, TextKinds, Names
  <2>2. DOMAIN r = Names(tb)
    OBVIOUS
  <2> HIDE DEF r
  <2>3. ListsOnce(w)
    BY <1>1, <1>2, <1>5 DEF IsTransformer, ListsOnce
  <2>4. \A i \in DOMAIN w.columns : {"name", "keepNull", "hashing"} \subseteq DOMAIN w.columns[i]
    BY <1>2, <1>5 DEF IsTransformer
  <2>5. CASE e.kind \in {"RandomCompany", "RandomPerson"}
    <3>1. t = NewColumns(w, r)
      BY <1>2, <2>1, <2>5 DEF NewOfRecord, NewPerson
    <3>2. NewColumns(w, r) # Fail
      BY <3>1, <1>2
    <3>3. /\ ListsOnce(t) /\ DOMAIN t = DOMAIN w /\ Listed(t) = Listed(w)
          /\ Listed(t) \subseteq DOMAIN r /\ \A f \in DOMAIN w \ {"columns"} : t[f] = w[f]
      BY <3>1, <3>2, <2>3, <2>4, NewColumnsIs
    <3>4. t = [f \in DOMAIN t |-> t[f]]
      BY <3>3 DEF ListsOnce
    <3> QED BY <3>3, <3>4, <2>2, <1>2, <1>5
  <2>6. CASE e.kind = "RealAddress"
    <3>1. t = w /\ \A i \in DOMAIN w.columns : w.columns[i].name \in DOMAIN r
      BY <1>2, <2>1, <2>6 DEF NewOfRecord, NewAddress
    <3> QED BY <3>1, <2>2, <2>3, <1>1, <1>2, <1>5 DEF Listed
  <2>7. CASE e.kind = "TemplateRecord"
    <3>1. t = w
      BY <1>2, <2>1, <2>7 DEF NewOfRecord, NewTemplateRecord
    <3> QED BY <3>1, <2>3, <2>7, <1>1, <1>2, <1>5
  <2> QED BY <1>5, <2>5, <2>6, <2>7 DEF RecordKinds
<1> QED BY <1>2, <1>3, <1>4, <1>5 DEF IsTransformer, Kinds

\* What a transformer makes of the row r, as After.
AfterOf(e, t, r, seed) ==
    CASE e.kind \in NumberKinds \cup TimeKinds -> TransformNumber(e.kind, t, r, NumberDraw(seed))
      [] e.kind \in TextKinds -> TransformText(e.kind, t, r, seed)
      [] e.kind \in RecordKinds -> TransformRecord(e.kind, t, r, seed)

\* The columns that an element of a chain declares.
DeclaredOf(tb, e) ==
    IF e.kind = "TemplateRecord" THEN Names(tb)
    ELSE LET w == WithParameters(e) IN
         IF "column" \in DOMAIN w THEN {w.column} ELSE Listed(w)

\* The kinds exclude each other.
LEMMA KindsApart ==
  /\ (NumberKinds \cup TimeKinds) \cap TextKinds = {}
  /\ (NumberKinds \cup TimeKinds) \cap RecordKinds = {}
  /\ TextKinds \cap RecordKinds = {}
  BY DEF NumberKinds, TimeKinds, TextKinds, RecordKinds

\* A transformer that is not of several columns is of its column.
LEMMA AfterOneColumn ==
  ASSUME NEW e, e.kind \in Kinds \ RecordKinds, NEW t, NEW r, NEW seed
  PROVE  OneColumn(t, r, AfterOf(e, t, r, seed))
<1>1. CASE e.kind \in NumberKinds \cup TimeKinds
  <2>1. AfterOf(e, t, r, seed) = TransformNumber(e.kind, t, r, NumberDraw(seed))
    BY <1>1, KindsApart DEF AfterOf
  <2> QED BY <1>1, <2>1, NumberOneColumn
<1>2. CASE e.kind \in TextKinds
  <2>1. AfterOf(e, t, r, seed) = TransformText(e.kind, t, r, seed)
    BY <1>2, KindsApart DEF AfterOf
  <2> QED BY <1>2, <2>1, TextOneColumn
<1> QED BY <1>1, <1>2 DEF Kinds

\* A transformer of several columns, but for TemplateRecord, fails or changes
\* what it lists; NULL that is kept is not listed, or it stays.
LEMMA RecordFills ==
  ASSUME NEW e, e.kind \in RecordKinds \ {"TemplateRecord"}, NEW t, ListsOnce(t),
         NEW r, NEW seed, AfterOf(e, t, r, seed) # Fail
  PROVE  /\ DOMAIN AfterOf(e, t, r, seed) = DOMAIN r
         /\ \A c \in DOMAIN r \ Listed(t) : AfterOf(e, t, r, seed)[c] = r[c]
         /\ \A c \in DOMAIN r \cap KeepsNull(e, t) :
              r[c] = Null => AfterOf(e, t, r, seed)[c] = Null
<1>1. AfterOf(e, t, r, seed) = TransformRecord(e.kind, t, r, seed)
  BY KindsApart DEF AfterOf
<1>2. KeepsNull(e, t) = {t.columns[i].name : i \in {j \in DOMAIN t.columns :
         t.columns[j].keepNull /\ (e.kind = "RandomCompany" => t.engine = "hash")}}
  BY DEF KeepsNull, RecordKinds
<1>3. CASE e.kind = "RealAddress"
  <2>1. AfterOf(e, t, r, seed) = Address(t, r, seed)
    BY <1>1, <1>3 DEF TransformRecord
  <2>2. PICK u, b, a : /\ Address(t, r, seed) = FillColumns(u, r, b, a)
                    /\ Listed(u) \subseteq Listed(t)
                    /\ \A i \in DOMAIN t.columns :
                        r[t.columns[i].name] = Null /\ t.columns[i].keepNull =>
                          t.columns[i].name \notin Listed(u)
    BY AddressFills
  <2>3. \A c \in DOMAIN r \cap KeepsNull(e, t) : r[c] = Null => c \notin Listed(u)
    BY <2>2, <1>2
  <2>4. \A c \in DOMAIN r \ Listed(u) : FillColumns(u, r, b, a)[c] = r[c]
    BY FillOthers
  <2>5. DOMAIN FillColumns(u, r, b, a) = DOMAIN r
    BY FillDomain
  <2>6. AfterOf(e, t, r, seed) = FillColumns(u, r, b, a)
    BY <2>1, <2>2
  <2> QED BY <2>2, <2>3, <2>4, <2>5, <2>6
<1>4. CASE e.kind \in {"RandomCompany", "RandomPerson"}
  <2>1. \E keeps, a : /\ AfterOf(e, t, r, seed) = FillColumns(t, r, keeps, a)
                      /\ keeps = (e.kind = "RandomCompany" => t.engine = "hash")
    BY <1>1, <1>4 DEF TransformRecord, Company, Person
  <2>2. PICK keeps, a : /\ AfterOf(e, t, r, seed) = FillColumns(t, r, keeps, a)
                        /\ keeps = (e.kind = "RandomCompany" => t.engine = "hash")
    BY <2>1
  <2>3. ASSUME NEW c \in DOMAIN r \cap KeepsNull(e, t), r[c] = Null
        PROVE  FillColumns(t, r, keeps, a)[c] = Null
    <3>1. PICK i \in DOMAIN t.columns : /\ t.columns[i].name = c /\ t.columns[i].keepNull
                                        /\ e.kind = "RandomCompany" => t.engine = "hash"
      BY <1>2, <2>3
    <3>2. keeps
      BY <2>2, <3>1
    <3>3. c \in DOMAIN r /\ t.columns[i].name = c /\ t.columns[i].keepNull
      BY <2>3, <3>1
    <3>4. \A k, b : k => FillColumns(t, r, k, b)[c] = Null
      BY <2>3, <3>3, FillKeeps
    <3> QED BY <3>2, <3>4
  <2> QED BY <2>2, <2>3, FillOthers, FillDomain
<1> QED BY <1>3, <1>4 DEF RecordKinds

\* What holds of the memory of an element, as of what New made.
LEMMA LikeNew ==
  ASSUME NEW tb, NEW e, Made(tb, e), NEW t, Like(t, New(tb, e)), NEW w, w = WithParameters(e)
  PROVE  /\ e.kind \in Kinds
         /\ \A f \in DOMAIN w \ {"columns", "default", "value", "values", "filled", "cached"} : t[f] = w[f]
         /\ DOMAIN t = DOMAIN w
         /\ e.kind \notin RecordKinds =>
              "column" \in DOMAIN t /\ t.column = w.column /\ t.column \in Names(tb)
         /\ e.kind \in RecordKinds => ListsOnce(t) /\ Listed(t) = Listed(w)
         /\ e.kind \in RecordKinds => {"column", "keepNull"} \cap DOMAIN t = {}
<1> DEFINE t0 == New(tb, e)
<1>1. /\ t0 = [f \in DOMAIN t0 |-> t0[f]] /\ DOMAIN t0 = DOMAIN w
      /\ \A f \in DOMAIN w \ {"columns"} : t0[f] = w[f]
      /\ e.kind \in RecordKinds => ListsOnce(t0) /\ Listed(t0) = Listed(w)
  BY NewIs
<1>2. /\ DOMAIN t = DOMAIN t0 /\ t = [f \in DOMAIN t |-> t[f]]
      /\ \A f \in DOMAIN t \ {"default", "value", "values", "filled", "cached"} : t[f] = t0[f]
  BY DEF Like
<1>3. IsTransformer(tb, e)
  BY DEF Made
<1> HIDE DEF t0
<1>4. e.kind \notin RecordKinds => "column" \in DOMAIN w /\ w.column \in Names(tb)
  BY <1>3 DEF IsTransformer
<1>5. e.kind \in RecordKinds => {"column", "keepNull"} \cap DOMAIN w = {}
  BY <1>3 DEF IsTransformer
<1>6. e.kind \in RecordKinds => t.columns = t0.columns
  BY <1>1, <1>2 DEF ListsOnce
<1>7. e.kind \in RecordKinds => ListsOnce(t) /\ Listed(t) = Listed(w)
  BY <1>1, <1>2, <1>6 DEF ListsOnce, Listed
<1>8. e.kind \in Kinds
  BY <1>3 DEF IsTransformer
<1> QED BY <1>1, <1>2, <1>4, <1>5, <1>7, <1>8

\* A transformer changes the columns that are declared, and no others.
LEMMA ChangesDeclared ==
  ASSUME NEW tb, NEW e, Made(tb, e), NEW t, Like(t, New(tb, e)),
         NEW r, DOMAIN r = Names(tb), NEW seed, AfterOf(e, t, r, seed) # Fail,
         NEW c \in Names(tb), c \notin DeclaredOf(tb, e)
  PROVE  AfterOf(e, t, r, seed)[c] = r[c]
<1> DEFINE w == WithParameters(e)
           after == AfterOf(e, t, r, seed)
<1>1. e.kind \in Kinds /\ DOMAIN t = DOMAIN w
  BY LikeNew
<1>2. CASE e.kind \notin RecordKinds
  <2>1. "column" \in DOMAIN t /\ t.column = w.column
    BY <1>2, LikeNew
  <2>2. e.kind # "TemplateRecord"
    BY <1>2 DEF RecordKinds
  <2>3. c # t.column
    BY <1>1, <2>1, <2>2 DEF DeclaredOf
  <2>4. OneColumn(t, r, after)
    BY <1>1, <1>2, AfterOneColumn
  <2>5. after = r \/ \E v : after = Set(t, r, v)
    BY <2>4 DEF OneColumn
  <2> HIDE DEF after
  <2> QED BY <2>3, <2>5, SetOther DEF after
<1>3. CASE e.kind \in RecordKinds
  <2>1. ListsOnce(t) /\ Listed(t) = Listed(w) /\ "column" \notin DOMAIN w
    BY <1>1, <1>3, LikeNew
  <2>2. e.kind # "TemplateRecord" /\ c \notin Listed(t)
    BY <2>1 DEF DeclaredOf
  <2> QED BY <1>3, <2>1, <2>2, RecordFills
<1> QED BY <1>2, <1>3

\* A transformer leaves NULL where it is to keep it.
LEMMA AfterKeeps ==
  ASSUME NEW tb, NEW e, Made(tb, e), NEW t, Like(t, New(tb, e)),
         NEW r, DOMAIN r = Names(tb), NEW seed, AfterOf(e, t, r, seed) # Fail,
         NEW c \in Names(tb), c \in KeepsNull(e, New(tb, e)), r[c] = Null
  PROVE  AfterOf(e, t, r, seed)[c] = Null
<1> DEFINE w == WithParameters(e)
           t0 == New(tb, e)
           after == AfterOf(e, t, r, seed)
<1>1. e.kind \in Kinds
  BY LikeNew
<1>2. /\ DOMAIN t = DOMAIN t0
      /\ \A f \in DOMAIN t \ {"default", "value", "values", "filled", "cached"} : t[f] = t0[f]
  BY DEF Like
<1>3. CASE e.kind \notin RecordKinds
  <2>1. "column" \in DOMAIN t /\ t.column = t0.column
    BY <1>2, <1>3, LikeNew
  <2>2. c = t.column
    BY <2>1, <1>3 DEF KeepsNull, RecordKinds
  <2>3. \/ e.kind \in {"NoiseInt", "NoiseFloat", "NoiseNumeric", "NoiseDate",
                       "Hash", "Masking", "RegexpReplace"}
        \/ /\ e.kind \notin {"Dict", "SetNull", "Template", "RandomIp", "RandomMac"}
           /\ "keepNull" \in DOMAIN t0 /\ t0.keepNull
    BY <1>3 DEF KeepsNull, RecordKinds
  <2>4. \/ e.kind \in {"NoiseInt", "NoiseFloat", "NoiseNumeric", "NoiseDate",
                       "Hash", "Masking", "RegexpReplace"}
        \/ /\ e.kind \notin {"Dict", "SetNull", "Template", "RandomIp", "RandomMac"}
           /\ t.keepNull
    BY <1>2, <2>3
  <2>5. CASE e.kind \in NumberKinds \cup TimeKinds
    <3>1. after = TransformNumber(e.kind, t, r, NumberDraw(seed))
      BY <2>5, KindsApart DEF AfterOf
    <3>2. e.kind \notin {"Hash", "Masking", "RegexpReplace"}
      BY <2>5 DEF NumberKinds, TimeKinds
    <3> QED BY <2>2, <2>4, <2>5, <3>1, <3>2, NumberKeeps
  <2>6. CASE e.kind \in TextKinds
    <3>1. after = TransformText(e.kind, t, r, seed)
      BY <2>6, KindsApart DEF AfterOf
    <3>2. e.kind \notin {"NoiseInt", "NoiseFloat", "NoiseNumeric", "NoiseDate"}
      BY <2>6 DEF TextKinds
    <3> QED BY <2>2, <2>4, <2>6, <3>1, <3>2, TextKeeps
  <2> QED BY <1>1, <1>3, <2>5, <2>6 DEF Kinds
<1>4. CASE e.kind \in RecordKinds
  <2>1. ListsOnce(t) /\ "keepNull" \notin DOMAIN t0
    BY <1>2, <1>4, LikeNew
  <2>2. e.kind # "TemplateRecord"
    BY <2>1 DEF KeepsNull
  <2>3. "columns" \in DOMAIN t /\ t.columns = t0.columns
    BY <1>2, <2>1 DEF ListsOnce
  <2>4. e.kind = "RandomCompany" => t.engine = t0.engine
    <3>1. e.kind = "RandomCompany" => "engine" \in DOMAIN w
      BY DEF Made, IsTransformer, DrawingKinds
    <3> QED BY <1>2, <3>1, LikeNew
  <2>5. c \in KeepsNull(e, t)
    BY <1>4, <2>2, <2>3, <2>4 DEF KeepsNull, RecordKinds
  <2> QED BY <1>4, <2>1, <2>2, <2>5, RecordFills
<1> QED BY <1>3, <1>4

-----------------------------------------------------------------------------
(* A step of a row as a relation between what was set before and after it *)

\* The cells of a row, the row as its transformers see it, and whether a
\* condition holds of it, as Cell, Current and Holds.
CellOf(tb, raw, new, i) == IF new[i] # Unset THEN new[i] ELSE Value(tb, raw[i])
RowOf(tb, raw, new) ==
    [c \in Names(tb) |->
        CellOf(tb, raw, new, CHOOSE i \in DOMAIN tb.columns : tb.columns[i] = c)]
HoldsOf(r, when) == when = Unset \/ r[when] # Null

\* The seeds, the columns that are set and what is set then, as Draw, Sets and
\* TransformRow.
DrawOf(tb, r, t) ==
    LET column == IF "column" \in DOMAIN t THEN t.column ELSE t.columns[1].name
    IN  IF "engine" \in DOMAIN t /\ t.engine = "hash"
        THEN {Seed(Bytes(tb.family, r[column]))} ELSE Seeds
SetsOf(tb, r, t, after) ==
    {i \in DOMAIN tb.columns :
        \/ after[tb.columns[i]] # r[tb.columns[i]]
        \/ "column" \in DOMAIN t /\ t.column = tb.columns[i] /\ r[tb.columns[i]] # Null}
NewOf(tb, r, t, new, after) ==
    [i \in DOMAIN tb.columns |->
        IF i \in SetsOf(tb, r, t, after) THEN after[tb.columns[i]] ELSE new[i]]

\* The element k with the memory t sets new2 where new was set.
StepOf(tb, raw, k, t, new, new2) ==
    LET e == tb.chain[k]
        r == RowOf(tb, raw, new)
    IN  IF HoldsOf(r, tb.when) /\ HoldsOf(r, e.when)
        THEN \E seed \in DrawOf(tb, r, t) :
               /\ AfterOf(e, t, r, seed) # Fail
               /\ new2 = NewOf(tb, r, t, new, AfterOf(e, t, r, seed))
        ELSE new2 = new

\* The operators of the state are those of its row.
LEMMA CurrentIsRow ==
  Current = RowOf(table, row.raw, row.new)
  BY DEF Current, RowOf, Cell, CellOf, Cells, Column, Names

\* What a column of the row is.
LEMMA RowAtColumn ==
  ASSUME NEW tb, IsTable(tb), NEW raw, NEW new, NEW i \in DOMAIN tb.columns
  PROVE  /\ RowOf(tb, raw, new)[tb.columns[i]] = CellOf(tb, raw, new, i)
         /\ tb.columns[i] \in Names(tb)
<1>1. (CHOOSE j \in DOMAIN tb.columns : tb.columns[j] = tb.columns[i]) = i
  BY DEF IsTable
<1>2. tb.columns[i] \in Names(tb)
  BY DEF Names
<1> QED BY <1>1, <1>2 DEF RowOf

\* The conditions, the seeds and what is made, as operators of the row.
LEMMA HereIs ==
  /\ \A when : Holds(when) <=> HoldsOf(RowOf(table, row.raw, row.new), when)
  /\ \A e, t : Draw(e, t) = DrawOf(table, RowOf(table, row.raw, row.new), t)
  /\ \A e, t, seed : After(e, t, seed) = AfterOf(e, t, RowOf(table, row.raw, row.new), seed)
<1> DEFINE r == RowOf(table, row.raw, row.new)
<1>1. Current = r
  BY CurrentIsRow
<1> HIDE DEF r
<1>2. \A when : Holds(when) <=> HoldsOf(r, when)
  BY <1>1 DEF Holds, HoldsOf
<1>3. \A e, t : Draw(e, t) = DrawOf(table, r, t)
  BY <1>1 DEF Draw, DrawOf
<1>4. \A e, t, seed : After(e, t, seed) = AfterOf(e, t, r, seed)
  BY <1>1 DEF After, AfterOf
<1> QED BY <1>2, <1>3, <1>4 DEF r

\* The columns that are set, as an operator of the row.
LEMMA SetsHere ==
  ASSUME IsTable(table), NEW e, NEW t, NEW after
  PROVE  Sets(e, t, after) = SetsOf(table, RowOf(table, row.raw, row.new), t, after)
<1> DEFINE r == RowOf(table, row.raw, row.new)
<1>1. \A i \in Cells : r[table.columns[i]] = Cell(i)
  BY RowAtColumn DEF Cells, Cell, CellOf
<1> HIDE DEF r
<1>2. Sets(e, t, after) = SetsOf(table, r, t, after)
  BY <1>1 DEF Sets, SetsOf, Cells
<1> QED BY <1>2 DEF r

\* A step of TransformRow ends the run, or is one of the relation.
LEMMA TransformIsStep ==
  ASSUME IsTable(table), TransformRow,
         row = [raw |-> row.raw, new |-> row.new], DOMAIN row.new = Cells
  PROVE  \/ Stop
         \/ /\ StepOf(table, row.raw, step, memory[step], row.new, row'.new)
            /\ row' = [raw |-> row.raw, new |-> row'.new] /\ DOMAIN row'.new = Cells
            /\ step' = step + 1 /\ UNCHANGED <<table, pc, values, written>>
<1> DEFINE e == table.chain[step]
           t == memory[step]
           r == RowOf(table, row.raw, row.new)
<1>1. CASE ~Holds(table.when) \/ ~Holds(e.when)
  <2>1. ~(HoldsOf(r, table.when) /\ HoldsOf(r, e.when))
    BY <1>1, HereIs
  <2>2. step' = step + 1 /\ UNCHANGED <<table, pc, memory, row, shared, values, written>>
    BY <1>1 DEF TransformRow
  <2>3. StepOf(table, row.raw, step, t, row.new, row.new)
    BY <2>1 DEF StepOf
  <2> QED BY <2>2, <2>3
<1>2. CASE Holds(table.when) /\ Holds(e.when)
  <2>1. PICK seed \in Draw(e, t) :
          LET after == After(e, t, seed)
              sets == Sets(e, t, after)
          IN  IF after = Fail THEN Stop
              ELSE /\ row' = [row EXCEPT !.new =
                        [i \in Cells |-> IF i \in sets THEN after[table.columns[i]] ELSE @[i]]]
                   /\ step' = step + 1 /\ UNCHANGED <<table, pc, values, written>>
    BY <1>2 DEF TransformRow
  <2> DEFINE after == After(e, t, seed)
             new == [i \in Cells |-> IF i \in Sets(e, t, after) THEN after[table.columns[i]]
                                     ELSE row.new[i]]
  <2>2. after = AfterOf(e, t, r, seed) /\ seed \in DrawOf(table, r, t)
    BY HereIs
  <2>3. HoldsOf(r, table.when) /\ HoldsOf(r, e.when)
    BY <1>2, HereIs
  <2>4. new = NewOf(table, r, t, row.new, after)
    <3>1. Sets(e, t, after) = SetsOf(table, r, t, after)
      BY SetsHere
    <3> HIDE DEF after
    <3> QED BY <3>1 DEF NewOf, Cells
  <2>5. CASE after = Fail
    BY <2>1, <2>5
  <2>6. CASE after # Fail
    <3>1. /\ row' = [row EXCEPT !.new = new]
          /\ step' = step + 1 /\ UNCHANGED <<table, pc, values, written>>
      BY <2>1, <2>6
    <3>2. DOMAIN new = Cells
      OBVIOUS
    <3> HIDE DEF new, after, r
    <3>3. row' = [raw |-> row.raw, new |-> new]
      BY <3>1
    <3>4. StepOf(table, row.raw, step, t, row.new, new)
      BY <2>2, <2>3, <2>4, <2>6 DEF StepOf, r
    <3>5. row'.new = new
      BY <3>3
    <3> QED BY <3>1, <3>2, <3>3, <3>4, <3>5
  <2> QED BY <2>5, <2>6
<1> QED BY <1>1, <1>2

-----------------------------------------------------------------------------
(* What does not change from row to row *)

\* Stable, of the elements of any table.
StableIn(tb, k) ==
    LET e == tb.chain[k]
        t == WithParameters(e) IN
    /\ IF "engine" \in DOMAIN t THEN t.engine = "hash"
       ELSE e.kind \notin {"RealAddress", "Faker"}
    /\ e.kind # "RandomCompany"
    /\ e.kind = "RandomPerson" => ~t.gender.dynamic
    /\ e.kind = "RegexpReplace" =>
         \A l \in 1 .. k - 1 :
           tb.chain[l].kind \in {"Dict", "Replace", "RandomChoice"} =>
             WithParameters(tb.chain[l]).column # t.column

\* The transformers that draw nothing do not look at the seed.
LEMMA SeedFree ==
  ASSUME NEW e, e.kind \in Kinds, e.kind \notin DrawingKinds,
         e.kind \notin {"RealAddress", "Faker"}, NEW t, NEW r, NEW s1, NEW s2
  PROVE  AfterOf(e, t, r, s1) = AfterOf(e, t, r, s2)
<1>1. \/ e.kind \in {"Dict", "Replace", "SetNull", "Hash", "Masking", "RegexpReplace",
                     "Template", "Json"}
      \/ e.kind = "TemplateRecord"
  BY DEF Kinds, DrawingKinds, TextKinds, RecordKinds
<1>2. CASE e.kind \in {"Dict", "Replace", "SetNull", "Hash", "Masking", "RegexpReplace",
                       "Template", "Json"}
  <2>1. e.kind \in TextKinds
    BY <1>2 DEF TextKinds
  <2>2. \A s : AfterOf(e, t, r, s) = TransformText(e.kind, t, r, s)
    BY <2>1, KindsApart DEF AfterOf
  <2>3. TransformText(e.kind, t, r, s1) = TransformText(e.kind, t, r, s2)
    BY <1>2 DEF TransformText
  <2> QED BY <2>2, <2>3
<1>3. CASE e.kind = "TemplateRecord"
  <2>1. e.kind \in RecordKinds
    BY <1>3 DEF RecordKinds
  <2>2. \A s : AfterOf(e, t, r, s) = TransformRecord(e.kind, t, r, s)
    BY <2>1, KindsApart DEF AfterOf
  <2>3. TransformRecord(e.kind, t, r, s1) = TransformRecord(e.kind, t, r, s2)
    BY <1>3 DEF TransformRecord
  <2> QED BY <2>2, <2>3
<1> QED BY <1>1, <1>2, <1>3

\* What a stable element sets is a function of the row.
LEMMA StableStep ==
  ASSUME NEW tb, IsTable(tb), NEW k \in DOMAIN tb.chain, Made(tb, tb.chain[k]),
         StableIn(tb, k), NEW raw, NEW new, NEW n1, NEW n2,
         StepOf(tb, raw, k, New(tb, tb.chain[k]), new, n1),
         StepOf(tb, raw, k, New(tb, tb.chain[k]), new, n2)
  PROVE  n1 = n2
<1> DEFINE e == tb.chain[k]
           w == WithParameters(e)
           t == New(tb, e)
           r == RowOf(tb, raw, new)
<1>0. /\ e.kind \in Kinds
      /\ e.kind \in DrawingKinds => "engine" \in DOMAIN w
  BY DEF Made, IsTransformer
<1>1. DOMAIN t = DOMAIN w /\ ("engine" \in DOMAIN w => t.engine = w.engine)
  <2>1. DOMAIN t = DOMAIN w /\ \A f \in DOMAIN w \ {"columns"} : t[f] = w[f]
    BY NewIs
  <2> QED BY <2>1
<1>2. IF "engine" \in DOMAIN w THEN w.engine = "hash" ELSE e.kind \notin {"RealAddress", "Faker"}
  BY DEF StableIn
<1> HIDE DEF e, w, t, r
<1>3. ASSUME NEW s1 \in DrawOf(tb, r, t), NEW s2 \in DrawOf(tb, r, t)
      PROVE  AfterOf(e, t, r, s1) = AfterOf(e, t, r, s2)
  <2>1. CASE "engine" \in DOMAIN w
    <3>1. s1 = s2
      BY <1>1, <1>2, <1>3, <2>1 DEF DrawOf
    <3> QED BY <3>1
  <2>2. CASE "engine" \notin DOMAIN w
    BY <1>0, <1>2, <2>2, SeedFree
  <2> QED BY <2>1, <2>2
<1>4. CASE ~(HoldsOf(r, tb.when) /\ HoldsOf(r, e.when))
  BY <1>4 DEF StepOf, e, t, r
<1>5. CASE HoldsOf(r, tb.when) /\ HoldsOf(r, e.when)
  <2>1. PICK s1 \in DrawOf(tb, r, t) : n1 = NewOf(tb, r, t, new, AfterOf(e, t, r, s1))
    BY <1>5 DEF StepOf, e, t, r
  <2>2. PICK s2 \in DrawOf(tb, r, t) : n2 = NewOf(tb, r, t, new, AfterOf(e, t, r, s2))
    BY <1>5 DEF StepOf, e, t, r
  <2> QED BY <2>1, <2>2, <1>3
<1> QED BY <1>4, <1>5

\* What a transformer of several columns remembers leaves the rest of it.
LEMMA RecordAfterLike ==
  ASSUME NEW kind, NEW t, NEW t0, Like(t, t0), NEW r
  PROVE  Like(RecordAfter(kind, t, r), t0)
<1>1. \A v : Like([t EXCEPT !.filled = v], t0) /\ Like([t EXCEPT !.cached = v], t0)
  BY DEF Like
<1>2. \E v : CompanyAfter(t, r) = t \/ CompanyAfter(t, r) = [t EXCEPT !.filled = v]
  BY DEF CompanyAfter
<1>3. \E v : PersonAfter(t, r) = t \/ PersonAfter(t, r) = [t EXCEPT !.cached = v]
  BY DEF PersonAfter
<1> QED BY <1>1, <1>2, <1>3 DEF RecordAfter

\* A stable one remembers nothing.
LEMMA RecordAfterStable ==
  ASSUME NEW tb, NEW k \in DOMAIN tb.chain, Made(tb, tb.chain[k]), StableIn(tb, k),
         tb.chain[k].kind \in RecordKinds, NEW r
  PROVE  RecordAfter(tb.chain[k].kind, New(tb, tb.chain[k]), r) = New(tb, tb.chain[k])
<1> DEFINE e == tb.chain[k]
           w == WithParameters(e)
           t == New(tb, e)
<1>1. e.kind # "RandomCompany" /\ (e.kind = "RandomPerson" => ~w.gender.dynamic)
  BY DEF StableIn
<1>2. e.kind = "RandomPerson" => "gender" \in DOMAIN w
  BY DEF Made, IsTransformer
<1>3. \A f \in DOMAIN w \ {"columns"} : t[f] = w[f]
  BY NewIs
<1> HIDE DEF e, w, t
<1>4. e.kind = "RandomPerson" => PersonAfter(t, r) = t
  BY <1>1, <1>2, <1>3 DEF PersonAfter
<1>5. RecordAfter(e.kind, t, r) = t
  BY <1>1, <1>4 DEF RecordAfter
<1> QED BY <1>5 DEF e, t

\* So does a value that is written over.
LEMMA OverwriteLike ==
  ASSUME NEW t, NEW t0, Like(t, t0), NEW place, NEW v
  PROVE  Like(Overwrite(t, place, v), t0)
<1>1. \A u : /\ Like([t EXCEPT !.default = u], t0) /\ Like([t EXCEPT !.value = u], t0)
             /\ Like([t EXCEPT !.values = u], t0)
  BY DEF Like
<1>2. \E u : \/ Overwrite(t, place, v) = [t EXCEPT !.default = u]
             \/ Overwrite(t, place, v) = [t EXCEPT !.value = u]
             \/ Overwrite(t, place, v) = [t EXCEPT !.values = u]
  <2>1. CASE place = <<"default">>
    <3>1. Overwrite(t, place, v) = [t EXCEPT !.default = v]
      BY <2>1 DEF Overwrite
    <3> QED BY <3>1
  <2>2. CASE place = <<"value">>
    <3>1. Overwrite(t, place, v) = [t EXCEPT !.value = [t.value EXCEPT !.value = v]]
      BY <2>2 DEF Overwrite
    <3> QED BY <3>1
  <2>3. CASE place # <<"default">> /\ place # <<"value">>
    <3>1. Overwrite(t, place, v) = [t EXCEPT !.values = [t.values EXCEPT ![place[2]] = v]]
      BY <2>3 DEF Overwrite
    <3> QED BY <3>1
  <2> QED BY <2>1, <2>2, <2>3
<1> QED BY <1>1, <1>2

-----------------------------------------------------------------------------
(* EncodeAttr *)

\* What EncodeAttr writes from the byte i on, when C is what it writes from
\* each later byte on.
EncodeFrom(v, C, i) ==
    IF i > Len(v) THEN <<>>
    ELSE IF i < Len(v) /\ SubSeq(v, i, i + 1) \in Marks
         THEN <<Backslash>> \o SubSeq(v, i, i + 1) \o C[i + 3]
    ELSE (CASE v[i] \in DOMAIN Letters -> <<Backslash, Letters[v[i]]>>
            [] v[i] < 32 /\ v[i] \notin DOMAIN Letters -> <<v[i], Backslash, v[i]>>
            [] v[i] = Backslash -> <<Backslash, Backslash>>
            [] OTHER -> <<v[i]>>)
         \o C[i + 1]

\* The recursion of EncodeAttr has a solution.
LEMMA EncodeRecursion ==
  ASSUME NEW v \in Texts, v # Null
  PROVE  \E C : /\ EncodeAttr(v) = C[1]
                /\ \A i \in 1 .. Len(v) + 3 : C[i] = EncodeFrom(v, C, i)
<1> DEFINE M == Len(v) + 3
           Is(C, m) == C = [i \in M - m .. M |-> EncodeFrom(v, C, i)]
           Q == {m \in Nat : m < M => \E C : Is(C, m)}
<1>0. Len(v) \in Nat /\ M \in Nat
  BY DEF Texts
<1>a. ASSUME NEW C, NEW D, NEW i \in 1 .. M,
             \A j \in i + 1 .. M : C[j] = D[j]
      PROVE  EncodeFrom(v, C, i) = EncodeFrom(v, D, i)
  <2>1. CASE i > Len(v)
    BY <2>1 DEF EncodeFrom
  <2>2. CASE i <= Len(v)
    <3>1. C[i + 1] = D[i + 1] /\ C[i + 3] = D[i + 3]
      BY <1>0, <1>a, <2>2
    <3> QED BY <3>1 DEF EncodeFrom
  <2> QED BY <1>0, <2>1, <2>2
<1>1. 0 \in Q
  <2> DEFINE C == [i \in M - 0 .. M |-> <<>>]
  <2>1. \A i \in M - 0 .. M : EncodeFrom(v, C, i) = <<>>
    <3> SUFFICES ASSUME NEW i \in M - 0 .. M PROVE i > Len(v)
      BY DEF EncodeFrom
    <3> QED BY <1>0
  <2>2. Is(C, 0)
    BY <2>1
  <2> HIDE DEF C, Is
  <2> QED BY <2>2
<1>2. ASSUME NEW m \in Nat, m \in Q PROVE m + 1 \in Q
  <2> SUFFICES ASSUME m + 1 < M PROVE \E C : Is(C, m + 1)
    OBVIOUS
  <2>1. PICK C : Is(C, m)
    BY <1>2, <1>0
  <2> DEFINE E == [i \in M - (m + 1) .. M |-> IF i = M - (m + 1) THEN EncodeFrom(v, C, i) ELSE C[i]]
  <2>2. ASSUME NEW i \in M - (m + 1) .. M
        PROVE  E[i] = EncodeFrom(v, E, i)
    <3>0. i \in 1 .. M
      BY <1>0
    <3>1. \A j \in i + 1 .. M : E[j] = C[j]
      BY <1>0
    <3>2. EncodeFrom(v, E, i) = EncodeFrom(v, C, i)
      <4> HIDE DEF E
      <4> QED BY <1>a, <3>0, <3>1
    <3>3. CASE i = M - (m + 1)
      BY <3>2, <3>3
    <3>4. CASE i # M - (m + 1)
      <4>1. i \in M - m .. M
        BY <1>0, <3>4
      <4>2. C[i] = EncodeFrom(v, C, i)
        BY <2>1, <4>1
      <4> QED BY <3>2, <3>4, <4>2
    <3> QED BY <3>3, <3>4
  <2>3. Is(E, m + 1)
    BY <2>2
  <2> HIDE DEF E, Is
  <2> QED BY <2>3
<1>3. \E C : Is(C, M - 1)
  <2>1. Nat \subseteq Q
    <3> HIDE DEF Q
    <3> QED BY <1>1, <1>2, NatSetInduction
  <2>2. M - 1 \in Nat /\ M - 1 < M
    BY <1>0
  <2>3. M - 1 \in Q
    BY <2>1, <2>2
  <2> HIDE DEF Is, M
  <2> QED BY <2>2, <2>3
<1> DEFINE Js(C) == C = [i \in 1 .. Len(v) + 3 |-> EncodeFrom(v, C, i)]
           W == CHOOSE C : Js(C)
<1>4. Js(W)
  <2>1. \E C : Js(C)
    BY <1>0, <1>3
  <2> HIDE DEF Js
  <2> QED BY <2>1
<1>5. EncodeAttr(v) = W[1]
  BY DEF EncodeAttr, EncodeFrom, Data, Marks
<1> HIDE DEF W
<1>6. \A i \in 1 .. Len(v) + 3 : W[i] = EncodeFrom(v, W, i)
  BY <1>4
<1> QED BY <1>5, <1>6

-----------------------------------------------------------------------------
(* What the rows have gone through *)

\* The operators of a table of texts give texts, whatever texts they take.
TextsGiven == \A n \in Nat : TextOperators(Texts, n)

\* What an element of a chain may remember: it is like what New made, it is
\* the same when nothing of the chain is known to change, and it has texts.
Remembered(tb, k, t) ==
    /\ Like(t, New(tb, tb.chain[k]))
    /\ (\A l \in DOMAIN tb.chain : StableIn(tb, l)) => t = New(tb, tb.chain[k])
    /\ TextsGiven /\ tb.family = "text" => MakesTexts(tb, tb.chain[k].kind, t)

\* What a row has set when it went through the first s elements, whatever each
\* of them remembered then.
Raw(tb, j) == Fields(tb, tb.lines[j])
Clear(tb) == [i \in DOMAIN tb.columns |-> Unset]
Trace(tb, raw, s, tr) ==
    /\ tr[0] = Clear(tb)
    /\ \A k \in 1 .. s : \E t : Remembered(tb, k, t) /\ StepOf(tb, raw, k, t, tr[k - 1], tr[k])
Reached(tb, raw, s, new) == \E tr : Trace(tb, raw, s, tr) /\ tr[s] = new

\* The line that is written for a row.
LineOf(tb, raw, new) ==
    IF tb.family = "text"
    THEN Join([i \in DOMAIN tb.columns |-> IF new[i] # Unset THEN EncodeAttr(new[i]) ELSE raw[i]])
    ELSE [i \in DOMAIN tb.columns |-> CellOf(tb, raw, new, i)]

\* The line j was transformed into the value v and written as w.
WrittenAs(tb, j, v, w) ==
    \E new : /\ Reached(tb, Raw(tb, j), Len(tb.chain), new)
             /\ v = RowOf(tb, Raw(tb, j), new) /\ w = LineOf(tb, Raw(tb, j), new)

\* A chain whose transformers were all made.
MadeChain(tb) == \A k \in DOMAIN tb.chain : Made(tb, tb.chain[k])

\* Nothing is set before the first element.
LEMMA ReachedStart ==
  ASSUME NEW tb, NEW raw
  PROVE  Reached(tb, raw, 0, Clear(tb))
<1> DEFINE tr == [k \in {0} |-> Clear(tb)]
<1>1. Trace(tb, raw, 0, tr) /\ tr[0] = Clear(tb)
  BY DEF Trace
<1> QED BY <1>1 DEF Reached

\* A step goes on from what was reached.
LEMMA ReachedNext ==
  ASSUME NEW tb, NEW raw, NEW s \in Nat, NEW new, Reached(tb, raw, s, new),
         NEW t, Remembered(tb, s + 1, t), NEW new2, StepOf(tb, raw, s + 1, t, new, new2)
  PROVE  Reached(tb, raw, s + 1, new2)
<1>1. PICK tr : Trace(tb, raw, s, tr) /\ tr[s] = new
  BY DEF Reached
<1> DEFINE u == [k \in 0 .. s + 1 |-> IF k = s + 1 THEN new2 ELSE tr[k]]
<1>2. u[0] = Clear(tb) /\ u[s + 1] = new2
  BY <1>1 DEF Trace
<1>3. ASSUME NEW k \in 1 .. s + 1
      PROVE  \E v : Remembered(tb, k, v) /\ StepOf(tb, raw, k, v, u[k - 1], u[k])
  <2>1. CASE k = s + 1
    <3>1. u[k - 1] = new /\ u[k] = new2
      BY <1>1, <2>1
    <3> HIDE DEF u
    <3> QED BY <2>1, <3>1
  <2>2. CASE k # s + 1
    <3>1. k \in 1 .. s /\ u[k - 1] = tr[k - 1] /\ u[k] = tr[k]
      BY <2>2
    <3> HIDE DEF u
    <3> QED BY <1>1, <3>1 DEF Trace
  <2> QED BY <2>1, <2>2
<1> HIDE DEF u
<1>4. Trace(tb, raw, s + 1, u)
  BY <1>2, <1>3 DEF Trace
<1> QED BY <1>2, <1>4 DEF Reached

\* When nothing of the chain changes, the same fields reach the same.
LEMMA ReachedOnce ==
  ASSUME NEW tb, IsTable(tb), MadeChain(tb), \A l \in DOMAIN tb.chain : StableIn(tb, l),
         NEW raw, NEW n1, NEW n2,
         Reached(tb, raw, Len(tb.chain), n1), Reached(tb, raw, Len(tb.chain), n2)
  PROVE  n1 = n2
<1>0. DOMAIN tb.chain = 1 .. Len(tb.chain) /\ Len(tb.chain) \in Nat
  BY SeqIsSeq DEF IsTable, IsSeq
<1>1. PICK x : Trace(tb, raw, Len(tb.chain), x) /\ x[Len(tb.chain)] = n1
  BY DEF Reached
<1>2. PICK y : Trace(tb, raw, Len(tb.chain), y) /\ y[Len(tb.chain)] = n2
  BY DEF Reached
<1> DEFINE Q == {k \in Nat : k <= Len(tb.chain) => x[k] = y[k]}
<1>3. 0 \in Q
  BY <1>1, <1>2 DEF Trace
<1>4. ASSUME NEW k \in Nat, k \in Q PROVE k + 1 \in Q
  <2> SUFFICES ASSUME k + 1 <= Len(tb.chain) PROVE x[k + 1] = y[k + 1]
    OBVIOUS
  <2>1. k + 1 \in DOMAIN tb.chain /\ k + 1 \in 1 .. Len(tb.chain) /\ (k + 1) - 1 = k
    BY <1>0
  <2>2. x[k] = y[k]
    BY <1>4, <1>0
  <2>3. PICK s : Remembered(tb, k + 1, s) /\ StepOf(tb, raw, k + 1, s, x[k], x[k + 1])
    BY <1>1, <2>1 DEF Trace
  <2>4. PICK t : Remembered(tb, k + 1, t) /\ StepOf(tb, raw, k + 1, t, y[k], y[k + 1])
    BY <1>2, <2>1 DEF Trace
  <2>5. s = New(tb, tb.chain[k + 1]) /\ t = New(tb, tb.chain[k + 1])
    BY <2>3, <2>4 DEF Remembered
  <2>6. Made(tb, tb.chain[k + 1]) /\ StableIn(tb, k + 1)
    BY <2>1 DEF MadeChain
  <2>7. /\ StepOf(tb, raw, k + 1, New(tb, tb.chain[k + 1]), x[k], x[k + 1])
        /\ StepOf(tb, raw, k + 1, New(tb, tb.chain[k + 1]), x[k], y[k + 1])
    BY <2>2, <2>3, <2>4, <2>5
  <2> QED BY <2>1, <2>6, <2>7, StableStep
<1>5. Nat \subseteq Q
  <2> HIDE DEF Q
  <2> QED BY <1>3, <1>4, NatSetInduction
<1>6. Len(tb.chain) \in Q
  BY <1>0, <1>5
<1> QED BY <1>0, <1>1, <1>2, <1>6

\* What no element declares stays as it was in the line.
LEMMA ReachedUndeclared ==
  ASSUME NEW tb, IsTable(tb), MadeChain(tb), NEW raw, NEW new,
         Reached(tb, raw, Len(tb.chain), new), NEW i \in DOMAIN tb.columns,
         \A k \in DOMAIN tb.chain : tb.columns[i] \notin DeclaredOf(tb, tb.chain[k])
  PROVE  new[i] = Unset
<1>0. DOMAIN tb.chain = 1 .. Len(tb.chain) /\ Len(tb.chain) \in Nat
  BY SeqIsSeq DEF IsTable, IsSeq
<1>1. PICK x : Trace(tb, raw, Len(tb.chain), x) /\ x[Len(tb.chain)] = new
  BY DEF Reached
<1> DEFINE Q == {k \in Nat : k <= Len(tb.chain) => x[k][i] = Unset}
<1>2. 0 \in Q
  BY <1>1 DEF Trace, Clear
<1>3. ASSUME NEW k \in Nat, k \in Q PROVE k + 1 \in Q
  <2> SUFFICES ASSUME k + 1 <= Len(tb.chain) PROVE x[k + 1][i] = Unset
    OBVIOUS
  <2>1. k + 1 \in DOMAIN tb.chain /\ k + 1 \in 1 .. Len(tb.chain) /\ (k + 1) - 1 = k
    BY <1>0
  <2>2. x[k][i] = Unset
    BY <1>3, <1>0
  <2>3. PICK t : Remembered(tb, k + 1, t) /\ StepOf(tb, raw, k + 1, t, x[k], x[k + 1])
    BY <1>1, <2>1 DEF Trace
  <2> DEFINE e == tb.chain[k + 1]
             r == RowOf(tb, raw, x[k])
             c == tb.columns[i]
  <2>4. Made(tb, e) /\ Like(t, New(tb, e)) /\ c \notin DeclaredOf(tb, e)
    BY <2>1, <2>3 DEF MadeChain, Remembered
  <2>5. DOMAIN r = Names(tb) /\ c \in Names(tb)
    BY DEF RowOf, Names
  <2>6. "column" \in DOMAIN t => t.column # c
    <3>1. e.kind \notin RecordKinds => DeclaredOf(tb, e) = {t.column}
      <4>1. e.kind \notin RecordKinds => e.kind # "TemplateRecord"
        BY DEF RecordKinds
      <4>2. e.kind \notin RecordKinds =>
              /\ "column" \in DOMAIN WithParameters(e) /\ t.column = WithParameters(e).column
        BY <2>4, LikeNew
      <4> HIDE DEF e
      <4> QED BY <4>1, <4>2 DEF DeclaredOf
    <3>2. e.kind \in RecordKinds => "column" \notin DOMAIN t
      BY <2>4, LikeNew
    <3> QED BY <2>4, <3>1, <3>2
  <2>7. CASE x[k + 1] = x[k]
    BY <2>2, <2>7
  <2>8. CASE x[k + 1] # x[k]
    <3>1. PICK seed : /\ AfterOf(e, t, r, seed) # Fail
                      /\ x[k + 1] = NewOf(tb, r, t, x[k], AfterOf(e, t, r, seed))
      BY <2>3, <2>8 DEF StepOf
    <3> DEFINE after == AfterOf(e, t, r, seed)
    <3>2. after[c] = r[c]
      <4> HIDE DEF e, r, c
      <4> QED BY <2>4, <2>5, <3>1, ChangesDeclared
    <3> HIDE DEF after, r
    <3>3. i \notin SetsOf(tb, r, t, after)
      BY <2>6, <3>2 DEF SetsOf
    <3>4. x[k + 1] = NewOf(tb, r, t, x[k], after)
      BY <3>1 DEF after, r
    <3> QED BY <2>2, <3>3, <3>4 DEF NewOf
  <2> QED BY <2>7, <2>8
<1>4. Nat \subseteq Q
  <2> HIDE DEF Q
  <2> QED BY <1>2, <1>3, NatSetInduction
<1>5. Len(tb.chain) \in Q
  BY <1>0, <1>4
<1> QED BY <1>0, <1>1, <1>5

\* A value that is written over stays one that makes texts.
LEMMA OverwriteTexts ==
  ASSUME NEW tb, NEW kind, NEW t, t = [f \in DOMAIN t |-> t[f]], MakesTexts(tb, kind, t),
         NEW place, NEW v \in TextValues
  PROVE  MakesTexts(tb, kind, Overwrite(t, place, v))
<1> DEFINE u == Overwrite(t, place, v)
<1>1. \E f, x : /\ u = [t EXCEPT ![f] = x]
                /\ f = "default" => x = v
                /\ f = "values" => x \in {[t.values EXCEPT ![y] = v] : y \in {place[2]}}
                /\ f = "value" => x = [t.value EXCEPT !.value = v]
                /\ f \in {"default", "value", "values"}
  <2>1. CASE place = <<"default">>
    BY <2>1 DEF Overwrite
  <2>2. CASE place = <<"value">>
    <3>1. u = [t EXCEPT !["value"] = [t.value EXCEPT !.value = v]]
      BY <2>2 DEF Overwrite
    <3> HIDE DEF u
    <3> QED BY <3>1
  <2>3. CASE place # <<"default">> /\ place # <<"value">>
    <3>1. u = [t EXCEPT !["values"] = [t.values EXCEPT ![place[2]] = v]]
      BY <2>3 DEF Overwrite
    <3> HIDE DEF u
    <3> QED BY <3>1
  <2> QED BY <2>1, <2>2, <2>3
<1> HIDE DEF u
<1>a. /\ DOMAIN u = DOMAIN t
      /\ \A g \in DOMAIN t \ {"default", "value", "values"} : u[g] = t[g]
      /\ "default" \in DOMAIN t => u.default \in {t.default, v}
      /\ "values" \in DOMAIN t => u.values = t.values \/ \E y : u.values = [t.values EXCEPT ![y] = v]
      /\ "value" \in DOMAIN t => u.value = t.value \/ u.value = [t.value EXCEPT !.value = v]
  <2> DEFINE S == {[t.values EXCEPT ![y] = v] : y \in {place[2]}}
             o == [t.value EXCEPT !.value = v]
  <2>1. PICK f, x : /\ u = [t EXCEPT ![f] = x]
                    /\ f = "default" => x = v
                    /\ f = "values" => x \in S
                    /\ f = "value" => x = o
                    /\ f \in {"default", "value", "values"}
    BY <1>1
  <2>2. \A g \in S : \E y : g = [t.values EXCEPT ![y] = v]
    OBVIOUS
  <2>3. o = [t.value EXCEPT !.value = v]
    OBVIOUS
  <2> HIDE DEF S, o
  <2>4. DOMAIN u = DOMAIN t /\ \A g \in DOMAIN t : u[g] = IF g = f THEN x ELSE t[g]
    BY <2>1
  <2>5. /\ \A g \in DOMAIN t \ {"default", "value", "values"} : u[g] = t[g]
        /\ "default" \in DOMAIN t => u.default \in {t.default, v}
        /\ "values" \in DOMAIN t => u.values = t.values \/ u.values \in S
        /\ "value" \in DOMAIN t => u.value = t.value \/ u.value = o
    BY <2>1, <2>4
  <2> QED BY <2>2, <2>3, <2>4, <2>5
<1>b. TextFields(kind) \subseteq DOMAIN t
  BY DEF MakesTexts
<1>2. kind = "Dict" =>
        u.values \in [DOMAIN u.values -> TextValues] /\ u.default \in TextValues \cup {Unset}
  <2> SUFFICES ASSUME kind = "Dict" PROVE u.values \in [DOMAIN u.values -> TextValues]
    BY <1>a, <1>b DEF MakesTexts, TextFields
  <2>1. t.values \in [DOMAIN t.values -> TextValues]
    BY DEF MakesTexts
  <2>2. u.values = t.values \/ \E y : u.values = [t.values EXCEPT ![y] = v]
    BY <1>a, <1>b DEF TextFields
  <2> QED BY <2>1, <2>2
<1>3. kind = "RandomChoice" =>
        IsSeq(u.values) /\ u.values # <<>> /\ \A i \in DOMAIN u.values : u.values[i] \in TextValues
  <2> SUFFICES ASSUME kind = "RandomChoice", NEW x, u.values = [t.values EXCEPT ![x] = v]
               PROVE  /\ IsSeq(u.values) /\ u.values # <<>>
                      /\ \A i \in DOMAIN u.values : u.values[i] \in TextValues
    BY <1>a, <1>b DEF MakesTexts, TextFields
  <2>1. IsSeq(t.values) /\ t.values # <<>> /\ \A i \in DOMAIN t.values : t.values[i] \in TextValues
    BY DEF MakesTexts
  <2>2. DOMAIN t.values = 1 .. Len(t.values) /\ Len(t.values) \in Nat /\ t.values \in Seq(TextValues)
    BY <2>1, SeqIsSeq DEF IsSeq
  <2>3. DOMAIN u.values = 1 .. Len(t.values) /\ \A i \in DOMAIN u.values : u.values[i] \in TextValues
    BY <2>1, <2>2
  <2>4. u.values = [i \in 1 .. Len(t.values) |-> u.values[i]]
    BY <2>2
  <2>5. IsSeq(u.values) /\ Len(u.values) = Len(t.values)
    BY <2>2, <2>4, FunctionIsSeq
  <2>6. Len(t.values) # 0
    BY <2>1, <2>2
  <2> QED BY <2>3, <2>5, <2>6
<1>4. kind = "Replace" =>
         /\ {"dynamic", "column", "value"} \subseteq DOMAIN u.value
         /\ u.value.value \in TextValues \cup {Unset}
         /\ u.value.dynamic => u.value.column \in Names(tb)
  <2> SUFFICES ASSUME kind = "Replace", u.value = [t.value EXCEPT !.value = v]
               PROVE  /\ {"dynamic", "column", "value"} \subseteq DOMAIN u.value
                      /\ u.value.value \in TextValues \cup {Unset}
                      /\ u.value.dynamic => u.value.column \in Names(tb)
    BY <1>a, <1>b DEF MakesTexts, TextFields
  <2>1. /\ {"dynamic", "column", "value"} \subseteq DOMAIN t.value
        /\ t.value.dynamic => t.value.column \in Names(tb)
    BY DEF MakesTexts
  <2>2. /\ DOMAIN u.value = DOMAIN t.value /\ u.value.value = v
        /\ u.value.dynamic = t.value.dynamic /\ u.value.column = t.value.column
    BY <2>1
  <2> QED BY <2>1, <2>2
<1>5. /\ kind = "Hash" => u.salt \in Texts /\ u.maxLength \in Nat
      /\ kind = "RandomString" => u.symbols \in Texts \ {<<>>} /\ u.min \in Nat /\ u.max \in Nat
      /\ kind = "Email" =>
           /\ \A l \in {u.domains, u.providers} : IsSeq(l) /\ \A i \in DOMAIN l : l[i] \in Texts
           /\ u.providers # <<>> /\ u.maxRandomLength \in Nat
  BY <1>a, <1>b DEF MakesTexts, TextFields
<1>6. kind \in {"Dict", "RandomChoice", "Replace", "SetNull", "Hash", "Masking", "RegexpReplace",
                 "Template", "Email", "RandomString", "RandomUuid"}
  BY DEF MakesTexts
<1>7. MakesTexts(tb, kind, u)
  BY <1>a, <1>b, <1>2, <1>3, <1>4, <1>5, <1>6 DEF MakesTexts
<1> QED BY <1>7 DEF u

\* What TextsGiven says.
LEMMA GivenIs ==
  ASSUME TextsGiven
  PROVE  /\ \A v \in Texts : Digest(v) \in Texts /\ Substitute(v) \in Texts /\ Masked(v) \in Texts
                             /\ Seed(v) \in Seeds
         /\ \A v \in TextValues : Bytes("text", v) \in Texts /\ Template(v) \in Texts \cup {Fail}
         /\ \A s \in Seeds, m \in Nat : /\ Stream(s, m) \in Texts /\ Len(Stream(s, m)) = m
                                        /\ Word(s, m) \in Nat
         /\ \A v \in Texts : \A i \in DOMAIN Digest(v) : Digest(v)[i] \in Hexadecimal
<1>1. \A n \in Nat : TextOperators(Texts, n)
  BY DEF TextsGiven
<1>2. TextOperators(Texts, 0)
  BY <1>1
<1>3. ASSUME NEW s \in Seeds, NEW m \in Nat
      PROVE  Stream(s, m) \in Texts /\ Len(Stream(s, m)) = m /\ Word(s, m) \in Nat
  <2>1. TextOperators(Texts, m) /\ m \in 0 .. m
    BY <1>1
  <2> HIDE DEF Texts
  <2> QED BY <2>1 DEF TextOperators
<1> HIDE DEF Texts
<1>4. \A v \in Texts : Digest(v) \in Texts /\ Substitute(v) \in Texts /\ Masked(v) \in Texts
                       /\ Seed(v) \in Seeds
  BY <1>2 DEF TextOperators
<1>5. \A v \in TextValues : Bytes("text", v) \in Texts /\ Template(v) \in Texts \cup {Fail}
  BY <1>2 DEF TextOperators, TextValues
<1>6. \A v \in Texts : \A i \in DOMAIN Digest(v) : Digest(v)[i] \in Hexadecimal
  <2> HIDE DEF Hexadecimal
  <2> QED BY <1>2 DEF TextOperators
<1> QED BY <1>3, <1>4, <1>5, <1>6

\* The rows of a table of texts, and what may be set in them.
TextRows(tb) == [Names(tb) -> TextValues]
MadeRows(tb) == [Names(tb) -> TextValues \cup {Unset}]

\* Set keeps texts.
LEMMA SetTexts ==
  ASSUME NEW tb, NEW t, NEW r \in TextRows(tb), NEW v \in TextValues \cup {Unset}
  PROVE  Set(t, r, v) \in MadeRows(tb) /\ r \in MadeRows(tb)
<1>1. r \in MadeRows(tb)
  BY DEF TextRows, MadeRows
<1>2. Set(t, r, v) = [c \in Names(tb) |-> IF c = t.column THEN v ELSE r[c]]
  BY DEF Set, TextRows
<1> QED BY <1>1, <1>2 DEF MadeRows

\* The bytes of a text.
LEMMA DataTexts ==
  ASSUME NEW v \in TextValues
  PROVE  Data(v) \in Texts
  BY DEF Data, TextValues, Texts

\* A choice from a list is one of its elements.
LEMMA ChoiceFrom ==
  ASSUME TextsGiven, NEW l, IsSeq(l), l # <<>>, NEW seed \in Seeds
  PROVE  \E i \in DOMAIN l : Choice(l, seed) = l[i]
<1>1. DOMAIN l = 1 .. Len(l) /\ Len(l) \in Nat /\ l \in Seq({l[i] : i \in DOMAIN l})
  BY SeqIsSeq DEF IsSeq
<1>2. Len(l) > 0
  BY <1>1
<1>3. Word(seed, 1) \in Nat
  BY GivenIs
<1>4. 1 + (Word(seed, 1) % Len(l)) \in DOMAIN l
  BY <1>1, <1>2, <1>3
<1> QED BY <1>4 DEF Choice

\* Each transformer of a table of texts makes texts: Dict ...
LEMMA DictTexts ==
  ASSUME NEW tb, NEW t, MakesTexts(tb, "Dict", t), NEW r \in TextRows(tb), Dict(t, r) # Fail
  PROVE  Dict(t, r) \in MadeRows(tb)
<1>1. t.values \in [DOMAIN t.values -> TextValues] /\ t.default \in TextValues \cup {Unset}
  BY DEF MakesTexts
<1>2. \E v \in TextValues \cup {Unset} : Dict(t, r) = Set(t, r, v)
  BY <1>1 DEF Dict
<1> QED BY <1>2, SetTexts

\* ... RandomChoice ...
LEMMA RandomChoiceTexts ==
  ASSUME TextsGiven, NEW tb, NEW t, MakesTexts(tb, "RandomChoice", t), NEW r \in TextRows(tb),
         NEW seed \in Seeds
  PROVE  RandomChoice(t, r, seed) \in MadeRows(tb)
<1>1. IsSeq(t.values) /\ t.values # <<>> /\ \A i \in DOMAIN t.values : t.values[i] \in TextValues
  BY DEF MakesTexts
<1>2. Choice(t.values, seed) \in TextValues
  BY <1>1, ChoiceFrom
<1> QED BY <1>2, SetTexts DEF RandomChoice

\* ... Replace ...
LEMMA ReplaceTexts ==
  ASSUME NEW tb, NEW t, MakesTexts(tb, "Replace", t), NEW r \in TextRows(tb), Replace(t, r) # Fail
  PROVE  Replace(t, r) \in MadeRows(tb)
<1> DEFINE v == IF IsEmpty(t.value, r) THEN Null ELSE RawValue(t.value, r)
<1>1. t.value.value \in TextValues \cup {Unset} /\ (t.value.dynamic => t.value.column \in Names(tb))
  BY DEF MakesTexts
<1>2. v = Fail \/ v \in TextValues \cup {Unset}
  <2>1. t.value.dynamic => r[t.value.column] \in TextValues
    BY <1>1 DEF TextRows
  <2>2. Null \in TextValues
    BY DEF TextValues
  <2> QED BY <1>1, <2>1, <2>2 DEF RawValue
<1>3. ~t.value.dynamic => v \in TextValues \cup {Unset}
  BY <1>1 DEF RawValue, TextValues
<1>4. Replace(t, r) = r \/ (v \in TextValues \cup {Unset} /\ Replace(t, r) = Set(t, r, v))
  <2>1. \/ Replace(t, r) = r \/ Replace(t, r) = Fail
        \/ Replace(t, r) = Set(t, r, v) /\ (t.value.dynamic => v # Fail)
    BY DEF Replace
  <2> QED BY <2>1, <1>2, <1>3
<1> QED BY <1>4, SetTexts

\* ... Hash ...
LEMMA HashTexts ==
  ASSUME TextsGiven, NEW tb, NEW t, MakesTexts(tb, "Hash", t), NEW r \in TextRows(tb),
         t.column \in Names(tb)
  PROVE  Hash(t, r) \in MadeRows(tb)
<1> DEFINE d == Digest(t.salt \o Data(r[t.column]))
<1>1. t.salt \in Texts /\ t.maxLength \in Nat
  BY DEF MakesTexts
<1>2. Data(r[t.column]) \in Texts
  BY DataTexts DEF TextRows
<1>3. t.salt \o Data(r[t.column]) \in Texts
  BY <1>1, <1>2 DEF Texts
<1>4. d \in Texts
  BY <1>3, GivenIs
<1> HIDE DEF d
<1>5. Len(d) > t.maxLength => SubSeq(d, 1, t.maxLength) \in Texts
  BY <1>1, <1>4 DEF Texts
<1>6. Texts \subseteq TextValues
  BY DEF TextValues
<1>7. Hash(t, r) = r \/ \E v \in TextValues \cup {Unset} : Hash(t, r) = Set(t, r, v)
  BY <1>4, <1>5, <1>6 DEF Hash, d
<1> QED BY <1>7, SetTexts

\* ... the functions of Masking ...
LEMMA MaskTexts ==
  ASSUME TextsGiven, NEW type, NEW v \in Texts
  PROVE  Mask(type, v) \in Texts
<1>1. Masked(v) \in Texts
  BY GivenIs
<1>2. [i \in 1 .. Len(v) |-> Star] \in Texts
  BY DEF Texts, Byte, Star
<1>3. [i \in 1 .. Len(v) |-> IF i <= 2 THEN v[i] ELSE Star] \in Texts
  <2>1. Len(v) \in Nat /\ \A i \in 1 .. Len(v) : v[i] \in Byte
    BY DEF Texts
  <2>2. Star \in Byte
    BY DEF Star, Byte
  <2> QED BY <2>1, <2>2 DEF Texts
<1> QED BY <1>1, <1>2, <1>3 DEF Mask

\* ... Masking and RegexpReplace ...
LEMMA MaskingTexts ==
  ASSUME TextsGiven, NEW tb, NEW t, NEW r \in TextRows(tb), t.column \in Names(tb)
  PROVE  /\ Masking(t, r) \in MadeRows(tb) /\ RegexpReplace(t, r) \in MadeRows(tb)
         /\ RegexpReplace(t, r)[t.column] \in TextValues
<1>1. r[t.column] \in TextValues
  BY DEF TextRows
<1>2. r[t.column] # Null => r[t.column] \in Texts
  BY <1>1 DEF TextValues
<1>3. r[t.column] # Null => /\ Mask(t.type, r[t.column]) \in TextValues
                            /\ Substitute(r[t.column]) \in TextValues
  BY <1>2, MaskTexts, GivenIs DEF TextValues
<1>4. Masking(t, r) \in MadeRows(tb) /\ RegexpReplace(t, r) \in MadeRows(tb)
  BY <1>3, SetTexts DEF Masking, RegexpReplace
<1>5. \A v : Set(t, r, v)[t.column] = v
  BY DEF Set, TextRows
<1> QED BY <1>1, <1>3, <1>4, <1>5 DEF RegexpReplace

\* ... Template ...
LEMMA TemplateTexts ==
  ASSUME TextsGiven, NEW tb, NEW t, NEW r \in TextRows(tb), t.column \in Names(tb),
         TemplateValue(t, r) # Fail
  PROVE  TemplateValue(t, r) \in MadeRows(tb)
<1>1. r[t.column] \in TextValues
  BY DEF TextRows
<1>2. Template(r[t.column]) # Fail => TextOrNull(Template(r[t.column])) \in TextValues
  BY <1>1, GivenIs DEF TextOrNull, TextValues
<1> QED BY <1>2, SetTexts DEF TemplateValue

\* What an email is made of.
LEMMA EmailTexts ==
  ASSUME TextsGiven, NEW tb, NEW t, MakesTexts(tb, "Email", t), NEW r \in TextRows(tb),
         t.column \in Names(tb), NEW seed \in Seeds, Email(t, r, seed) # Fail
  PROVE  Email(t, r, seed) \in MadeRows(tb) /\ Email(t, r, seed)[t.column] \in TextValues
<1> DEFINE original == Data(r[t.column])
           random   == Digest(Stream(seed, t.maxRandomLength))
           local    == IF t.localTemplate = "original" THEN LocalPart(original) \o random ELSE random
           domain   == IF t.domainTemplate = "original" THEN Domain(original)
                       ELSE IF t.domainTemplate = "random" THEN random
                       ELSE IF t.keepDomain THEN Domain(original)
                       ELSE Choice(IF t.domains # <<>> THEN t.domains ELSE t.providers, seed)
<1>1. /\ \A l \in {t.domains, t.providers} : IsSeq(l) /\ \A i \in DOMAIN l : l[i] \in Texts
      /\ t.providers # <<>> /\ t.maxRandomLength \in Nat
  BY DEF MakesTexts
<1>2. original \in Texts
  BY DataTexts DEF TextRows
<1>3. random \in Texts
  BY <1>1, GivenIs
<1>4. Choice(IF t.domains # <<>> THEN t.domains ELSE t.providers, seed) \in Texts
  <2> DEFINE l == IF t.domains # <<>> THEN t.domains ELSE t.providers
  <2>1. IsSeq(l) /\ l # <<>> /\ \A i \in DOMAIN l : l[i] \in Texts
    BY <1>1
  <2> HIDE DEF l
  <2> QED BY <2>1, ChoiceFrom DEF l
<1>5. IsEmail(original) => LocalPart(original) \in Texts /\ Domain(original) \in Texts
  <2> DEFINE o == original
  <2> HIDE DEF original
  <2> SUFFICES ASSUME IsEmail(original)
               PROVE  LocalPart(original) \in Texts /\ Domain(original) \in Texts
    OBVIOUS
  <2>0. Len(original) \in Nat /\ DOMAIN original = 1 .. Len(original)
    BY <1>2 DEF Texts
  <2> DEFINE i == CHOOSE i \in DOMAIN original : original[i] = At
  <2>1. i \in DOMAIN original
    <3>1. \E j \in DOMAIN original : original[j] = At
      BY <2>0 DEF IsEmail
    <3> QED BY <3>1
  <2> HIDE DEF i
  <2>2. SubSeq(original, 1, i - 1) \in Texts /\ SubSeq(original, i + 1, Len(original)) \in Texts
    BY <2>0, <2>1, <1>2 DEF Texts
  <2> QED BY <2>2 DEF LocalPart, Domain, i
<1>6. <<At>> \in Texts
  BY DEF Texts, At, Byte
<1>7. NeedsOriginal(t) => IsEmail(original) \/ Email(t, r, seed) = r
  BY DEF Email
<1>8. Email(t, r, seed) = r \/ Email(t, r, seed) = Set(t, r, local \o <<At>> \o domain)
  BY DEF Email
<1> HIDE DEF original, random
<1>9. CASE Email(t, r, seed) # r
  <2>1. NeedsOriginal(t) => LocalPart(original) \in Texts /\ Domain(original) \in Texts
    BY <1>5, <1>7, <1>9
  <2>2. LocalPart(original) \in Texts => LocalPart(original) \o random \in Texts
    BY <1>3 DEF Texts
  <2>3. local \in Texts
    BY <1>3, <2>1, <2>2 DEF NeedsOriginal
  <2>4. domain \in Texts
    BY <1>3, <1>4, <2>1 DEF NeedsOriginal
  <2> HIDE DEF local, domain
  <2>5. local \o <<At>> \o domain \in Texts
    BY <1>6, <2>3, <2>4 DEF Texts
  <2>6. \A v : Set(t, r, v)[t.column] = v
    BY DEF Set, TextRows
  <2> QED BY <1>8, <1>9, <2>5, <2>6, SetTexts DEF TextValues
<1>10. r[t.column] \in TextValues
  BY DEF TextRows
<1> QED BY <1>9, <1>10, SetTexts

\* The hashes there are.
LEMMA HashSizes ==
  ASSUME NEW n, HashSize(n) # 0
  PROVE  HashSize(n) \in {28, 32, 48, 64}
<1> DEFINE enough == {s \in {28, 32, 48, 64} : n <= s}
<1>1. enough # {} /\ HashSize(n) = CHOOSE s \in enough : \A o \in enough : s <= o
  BY DEF HashSize
<1>2. enough \subseteq Nat
  OBVIOUS
<1>3. \E s \in enough : \A o \in enough : s <= o
  <2> HIDE DEF enough
  <2> QED BY <1>1, <1>2, LeastExists
<1>4. HashSize(n) \in enough
  <2> HIDE DEF enough
  <2> QED BY <1>1, <1>3
<1> QED BY <1>4

\* A text of symbols.
LEMMA StringTexts ==
  ASSUME TextsGiven, NEW chars \in Texts, chars # <<>>, NEW min \in Nat, NEW max \in Nat,
         StringBytes(chars, min, max) # 0, NEW seed \in Seeds,
         NEW x \in RandomString(chars, min, max, seed)
  PROVE  /\ x \in Texts /\ Len(x) \in min .. max
         /\ \A i \in DOMAIN x : \E k \in DOMAIN chars : x[i] = chars[k]
<1> DEFINE req   == BytesPerChar(chars)
           n     == StringBytes(chars, min, max)
           bytes == SubSeq(Stream(seed, n), LengthBytes + 1, n)
           cycle == (Len(bytes) - 1 + req - 1) \div req
           len   == StringLength(min, max, Word(seed, 1))
           Pos(i) == (i % cycle) * req * req
           Read(i) == IF req = 1 THEN bytes[Pos(i) + 1]
                      ELSE bytes[Pos(i) + 1] + ByteSymbols * bytes[Pos(i) + 2]
<1>1. req \in {1, 2} /\ min <= max /\ n \in {28, 32, 48, 64}
  <2>1. min <= max /\ n = HashSize((max + BytesPerChar(chars)) % MaxHash)
    BY DEF StringBytes
  <2>2. n \in {28, 32, 48, 64}
    BY <2>1, HashSizes
  <2> QED BY <2>1, <2>2 DEF BytesPerChar
<1>2. /\ ~(\E i \in 0 .. len - 1 : Pos(i) + req > Len(bytes))
      /\ x = [i \in 1 .. len |-> chars[1 + ((Read(i - 1) + (i - 1) \div cycle) % Len(chars))]]
  BY DEF RandomString
<1>3. len \in Nat /\ len \in min .. max
  <2>1. Word(seed, 1) \in Nat
    BY GivenIs
  <2>2. max - min + 1 \in Nat \ {0}
    BY <1>1
  <2> DEFINE c == max - min + 1
             m == Word(seed, 1) % c
  <2>3. m \in 0 .. c - 1
    <3> HIDE DEF c
    <3> QED BY <2>1, <2>2 DEF c
  <2>4. len = min + m
    BY DEF StringLength
  <2> HIDE DEF m
  <2> QED BY <1>1, <2>3, <2>4
<1>4. bytes \in Texts /\ Len(bytes) >= 2 /\ Len(bytes) \in Nat
  <2> HIDE DEF n
  <2>0. n \in Nat /\ n >= 28
    BY <1>1
  <2>1. Stream(seed, n) \in Seq(Byte) /\ Len(Stream(seed, n)) = n
    BY <2>0, GivenIs DEF Texts
  <2>2. LengthBytes + 1 \in 1 .. 27
    BY ByteAssumption
  <2> DEFINE s == Stream(seed, n)
             a == LengthBytes + 1
  <2>3. s \in Seq(Byte) /\ Len(s) = n /\ a \in 1 .. 27
    BY <2>1, <2>2
  <2> HIDE DEF s, a
  <2>4. SubSeq(s, a, n) \in Seq(Byte) /\ Len(SubSeq(s, a, n)) = n - a + 1
    BY <2>0, <2>3
  <2>5. bytes = SubSeq(s, a, n)
    BY DEF s, a
  <2> HIDE DEF bytes
  <2> QED BY <2>0, <2>3, <2>4, <2>5 DEF Texts
<1>5. Len(chars) \in Nat /\ Len(chars) > 0 /\ \A i \in 1 .. Len(chars) : chars[i] \in Byte
  BY DEF Texts
<1> HIDE DEF req, len, bytes, n
<1>6. cycle \in Nat /\ cycle > 0
  <2>1. CASE req = 1
    BY <1>4, <2>1
  <2>2. CASE req = 2
    BY <1>4, <2>2
  <2> QED BY <1>1, <2>1, <2>2
<1> HIDE DEF cycle
<1>7. ASSUME NEW i \in 0 .. len - 1 PROVE Read(i) \in Nat /\ i \div cycle \in Nat
  <2>0. i \in Nat /\ i % cycle \in Nat /\ i \div cycle \in Nat
    BY <1>3, <1>6
  <2>1. Pos(i) \in Nat
    BY <1>1, <2>0
  <2>2. Pos(i) + req <= Len(bytes)
    BY <1>1, <1>2, <1>4, <2>1
  <2> HIDE DEF Pos
  <2>3. \A j \in 1 .. Len(bytes) : bytes[j] \in Nat
    <3>1. \A j \in 1 .. Len(bytes) : bytes[j] \in Byte
      BY <1>4 DEF Texts
    <3>2. Byte \subseteq Nat
      BY DEF Byte
    <3> QED BY <3>1, <3>2
  <2>4. bytes[Pos(i) + 1] \in Nat
    BY <1>1, <1>4, <2>1, <2>2, <2>3
  <2>5. req = 2 => bytes[Pos(i) + 2] \in Nat
    BY <1>1, <1>4, <2>1, <2>2, <2>3
  <2>6. req = 2 => ByteSymbols * bytes[Pos(i) + 2] \in Nat
    BY <2>5, ByteAssumption
  <2> QED BY <1>1, <2>0, <2>4, <2>6
<1> HIDE DEF Read
<1>8. ASSUME NEW i \in 1 .. len
      PROVE  /\ x[i] \in Byte
             /\ \E k \in DOMAIN chars : x[i] = chars[k]
  <2>1. Read(i - 1) \in Nat /\ (i - 1) \div cycle \in Nat
    BY <1>3, <1>7
  <2>2. (Read(i - 1) + (i - 1) \div cycle) % Len(chars) \in 0 .. Len(chars) - 1
    BY <1>5, <2>1
  <2>3. x[i] = chars[1 + ((Read(i - 1) + (i - 1) \div cycle) % Len(chars))]
    BY <1>2
  <2> DEFINE k == 1 + ((Read(i - 1) + (i - 1) \div cycle) % Len(chars))
  <2>4. k \in 1 .. Len(chars) /\ DOMAIN chars = 1 .. Len(chars)
    BY <1>5, <2>2 DEF Texts
  <2> HIDE DEF k
  <2> QED BY <1>5, <2>3, <2>4 DEF k
<1>9. DOMAIN x = 1 .. len /\ x = [i \in 1 .. len |-> x[i]]
  BY <1>2
<1> HIDE DEF Pos
<1>10. x \in [1 .. len -> Byte]
  BY <1>8, <1>9
<1>11. x \in Texts /\ Len(x) = len
  BY <1>3, <1>9, <1>10 DEF Texts
<1> QED BY <1>3, <1>8, <1>9, <1>11

\* ... RandomString, of what its generator makes.
LEMMA RandomTextTexts ==
  ASSUME TextsGiven, NEW tb, NEW t, MakesTexts(tb, "RandomString", t), NEW r \in TextRows(tb),
         NEW seed \in Seeds, StringBytes(t.symbols, t.min, t.max) # 0, RandomText(t, r, seed) # Fail
  PROVE  RandomText(t, r, seed) \in MadeRows(tb)
<1> DEFINE texts == RandomString(t.symbols, t.min, t.max, seed)
<1>1. t.symbols \in Texts /\ t.symbols # <<>> /\ t.min \in Nat /\ t.max \in Nat
  BY DEF MakesTexts
<1>2. \A x \in texts : x \in Texts
  BY <1>1, StringTexts
<1>3. RandomText(t, r, seed) = r \/ \E x \in texts : RandomText(t, r, seed) = Set(t, r, x)
  BY DEF RandomText
<1> QED BY <1>2, <1>3, SetTexts DEF TextValues

\* A transformer of a table of texts makes texts of a row of texts.
LEMMA AfterTexts ==
  ASSUME TextsGiven, NEW tb, NEW e, Made(tb, e), NEW t, Like(t, New(tb, e)),
         MakesTexts(tb, e.kind, t), tb.family = "text", NEW r \in TextRows(tb),
         NEW seed \in DrawOf(tb, r, t), AfterOf(e, t, r, seed) # Fail
  PROVE  AfterOf(e, t, r, seed) \in MadeRows(tb)
<1>1. e.kind \in TextKinds /\ e.kind \notin RecordKinds
  BY DEF MakesTexts, TextKinds, RecordKinds
<1>2. "column" \in DOMAIN t /\ t.column \in Names(tb)
  BY <1>1, LikeNew
<1>3. seed \in Seeds
  <2>1. r[t.column] \in TextValues
    BY <1>2 DEF TextRows
  <2>2. Seed(Bytes("text", r[t.column])) \in Seeds
    BY <2>1, GivenIs
  <2>3. DrawOf(tb, r, t) \subseteq Seeds
    BY <1>2, <2>2 DEF DrawOf
  <2> QED BY <2>3
<1>4. AfterOf(e, t, r, seed) = TransformText(e.kind, t, r, seed)
  BY <1>1, KindsApart DEF AfterOf
<1>5. e.kind = "RandomString" => StringBytes(t.symbols, t.min, t.max) # 0
  <2> SUFFICES ASSUME e.kind = "RandomString" PROVE StringBytes(t.symbols, t.min, t.max) # 0
    OBVIOUS
  <2> DEFINE w == WithParameters(e)
  <2>1. NewText(e.kind, w) # Fail
    BY <1>1, KindsApart DEF Made, Accepted, New
  <2>2. StringBytes(w.symbols, w.min, w.max) # 0
    BY <2>1 DEF NewText, NewRandomString
  <2>3. {"symbols", "min", "max"} \subseteq DOMAIN t
    BY DEF MakesTexts, TextFields
  <2>4. t.symbols = w.symbols /\ t.min = w.min /\ t.max = w.max
    BY <2>3, LikeNew
  <2> QED BY <2>2, <2>4
<1>6. e.kind = "RandomUuid" => RandomUuid(t, r, seed) \in MadeRows(tb)
  <2>1. Stream(seed, 16) \in TextValues
    BY <1>3, GivenIs DEF TextValues
  <2> QED BY <2>1, SetTexts DEF RandomUuid
<1>7. SetNull(t, r) \in MadeRows(tb)
  BY SetTexts DEF SetNull, TextValues
<1>8. e.kind \in {"Dict", "RandomChoice", "Replace", "SetNull", "Hash", "Masking", "RegexpReplace",
                  "Template", "Email", "RandomString", "RandomUuid"}
  BY DEF MakesTexts
<1>a. CASE e.kind = "Dict"
  BY <1>4, <1>a, DictTexts DEF TransformText
<1>b. CASE e.kind = "RandomChoice"
  BY <1>3, <1>4, <1>b, RandomChoiceTexts DEF TransformText
<1>c. CASE e.kind = "Replace"
  BY <1>4, <1>c, ReplaceTexts DEF TransformText
<1>d. CASE e.kind = "Hash"
  BY <1>2, <1>4, <1>d, HashTexts DEF TransformText
<1>e. CASE e.kind \in {"Masking", "RegexpReplace"}
  BY <1>2, <1>4, <1>e, MaskingTexts DEF TransformText
<1>f. CASE e.kind = "Template"
  BY <1>2, <1>4, <1>f, TemplateTexts DEF TransformText
<1>g. CASE e.kind = "Email"
  BY <1>2, <1>3, <1>4, <1>g, EmailTexts DEF TransformText
<1>h. CASE e.kind = "RandomString"
  BY <1>3, <1>4, <1>5, <1>h, RandomTextTexts DEF TransformText
<1>i. CASE e.kind \in {"SetNull", "RandomUuid"}
  BY <1>4, <1>6, <1>7, <1>i DEF TransformText
<1> QED BY <1>8, <1>a, <1>b, <1>c, <1>d, <1>e, <1>f, <1>g, <1>h, <1>i

-----------------------------------------------------------------------------
(* DecodeAttr *)

\* How many bytes from the byte from on, up to most, are of the set G.
RunOf(raw, from, most, G) ==
    CHOOSE n \in 0 .. most :
      /\ \A k \in 0 .. n - 1 : from + k <= Len(raw) /\ raw[from + k] \in G
      /\ n = most \/ from + n > Len(raw) \/ raw[from + n] \notin G

Octals == 48 .. 55
Hexes == 48 .. 57 \cup 97 .. 102 \cup 65 .. 70

\* There are as many digits as it says, up to the most there may be.
LEMMA RunIs ==
  ASSUME NEW raw \in Texts, NEW from \in Nat \ {0}, NEW most \in {2, 3}, NEW G
  PROVE  LET n == RunOf(raw, from, most, G) IN
         /\ n \in 0 .. most
         /\ \A k \in 0 .. n - 1 : from + k <= Len(raw) /\ raw[from + k] \in G
         /\ n = most \/ from + n > Len(raw) \/ raw[from + n] \notin G
<1> DEFINE Ends(n) == /\ \A k \in 0 .. n - 1 : from + k <= Len(raw) /\ raw[from + k] \in G
                      /\ n = most \/ from + n > Len(raw) \/ raw[from + n] \notin G
           In(k) == from + k <= Len(raw) /\ raw[from + k] \in G
<1>0. Len(raw) \in Nat
  BY DEF Texts
<1>1. \A n \in 0 .. most : (\A k \in 0 .. n - 1 : In(k)) /\ (n = most \/ ~In(n)) => Ends(n)
  BY <1>0
<1>2. \E n \in 0 .. most : (\A k \in 0 .. n - 1 : In(k)) /\ (n = most \/ ~In(n))
  <2> HIDE DEF In
  <2>1. CASE ~In(0)
    BY <2>1
  <2>2. CASE In(0) /\ ~In(1)
    BY <2>2
  <2>3. CASE In(0) /\ In(1) /\ most = 2
    <3>1. \A k \in 0 .. 2 - 1 : In(k)
      <4>1. \A k \in 0 .. 2 - 1 : k = 0 \/ k = 1
        OBVIOUS
      <4> QED BY <2>3, <4>1
    <3> QED BY <2>3, <3>1
  <2>4. CASE In(0) /\ In(1) /\ ~In(2) /\ most = 3
    <3>1. \A k \in 0 .. 2 - 1 : In(k)
      <4>1. \A k \in 0 .. 2 - 1 : k = 0 \/ k = 1
        OBVIOUS
      <4> QED BY <2>4, <4>1
    <3> QED BY <2>4, <3>1
  <2>5. CASE In(0) /\ In(1) /\ In(2) /\ most = 3
    <3>1. \A k \in 0 .. 3 - 1 : In(k)
      <4>1. \A k \in 0 .. 3 - 1 : k = 0 \/ k = 1 \/ k = 2
        OBVIOUS
      <4> QED BY <2>5, <4>1
    <3> QED BY <2>5, <3>1
  <2> QED BY <2>1, <2>2, <2>3, <2>4, <2>5
<1>3. \E n \in 0 .. most : Ends(n)
  <2> HIDE DEF In, Ends
  <2> QED BY <1>1, <1>2
<1>4. RunOf(raw, from, most, G) = CHOOSE n \in 0 .. most : Ends(n)
  BY DEF RunOf
<1>5. RunOf(raw, from, most, G) \in 0 .. most /\ Ends(RunOf(raw, from, most, G))
  <2> HIDE DEF Ends
  <2> QED BY <1>3, <1>4
<1> QED BY <1>5

\* An escape ends in the text, and what it stands for is a byte.
LEMMA EscapeIs ==
  ASSUME NEW raw \in Texts, NEW i \in 1 .. Len(raw) - 1
  PROVE  /\ EscapeLength(raw, i) \in 1 .. Len(raw) - i
         /\ Escaped(raw, i) \in Byte
         /\ raw[i + 1] \notin Octals \cup {120} => EscapeLength(raw, i) = 1
<1> DEFINE n == EscapeLength(raw, i)
           c == raw[i + 1]
<1>0. Len(raw) \in Nat /\ i \in Nat \ {0} /\ i + 1 <= Len(raw)
  BY DEF Texts
<1>1. \A j \in 1 .. Len(raw) : raw[j] \in Byte
  BY DEF Texts
<1>2. c \in Byte
  BY <1>0, <1>1
<1>3. CASE c \in Octals
  <2>1. n = RunOf(raw, i + 1, 3, Octals) /\ IsOctal(c)
    BY <1>3 DEF EscapeLength, RunOf, IsOctal, Octals
  <2>2. /\ n \in 0 .. 3
        /\ \A k \in 0 .. n - 1 : (i + 1) + k <= Len(raw) /\ raw[(i + 1) + k] \in Octals
        /\ n = 3 \/ (i + 1) + n > Len(raw) \/ raw[(i + 1) + n] \notin Octals
    BY <1>0, <2>1, RunIs
  <2> HIDE DEF n
  <2>3. n # 0
    <3>1. (i + 1) + 0 = i + 1
      BY <1>0
    <3> QED BY <1>0, <1>3, <2>2, <3>1
  <2>4. (i + 1) + (n - 1) <= Len(raw)
    BY <2>2, <2>3
  <2>5. n \in 1 .. Len(raw) - i
    BY <1>0, <2>2, <2>3, <2>4
  <2>6. /\ n >= 2 => raw[i + 2] \in Octals
        /\ n = 3 => raw[i + 3] \in Octals
    <3>1. (i + 1) + 1 = i + 2 /\ (i + 1) + 2 = i + 3
      BY <1>0
    <3>2. n >= 2 => raw[(i + 1) + 1] \in Octals
      <4>1. n >= 2 => 1 \in 0 .. n - 1
        BY <2>2
      <4> QED BY <2>2, <4>1
    <3>3. n = 3 => raw[(i + 1) + 2] \in Octals
      <4>1. n = 3 => 2 \in 0 .. n - 1
        BY <2>2
      <4> QED BY <2>2, <4>1
    <3> QED BY <3>1, <3>2, <3>3
  <2>7. Escaped(raw, i) = (CASE n = 1 -> c - 48
                [] n = 2 -> (c - 48) * 8 + (raw[i + 2] - 48)
                [] n = 3 -> (c - 48) * 64 + (raw[i + 2] - 48) * 8 + (raw[i + 3] - 48)) % 256
    BY <2>1 DEF Escaped, n
  <2>8. n \in {1, 2, 3} /\ c \in Int
    BY <1>3, <2>2, <2>3 DEF Octals
  <2>9. \A z \in Int : z % 256 \in Byte
    BY DEF Byte
  <2>10. Escaped(raw, i) \in Byte
    <3>1. CASE n = 1
      <4>1. Escaped(raw, i) = (c - 48) % 256
        BY <2>7, <3>1
      <4>2. c - 48 \in Int
        BY <2>8
      <4> QED BY <4>1, <4>2, <2>9
    <3>2. CASE n = 2
      <4>1. Escaped(raw, i) = ((c - 48) * 8 + (raw[i + 2] - 48)) % 256
        BY <2>7, <3>2
      <4>2. (c - 48) * 8 + (raw[i + 2] - 48) \in Int
        BY <2>6, <2>8, <3>2 DEF Octals
      <4> QED BY <4>1, <4>2, <2>9
    <3>3. CASE n = 3
      <4>1. Escaped(raw, i) = ((c - 48) * 64 + (raw[i + 2] - 48) * 8 + (raw[i + 3] - 48)) % 256
        BY <2>7, <3>3
      <4>2. c - 48 \in Int /\ raw[i + 2] - 48 \in Int /\ raw[i + 3] - 48 \in Int
        <5>1. raw[i + 2] \in Octals /\ raw[i + 3] \in Octals
          BY <2>6, <3>3
        <5>2. \A o \in Octals : o - 48 \in Int
          BY DEF Octals
        <5> QED BY <2>8, <5>1, <5>2
      <4>3. (c - 48) * 64 + (raw[i + 2] - 48) * 8 + (raw[i + 3] - 48) \in Int
        BY <4>2
      <4> QED BY <4>1, <4>3, <2>9
    <3> QED BY <2>8, <3>1, <3>2, <3>3
  <2> QED BY <1>3, <2>5, <2>10 DEF n
<1>4. CASE c = 120
  <2> DEFINE m == RunOf(raw, i + 2, 2, Hexes)
  <2>1. n = 1 + m /\ ~IsOctal(c)
    BY <1>4 DEF EscapeLength, RunOf, IsOctal, IsHex, Hexes
  <2>2. /\ m \in 0 .. 2
        /\ \A k \in 0 .. m - 1 : (i + 2) + k <= Len(raw) /\ raw[(i + 2) + k] \in Hexes
    BY <1>0, RunIs
  <2> HIDE DEF n, m
  <2>3. m > 0 => (i + 2) + (m - 1) <= Len(raw)
    <3>1. m > 0 => m - 1 \in 0 .. m - 1
      BY <2>2
    <3> QED BY <2>2, <3>1
  <2>4. n \in 1 .. Len(raw) - i
    BY <1>0, <2>1, <2>2, <2>3
  <2>5. /\ m >= 1 => raw[i + 2] \in Hexes
        /\ m = 2 => raw[i + 3] \in Hexes
    <3>1. (i + 2) + 0 = i + 2 /\ (i + 2) + 1 = i + 3
      BY <1>0
    <3>2. m >= 1 => raw[(i + 2) + 0] \in Hexes
      BY <2>2
    <3>3. m = 2 => raw[(i + 2) + 1] \in Hexes
      BY <2>2
    <3> QED BY <3>1, <3>2, <3>3
  <2>6. \A h \in Hexes : HexValue(h) \in 0 .. 15
    BY DEF Hexes, HexValue
  <2>7. Escaped(raw, i) = CASE n = 1 -> 0
                [] n = 2 -> HexValue(raw[i + 2])
                [] n = 3 -> HexValue(raw[i + 2]) * 16 + HexValue(raw[i + 3])
    BY <1>4, <2>1 DEF Escaped, n
  <2>8. n \in {1, 2, 3}
    BY <2>1, <2>2
  <2>9. Escaped(raw, i) \in Byte
    <3>1. CASE n = 1
      BY <2>7, <3>1 DEF Byte
    <3>2. CASE n = 2
      <4>1. HexValue(raw[i + 2]) \in 0 .. 15
        BY <2>1, <2>2, <2>5, <2>6, <3>2
      <4> QED BY <2>7, <3>2, <4>1 DEF Byte
    <3>3. CASE n = 3
      <4>1. HexValue(raw[i + 2]) \in 0 .. 15 /\ HexValue(raw[i + 3]) \in 0 .. 15
        BY <2>1, <2>2, <2>5, <2>6, <3>3
      <4>2. Escaped(raw, i) = HexValue(raw[i + 2]) * 16 + HexValue(raw[i + 3])
        BY <2>7, <3>3
      <4>3. \A x, y \in 0 .. 15 : x * 16 + y \in Byte
        BY DEF Byte
      <4> QED BY <4>1, <4>2, <4>3
    <3> QED BY <2>8, <3>1, <3>2, <3>3
  <2> QED BY <1>4, <2>4, <2>9 DEF n
<1>5. CASE c \notin Octals \cup {120}
  <2>1. n = 1 /\ ~IsOctal(c)
    BY <1>5 DEF EscapeLength, IsOctal, Octals
  <2>2. \A l \in DOMAIN Letters : l \in Byte
    BY DEF Letters, Byte
  <2>3. Escaped(raw, i) \in Byte
    <3>1. Escaped(raw, i) = IF \E l \in DOMAIN Letters : Letters[l] = c
                            THEN CHOOSE l \in DOMAIN Letters : Letters[l] = c ELSE c
      BY <1>5, <2>1 DEF Escaped
    <3> HIDE DEF c
    <3> QED BY <1>2, <2>2, <3>1
  <2> QED BY <1>0, <2>1, <2>3
<1> QED BY <1>3, <1>4, <1>5

\* What DecodeAttr reads from the byte i on, when C is what it reads from each
\* later byte on.
DecodeFrom(raw, C, i) ==
    IF i > Len(raw) THEN <<>>
    ELSE IF raw[i] = Backslash /\ i = Len(raw) THEN Fail
    ELSE LET n    == IF raw[i] = Backslash THEN EscapeLength(raw, i) + 1 ELSE 1
             rest == C[i + n]
         IN  IF rest = Fail THEN Fail
             ELSE <<IF n > 1 THEN Escaped(raw, i) ELSE raw[i]>> \o rest

\* It reads what is there.
LEMMA DecodeLooksAhead ==
  ASSUME NEW raw \in Texts, NEW i \in 1 .. Len(raw), ~(raw[i] = Backslash /\ i = Len(raw))
  PROVE  LET n == IF raw[i] = Backslash THEN EscapeLength(raw, i) + 1 ELSE 1
         IN  /\ i + n \in i + 1 .. Len(raw) + 1
             /\ (IF n > 1 THEN Escaped(raw, i) ELSE raw[i]) \in Byte
<1>0. Len(raw) \in Nat /\ i \in Nat
  BY DEF Texts
<1>1. CASE raw[i] = Backslash
  <2>1. i \in 1 .. Len(raw) - 1
    BY <1>0, <1>1
  <2>2. EscapeLength(raw, i) \in 1 .. Len(raw) - i /\ Escaped(raw, i) \in Byte
    BY <2>1, EscapeIs
  <2>3. EscapeLength(raw, i) + 1 > 1 /\ i + (EscapeLength(raw, i) + 1) \in i + 1 .. Len(raw) + 1
    BY <1>0, <2>1, <2>2
  <2> QED BY <1>1, <2>2, <2>3
<1>2. CASE raw[i] # Backslash
  <2>1. raw[i] \in Byte
    BY DEF Texts
  <2>2. i + 1 \in i + 1 .. Len(raw) + 1 /\ ~(1 > 1)
    BY <1>0
  <2> QED BY <1>2, <2>1, <2>2
<1> QED BY <1>1, <1>2

\* The recursion of DecodeAttr has a solution.
LEMMA DecodeRecursion ==
  ASSUME NEW raw \in Texts, raw # NullText
  PROVE  \E C : /\ DecodeAttr(raw) = C[1]
                /\ \A i \in 1 .. Len(raw) + 1 : C[i] = DecodeFrom(raw, C, i)
<1> DEFINE M == Len(raw) + 1
           Is(C, m) == C = [i \in M - m .. M |-> DecodeFrom(raw, C, i)]
           Q == {m \in Nat : m < M => \E C : Is(C, m)}
<1>0. Len(raw) \in Nat /\ M \in Nat
  BY DEF Texts
<1>a. ASSUME NEW C, NEW D, NEW i \in 1 .. M,
             \A j \in i + 1 .. M : C[j] = D[j]
      PROVE  DecodeFrom(raw, C, i) = DecodeFrom(raw, D, i)
  <2>1. CASE i > Len(raw)
    BY <2>1 DEF DecodeFrom
  <2>2. CASE i <= Len(raw) /\ raw[i] = Backslash /\ i = Len(raw)
    BY <2>2 DEF DecodeFrom
  <2>3. CASE i <= Len(raw) /\ ~(raw[i] = Backslash /\ i = Len(raw))
    <3> DEFINE n == IF raw[i] = Backslash THEN EscapeLength(raw, i) + 1 ELSE 1
    <3>1. i \in 1 .. Len(raw)
      BY <1>0, <2>3
    <3>2. i + n \in i + 1 .. M
      BY <2>3, <3>1, DecodeLooksAhead
    <3>3. C[i + n] = D[i + n]
      BY <1>a, <3>2
    <3> QED BY <3>3 DEF DecodeFrom
  <2> QED BY <1>0, <2>1, <2>2, <2>3
<1>1. 0 \in Q
  <2> DEFINE C == [i \in M - 0 .. M |-> <<>>]
  <2>1. \A i \in M - 0 .. M : DecodeFrom(raw, C, i) = <<>>
    <3> SUFFICES ASSUME NEW i \in M - 0 .. M PROVE i > Len(raw)
      BY DEF DecodeFrom
    <3> QED BY <1>0
  <2>2. Is(C, 0)
    BY <2>1
  <2> HIDE DEF C, Is
  <2> QED BY <2>2
<1>2. ASSUME NEW m \in Nat, m \in Q PROVE m + 1 \in Q
  <2> SUFFICES ASSUME m + 1 < M PROVE \E C : Is(C, m + 1)
    OBVIOUS
  <2>1. PICK C : Is(C, m)
    BY <1>2, <1>0
  <2> DEFINE E == [i \in M - (m + 1) .. M |-> IF i = M - (m + 1) THEN DecodeFrom(raw, C, i) ELSE C[i]]
  <2>2. ASSUME NEW i \in M - (m + 1) .. M
        PROVE  E[i] = DecodeFrom(raw, E, i)
    <3>0. i \in 1 .. M
      BY <1>0
    <3>1. \A j \in i + 1 .. M : E[j] = C[j]
      BY <1>0
    <3>2. DecodeFrom(raw, E, i) = DecodeFrom(raw, C, i)
      <4> HIDE DEF E
      <4> QED BY <1>a, <3>0, <3>1
    <3>3. CASE i = M - (m + 1)
      BY <3>2, <3>3
    <3>4. CASE i # M - (m + 1)
      <4>1. i \in M - m .. M
        BY <1>0, <3>4
      <4>2. C[i] = DecodeFrom(raw, C, i)
        BY <2>1, <4>1
      <4> QED BY <3>2, <3>4, <4>2
    <3> QED BY <3>3, <3>4
  <2>3. Is(E, m + 1)
    BY <2>2
  <2> HIDE DEF E, Is
  <2> QED BY <2>3
<1>3. \E C : Is(C, M - 1)
  <2>1. Nat \subseteq Q
    <3> HIDE DEF Q
    <3> QED BY <1>1, <1>2, NatSetInduction
  <2>2. M - 1 \in Nat /\ M - 1 < M
    BY <1>0
  <2>3. M - 1 \in Q
    BY <2>1, <2>2
  <2> HIDE DEF Is, M
  <2> QED BY <2>2, <2>3
<1> DEFINE Js(C) == C = [i \in 1 .. Len(raw) + 1 |-> DecodeFrom(raw, C, i)]
           W == CHOOSE C : Js(C)
<1>4. Js(W)
  <2>1. \E C : Js(C)
    BY <1>0, <1>3
  <2> HIDE DEF Js
  <2> QED BY <2>1
<1>5. DecodeAttr(raw) = W[1]
  BY DEF DecodeAttr, DecodeFrom
<1> HIDE DEF W
<1>6. \A i \in 1 .. Len(raw) + 1 : W[i] = DecodeFrom(raw, W, i)
  BY <1>4
<1> QED BY <1>5, <1>6

\* What is read of a field is a text or NULL, unless the program ends.
LEMMA DecodeTexts ==
  ASSUME NEW raw \in Texts
  PROVE  DecodeAttr(raw) \in TextValues \cup {Fail}
<1>1. CASE raw = NullText
  BY <1>1 DEF DecodeAttr, TextValues
<1>2. CASE raw # NullText
  <2>1. PICK C : /\ DecodeAttr(raw) = C[1]
                 /\ \A i \in 1 .. Len(raw) + 1 : C[i] = DecodeFrom(raw, C, i)
    BY <1>2, DecodeRecursion
  <2>0. Len(raw) \in Nat
    BY DEF Texts
  <2> DEFINE M == Len(raw) + 1
             Q == {m \in Nat : \A i \in 1 .. M : i >= M - m => C[i] \in Texts \cup {Fail}}
  <2>2. 0 \in Q
    <3> SUFFICES ASSUME NEW i \in 1 .. M, i >= M - 0 PROVE C[i] \in Texts \cup {Fail}
      OBVIOUS
    <3>1. i > Len(raw)
      BY <2>0
    <3>2. C[i] = <<>>
      BY <2>1, <3>1 DEF DecodeFrom
    <3> QED BY <3>2 DEF Texts
  <2>3. ASSUME NEW m \in Nat, m \in Q PROVE m + 1 \in Q
    <3> SUFFICES ASSUME NEW i \in 1 .. M, i >= M - (m + 1) PROVE C[i] \in Texts \cup {Fail}
      OBVIOUS
    <3>1. C[i] = DecodeFrom(raw, C, i)
      BY <2>1
    <3>2. CASE i > Len(raw)
      BY <3>1, <3>2 DEF DecodeFrom, Texts
    <3>3. CASE i <= Len(raw) /\ raw[i] = Backslash /\ i = Len(raw)
      BY <3>1, <3>3 DEF DecodeFrom
    <3>4. CASE i <= Len(raw) /\ ~(raw[i] = Backslash /\ i = Len(raw))
      <4> DEFINE n == IF raw[i] = Backslash THEN EscapeLength(raw, i) + 1 ELSE 1
                 b == IF n > 1 THEN Escaped(raw, i) ELSE raw[i]
      <4>1. i \in 1 .. Len(raw)
        BY <2>0, <3>4
      <4>2. i + n \in i + 1 .. M /\ b \in Byte
        BY <3>4, <4>1, DecodeLooksAhead
      <4>3. i + n \in 1 .. M /\ i + n >= M - m
        <5> HIDE DEF n
        <5> QED BY <2>0, <4>1, <4>2
      <4>4. C[i + n] \in Texts \cup {Fail}
        BY <2>3, <4>3
      <4>5. C[i] = Fail \/ (C[i + n] # Fail /\ C[i] = <<b>> \o C[i + n])
        BY <2>0, <3>1, <3>4, <4>1 DEF DecodeFrom
      <4> HIDE DEF n, b
      <4>6. \A x \in Texts : <<b>> \o x \in Texts
        BY <4>2 DEF Texts
      <4> QED BY <4>4, <4>5, <4>6
    <3> QED BY <2>0, <3>2, <3>3, <3>4
  <2>4. Nat \subseteq Q
    <3> HIDE DEF Q
    <3> QED BY <2>2, <2>3, NatSetInduction
  <2>5. M - 1 \in Q /\ 1 \in 1 .. M /\ 1 >= M - (M - 1)
    <3>1. M - 1 \in Nat /\ 1 \in 1 .. M /\ 1 >= M - (M - 1)
      BY <2>0
    <3> HIDE DEF M, Q
    <3> QED BY <2>4, <3>1
  <2>6. C[1] \in Texts \cup {Fail}
    BY <2>5
  <2> QED BY <2>1, <2>6 DEF TextValues
<1> QED BY <1>1, <1>2

-----------------------------------------------------------------------------
(* Split *)

\* Where the fields of a line end, and the first end after x.
EndsOf(line) == {i \in 1 .. Len(line) : line[i] = Delimiter} \cup {Len(line) + 1}
EndAfter(ends, x) == CHOOSE e \in ends : e > x /\ \A o \in ends : o > x => e <= o

\* The ends one after another.
Enumerates(E, ends) ==
    E[0] = 0 /\ \A k \in 1 .. Cardinality(ends) : E[k] = EndAfter(ends, E[k - 1])

\* A line has finitely many ends, and one at least.
LEMMA EndsFinite ==
  ASSUME NEW line \in Texts
  PROVE  /\ IsFiniteSet(EndsOf(line)) /\ Cardinality(EndsOf(line)) \in Nat \ {0}
         /\ EndsOf(line) \subseteq 1 .. Len(line) + 1 /\ Len(line) \in Nat
<1>0. Len(line) \in Nat
  BY DEF Texts
<1>1. EndsOf(line) \subseteq 1 .. Len(line) + 1
  BY <1>0 DEF EndsOf
<1>2. IsFiniteSet(1 .. Len(line) + 1)
  BY <1>0, FS_Interval
<1>3. IsFiniteSet(EndsOf(line))
  BY <1>1, <1>2, FS_Subset
<1>4. EndsOf(line) # {}
  BY DEF EndsOf
<1>5. Cardinality(EndsOf(line)) \in Nat /\ Cardinality(EndsOf(line)) # 0
  BY <1>3, <1>4, FS_CardinalityType, FS_EmptySet
<1> QED BY <1>0, <1>1, <1>3, <1>5

\* The recursion of Split has a solution.
LEMMA SplitRecursion ==
  ASSUME NEW line \in Texts
  PROVE  \E E : /\ Enumerates(E, EndsOf(line))
                /\ Split(line) = [k \in 1 .. Cardinality(EndsOf(line)) |->
                                    SubSeq(line, E[k - 1] + 1, E[k] - 1)]
<1> DEFINE ends == EndsOf(line)
           M == Cardinality(ends)
           From(E, k) == IF k = 0 THEN 0 ELSE EndAfter(ends, E[k - 1])
           Is(E, m) == E = [k \in 0 .. m |-> From(E, k)]
           Q == {m \in Nat : \E E : Is(E, m)}
<1>0. M \in Nat
  BY EndsFinite
<1> HIDE DEF ends, M
<1>1. 0 \in Q
  <2> DEFINE E == [k \in 0 .. 0 |-> 0]
  <2>1. Is(E, 0)
    OBVIOUS
  <2> HIDE DEF E, Is
  <2> QED BY <2>1
<1>2. ASSUME NEW m \in Nat, m \in Q PROVE m + 1 \in Q
  <2>1. PICK E : Is(E, m)
    BY <1>2
  <2> DEFINE F == [k \in 0 .. m + 1 |-> IF k = m + 1 THEN EndAfter(ends, E[m]) ELSE E[k]]
  <2>2. ASSUME NEW k \in 0 .. m + 1 PROVE F[k] = From(F, k)
    <3>1. CASE k = m + 1
      <4>1. F[m] = E[m] /\ k - 1 = m /\ k # 0 /\ F[k] = EndAfter(ends, E[m])
        BY <3>1
      <4> HIDE DEF F
      <4> QED BY <4>1
    <3>2. CASE k \in 1 .. m
      <4>1. F[k - 1] = E[k - 1] /\ F[k] = E[k]
        BY <3>2
      <4>2. E[k] = EndAfter(ends, E[k - 1])
        BY <2>1, <3>2
      <4> HIDE DEF F
      <4> QED BY <3>2, <4>1, <4>2
    <3>3. CASE k = 0
      <4>1. E[0] = 0
        BY <2>1
      <4> QED BY <3>3, <4>1
    <3> QED BY <3>1, <3>2, <3>3
  <2>3. Is(F, m + 1)
    BY <2>2
  <2> HIDE DEF F, Is
  <2> QED BY <2>3
<1>3. \E E : Is(E, M)
  <2>1. Nat \subseteq Q
    <3> HIDE DEF Q
    <3> QED BY <1>1, <1>2, NatSetInduction
  <2> HIDE DEF Is
  <2> QED BY <1>0, <2>1
<1> DEFINE W == CHOOSE E : Is(E, M)
<1>4. Is(W, M)
  <2> HIDE DEF Is
  <2> QED BY <1>3
<1>5. Split(line) = [k \in 1 .. M |-> SubSeq(line, W[k - 1] + 1, W[k] - 1)]
  BY DEF Split, EndsOf, EndAfter, ends, M
<1> HIDE DEF W
<1>6. W[0] = 0 /\ \A k \in 1 .. M : W[k] = EndAfter(ends, W[k - 1])
  BY <1>0, <1>4
<1>7. Enumerates(W, ends)
  BY <1>6 DEF Enumerates, M
<1> QED BY <1>5, <1>7 DEF ends, M

\* The ends come in their order, and none is left out.
LEMMA EndsInOrder ==
  ASSUME NEW ends, IsFiniteSet(ends), \A o \in ends : o \in Nat /\ o > 0, NEW E, Enumerates(E, ends),
         NEW k \in 1 .. Cardinality(ends)
  PROVE  /\ E[k] \in ends /\ E[k - 1] \in ends \cup {0} /\ E[k - 1] < E[k]
         /\ \A o \in ends : o > E[k - 1] => E[k] <= o
         /\ Cardinality({o \in ends : o <= E[k]}) = k
<1> DEFINE M == Cardinality(ends)
           Below(x) == {o \in ends : o <= x}
           Good(m) == m >= 1 => /\ E[m] \in ends /\ E[m - 1] < E[m]
                                /\ \A o \in ends : o > E[m - 1] => E[m] <= o
           Q == {m \in Nat : m <= M => /\ E[m] \in ends \cup {0} /\ Cardinality(Below(E[m])) = m
                                       /\ Good(m)}
<1>0. M \in Nat
  BY FS_CardinalityType
<1>a. \A o \in ends : o \in Nat /\ o > 0
  OBVIOUS
<1>1. 0 \in Q
  <2>1. E[0] = 0
    BY DEF Enumerates
  <2>2. Below(0) = {}
    BY <1>a
  <2>3. Cardinality(Below(E[0])) = 0
    BY <2>1, <2>2, FS_EmptySet
  <2> HIDE DEF Below
  <2> QED BY <2>1, <2>3
<1>2. ASSUME NEW m \in Nat, m \in Q PROVE m + 1 \in Q
  <2> SUFFICES ASSUME m + 1 <= M
               PROVE  /\ E[m + 1] \in ends \cup {0} /\ Cardinality(Below(E[m + 1])) = m + 1
                      /\ Good(m + 1)
    OBVIOUS
  <2>1. E[m] \in ends \cup {0} /\ Cardinality(Below(E[m])) = m
    BY <1>0, <1>2
  <2>2. E[m] \in Nat
    BY <1>a, <2>1
  <2> DEFINE later == {o \in ends : o > E[m]}
  <2>3. later # {}
    <3> SUFFICES ASSUME later = {} PROVE FALSE
      OBVIOUS
    <3>1. Below(E[m]) = ends
      BY <1>a, <2>2
    <3> HIDE DEF Below
    <3> QED BY <1>0, <2>1, <3>1
  <2>4. later \subseteq Nat
    OBVIOUS
  <2>5. PICK e \in later : \A o \in later : e <= o
    <3> HIDE DEF later
    <3> QED BY <2>3, <2>4, LeastExists
  <2>6. E[m + 1] = EndAfter(ends, E[m])
    <3>1. m + 1 \in 1 .. M /\ (m + 1) - 1 = m
      BY <1>0
    <3> QED BY <3>1 DEF Enumerates
  <2>7. /\ E[m + 1] \in ends /\ E[m + 1] > E[m]
        /\ \A o \in ends : o > E[m] => E[m + 1] <= o
    BY <2>5, <2>6 DEF EndAfter
  <2>8. Below(E[m + 1]) = Below(E[m]) \cup {E[m + 1]}
    <3>1. ASSUME NEW o \in ends PROVE o <= E[m + 1] <=> o <= E[m] \/ o = E[m + 1]
      BY <1>a, <2>2, <2>7
    <3> QED BY <2>7, <3>1
  <2>9. E[m + 1] \notin Below(E[m]) /\ IsFiniteSet(Below(E[m]))
    <3>1. E[m + 1] \notin Below(E[m])
      BY <1>a, <2>2, <2>7
    <3>2. Below(E[m]) \in SUBSET ends
      OBVIOUS
    <3> HIDE DEF Below
    <3> QED BY <3>1, <3>2, FS_Subset
  <2>10. Cardinality(Below(E[m + 1])) = m + 1
    <3> HIDE DEF Below
    <3> QED BY <2>1, <2>8, <2>9, FS_AddElement
  <2>11. Good(m + 1)
    <3>1. (m + 1) - 1 = m
      OBVIOUS
    <3> QED BY <2>7, <3>1
  <2> HIDE DEF Below, Good
  <2> QED BY <2>7, <2>10, <2>11
<1>3. Nat \subseteq Q
  <2> HIDE DEF Q
  <2> QED BY <1>1, <1>2, NatSetInduction
<1>4. k \in Q /\ k - 1 \in Q /\ k <= M /\ k - 1 <= M /\ k >= 1
  <2>1. k \in Nat /\ k - 1 \in Nat /\ k <= M /\ k - 1 <= M /\ k >= 1
    BY <1>0
  <2> HIDE DEF Q
  <2> QED BY <1>3, <2>1
<1> QED BY <1>4

\* A field: a text without a delimiter.
IsField(v) == v \in Texts /\ \A i \in 1 .. Len(v) : v[i] # Delimiter

\* What Split gives.
LEMMA SplitIs ==
  ASSUME NEW line \in Texts
  PROVE  /\ IsSeq(Split(line)) /\ Len(Split(line)) = Cardinality(EndsOf(line))
         /\ DOMAIN Split(line) = 1 .. Cardinality(EndsOf(line))
         /\ \A k \in DOMAIN Split(line) : IsField(Split(line)[k])
<1> DEFINE ends == EndsOf(line)
           M == Cardinality(ends)
<1>0. /\ IsFiniteSet(ends) /\ M \in Nat \ {0} /\ Len(line) \in Nat
      /\ ends \subseteq 1 .. Len(line) + 1
  BY EndsFinite
<1>1. PICK E : /\ Enumerates(E, ends)
               /\ Split(line) = [k \in 1 .. M |-> SubSeq(line, E[k - 1] + 1, E[k] - 1)]
  BY SplitRecursion
<1>2. \A o \in ends : o \in Nat /\ o > 0 /\ o \in 1 .. Len(line) + 1
  BY <1>0
<1>3. \A i \in 1 .. Len(line) : line[i] = Delimiter => i \in ends
  BY DEF EndsOf
<1>4. \A i \in 1 .. Len(line) : line[i] \in Byte
  BY DEF Texts
<1> HIDE DEF ends, M
<1>5. ASSUME NEW k \in 1 .. M PROVE IsField(SubSeq(line, E[k - 1] + 1, E[k] - 1))
  <2>1. /\ E[k] \in ends /\ E[k - 1] \in ends \cup {0} /\ E[k - 1] < E[k]
        /\ \A o \in ends : o > E[k - 1] => E[k] <= o
    BY <1>0, <1>1, <1>2, EndsInOrder DEF M
  <2> DEFINE a == E[k - 1]
             b == E[k]
             s == SubSeq(line, a + 1, b - 1)
  <2>2. a \in 0 .. Len(line) + 1 /\ b \in 1 .. Len(line) + 1 /\ a < b
    <3>1. E[k] \in 1 .. Len(line) + 1
      BY <1>2, <2>1
    <3>2. E[k - 1] \in 1 .. Len(line) + 1 \/ E[k - 1] = 0
      BY <1>2, <2>1
    <3> QED BY <1>0, <2>1, <3>1, <3>2
  <2>3. \A i \in a + 1 .. b - 1 : i \in 1 .. Len(line) /\ line[i] \in Byte /\ line[i] # Delimiter
    <3> SUFFICES ASSUME NEW i \in a + 1 .. b - 1
                 PROVE  i \in 1 .. Len(line) /\ line[i] \in Byte /\ line[i] # Delimiter
      OBVIOUS
    <3>1. i \in 1 .. Len(line) /\ i > a /\ ~(b <= i)
      BY <1>0, <2>2
    <3> QED BY <1>3, <1>4, <2>1, <3>1
  <2> HIDE DEF a, b
  <2>4. a + 1 \in Int /\ b - 1 \in Int
    BY <2>2
  <2>5. /\ s \in Seq(Byte)
        /\ Len(s) = IF a + 1 <= b - 1 THEN (b - 1) - (a + 1) + 1 ELSE 0
        /\ \A i \in 1 .. (b - 1) - (a + 1) + 1 : s[i] = line[(a + 1) + i - 1]
    <3> HIDE DEF s
    <3> QED BY <2>3, <2>4, SubSeqProperties DEF s
  <2>6. ASSUME NEW i \in 1 .. Len(s) PROVE s[i] # Delimiter
    <3> HIDE DEF s
    <3>1. i \in 1 .. (b - 1) - (a + 1) + 1 /\ (a + 1) + i - 1 \in a + 1 .. b - 1
      BY <2>2, <2>5
    <3> QED BY <2>3, <2>5, <3>1
  <2> QED BY <2>5, <2>6 DEF IsField, Texts, a, b
<1>6. IsSeq(Split(line)) /\ Len(Split(line)) = M /\ DOMAIN Split(line) = 1 .. M
  <2> DEFINE f == Split(line)
  <2>1. f = [k \in 1 .. M |-> f[k]] /\ DOMAIN f = 1 .. M
    BY <1>1
  <2> HIDE DEF f
  <2> QED BY <1>0, <2>1, FunctionIsSeq DEF f
<1> QED BY <1>1, <1>5, <1>6 DEF M, ends

-----------------------------------------------------------------------------
(* Join *)

\* What Join makes of the first fields, and then of each next one.
Joins(J, fields, n) ==
    /\ J[1] = fields[1]
    /\ \A k \in 2 .. n : J[k] = J[k - 1] \o <<Delimiter>> \o fields[k]

\* The recursion of Join has a solution.
LEMMA JoinRecursion ==
  ASSUME NEW n \in Nat \ {0}, NEW fields, fields = [k \in 1 .. n |-> fields[k]]
  PROVE  \E J : Joins(J, fields, n) /\ Join(fields) = J[n]
<1> DEFINE From(J, k) == IF k = 1 THEN fields[1] ELSE J[k - 1] \o <<Delimiter>> \o fields[k]
           Is(J, m) == J = [k \in 1 .. m |-> From(J, k)]
           Q == {m \in Nat : \E J : Is(J, m + 1)}
<1>0. Len(fields) = n
  BY FunctionIsSeq
<1>1. 0 \in Q
  <2> DEFINE J == [k \in 1 .. 0 + 1 |-> fields[1]]
  <2>1. Is(J, 0 + 1)
    OBVIOUS
  <2> HIDE DEF J, Is
  <2> QED BY <2>1
<1>2. ASSUME NEW m \in Nat, m \in Q PROVE m + 1 \in Q
  <2>1. PICK J : Is(J, m + 1)
    BY <1>2
  <2> DEFINE F == [k \in 1 .. (m + 1) + 1 |->
                     IF k = m + 2 THEN J[m + 1] \o <<Delimiter>> \o fields[m + 2] ELSE J[k]]
  <2>2. ASSUME NEW k \in 1 .. (m + 1) + 1 PROVE F[k] = From(F, k)
    <3>1. CASE k = m + 2
      <4>1. /\ F[m + 1] = J[m + 1] /\ k - 1 = m + 1 /\ k # 1
            /\ F[k] = J[m + 1] \o <<Delimiter>> \o fields[m + 2]
        <5>1. m + 1 \in 1 .. (m + 1) + 1 /\ m + 2 \in 1 .. (m + 1) + 1 /\ m + 1 # m + 2
          OBVIOUS
        <5>2. F[m + 1] = J[m + 1] /\ F[m + 2] = J[m + 1] \o <<Delimiter>> \o fields[m + 2]
          BY <5>1
        <5> HIDE DEF F
        <5> QED BY <3>1, <5>2
      <4> HIDE DEF F
      <4> QED BY <3>1, <4>1
    <3>2. CASE k \in 2 .. m + 1
      <4>1. F[k - 1] = J[k - 1] /\ F[k] = J[k] /\ k # 1
        BY <3>2
      <4>2. J[k] = J[k - 1] \o <<Delimiter>> \o fields[k]
        <5>1. J[k] = From(J, k) /\ k # 1
          <6>1. k \in 1 .. m + 1 /\ k # 1
            BY <3>2
          <6>2. \A j \in 1 .. m + 1 : J[j] = From(J, j)
            BY <2>1
          <6> HIDE DEF From
          <6> QED BY <6>1, <6>2
        <5> QED BY <5>1
      <4> HIDE DEF F
      <4> QED BY <4>1, <4>2
    <3>3. CASE k = 1
      <4>1. J[1] = fields[1] /\ F[1] = J[1]
        BY <2>1
      <4> HIDE DEF F
      <4> QED BY <3>3, <4>1
    <3> QED BY <3>1, <3>2, <3>3
  <2>3. Is(F, (m + 1) + 1)
    BY <2>2
  <2> HIDE DEF F, Is
  <2> QED BY <2>3
<1>3. \E J : Is(J, n)
  <2>1. Nat \subseteq Q
    <3> HIDE DEF Q
    <3> QED BY <1>1, <1>2, NatSetInduction
  <2>2. n - 1 \in Nat /\ (n - 1) + 1 = n
    OBVIOUS
  <2>3. n - 1 \in Q
    BY <2>1, <2>2
  <2> HIDE DEF Is
  <2> QED BY <2>2, <2>3
<1> DEFINE Js(J) == J = [k \in 1 .. Len(fields) |-> From(J, k)]
           W == CHOOSE J : Js(J)
<1>4. Js(W)
  <2>1. \E J : Js(J)
    BY <1>0, <1>3
  <2> HIDE DEF Js
  <2> QED BY <2>1
<1>5. Join(fields) = W[Len(fields)]
  BY DEF Join
<1> HIDE DEF W
<1>6. Joins(W, fields, n)
  <2>1. \A k \in 1 .. n : W[k] = From(W, k)
    BY <1>0, <1>4
  <2>2. W[1] = fields[1]
    BY <2>1
  <2>3. ASSUME NEW k \in 2 .. n PROVE W[k] = W[k - 1] \o <<Delimiter>> \o fields[k]
    <3>1. W[k] = From(W, k) /\ k # 1
      BY <2>1
    <3> QED BY <3>1
  <2> QED BY <2>2, <2>3 DEF Joins
<1> QED BY <1>0, <1>5, <1>6

\* Where the fields end in what Join makes of them.
Ends(J, n) == [k \in 0 .. n |-> IF k = 0 THEN 0 ELSE Len(J[k]) + 1]

\* The bytes of two texts one after the other.
LEMMA Bytes2 ==
  ASSUME NEW s \in Seq(Byte), NEW t \in Seq(Byte)
  PROVE  /\ s \o t \in Seq(Byte) /\ Len(s \o t) = Len(s) + Len(t)
         /\ Len(s) \in Nat /\ Len(t) \in Nat
         /\ \A i \in 1 .. Len(s) : (s \o t)[i] = s[i]
         /\ \A i \in 1 .. Len(t) : (s \o t)[Len(s) + i] = t[i]
<1>1. Len(s) \in Nat /\ Len(t) \in Nat
  OBVIOUS
<1>2. s \o t \in Seq(Byte) /\ Len(s \o t) = Len(s) + Len(t)
  OBVIOUS
<1>3. \A i \in 1 .. Len(s) : (s \o t)[i] = s[i]
  OBVIOUS
<1>4. \A i \in 1 .. Len(t) : (s \o t)[Len(s) + i] = t[i]
  OBVIOUS
<1> QED BY <1>1, <1>2, <1>3, <1>4

\* The text of the first k fields is one, it ends with the field k, and it
\* begins with the text of those before it and a delimiter.
PieceAt(J, fields, p, k) ==
    /\ J[k] \in Texts /\ Len(J[k]) \in Nat
    /\ p[k - 1] \in Nat /\ p[k] = p[k - 1] + Len(fields[k]) + 1
    /\ \A i \in 1 .. Len(fields[k]) : J[k][p[k - 1] + i] = fields[k][i]
    /\ k > 1 => /\ J[k][p[k - 1]] = Delimiter
                /\ \A i \in 1 .. Len(J[k - 1]) : J[k][i] = J[k - 1][i]

\* The text of the first k fields has their bytes, and delimiters between them.
LEMMA JoinPieces ==
  ASSUME NEW n \in Nat \ {0}, NEW fields, \A k \in 1 .. n : fields[k] \in Texts,
         NEW J, Joins(J, fields, n), NEW p, p = Ends(J, n), NEW k \in 1 .. n
  PROVE  PieceAt(J, fields, p, k)
<1> SUFFICES /\ J[k] \in Texts /\ Len(J[k]) \in Nat
             /\ p[k - 1] \in Nat /\ p[k] = p[k - 1] + Len(fields[k]) + 1
             /\ \A i \in 1 .. Len(fields[k]) : J[k][p[k - 1] + i] = fields[k][i]
             /\ k > 1 => /\ J[k][p[k - 1]] = Delimiter
                         /\ \A i \in 1 .. Len(J[k - 1]) : J[k][i] = J[k - 1][i]
  BY DEF PieceAt
<1> DEFINE Q == {m \in Nat : m < n => J[m + 1] \in Texts}
<1>a. \A m \in 1 .. n : fields[m] \in Seq(Byte) /\ Len(fields[m]) \in Nat
  BY DEF Texts
<1>b. <<Delimiter>> \in Seq(Byte) /\ Len(<<Delimiter>>) = 1
  BY DEF Delimiter, Byte
<1>1. 0 \in Q
  BY DEF Joins
<1>2. ASSUME NEW m \in Nat, m \in Q PROVE m + 1 \in Q
  <2> SUFFICES ASSUME m + 1 < n PROVE J[(m + 1) + 1] \in Texts
    OBVIOUS
  <2>1. m + 2 \in 2 .. n /\ (m + 2) - 1 = m + 1 /\ (m + 1) + 1 = m + 2 /\ m + 2 \in 1 .. n /\ m < n
    OBVIOUS
  <2>2. J[m + 2] = J[m + 1] \o <<Delimiter>> \o fields[m + 2]
    BY <2>1 DEF Joins
  <2>3. J[m + 1] \in Seq(Byte)
    BY <1>2, <2>1 DEF Texts
  <2> DEFINE s == J[m + 1]
             d == <<Delimiter>>
             f == fields[m + 2]
  <2>4. s \in Seq(Byte) /\ d \in Seq(Byte) /\ f \in Seq(Byte) /\ J[m + 2] = (s \o d) \o f
    BY <1>a, <1>b, <2>1, <2>2, <2>3
  <2> HIDE DEF s, d, f
  <2>5. s \o d \in Seq(Byte)
    BY <2>4, Bytes2
  <2>6. (s \o d) \o f \in Seq(Byte)
    BY <2>4, <2>5, Bytes2
  <2> QED BY <2>1, <2>4, <2>6 DEF Texts
<1>3. Nat \subseteq Q
  <2> HIDE DEF Q
  <2> QED BY <1>1, <1>2, NatSetInduction
<1>4. \A m \in 1 .. n : J[m] \in Seq(Byte) /\ Len(J[m]) \in Nat
  <2> SUFFICES ASSUME NEW m \in 1 .. n PROVE J[m] \in Seq(Byte)
    OBVIOUS
  <2>1. m - 1 \in Nat /\ m - 1 < n /\ (m - 1) + 1 = m
    OBVIOUS
  <2>2. m - 1 \in Q
    BY <1>3, <2>1
  <2> QED BY <2>1, <2>2 DEF Texts
<1>5. CASE k = 1
  <2>1. p[0] = 0 /\ p[1] = Len(J[1]) + 1 /\ J[1] = fields[1]
    BY <1>5 DEF Ends, Joins
  <2> QED BY <1>a, <1>4, <1>5, <2>1 DEF Texts
<1>6. CASE k > 1
  <2>0. k \in 2 .. n /\ k - 1 \in 1 .. n
    BY <1>6
  <2>1. J[k] = J[k - 1] \o <<Delimiter>> \o fields[k]
    BY <2>0 DEF Joins
  <2>2. p[k - 1] = Len(J[k - 1]) + 1 /\ p[k] = Len(J[k]) + 1
    <3>1. k \in 0 .. n /\ k - 1 \in 0 .. n /\ k # 0 /\ k - 1 # 0
      BY <2>0
    <3> QED BY <3>1 DEF Ends
  <2> DEFINE s == J[k - 1]
             f == fields[k]
             d == <<Delimiter>>
  <2>3. s \in Seq(Byte) /\ f \in Seq(Byte) /\ d \in Seq(Byte) /\ Len(d) = 1 /\ d[1] = Delimiter
        /\ Len(s) \in Nat /\ Len(f) \in Nat
    BY <1>a, <1>b, <1>4, <2>0
  <2>4. J[k] = (s \o d) \o f
    BY <2>1
  <2> HIDE DEF s, f, d
  <2>5. /\ s \o d \in Seq(Byte) /\ Len(s \o d) = Len(s) + 1
        /\ \A i \in 1 .. Len(s) : (s \o d)[i] = s[i]
        /\ (s \o d)[Len(s) + 1] = Delimiter
    <3>1. 1 \in 1 .. Len(d)
      BY <2>3
    <3>2. /\ s \o d \in Seq(Byte) /\ Len(s \o d) = Len(s) + Len(d)
          /\ \A i \in 1 .. Len(s) : (s \o d)[i] = s[i]
          /\ \A i \in 1 .. Len(d) : (s \o d)[Len(s) + i] = d[i]
      BY <2>3, Bytes2
    <3> QED BY <2>3, <3>1, <3>2
  <2> DEFINE q == s \o d
  <2>6. /\ q \in Seq(Byte) /\ Len(q) = Len(s) + 1 /\ J[k] = q \o f
    BY <2>4, <2>5
  <2>7. /\ \A i \in 1 .. Len(s) : q[i] = s[i]
        /\ q[Len(s) + 1] = Delimiter
    BY <2>5
  <2> HIDE DEF q
  <2>8. /\ Len(J[k]) = Len(q) + Len(f)
        /\ \A i \in 1 .. Len(q) : J[k][i] = q[i]
        /\ \A i \in 1 .. Len(f) : J[k][Len(q) + i] = f[i]
    <3>1. /\ Len(q \o f) = Len(q) + Len(f)
          /\ \A i \in 1 .. Len(q) : (q \o f)[i] = q[i]
          /\ \A i \in 1 .. Len(f) : (q \o f)[Len(q) + i] = f[i]
      <4>1. q \in Seq(Byte) /\ f \in Seq(Byte)
        BY <2>3, <2>6
      <4> QED BY <4>1, Bytes2
    <3> QED BY <2>6, <3>1
  <2>9. p[k - 1] = Len(q) /\ p[k] = p[k - 1] + Len(f) + 1 /\ p[k - 1] \in Nat
    BY <2>2, <2>3, <2>6, <2>8 DEF s
  <2>10. /\ J[k][p[k - 1]] = Delimiter
         /\ \A i \in 1 .. Len(s) : J[k][i] = s[i]
    BY <2>3, <2>6, <2>7, <2>8, <2>9
  <2>11. \A i \in 1 .. Len(f) : J[k][p[k - 1] + i] = f[i]
    BY <2>8, <2>9
  <2>12. J[k] \in Texts /\ Len(J[k]) \in Nat
    BY <1>4 DEF Texts
  <2> QED BY <2>9, <2>10, <2>11, <2>12 DEF s, f
<1> QED BY <1>5, <1>6

\* The ends of the fields in the order of the fields.
LEMMA EndsGrow ==
  ASSUME NEW n \in Nat \ {0}, NEW fields, \A k \in 1 .. n : fields[k] \in Texts,
         NEW J, Joins(J, fields, n), NEW p, p = Ends(J, n),
         NEW j \in 0 .. n, NEW k \in 0 .. n
  PROVE  p[k] \in Nat /\ p[0] = 0 /\ (j < k => p[j] < p[k])
<1>0. ASSUME NEW m \in 1 .. n PROVE p[m - 1] \in Nat /\ p[m] = p[m - 1] + Len(fields[m]) + 1
  <2>1. PieceAt(J, fields, p, m)
    BY JoinPieces
  <2> QED BY <2>1 DEF PieceAt
<1>1. ASSUME NEW m \in 1 .. n PROVE p[m - 1] \in Nat /\ p[m] \in Nat /\ p[m - 1] < p[m]
  <2>1. p[m - 1] \in Nat /\ p[m] = p[m - 1] + Len(fields[m]) + 1
    BY <1>0
  <2>2. Len(fields[m]) \in Nat
    BY DEF Texts
  <2> QED BY <2>1, <2>2
<1>2. p[0] = 0
  BY DEF Ends
<1>3. \A m \in 0 .. n : p[m] \in Nat
  BY <1>1, <1>2
<1> DEFINE Q == {m \in Nat : j + m + 1 <= n => p[j] < p[j + m + 1]}
<1>4. 0 \in Q
  <2> SUFFICES ASSUME j + 0 + 1 <= n PROVE p[j] < p[j + 0 + 1]
    OBVIOUS
  <2>1. j + 1 \in 1 .. n /\ (j + 1) - 1 = j /\ j + 0 + 1 = j + 1
    OBVIOUS
  <2> QED BY <1>1, <2>1
<1>5. ASSUME NEW m \in Nat, m \in Q PROVE m + 1 \in Q
  <2> SUFFICES ASSUME j + (m + 1) + 1 <= n PROVE p[j] < p[j + (m + 1) + 1]
    OBVIOUS
  <2> DEFINE o == j + m + 1
  <2>1. o \in 1 .. n /\ o + 1 \in 1 .. n /\ (o + 1) - 1 = o /\ j + (m + 1) + 1 = o + 1 /\ o <= n
    OBVIOUS
  <2>2. p[j] < p[o]
    BY <1>5, <2>1
  <2> HIDE DEF o
  <2>3. p[o] < p[o + 1]
    BY <1>1, <2>1
  <2>4. p[j] \in Nat /\ p[o] \in Nat /\ p[o + 1] \in Nat
    BY <1>3, <2>1
  <2> QED BY <2>1, <2>2, <2>3, <2>4
<1>6. Nat \subseteq Q
  <2> HIDE DEF Q
  <2> QED BY <1>4, <1>5, NatSetInduction
<1>7. j < k => p[j] < p[k]
  <2> SUFFICES ASSUME j < k PROVE p[j] < p[k]
    OBVIOUS
  <2>1. k - j - 1 \in Nat /\ j + (k - j - 1) + 1 = k
    OBVIOUS
  <2>2. k - j - 1 \in Q
    BY <1>6, <2>1
  <2> QED BY <2>1, <2>2
<1> QED BY <1>2, <1>3, <1>7

\* What comes later leaves the fields before it.
LEMMA JoinPrefix ==
  ASSUME NEW n \in Nat \ {0}, NEW fields, \A k \in 1 .. n : fields[k] \in Texts,
         NEW J, Joins(J, fields, n), NEW k \in 1 .. n
  PROVE  Len(J[k]) <= Len(J[n]) /\ \A i \in 1 .. Len(J[k]) : J[n][i] = J[k][i]
<1> DEFINE p == Ends(J, n)
<1>0. \A m \in 1 .. n : Len(J[m]) \in Nat /\ p[m] = Len(J[m]) + 1
  <2>1. \A m \in 1 .. n : PieceAt(J, fields, p, m)
    <3> HIDE DEF p
    <3> QED BY JoinPieces DEF p
  <2> QED BY <2>1 DEF Ends, PieceAt
<1>1. \A m \in 2 .. n : /\ Len(J[m - 1]) < Len(J[m])
                        /\ \A i \in 1 .. Len(J[m - 1]) : J[m][i] = J[m - 1][i]
  <2> SUFFICES ASSUME NEW m \in 2 .. n
               PROVE  /\ Len(J[m - 1]) < Len(J[m])
                      /\ \A i \in 1 .. Len(J[m - 1]) : J[m][i] = J[m - 1][i]
    OBVIOUS
  <2>1. m \in 1 .. n /\ m - 1 \in 1 .. n /\ m > 1 /\ m \in 0 .. n /\ m - 1 \in 0 .. n /\ m - 1 < m
    OBVIOUS
  <2>2. \A i \in 1 .. Len(J[m - 1]) : J[m][i] = J[m - 1][i]
    <3>1. PieceAt(J, fields, p, m)
      BY <2>1, JoinPieces
    <3> QED BY <2>1, <3>1 DEF PieceAt
  <2>3. p[m - 1] < p[m]
    BY <2>1, EndsGrow
  <2> HIDE DEF p
  <2> QED BY <1>0, <2>1, <2>2, <2>3
<1> HIDE DEF p
<1> DEFINE Same(m) == Len(J[k]) <= Len(J[k + m]) /\ \A i \in 1 .. Len(J[k]) : J[k + m][i] = J[k][i]
           Q == {m \in Nat : k + m <= n => Same(m)}
<1>2. 0 \in Q
  <2>1. k + 0 = k /\ Len(J[k]) <= Len(J[k])
    BY <1>0
  <2> QED BY <2>1
<1>3. ASSUME NEW m \in Nat, m \in Q PROVE m + 1 \in Q
  <2> SUFFICES ASSUME k + (m + 1) <= n PROVE Same(m + 1)
    OBVIOUS
  <2>1. k + m <= n /\ k + (m + 1) \in 2 .. n /\ (k + (m + 1)) - 1 = k + m /\ k + m \in 1 .. n
        /\ k + (m + 1) \in 1 .. n
    OBVIOUS
  <2> DEFINE x == k + m
             y == k + (m + 1)
  <2>2. Len(J[k]) <= Len(J[x]) /\ \A i \in 1 .. Len(J[k]) : J[x][i] = J[k][i]
    BY <1>3, <2>1
  <2>3. y \in 2 .. n /\ y - 1 = x /\ x \in 1 .. n /\ y \in 1 .. n
    BY <2>1
  <2> HIDE DEF x, y
  <2>4. Len(J[x]) < Len(J[y]) /\ \A i \in 1 .. Len(J[x]) : J[y][i] = J[x][i]
    BY <1>1, <2>3
  <2>5. Len(J[k]) \in Nat /\ Len(J[x]) \in Nat /\ Len(J[y]) \in Nat
    BY <1>0, <2>3
  <2>6. Len(J[k]) <= Len(J[y]) /\ \A i \in 1 .. Len(J[k]) : J[y][i] = J[k][i]
    BY <2>2, <2>4, <2>5
  <2> QED BY <2>6 DEF y
<1>4. Nat \subseteq Q
  <2> HIDE DEF Q
  <2> QED BY <1>2, <1>3, NatSetInduction
<1>5. n - k \in Nat /\ k + (n - k) = n
  OBVIOUS
<1>6. n - k \in Q
  BY <1>4, <1>5
<1> QED BY <1>5, <1>6

\* The line L has its fields between the ends p.
Laid(L, fields, n, p) ==
    /\ L \in Texts /\ Len(L) \in Nat /\ p[n] = Len(L) + 1
    /\ \A k \in 1 .. n : \A i \in 1 .. Len(fields[k]) : L[p[k - 1] + i] = fields[k][i]
    /\ EndsOf(L) = {p[k] : k \in 1 .. n}

\* So has the line that Join makes.
LEMMA JoinIs ==
  ASSUME NEW n \in Nat \ {0}, NEW fields, \A k \in 1 .. n : IsField(fields[k]),
         NEW J, Joins(J, fields, n), NEW p, p = Ends(J, n)
  PROVE  Laid(J[n], fields, n, p)
<1> DEFINE L == J[n]
<1>0. \A k \in 1 .. n : fields[k] \in Texts /\ Len(fields[k]) \in Nat
  BY DEF IsField, Texts
<1>1. \A m \in 1 .. n : /\ J[m] \in Texts /\ Len(J[m]) \in Nat
                        /\ p[m - 1] \in Nat /\ p[m] = p[m - 1] + Len(fields[m]) + 1
                        /\ \A i \in 1 .. Len(fields[m]) : J[m][p[m - 1] + i] = fields[m][i]
                        /\ m > 1 => J[m][p[m - 1]] = Delimiter
  <2>1. \A m \in 1 .. n : PieceAt(J, fields, p, m)
    BY <1>0, JoinPieces
  <2> QED BY <2>1 DEF PieceAt
<1>2. \A m \in 1 .. n : p[m] = Len(J[m]) + 1
  BY DEF Ends
<1>3. \A m \in 1 .. n : Len(J[m]) <= Len(L) /\ \A i \in 1 .. Len(J[m]) : L[i] = J[m][i]
  BY <1>0, JoinPrefix
<1>4. \A k \in 0 .. n : p[k] \in Nat /\ p[0] = 0
  BY <1>0, EndsGrow
<1>5. \A j, k \in 0 .. n : j < k => p[j] < p[k]
  BY <1>0, EndsGrow
<1>6. n \in 1 .. n
  OBVIOUS
<1>7. Len(L) \in Nat /\ p[n] = Len(L) + 1 /\ L \in Texts
  BY <1>1, <1>2, <1>6
<1> HIDE DEF L
<1>8. ASSUME NEW k \in 1 .. n, NEW i \in 1 .. Len(fields[k])
      PROVE  L[p[k - 1] + i] = fields[k][i]
  <2>1. p[k - 1] \in Nat /\ p[k] = p[k - 1] + Len(fields[k]) + 1 /\ p[k] = Len(J[k]) + 1
        /\ Len(fields[k]) \in Nat /\ Len(J[k]) \in Nat
    BY <1>0, <1>1, <1>2
  <2>2. p[k - 1] + i \in 1 .. Len(J[k])
    BY <2>1
  <2> QED BY <1>1, <1>3, <2>2
<1>9. ASSUME NEW k \in 1 .. n PROVE p[k] \in EndsOf(L)
  <2>1. CASE k = n
    BY <1>7, <2>1 DEF EndsOf
  <2>2. CASE k < n
    <3>1. k + 1 \in 1 .. n /\ (k + 1) - 1 = k /\ k + 1 > 1 /\ k \in 0 .. n /\ k + 1 \in 0 .. n /\ k < k + 1
          /\ 0 \in 0 .. n /\ 0 < k
      BY <2>2
    <3>2. J[k + 1][p[k]] = Delimiter
      BY <1>1, <3>1
    <3>3. p[k] \in Nat /\ p[k] > 0 /\ p[k] < p[k + 1] /\ p[k + 1] = Len(J[k + 1]) + 1
          /\ Len(J[k + 1]) \in Nat
      BY <1>1, <1>2, <1>4, <1>5, <3>1
    <3>4. p[k] \in 1 .. Len(J[k + 1])
      BY <3>3
    <3>5. Len(J[k + 1]) <= Len(L) /\ L[p[k]] = J[k + 1][p[k]]
      BY <1>3, <3>1, <3>4
    <3>6. p[k] \in 1 .. Len(L)
      BY <1>7, <3>3, <3>4, <3>5
    <3> QED BY <3>2, <3>5, <3>6 DEF EndsOf
  <2> QED BY <2>1, <2>2
<1>10. ASSUME NEW o \in EndsOf(L) PROVE \E k \in 1 .. n : o = p[k]
  <2>1. CASE o = Len(L) + 1
    BY <1>6, <1>7, <2>1
  <2>2. CASE o \in 1 .. Len(L) /\ L[o] = Delimiter
    <3> DEFINE S == {k \in 1 .. n : o <= p[k]}
    <3>1. n \in S /\ S \subseteq Nat
      BY <1>6, <1>7, <2>2
    <3>2. PICK k \in S : \A j \in S : k <= j
      <4> HIDE DEF S
      <4> QED BY <3>1, LeastExists
    <3>3. k \in 1 .. n /\ o <= p[k]
      BY <3>2
    <3>4. p[k - 1] < o
      <4>1. CASE k = 1
        BY <1>4, <2>2, <3>3, <4>1
      <4>2. CASE k # 1
        <5>1. k - 1 \in 1 .. n /\ ~(k <= k - 1)
          BY <3>3, <4>2
        <5>2. ~(o <= p[k - 1])
          BY <3>2, <5>1
        <5>3. p[k - 1] \in Nat
          BY <1>4, <5>1
        <5> QED BY <1>7, <2>2, <5>2, <5>3
      <4> QED BY <4>1, <4>2
    <3> HIDE DEF S
    <3>5. ASSUME o < p[k] PROVE FALSE
      <4> DEFINE x == o - p[k - 1]
      <4>1. p[k - 1] \in Nat /\ p[k] = p[k - 1] + Len(fields[k]) + 1 /\ Len(fields[k]) \in Nat
        BY <1>0, <1>1, <3>3
      <4>2. x \in 1 .. Len(fields[k]) /\ o = p[k - 1] + x
        BY <1>7, <2>2, <3>4, <3>5, <4>1
      <4> HIDE DEF x
      <4>3. fields[k][x] = Delimiter
        BY <1>8, <2>2, <3>3, <4>2
      <4> QED BY <3>3, <4>2, <4>3 DEF IsField
    <3>6. p[k] \in Nat
      BY <1>4, <3>3
    <3> QED BY <1>7, <2>2, <3>3, <3>5, <3>6
  <2> QED BY <2>1, <2>2 DEF EndsOf
<1> QED BY <1>7, <1>8, <1>9, <1>10 DEF L, Laid

\* The ends are enumerated as they grow.
LEMMA EnumeratesGrowing ==
  ASSUME NEW n \in Nat \ {0}, NEW p, p[0] = 0, \A k \in 0 .. n : p[k] \in Nat,
         \A j, k \in 0 .. n : j < k => p[j] < p[k],
         NEW ends, IsFiniteSet(ends), ends = {p[k] : k \in 1 .. n}, NEW E, Enumerates(E, ends)
  PROVE  Cardinality(ends) = n /\ \A k \in 0 .. n : E[k] = p[k]
<1> DEFINE M == Cardinality(ends)
<1>0. M \in Nat
  BY FS_CardinalityType
<1>1. \A o \in ends : o \in Nat /\ o > 0
  <2> SUFFICES ASSUME NEW k \in 1 .. n PROVE p[k] \in Nat /\ p[k] > 0
    OBVIOUS
  <2>1. k \in 0 .. n /\ 0 \in 0 .. n /\ 0 < k
    OBVIOUS
  <2> QED BY <2>1
<1>2. \A k \in 1 .. M : /\ E[k] \in ends /\ E[k - 1] < E[k]
                        /\ \A o \in ends : o > E[k - 1] => E[k] <= o
                        /\ Cardinality({o \in ends : o <= E[k]}) = k
  BY <1>1, EndsInOrder
<1>3. \A k \in 1 .. n : p[k] \in ends
  OBVIOUS
<1>4. \A o \in ends : \E k \in 1 .. n : o = p[k]
  OBVIOUS
<1>5. E[0] = 0
  BY DEF Enumerates
<1> HIDE DEF M
<1> DEFINE Q == {k \in Nat : k <= n /\ k <= M => E[k] = p[k]}
<1>6. 0 \in Q
  BY <1>5
<1>7. ASSUME NEW k \in Nat, k \in Q PROVE k + 1 \in Q
  <2> SUFFICES ASSUME k + 1 <= n, k + 1 <= M PROVE E[k + 1] = p[k + 1]
    OBVIOUS
  <2>1. E[k] = p[k]
    BY <1>0, <1>7
  <2>2. k + 1 \in 1 .. M /\ k + 1 \in 1 .. n /\ (k + 1) - 1 = k /\ k \in 0 .. n /\ k + 1 \in 0 .. n
    BY <1>0
  <2>3. E[k + 1] \in ends /\ p[k] < E[k + 1] /\ \A o \in ends : o > p[k] => E[k + 1] <= o
    BY <1>2, <2>1, <2>2
  <2>4. p[k] < p[k + 1] /\ p[k + 1] \in ends
    BY <1>3, <2>2
  <2>5. E[k + 1] <= p[k + 1]
    BY <2>2, <2>3, <2>4
  <2>6. PICK j \in 1 .. n : E[k + 1] = p[j]
    BY <1>4, <2>3
  <2>7. j \in 0 .. n /\ p[j] \in Nat /\ p[k] \in Nat /\ p[k + 1] \in Nat
    BY <2>2
  <2>8. ~(j < k) /\ j # k
    BY <2>2, <2>3, <2>6, <2>7
  <2>9. ~(k + 1 < j)
    BY <2>2, <2>5, <2>6, <2>7
  <2>10. j = k + 1
    BY <2>7, <2>8, <2>9
  <2> QED BY <2>6, <2>10
<1>8. Nat \subseteq Q
  <2> HIDE DEF Q
  <2> QED BY <1>6, <1>7, NatSetInduction
<1>9. M <= n
  <2> SUFFICES ASSUME n + 1 <= M PROVE FALSE
    BY <1>0
  <2>1. n + 1 \in 1 .. M /\ (n + 1) - 1 = n /\ n <= M
    BY <1>0
  <2>2. E[n] = p[n]
    BY <1>8, <2>1
  <2>3. E[n + 1] \in ends /\ p[n] < E[n + 1]
    BY <1>2, <2>1, <2>2
  <2>4. PICK j \in 1 .. n : E[n + 1] = p[j]
    BY <1>4, <2>3
  <2>5. j \in 0 .. n /\ n \in 0 .. n /\ p[j] \in Nat /\ p[n] \in Nat
    OBVIOUS
  <2>6. ~(n < j)
    BY <2>5
  <2> QED BY <2>3, <2>4, <2>5
<1>10. M = n
  <2> SUFFICES ASSUME M < n PROVE FALSE
    BY <1>0, <1>9
  <2>1. M # 0
    <3>0. 1 \in 1 .. n
      OBVIOUS
    <3>1. ends # {}
      BY <1>3, <3>0
    <3> QED BY <3>1, FS_EmptySet DEF M
  <2>2. M \in 1 .. M /\ E[M] = p[M] /\ M \in 0 .. n /\ M + 1 \in 0 .. n /\ M < M + 1 /\ M + 1 \in 1 .. n
    BY <1>0, <1>8, <2>1
  <2> DEFINE B == {o \in ends : o <= E[M]}
  <2>3. Cardinality(B) = Cardinality(ends) /\ B \in SUBSET ends
    BY <1>2, <2>2 DEF M
  <2>4. B = ends
    <3> HIDE DEF B
    <3> QED BY <2>3, FS_Subset
  <2>5. p[M + 1] \in ends
    BY <1>3, <2>2
  <2>6. p[M + 1] <= p[M]
    BY <2>2, <2>4, <2>5
  <2>7. p[M] < p[M + 1] /\ p[M] \in Nat /\ p[M + 1] \in Nat
    BY <2>2
  <2> QED BY <2>6, <2>7
<1>11. ASSUME NEW k \in 0 .. n PROVE E[k] = p[k]
  <2>1. k \in Q /\ k <= n /\ k <= M
    BY <1>8, <1>10
  <2> QED BY <2>1
<1> QED BY <1>10, <1>11 DEF M

\* Split gives back what Join was given.
LEMMA SplitJoin ==
  ASSUME NEW n \in Nat \ {0}, NEW fields, fields = [k \in 1 .. n |-> fields[k]],
         \A k \in 1 .. n : IsField(fields[k])
  PROVE  Join(fields) \in Texts /\ Split(Join(fields)) = fields
<1>0. \A k \in 1 .. n : fields[k] \in Texts /\ Len(fields[k]) \in Nat
  BY DEF IsField, Texts
<1>1. PICK J : Joins(J, fields, n) /\ Join(fields) = J[n]
  BY JoinRecursion
<1>a. PICK p : p = Ends(J, n)
  OBVIOUS
<1>b. Laid(J[n], fields, n, p)
  <2>1. Joins(J, fields, n)
    BY <1>1
  <2> QED BY <1>a, <2>1, JoinIs
<1>c. \A k \in 1 .. n : fields[k] \in Texts
  BY <1>0
<1>d. Joins(J, fields, n)
  BY <1>1
<1>e. PICK L : L = J[n]
  OBVIOUS
<1>2. /\ L \in Texts /\ Len(L) \in Nat /\ p[n] = Len(L) + 1
      /\ \A k \in 1 .. n : \A i \in 1 .. Len(fields[k]) : L[p[k - 1] + i] = fields[k][i]
      /\ EndsOf(L) = {p[k] : k \in 1 .. n}
  BY <1>b, <1>e DEF Laid
<1>3. \A k \in 0 .. n : p[k] \in Nat /\ p[0] = 0
  BY <1>0, <1>1, <1>a, EndsGrow
<1>4. \A j, k \in 0 .. n : j < k => p[j] < p[k]
  BY <1>0, <1>1, <1>a, EndsGrow
<1>5. \A k \in 1 .. n : p[k - 1] \in Nat /\ p[k] = p[k - 1] + Len(fields[k]) + 1
  <2>1. \A k \in 1 .. n : PieceAt(J, fields, p, k)
    BY <1>c, <1>d, <1>a, JoinPieces
  <2> QED BY <2>1 DEF PieceAt
<1>6. PICK E : /\ Enumerates(E, EndsOf(L))
               /\ Split(L) = [k \in 1 .. Cardinality(EndsOf(L)) |->
                                SubSeq(L, E[k - 1] + 1, E[k] - 1)]
  BY <1>2, SplitRecursion
<1>7. IsFiniteSet(EndsOf(L)) /\ p[0] = 0
  <2>1. 0 \in 0 .. n
    OBVIOUS
  <2> QED BY <1>2, <1>3, <2>1, EndsFinite
<1>8. Cardinality(EndsOf(L)) = n /\ \A k \in 0 .. n : E[k] = p[k]
  BY <1>2, <1>3, <1>4, <1>6, <1>7, EnumeratesGrowing
<1>9. ASSUME NEW k \in 1 .. n PROVE SubSeq(L, E[k - 1] + 1, E[k] - 1) = fields[k]
  <2>1. E[k - 1] = p[k - 1] /\ E[k] = p[k]
    <3>1. k \in 0 .. n /\ k - 1 \in 0 .. n
      OBVIOUS
    <3> QED BY <1>8, <3>1
  <2> DEFINE a == p[k - 1]
             f == fields[k]
             s == SubSeq(L, a + 1, a + Len(f))
  <2>2. a \in Nat /\ Len(f) \in Nat /\ f \in Seq(Byte) /\ p[k] - 1 = a + Len(f)
    BY <1>0, <1>5 DEF Texts
  <2>3. \A i \in 1 .. Len(f) : L[a + i] = f[i]
    BY <1>2
  <2>4. SubSeq(L, E[k - 1] + 1, E[k] - 1) = s
    BY <2>1, <2>2
  <2> HIDE DEF a, f
  <2>5. \A i \in a + 1 .. a + Len(f) : L[i] \in Byte
    <3> SUFFICES ASSUME NEW i \in a + 1 .. a + Len(f) PROVE L[i] \in Byte
      OBVIOUS
    <3>1. i - a \in 1 .. Len(f) /\ a + (i - a) = i
      BY <2>2
    <3>2. L[i] = f[i - a]
      BY <2>3, <3>1
    <3> QED BY <2>2, <3>1, <3>2
  <2>6. a + 1 \in Int /\ a + Len(f) \in Int
    BY <2>2
  <2>7. /\ s \in Seq(Byte)
        /\ Len(s) = IF a + 1 <= a + Len(f) THEN (a + Len(f)) - (a + 1) + 1 ELSE 0
        /\ \A i \in 1 .. (a + Len(f)) - (a + 1) + 1 : s[i] = L[(a + 1) + i - 1]
    <3> HIDE DEF s
    <3> QED BY <2>5, <2>6, SubSeqProperties DEF s
  <2> HIDE DEF s
  <2>8. Len(s) = Len(f)
    BY <2>2, <2>7
  <2>9. \A i \in 1 .. Len(f) : s[i] = f[i]
    <3> SUFFICES ASSUME NEW i \in 1 .. Len(f) PROVE s[i] = f[i]
      OBVIOUS
    <3>1. i \in 1 .. (a + Len(f)) - (a + 1) + 1 /\ (a + 1) + i - 1 = a + i
      BY <2>2
    <3> QED BY <2>3, <2>7, <3>1
  <2>10. s = f
    BY <2>2, <2>7, <2>8, <2>9, SeqEqual
  <2> QED BY <2>4, <2>10 DEF f
<1>10. Split(L) = [k \in 1 .. n |-> fields[k]]
  BY <1>6, <1>8, <1>9
<1> QED BY <1>1, <1>e, <1>2, <1>10

-----------------------------------------------------------------------------
(* The rows of a table of texts *)

\* The fields of a line of a table of texts are fields, and decode to texts.
LEMMA RawTexts ==
  ASSUME NEW tb, IsTable(tb), tb.family = "text", NEW j \in DOMAIN tb.lines,
         NEW i \in DOMAIN tb.columns
  PROVE  IsField(Raw(tb, j)[i]) /\ Value(tb, Raw(tb, j)[i]) \in TextValues
<1> DEFINE line == tb.lines[j]
           raw == Split(line)
<1>1. IsLine(line)
  BY DEF IsTable
<1>2. line \in Texts /\ Raw(tb, j) = raw
  BY <1>1 DEF IsLine, Raw, Fields
<1>3. i \in DOMAIN raw
  <2>1. Len(Fields(tb, line)) >= Len(tb.columns) /\ Fields(tb, line) = raw
    BY DEF IsTable, Fields
  <2>2. DOMAIN tb.columns = 1 .. Len(tb.columns) /\ Len(tb.columns) \in Nat
    BY SeqIsSeq DEF IsTable, IsSeq
  <2>3. DOMAIN raw = 1 .. Len(raw) /\ Len(raw) \in Nat
    <3> HIDE DEF line
    <3>1. IsSeq(Split(line))
      BY <1>2, SplitIs
    <3>2. DOMAIN Split(line) = 1 .. Len(Split(line))
      BY <3>1, SeqIsSeq
    <3> QED BY <3>1, <3>2 DEF IsSeq
  <2> HIDE DEF raw, line
  <2> QED BY <2>1, <2>2, <2>3
<1>4. IsField(raw[i])
  <2> HIDE DEF line
  <2> QED BY <1>2, <1>3, SplitIs
<1>5. DecodeAttr(raw[i]) # Fail
  BY <1>1, <1>3 DEF IsLine
<1> HIDE DEF raw, line
<1>6. DecodeAttr(raw[i]) \in TextValues \cup {Fail}
  BY <1>4, DecodeTexts DEF IsField
<1> QED BY <1>2, <1>4, <1>5, <1>6 DEF Value

\* The row whose cells are texts is one of texts.
LEMMA RowOfTexts ==
  ASSUME NEW tb, IsTable(tb), tb.family = "text", NEW j \in DOMAIN tb.lines, NEW new,
         \A i \in DOMAIN tb.columns : new[i] \in TextValues \cup {Unset}
  PROVE  RowOf(tb, Raw(tb, j), new) \in TextRows(tb)
<1> DEFINE raw == Raw(tb, j)
<1>1. \A i \in DOMAIN tb.columns : CellOf(tb, raw, new, i) \in TextValues
  BY RawTexts DEF CellOf
<1> HIDE DEF raw
<1>2. \A c \in Names(tb) :
        CellOf(tb, raw, new, CHOOSE i \in DOMAIN tb.columns : tb.columns[i] = c) \in TextValues
  <2> SUFFICES ASSUME NEW c \in Names(tb)
               PROVE  (CHOOSE i \in DOMAIN tb.columns : tb.columns[i] = c) \in DOMAIN tb.columns
    BY <1>1
  <2>1. \E i \in DOMAIN tb.columns : tb.columns[i] = c
    BY DEF Names
  <2> QED BY <2>1
<1>3. RowOf(tb, raw, new) \in TextRows(tb)
  BY <1>2 DEF RowOf, TextRows
<1> QED BY <1>3 DEF raw

\* What a table of texts sets are texts, and it sees texts.
LEMMA RowTexts ==
  ASSUME TextsGiven, NEW tb, IsTable(tb), MadeChain(tb), tb.family = "text",
         NEW j \in DOMAIN tb.lines, NEW s \in 0 .. Len(tb.chain), NEW new,
         Reached(tb, Raw(tb, j), s, new)
  PROVE  /\ \A i \in DOMAIN tb.columns : new[i] \in TextValues \cup {Unset}
         /\ RowOf(tb, Raw(tb, j), new) \in TextRows(tb)
<1> DEFINE raw == Raw(tb, j)
           Texted(n) == \A i \in DOMAIN tb.columns : n[i] \in TextValues \cup {Unset}
<1>0. DOMAIN tb.chain = 1 .. Len(tb.chain) /\ Len(tb.chain) \in Nat
  BY SeqIsSeq DEF IsTable, IsSeq
<1>1. PICK x : Trace(tb, raw, s, x) /\ x[s] = new
  BY DEF Reached
<1>2. \A n : Texted(n) => RowOf(tb, raw, n) \in TextRows(tb)
  BY RowOfTexts
<1> HIDE DEF raw
<1> DEFINE Q == {k \in Nat : k <= s => Texted(x[k])}
<1>3. 0 \in Q
  <2>1. x[0] = Clear(tb)
    BY <1>1 DEF Trace
  <2>2. Texted(Clear(tb))
    BY DEF Clear
  <2> HIDE DEF Texted
  <2> QED BY <2>1, <2>2
<1>4. ASSUME NEW k \in Nat, k \in Q PROVE k + 1 \in Q
  <2> SUFFICES ASSUME k + 1 <= s PROVE Texted(x[k + 1])
    OBVIOUS
  <2>1. k + 1 \in DOMAIN tb.chain /\ k + 1 \in 1 .. s /\ (k + 1) - 1 = k
    BY <1>0
  <2>2. Texted(x[k])
    BY <1>4, <1>0
  <2>3. PICK t : Remembered(tb, k + 1, t) /\ StepOf(tb, raw, k + 1, t, x[k], x[k + 1])
    BY <1>1, <2>1 DEF Trace
  <2> DEFINE e == tb.chain[k + 1]
             r == RowOf(tb, raw, x[k])
  <2>4. Made(tb, e) /\ Like(t, New(tb, e)) /\ MakesTexts(tb, e.kind, t)
    BY <2>1, <2>3 DEF MadeChain, Remembered
  <2>5. r \in TextRows(tb)
    <3> HIDE DEF Texted
    <3> QED BY <1>2, <2>2
  <2>6. CASE x[k + 1] = x[k]
    BY <2>2, <2>6
  <2>7. CASE x[k + 1] # x[k]
    <3>1. PICK seed \in DrawOf(tb, r, t) :
            /\ AfterOf(e, t, r, seed) # Fail
            /\ x[k + 1] = NewOf(tb, r, t, x[k], AfterOf(e, t, r, seed))
      BY <2>3, <2>7 DEF StepOf
    <3> DEFINE after == AfterOf(e, t, r, seed)
    <3>2. after \in MadeRows(tb)
      <4> HIDE DEF e, r
      <4> QED BY <2>4, <2>5, <3>1, AfterTexts
    <3>3. \A i \in DOMAIN tb.columns : after[tb.columns[i]] \in TextValues \cup {Unset}
      <4> HIDE DEF after
      <4> QED BY <3>2 DEF MadeRows, Names
    <3>4. x[k + 1] = NewOf(tb, r, t, x[k], after)
      BY <3>1
    <3> HIDE DEF after, r
    <3> QED BY <2>2, <3>3, <3>4 DEF NewOf
  <2> QED BY <2>6, <2>7
<1>5. Nat \subseteq Q
  <2> HIDE DEF Q
  <2> QED BY <1>3, <1>4, NatSetInduction
<1>6. s \in Q
  BY <1>0, <1>5
<1>7. Texted(new)
  BY <1>0, <1>1, <1>6
<1>8. RowOf(tb, raw, new) \in TextRows(tb)
  BY <1>2, <1>7
<1> QED BY <1>7, <1>8 DEF raw

-----------------------------------------------------------------------------
(* The invariant of the run *)

\* The table is one, its row and what it shares have a place for each column.
HasTable ==
    /\ IsTable(table)
    /\ row = [raw |-> row.raw, new |-> row.new]
    /\ row.new = [i \in Cells |-> row.new[i]]
    /\ shared = [i \in Cells |-> shared[i]]

\* The transformers were all made, and each one may remember what it does.
HasMemory ==
    /\ \A k \in DOMAIN table.chain : Accepted(table, table.chain[k])
    /\ memory = [k \in DOMAIN table.chain |-> memory[k]]
    /\ \A k \in DOMAIN table.chain : Remembered(table, k, memory[k])

\* Each line that was written went through all of them.
HasWritten ==
    /\ Len(written) <= Len(table.lines)
    /\ \A j \in DOMAIN values : WrittenAs(table, j, values[j], written[j])

\* What a column shares, after s elements, it shares with an earlier one that
\* sets that column from its own values.
SharedAfter(tb, s, sh) ==
    \A i \in DOMAIN tb.columns : \A p \in sh[i] :
        /\ p[1] \in 1 .. s
        /\ tb.chain[p[1]].kind \in {"Dict", "RandomChoice", "Replace"}
        /\ WithParameters(tb.chain[p[1]]).column = tb.columns[i]

\* The row is that of the next line, and went through the elements before step.
HasRow ==
    /\ Len(written) < Len(table.lines)
    /\ row.raw = Raw(table, Len(written) + 1)
    /\ step \in 1 .. Len(table.chain) + 1
    /\ Reached(table, row.raw, step - 1, row.new)
    /\ SharedAfter(table, step - 1, shared)

\* What holds of every state.
RunInv ==
    /\ pc \in {"configure", "decode", "transform", "done", "refused", "failed"}
    /\ IsSeq(values) /\ IsSeq(written) /\ Len(written) = Len(values)
    /\ pc \in {"configure", "refused"} => values = <<>> /\ written = <<>>
    /\ pc # "configure" => HasTable
    /\ pc \notin {"configure", "refused"} => HasMemory /\ HasWritten
    /\ pc = "decode" => row.new = Clear(table)
    /\ pc = "transform" => HasRow

\* Nothing is a sequence too.
LEMMA EmptyIsSeq ==
  IsSeq(<<>>) /\ Len(<<>>) = 0 /\ DOMAIN <<>> = {}
  BY DEF IsSeq

\* The chain of a table whose elements are accepted is made.
LEMMA AcceptedMade ==
  ASSUME NEW tb, IsTable(tb), \A k \in DOMAIN tb.chain : Accepted(tb, tb.chain[k])
  PROVE  MadeChain(tb)
<1> SUFFICES ASSUME NEW k \in DOMAIN tb.chain PROVE Made(tb, tb.chain[k])
  BY DEF MadeChain
<1>1. Accepted(tb, tb.chain[k])
  OBVIOUS
<1>2. ParameterWarnings(tb, tb.chain[k]) = {}
  BY <1>1 DEF Accepted
<1>3. IsTransformer(tb, tb.chain[k])
  BY <1>2 DEF IsTable
<1> QED BY <1>1, <1>3 DEF Made

\* A transformer that was just made remembers nothing yet.
LEMMA NewRemembered ==
  ASSUME NEW tb, IsTable(tb), MadeChain(tb), NEW k \in DOMAIN tb.chain
  PROVE  Remembered(tb, k, New(tb, tb.chain[k]))
<1> DEFINE e == tb.chain[k]
           w == WithParameters(e)
           t == New(tb, e)
<1>1. Made(tb, e) /\ ParameterWarnings(tb, e) = {}
  BY DEF MadeChain, Made, Accepted
<1>2. t = [f \in DOMAIN t |-> t[f]] /\ (e.kind \notin RecordKinds => t = w)
  BY <1>1, NewIs
<1>3. tb.family = "text" => MakesTexts(tb, e.kind, w)
  BY <1>1 DEF IsTable
<1> HIDE DEF e, w, t
<1>4. Like(t, t)
  BY <1>2 DEF Like
<1>5. MakesTexts(tb, e.kind, w) => e.kind \notin RecordKinds
  BY DEF MakesTexts, RecordKinds
<1>6. tb.family = "text" => MakesTexts(tb, e.kind, t)
  BY <1>2, <1>3, <1>5
<1> QED BY <1>4, <1>6 DEF Remembered, e, t

\* It holds before anything is configured.
LEMMA RunStarts ==
  Init => RunInv
  BY EmptyIsSeq DEF Init, RunInv

\* It holds of the tables.
LEMMA RunConfigured ==
  ASSUME RunInv, Configure PROVE RunInv'
<1>0. PICK n \in DOMAIN Tables : \E tb \in Tables[n] :
         LET ok == tb.when # "broken" /\ \A k \in DOMAIN tb.chain : Accepted(tb, tb.chain[k])
         IN  /\ table' = tb
             /\ pc' = IF ok THEN "decode" ELSE "refused"
             /\ memory' = IF ok THEN [k \in DOMAIN tb.chain |-> New(tb, tb.chain[k])] ELSE <<>>
             /\ row' = [raw |-> [i \in DOMAIN tb.columns |-> Unset],
                        new |-> [i \in DOMAIN tb.columns |-> Unset]]
             /\ shared' = [i \in DOMAIN tb.columns |-> {}]
  BY DEF Configure
<1>1. PICK tb \in Tables[n] :
         LET ok == tb.when # "broken" /\ \A k \in DOMAIN tb.chain : Accepted(tb, tb.chain[k])
         IN  /\ table' = tb
             /\ pc' = IF ok THEN "decode" ELSE "refused"
             /\ memory' = IF ok THEN [k \in DOMAIN tb.chain |-> New(tb, tb.chain[k])] ELSE <<>>
             /\ row' = [raw |-> [i \in DOMAIN tb.columns |-> Unset],
                        new |-> [i \in DOMAIN tb.columns |-> Unset]]
             /\ shared' = [i \in DOMAIN tb.columns |-> {}]
  BY <1>0
<1>2. IsTable(tb)
  BY TableAssumption
<1>3. values' = <<>> /\ written' = <<>>
  BY DEF RunInv, Configure
<1>4. HasTable' /\ row'.new = Clear(tb)
  <2>1. row'.new = [i \in DOMAIN tb.columns |-> Unset] /\ row' = [raw |-> row'.raw, new |-> row'.new]
    BY <1>1
  <2>2. shared' = [i \in DOMAIN tb.columns |-> {}] /\ table' = tb
    BY <1>1
  <2> QED BY <1>2, <2>1, <2>2 DEF HasTable, Cells, Clear
<1>5. pc' \in {"decode", "refused"}
  BY <1>1
<1>6. ASSUME pc' = "decode" PROVE HasMemory' /\ HasWritten'
  <2>1. \A k \in DOMAIN tb.chain : Accepted(tb, tb.chain[k])
    BY <1>1, <1>6
  <2>2. MadeChain(tb)
    BY <1>2, <2>1, AcceptedMade
  <2>3. memory' = [k \in DOMAIN tb.chain |-> New(tb, tb.chain[k])] /\ table' = tb
    BY <1>1, <1>6
  <2>4. \A k \in DOMAIN tb.chain : Remembered(tb, k, memory'[k])
    BY <1>2, <2>2, <2>3, NewRemembered
  <2>5. memory' = [k \in DOMAIN tb.chain |-> memory'[k]]
    BY <2>3
  <2>6. HasMemory'
    BY <2>1, <2>3, <2>4, <2>5 DEF HasMemory
  <2>7. Len(tb.lines) \in Nat
    BY <1>2 DEF IsTable, IsSeq
  <2>8. HasWritten'
    BY <1>3, <2>3, <2>7, EmptyIsSeq DEF HasWritten
  <2> QED BY <2>6, <2>8
<1>7. table' = tb
  BY <1>1
<1> QED BY <1>3, <1>4, <1>5, <1>6, <1>7, EmptyIsSeq DEF RunInv

\* It stays when the run ends or stops.
LEMMA RunStops ==
  ASSUME RunInv, pc \notin {"configure", "refused"}, pc' \in {"failed", "done"},
         UNCHANGED <<table, memory, row, shared, values, written>>
  PROVE  RunInv'
<1>1. HasTable /\ HasMemory /\ HasWritten
  BY DEF RunInv
<1>2. HasTable'
  BY <1>1 DEF HasTable, Cells
<1>3. HasMemory'
  BY <1>1 DEF HasMemory
<1>4. HasWritten'
  BY <1>1 DEF HasWritten
<1>5. IsSeq(values') /\ IsSeq(written') /\ Len(written') = Len(values')
  BY DEF RunInv
<1> QED BY <1>2, <1>3, <1>4, <1>5 DEF RunInv

\* A line that is decoded is the next one, and nothing of it is set.
LEMMA RunDecodes ==
  ASSUME RunInv, DecodeLine PROVE RunInv'
<1>0. pc = "decode" /\ HasTable /\ HasMemory /\ HasWritten /\ row.new = Clear(table)
  BY DEF RunInv, DecodeLine
<1> DEFINE line == table.lines[Len(written) + 1]
<1>1. CASE Len(Fields(table, line)) > Len(table.columns)
  <2>1. Stop
    BY <1>1 DEF DecodeLine
  <2> QED BY <1>0, <2>1, RunStops DEF Stop
<1>2. CASE ~(Len(Fields(table, line)) > Len(table.columns))
  <2>1. /\ row' = [row EXCEPT !.raw = Fields(table, line)]
        /\ step' = 1 /\ pc' = "transform" /\ shared' = [i \in Cells |-> {}]
        /\ UNCHANGED <<table, memory, values, written>>
        /\ Len(written) < Len(table.lines)
    BY <1>2 DEF DecodeLine
  <2>2. row'.raw = Raw(table, Len(written) + 1) /\ row'.new = Clear(table)
        /\ row' = [raw |-> row'.raw, new |-> row'.new]
    <3>1. row = [raw |-> row.raw, new |-> row.new]
      BY <1>0 DEF HasTable
    <3> QED BY <1>0, <2>1, <3>1 DEF Raw
  <2>3. HasTable'
    BY <1>0, <2>1, <2>2 DEF HasTable, Cells, Clear
  <2>4. HasMemory'
    BY <1>0, <2>1 DEF HasMemory
  <2>5. HasWritten'
    BY <1>0, <2>1 DEF HasWritten
  <2>6. HasRow'
    <3>1. Len(table.chain) \in Nat
      BY <1>0 DEF HasTable, IsTable, IsSeq
    <3>2. step' \in 1 .. Len(table.chain) + 1 /\ step' - 1 = 0
      BY <2>1, <3>1
    <3>3. Reached(table, row'.raw, 0, row'.new)
      BY <2>2, ReachedStart
    <3>4. SharedAfter(table, 0, shared')
      BY <2>1 DEF SharedAfter, Cells
    <3> QED BY <2>1, <2>2, <3>2, <3>3, <3>4 DEF HasRow
  <2>7. IsSeq(values') /\ IsSeq(written') /\ Len(written') = Len(values')
    BY <2>1 DEF RunInv
  <2> QED BY <2>1, <2>3, <2>4, <2>5, <2>6, <2>7 DEF RunInv
<1> QED BY <1>1, <1>2

\* The line that is written for a row is the one of what it reached.
LEMMA LineIs ==
  ASSUME HasTable
  PROVE  (IF table.family = "text" THEN Line(row) ELSE [i \in Cells |-> Cell(i)])
           = LineOf(table, row.raw, row.new)
<1>1. DOMAIN row.new = DOMAIN table.columns
  BY DEF HasTable, Cells
<1>2. Line(row) = Join([i \in DOMAIN table.columns |->
                          IF row.new[i] # Unset THEN EncodeAttr(row.new[i]) ELSE row.raw[i]])
  BY <1>1 DEF Line
<1>3. [i \in Cells |-> Cell(i)] = [i \in DOMAIN table.columns |-> CellOf(table, row.raw, row.new, i)]
  BY DEF Cells, Cell, CellOf
<1> QED BY <1>2, <1>3 DEF LineOf

\* A row that went through all of them is written.
LEMMA RunEncodes ==
  ASSUME RunInv, EncodeLine PROVE RunInv'
<1>0. pc = "transform" /\ HasTable /\ HasMemory /\ HasWritten /\ HasRow
  BY DEF RunInv, EncodeLine
<1>1. /\ values' = Append(values, RowOf(table, row.raw, row.new))
      /\ written' = Append(written, LineOf(table, row.raw, row.new))
      /\ row' = Cleared(row) /\ pc' = "decode" /\ UNCHANGED <<table, memory, shared, step>>
  BY <1>0, LineIs, CurrentIsRow DEF EncodeLine
<1>2. Len(table.chain) \in Nat /\ Len(table.lines) \in Nat
  BY <1>0 DEF HasTable, IsTable, IsSeq
<1>3. step - 1 = Len(table.chain)
  <2>1. step \in 1 .. Len(table.chain) + 1
    BY <1>0 DEF HasRow
  <2>2. step > Len(table.chain)
    BY DEF EncodeLine
  <2> QED BY <1>2, <2>1, <2>2
<1> DEFINE m == Len(values) + 1
<1>4. IsSeq(values) /\ IsSeq(written) /\ Len(written) = Len(values) /\ Len(values) \in Nat
  BY DEF RunInv, IsSeq
<1>5. WrittenAs(table, m, RowOf(table, row.raw, row.new), LineOf(table, row.raw, row.new))
  <2>1. row.raw = Raw(table, m) /\ Reached(table, row.raw, Len(table.chain), row.new)
    BY <1>0, <1>3, <1>4 DEF HasRow
  <2> HIDE DEF m
  <2> QED BY <2>1 DEF WrittenAs
<1>6. /\ IsSeq(values') /\ Len(values') = m /\ DOMAIN values' = 1 .. m
      /\ values'[m] = RowOf(table, row.raw, row.new)
      /\ \A j \in 1 .. Len(values) : values'[j] = values[j]
  BY <1>1, <1>4, AppendIsSeq
<1>7. /\ IsSeq(written') /\ Len(written') = m
      /\ written'[m] = LineOf(table, row.raw, row.new)
      /\ \A j \in 1 .. Len(values) : written'[j] = written[j]
  BY <1>1, <1>4, AppendIsSeq
<1>8. \A j \in DOMAIN values' : WrittenAs(table, j, values'[j], written'[j])
  <2> SUFFICES ASSUME NEW j \in 1 .. m PROVE WrittenAs(table, j, values'[j], written'[j])
    BY <1>6
  <2>1. CASE j = m
    <3> HIDE DEF m
    <3> QED BY <1>5, <1>6, <1>7, <2>1
  <2>2. CASE j # m
    <3>1. j \in 1 .. Len(values)
      BY <1>4, <2>2
    <3>2. j \in DOMAIN values
      BY <1>4, <3>1, SeqIsSeq
    <3>3. WrittenAs(table, j, values[j], written[j])
      BY <1>0, <3>2 DEF HasWritten
    <3> QED BY <1>6, <1>7, <3>1, <3>3
  <2> QED BY <2>1, <2>2
<1>9. HasWritten'
  <2>1. Len(written') <= Len(table.lines)
    BY <1>0, <1>2, <1>4, <1>7 DEF HasRow
  <2> QED BY <1>1, <1>8, <2>1 DEF HasWritten
<1>10. HasTable' /\ row'.new = Clear(table)
  <2>1. row = [raw |-> row.raw, new |-> row.new] /\ DOMAIN row.new = DOMAIN table.columns
    BY <1>0 DEF HasTable, Cells
  <2>2. row'.new = [i \in DOMAIN row.new |-> Unset] /\ row' = [raw |-> row'.raw, new |-> row'.new]
    BY <1>1, <2>1 DEF Cleared
  <2>3. row'.new = Clear(table)
    BY <2>1, <2>2 DEF Clear
  <2> QED BY <1>0, <1>1, <2>2, <2>3 DEF HasTable, Clear, Cells
<1>11. HasMemory'
  BY <1>0, <1>1 DEF HasMemory
<1> QED BY <1>1, <1>6, <1>7, <1>9, <1>10, <1>11 DEF RunInv

\* What a step of TransformRow shares and remembers.
LEMMA TransformEffects ==
  ASSUME TransformRow
  PROVE  LET e == table.chain[step]
             t == memory[step]
         IN  \/ Stop
             \/ shared' = shared /\ memory' = memory
             \/ \E seed \in Draw(e, t) :
                  LET after == After(e, t, seed)
                      sets  == Sets(e, t, after)
                      here  == IF "column" \in DOMAIN t THEN Column(t.column) ELSE 1
                      place == IF e.kind \in TextKinds THEN SharedPlace(e.kind, t, Current, seed)
                               ELSE {}
                      write == e.kind = "RegexpReplace" /\ here \in sets /\ shared[here] # {}
                      of    == CHOOSE p \in shared[here] : TRUE
                  IN  /\ after # Fail
                      /\ shared' = [i \in Cells |->
                            IF e.kind = "RegexpReplace" \/ i \notin sets THEN shared[i]
                            ELSE {<<step, p>> : p \in place}]
                      /\ memory' = [k \in DOMAIN memory |->
                            IF write /\ k = of[1]
                            THEN Overwrite(memory[k], of[2], after[t.column])
                            ELSE IF k = step /\ e.kind \in RecordKinds
                            THEN RecordAfter(e.kind, t, Current) ELSE memory[k]]
  BY DEF TransformRow

\* A transformer of several columns remembers what it may.
LEMMA RecordRemembers ==
  ASSUME NEW tb, NEW k \in DOMAIN tb.chain, Made(tb, tb.chain[k]),
         tb.chain[k].kind \in RecordKinds, NEW t, Remembered(tb, k, t), NEW r
  PROVE  Remembered(tb, k, RecordAfter(tb.chain[k].kind, t, r))
<1> DEFINE e == tb.chain[k]
           u == RecordAfter(e.kind, t, r)
<1>1. Like(u, New(tb, e))
  BY RecordAfterLike DEF Remembered
<1>2. (\A l \in DOMAIN tb.chain : StableIn(tb, l)) => u = New(tb, e)
  <2> SUFFICES ASSUME \A l \in DOMAIN tb.chain : StableIn(tb, l) PROVE u = New(tb, e)
    OBVIOUS
  <2>1. t = New(tb, e) /\ StableIn(tb, k)
    BY DEF Remembered
  <2>2. RecordAfter(e.kind, New(tb, e), r) = New(tb, e)
    BY <2>1, RecordAfterStable
  <2> QED BY <2>1, <2>2
<1>3. ~MakesTexts(tb, e.kind, t)
  BY DEF MakesTexts, RecordKinds
<1> QED BY <1>1, <1>2, <1>3 DEF Remembered

\* So does one whose value is written over, by a text if it is one of texts,
\* and when it is not stable.
LEMMA OverwriteRemembers ==
  ASSUME NEW tb, NEW k \in DOMAIN tb.chain, NEW t, Remembered(tb, k, t), NEW place, NEW v,
         TextsGiven /\ tb.family = "text" => v \in TextValues,
         ~(\A l \in DOMAIN tb.chain : StableIn(tb, l))
  PROVE  Remembered(tb, k, Overwrite(t, place, v))
<1>1. Like(t, New(tb, tb.chain[k])) /\ t = [f \in DOMAIN t |-> t[f]]
  BY DEF Remembered, Like
<1>2. Like(Overwrite(t, place, v), New(tb, tb.chain[k]))
  BY <1>1, OverwriteLike
<1>3. ASSUME TextsGiven, tb.family = "text"
      PROVE  MakesTexts(tb, tb.chain[k].kind, Overwrite(t, place, v))
  <2>1. MakesTexts(tb, tb.chain[k].kind, t) /\ v \in TextValues
    BY <1>3 DEF Remembered
  <2> QED BY <1>1, <2>1, OverwriteTexts
<1> QED BY <1>2, <1>3 DEF Remembered

\* A value that RegexpReplace writes is a text where there are texts.
LEMMA RegexpWrites ==
  ASSUME TextsGiven, NEW tb, IsTable(tb), MadeChain(tb), tb.family = "text",
         NEW j \in DOMAIN tb.lines, NEW k \in DOMAIN tb.chain, tb.chain[k].kind = "RegexpReplace",
         NEW new, Reached(tb, Raw(tb, j), k - 1, new), NEW t, Remembered(tb, k, t), NEW seed
  PROVE  AfterOf(tb.chain[k], t, RowOf(tb, Raw(tb, j), new), seed)[t.column] \in TextValues
<1> DEFINE r == RowOf(tb, Raw(tb, j), new)
           e == tb.chain[k]
<1>1. k - 1 \in 0 .. Len(tb.chain)
  <2>1. DOMAIN tb.chain = 1 .. Len(tb.chain) /\ Len(tb.chain) \in Nat
    BY SeqIsSeq DEF IsTable, IsSeq
  <2> QED BY <2>1
<1>2. r \in TextRows(tb)
  BY <1>1, RowTexts
<1>3. Made(tb, e) /\ Like(t, New(tb, e)) /\ e.kind \notin RecordKinds
  BY DEF MadeChain, Remembered, RecordKinds
<1>4. t.column \in Names(tb)
  <2> HIDE DEF e
  <2> QED BY <1>3, LikeNew
<1> HIDE DEF r
<1>5. RegexpReplace(t, r)[t.column] \in TextValues
  BY <1>2, <1>4, MaskingTexts
<1>6. e.kind \in TextKinds
  BY DEF TextKinds
<1>7. AfterOf(e, t, r, seed) = RegexpReplace(t, r)
  <2>1. AfterOf(e, t, r, seed) = TransformText("RegexpReplace", t, r, seed)
    BY <1>6, KindsApart DEF AfterOf
  <2>2. TransformText("RegexpReplace", t, r, seed) = RegexpReplace(t, r)
    BY DEF TransformText
  <2> QED BY <2>1, <2>2
<1> QED BY <1>5, <1>7 DEF r, e

\* A transformer of one column sets that column alone.
LEMMA SetsOne ==
  ASSUME NEW tb, NEW e, Made(tb, e), NEW t, Like(t, New(tb, e)), e.kind \in TextKinds,
         NEW r, DOMAIN r = Names(tb), NEW seed, AfterOf(e, t, r, seed) # Fail,
         NEW i \in SetsOf(tb, r, t, AfterOf(e, t, r, seed))
  PROVE  tb.columns[i] = t.column /\ WithParameters(e).column = t.column
<1> DEFINE after == AfterOf(e, t, r, seed)
           c == tb.columns[i]
<1>1. e.kind \notin RecordKinds /\ e.kind # "TemplateRecord"
  BY DEF TextKinds, RecordKinds
<1>2. "column" \in DOMAIN WithParameters(e) /\ t.column = WithParameters(e).column
  BY <1>1, LikeNew
<1>3. c \in Names(tb) /\ i \in DOMAIN tb.columns
  BY DEF SetsOf, Names
<1>4. c # t.column => after[c] = r[c]
  <2> SUFFICES ASSUME c # t.column PROVE after[c] = r[c]
    OBVIOUS
  <2>1. c \notin DeclaredOf(tb, e)
    BY <1>1, <1>2 DEF DeclaredOf
  <2> HIDE DEF c
  <2> QED BY <1>3, <2>1, ChangesDeclared
<1>5. after[c] # r[c] \/ t.column = c
  <2> HIDE DEF after
  <2> QED BY DEF SetsOf, after
<1> QED BY <1>2, <1>4, <1>5

\* What a step shares comes from an element up to it.
LEMMA SharedStays ==
  ASSUME NEW tb, NEW s \in Nat, NEW sh, SharedAfter(tb, s, sh)
  PROVE  SharedAfter(tb, s + 1, sh)
  BY DEF SharedAfter

\* Only three transformers share what they set.
LEMMA PlaceOf ==
  ASSUME NEW kind, NEW t, NEW r, NEW seed, NEW p \in SharedPlace(kind, t, r, seed)
  PROVE  kind \in {"Dict", "RandomChoice", "Replace"}
  BY DEF SharedPlace

\* A transformer leaves the row one that it may have reached.
LEMMA RunTransforms ==
  ASSUME RunInv, TransformRow PROVE RunInv'
<1>0. pc = "transform" /\ HasTable /\ HasMemory /\ HasWritten /\ HasRow
  BY DEF RunInv, TransformRow
<1> DEFINE e == table.chain[step]
           t == memory[step]
           r == RowOf(table, row.raw, row.new)
           m == Len(written) + 1
<1>1. /\ IsTable(table) /\ row = [raw |-> row.raw, new |-> row.new] /\ DOMAIN row.new = Cells
      /\ shared = [i \in Cells |-> shared[i]]
  BY <1>0 DEF HasTable
<1>2. /\ DOMAIN table.chain = 1 .. Len(table.chain) /\ Len(table.chain) \in Nat
      /\ DOMAIN table.lines = 1 .. Len(table.lines) /\ Len(table.lines) \in Nat
  BY <1>1, SeqIsSeq DEF IsTable, IsSeq
<1>3. step \in DOMAIN table.chain /\ step \in Nat /\ step - 1 \in Nat /\ (step - 1) + 1 = step
  <2>1. step \in 1 .. Len(table.chain) + 1
    BY <1>0 DEF HasRow
  <2>2. step <= Len(table.chain)
    BY DEF TransformRow
  <2> QED BY <1>2, <2>1, <2>2
<1>4. m \in DOMAIN table.lines /\ row.raw = Raw(table, m)
  <2>1. Len(written) \in Nat
    BY DEF RunInv, IsSeq
  <2> QED BY <1>0, <1>2, <2>1 DEF HasRow
<1> HIDE DEF m
<1>5. MadeChain(table)
  BY <1>0, <1>1, AcceptedMade DEF HasMemory
<1>6. Made(table, e) /\ Remembered(table, step, t) /\ Like(t, New(table, e))
  BY <1>0, <1>3, <1>5 DEF MadeChain, HasMemory, Remembered
<1>7. CASE Stop
  BY <1>0, <1>7, RunStops DEF Stop
<1>8. CASE ~Stop
  <2>1. /\ StepOf(table, row.raw, step, t, row.new, row'.new)
        /\ row' = [raw |-> row.raw, new |-> row'.new] /\ DOMAIN row'.new = Cells
        /\ step' = step + 1 /\ UNCHANGED <<table, pc, values, written>>
    BY <1>1, <1>8, TransformIsStep
  <2>2. Reached(table, row.raw, step, row'.new)
    <3>1. Reached(table, row.raw, step - 1, row.new)
      BY <1>0 DEF HasRow
    <3>2. Remembered(table, (step - 1) + 1, t)
          /\ StepOf(table, row.raw, (step - 1) + 1, t, row.new, row'.new)
      BY <1>3, <1>6, <2>1
    <3>3. Reached(table, row.raw, (step - 1) + 1, row'.new)
      <4> HIDE DEF t
      <4> QED BY <1>3, <3>1, <3>2, ReachedNext
    <3> QED BY <1>3, <3>3
  <2>3. /\ SharedAfter(table, step, shared') /\ shared' = [i \in Cells |-> shared'[i]]
        /\ memory' = [k \in DOMAIN table.chain |-> memory'[k]]
        /\ \A k \in DOMAIN table.chain : Remembered(table, k, memory'[k])
    <3>0. /\ memory = [k \in DOMAIN table.chain |-> memory[k]]
          /\ \A k \in DOMAIN table.chain : Remembered(table, k, memory[k])
          /\ SharedAfter(table, step - 1, shared)
      BY <1>0 DEF HasMemory, HasRow
    <3>1. SharedAfter(table, step, shared)
      BY <1>3, <3>0, SharedStays
    <3>2. CASE shared' = shared /\ memory' = memory
      BY <1>1, <3>0, <3>1, <3>2
    <3>3. CASE ~(shared' = shared /\ memory' = memory)
      <4>1. PICK seed \in Draw(e, t) :
              LET after == After(e, t, seed)
                  sets  == Sets(e, t, after)
                  here  == IF "column" \in DOMAIN t THEN Column(t.column) ELSE 1
                  place == IF e.kind \in TextKinds THEN SharedPlace(e.kind, t, Current, seed)
                           ELSE {}
                  write == e.kind = "RegexpReplace" /\ here \in sets /\ shared[here] # {}
                  of    == CHOOSE p \in shared[here] : TRUE
              IN  /\ after # Fail
                  /\ shared' = [i \in Cells |->
                        IF e.kind = "RegexpReplace" \/ i \notin sets THEN shared[i]
                        ELSE {<<step, p>> : p \in place}]
                  /\ memory' = [k \in DOMAIN memory |->
                        IF write /\ k = of[1]
                        THEN Overwrite(memory[k], of[2], after[t.column])
                        ELSE IF k = step /\ e.kind \in RecordKinds
                        THEN RecordAfter(e.kind, t, Current) ELSE memory[k]]
        BY <1>8, <3>3, TransformEffects
      <4> DEFINE after == After(e, t, seed)
                 sets  == Sets(e, t, after)
                 here  == IF "column" \in DOMAIN t THEN Column(t.column) ELSE 1
                 place == IF e.kind \in TextKinds THEN SharedPlace(e.kind, t, Current, seed)
                          ELSE {}
                 write == e.kind = "RegexpReplace" /\ here \in sets /\ shared[here] # {}
                 of    == CHOOSE p \in shared[here] : TRUE
      <4>2. after = AfterOf(e, t, r, seed) /\ after # Fail
            /\ sets = SetsOf(table, r, t, after)
        BY <1>1, <4>1, HereIs, SetsHere
      <4>3. DOMAIN r = Names(table)
        BY DEF RowOf
      <4>4. e.kind \in TextKinds => \A i \in sets : table.columns[i] = t.column
                                                    /\ WithParameters(e).column = t.column
        <5> SUFFICES ASSUME e.kind \in TextKinds, NEW i \in sets
                     PROVE  table.columns[i] = t.column /\ WithParameters(e).column = t.column
          OBVIOUS
        <5>1. AfterOf(e, t, r, seed) # Fail /\ i \in SetsOf(table, r, t, AfterOf(e, t, r, seed))
          BY <4>2
        <5> HIDE DEF after, sets, r, e, t
        <5> QED BY <1>6, <4>3, <5>1, SetsOne
      <4>5. /\ shared' = [i \in Cells |->
                  IF e.kind = "RegexpReplace" \/ i \notin sets THEN shared[i]
                  ELSE {<<step, p>> : p \in place}]
            /\ memory' = [k \in DOMAIN memory |->
                  IF write /\ k = of[1] THEN Overwrite(memory[k], of[2], after[t.column])
                  ELSE IF k = step /\ e.kind \in RecordKinds
                  THEN RecordAfter(e.kind, t, Current) ELSE memory[k]]
        BY <4>1
      <4>6. place # {} => e.kind \in TextKinds /\ e.kind \in {"Dict", "RandomChoice", "Replace"}
        BY PlaceOf
      <4>7. write => ~(\A l \in DOMAIN table.chain : StableIn(table, l))
        <5> SUFFICES ASSUME write, \A l \in DOMAIN table.chain : StableIn(table, l) PROVE FALSE
          OBVIOUS
        <5>1. of \in shared[here] /\ here \in sets /\ e.kind = "RegexpReplace"
          OBVIOUS
        <5>2. here \in DOMAIN table.columns
          BY <5>1 DEF Sets, Cells
        <5>3. /\ of[1] \in 1 .. step - 1
              /\ table.chain[of[1]].kind \in {"Dict", "RandomChoice", "Replace"}
              /\ WithParameters(table.chain[of[1]]).column = table.columns[here]
          BY <3>0, <5>1, <5>2 DEF SharedAfter
        <5>4. table.columns[here] = WithParameters(e).column
          BY <4>4, <5>1 DEF TextKinds
        <5>5. StableIn(table, step)
          BY <1>3
        <5> QED BY <5>1, <5>3, <5>4, <5>5 DEF StableIn
      <4>8. TextsGiven /\ table.family = "text" /\ write => after[t.column] \in TextValues
        <5> SUFFICES ASSUME TextsGiven, table.family = "text", e.kind = "RegexpReplace"
                     PROVE  AfterOf(e, t, r, seed)[t.column] \in TextValues
          BY <4>2
        <5>1. Reached(table, Raw(table, m), step - 1, row.new)
          BY <1>0, <1>4 DEF HasRow
        <5>2. r = RowOf(table, Raw(table, m), row.new)
          BY <1>4
        <5> HIDE DEF r, t
        <5> QED BY <1>1, <1>3, <1>4, <1>5, <1>6, <5>1, <5>2, RegexpWrites
      <4> HIDE DEF after, sets, here, place, write, of
      <4>9. ASSUME NEW k \in DOMAIN table.chain PROVE Remembered(table, k, memory'[k])
        <5>1. k \in DOMAIN memory /\ Remembered(table, k, memory[k])
          BY <3>0
        <5>2. CASE write /\ k = of[1]
          <6>1. memory'[k] = Overwrite(memory[k], of[2], after[t.column])
            BY <4>5, <5>1, <5>2
          <6>2. /\ TextsGiven /\ table.family = "text" => after[t.column] \in TextValues
                /\ ~(\A l \in DOMAIN table.chain : StableIn(table, l))
            BY <4>7, <4>8, <5>2
          <6> HIDE DEF t
          <6> QED BY <5>1, <6>1, <6>2, OverwriteRemembers
        <5>3. CASE ~(write /\ k = of[1]) /\ k = step /\ e.kind \in RecordKinds
          <6>1. memory'[k] = RecordAfter(e.kind, t, Current)
            BY <4>5, <5>1, <5>3
          <6>2. Remembered(table, step, RecordAfter(e.kind, t, Current))
            <7> HIDE DEF t
            <7> QED BY <1>3, <1>6, <5>3, RecordRemembers
          <6> QED BY <5>3, <6>1, <6>2
        <5>4. CASE ~(write /\ k = of[1]) /\ ~(k = step /\ e.kind \in RecordKinds)
          <6>1. memory'[k] = memory[k]
            BY <4>5, <5>1, <5>4
          <6> QED BY <5>1, <6>1
        <5> QED BY <5>2, <5>3, <5>4
      <4>10. memory' = [k \in DOMAIN table.chain |-> memory'[k]]
             /\ shared' = [i \in Cells |-> shared'[i]]
        <5>1. DOMAIN memory = DOMAIN table.chain
          BY <3>0
        <5>2. DOMAIN memory' = DOMAIN table.chain /\ DOMAIN shared' = Cells
          BY <4>5, <5>1
        <5> HIDE DEF e, t
        <5> QED BY <4>5, <5>1
      <4>11. ASSUME NEW i \in DOMAIN table.columns, NEW p \in shared'[i]
             PROVE  /\ p[1] \in 1 .. step
                    /\ table.chain[p[1]].kind \in {"Dict", "RandomChoice", "Replace"}
                    /\ WithParameters(table.chain[p[1]]).column = table.columns[i]
        <5>1. i \in Cells
          BY DEF Cells
        <5>2. CASE e.kind = "RegexpReplace" \/ i \notin sets
          <6>1. p \in shared[i]
            BY <4>5, <4>11, <5>1, <5>2
          <6> QED BY <3>1, <6>1 DEF SharedAfter
        <5>3. CASE ~(e.kind = "RegexpReplace" \/ i \notin sets)
          <6>1. shared'[i] = {<<step, q>> : q \in place}
            BY <4>5, <5>1, <5>3
          <6>2. p[1] = step /\ place # {}
            BY <4>11, <6>1
          <6>3. step \in 1 .. step
            BY <1>2, <1>3
          <6> QED BY <4>4, <4>6, <5>3, <6>2, <6>3
        <5> QED BY <5>2, <5>3
      <4>12. SharedAfter(table, step, shared')
        BY <4>11 DEF SharedAfter
      <4> QED BY <4>9, <4>10, <4>12
    <3> QED BY <3>2, <3>3
  <2> HIDE DEF e, t, r
  <2>4. HasTable'
    <3>1. row'.new = [i \in Cells |-> row'.new[i]]
      <4>1. StepOf(table, row.raw, step, t, row.new, row'.new)
        BY <2>1
      <4>2. row'.new = row.new \/ \E after : row'.new = NewOf(table, r, t, row.new, after)
        BY <4>1 DEF StepOf, r
      <4>3. row.new = [i \in Cells |-> row.new[i]]
        BY <1>0 DEF HasTable
      <4>4. CASE row'.new = row.new
        BY <4>3, <4>4
      <4>5. ASSUME NEW after, row'.new = NewOf(table, r, t, row.new, after)
            PROVE  row'.new = [i \in Cells |-> row'.new[i]]
        <5>1. \A x : x = NewOf(table, r, t, row.new, after) => x = [i \in Cells |-> x[i]]
          BY DEF NewOf, Cells
        <5> QED BY <4>5, <5>1
      <4> QED BY <4>2, <4>4, <4>5
    <3>2. row' = [raw |-> row'.raw, new |-> row'.new]
      BY <2>1
    <3> QED BY <1>1, <2>1, <2>3, <3>1, <3>2 DEF HasTable, Cells
  <2>5. HasMemory'
    BY <1>0, <2>1, <2>3 DEF HasMemory
  <2>6. HasWritten'
    BY <1>0, <2>1 DEF HasWritten
  <2>7. HasRow'
    <3>1. row'.raw = row.raw
      BY <2>1
    <3>2. step' - 1 = step /\ step' \in 1 .. Len(table.chain) + 1
      BY <1>2, <1>3, <2>1
    <3>3. Len(written') < Len(table'.lines) /\ row'.raw = Raw(table', Len(written') + 1)
      BY <1>0, <2>1, <3>1 DEF HasRow
    <3> QED BY <2>1, <2>2, <2>3, <3>1, <3>2, <3>3 DEF HasRow
  <2>8. /\ IsSeq(values') /\ IsSeq(written') /\ Len(written') = Len(values') /\ pc' = "transform"
    BY <1>0, <2>1 DEF RunInv
  <2> QED BY <2>4, <2>5, <2>6, <2>7, <2>8 DEF RunInv
<1> QED BY <1>7, <1>8

\* Each step keeps the invariant.
LEMMA RunStep ==
  RunInv /\ [Next]_vars => RunInv'
<1> SUFFICES ASSUME RunInv, [Next]_vars PROVE RunInv'
  OBVIOUS
<1>1. CASE Configure
  BY <1>1, RunConfigured
<1>2. CASE DecodeLine
  BY <1>2, RunDecodes
<1>3. CASE TransformRow
  BY <1>3, RunTransforms
<1>4. CASE EncodeLine
  BY <1>4, RunEncodes
<1>5. CASE Finish
  BY <1>5, RunStops DEF Finish
<1>6. CASE UNCHANGED vars
  <2>1. UNCHANGED <<table, pc, memory, row, shared, step, values, written>>
    BY <1>6 DEF vars
  <2> QED BY <2>1 DEF RunInv, HasTable, HasMemory, HasWritten, HasRow, Cells
<1> QED BY <1>1, <1>2, <1>3, <1>4, <1>5, <1>6 DEF Next, Ended

\* The invariant of every run.
THEOREM RunInvariant ==
  Spec => []RunInv
<1> QED BY RunStarts, RunStep, PTL DEF Spec

-----------------------------------------------------------------------------
(* What the invariant gives *)

\* The types hold of every run.  (TransformSync, Dump)
THEOREM RowTypes ==
  Spec => []TypeOK
<1>1. RunInv => TypeOK
  <2> SUFFICES ASSUME RunInv PROVE TypeOK
    OBVIOUS
  <2>1. pc # "configure" => /\ Len(row.new) = Len(table.columns)
                            /\ Len(shared) = Len(table.columns)
    <3> SUFFICES ASSUME HasTable PROVE Len(row.new) = Len(table.columns)
                                       /\ Len(shared) = Len(table.columns)
      BY DEF RunInv
    <3>1. Cells = 1 .. Len(table.columns) /\ Len(table.columns) \in Nat
      BY SeqIsSeq DEF HasTable, IsTable, IsSeq, Cells
    <3>2. /\ row.new = [i \in 1 .. Len(table.columns) |-> row.new[i]]
          /\ shared = [i \in 1 .. Len(table.columns) |-> shared[i]]
      BY <3>1 DEF HasTable
    <3> QED BY <3>1, <3>2, FunctionIsSeq
  <2>2. pc \in {"decode", "transform", "done"} => Len(memory) = Len(table.chain)
    <3> SUFFICES ASSUME HasTable, HasMemory PROVE Len(memory) = Len(table.chain)
      BY DEF RunInv
    <3>1. DOMAIN table.chain = 1 .. Len(table.chain) /\ Len(table.chain) \in Nat
      BY SeqIsSeq DEF HasTable, IsTable, IsSeq
    <3>2. memory = [k \in 1 .. Len(table.chain) |-> memory[k]]
      BY <3>1 DEF HasMemory
    <3> QED BY <3>1, <3>2, FunctionIsSeq
  <2>3. /\ pc \in {"configure", "decode", "transform", "done", "refused", "failed"}
        /\ Len(written) = Len(values)
    BY DEF RunInv
  <2> QED BY <2>1, <2>2, <2>3 DEF TypeOK
<1> QED BY <1>1, RunInvariant, PTL

\* A row is only transformed under a configuration that is valid: what has no
\* warnings has each parameter that is required, none twice or unknown, and
\* casts that can be compared.  (InitParameters)
THEOREM RowsOfValidOnly ==
  Spec => []ValidOnly
<1>1. RunInv => ValidOnly
  <2> SUFFICES ASSUME RunInv, pc \notin {"configure", "refused"}, NEW k \in DOMAIN table.chain
               PROVE  Valid(table.chain[k].raw, table.types)
    BY DEF ValidOnly
  <2>1. ParameterWarnings(table, table.chain[k]) = {}
    BY DEF RunInv, HasMemory, Accepted
  <2> QED BY <2>1, NoWarningsValid DEF ParameterWarnings
<1> QED BY <1>1, RunInvariant, PTL

\* What a row was before it was transformed.
LEMMA OriginalIs ==
  ASSUME NEW j
  PROVE  Original(j) = RowOf(table, Raw(table, j), Clear(table))
<1>1. \A i \in DOMAIN table.columns :
        CellOf(table, Raw(table, j), Clear(table), i) = Value(table, Raw(table, j)[i])
  BY DEF CellOf, Clear
<1>2. \A c \in Names(table) :
        (CHOOSE i \in DOMAIN table.columns : table.columns[i] = c) \in DOMAIN table.columns
  BY DEF Names
<1> DEFINE Of(c) == CHOOSE i \in DOMAIN table.columns : table.columns[i] = c
<1>3. RowOf(table, Raw(table, j), Clear(table)) = [c \in Names(table) |-> Value(table, Raw(table, j)[Of(c)])]
  BY <1>1, <1>2 DEF RowOf
<1> QED BY <1>3 DEF Original, Names, Cells, Column, Raw

\* What a step makes of a column, where it is not Unset.
LEMMA StepCell ==
  ASSUME NEW tb, IsTable(tb), NEW raw, NEW t, NEW new, NEW after, NEW i \in DOMAIN tb.columns,
         after[tb.columns[i]] # Unset
  PROVE  RowOf(tb, raw, NewOf(tb, RowOf(tb, raw, new), t, new, after))[tb.columns[i]]
           = after[tb.columns[i]]
<1> DEFINE r == RowOf(tb, raw, new)
           c == tb.columns[i]
           new2 == NewOf(tb, r, t, new, after)
<1>1. /\ RowOf(tb, raw, new2)[c] = CellOf(tb, raw, new2, i)
      /\ r[c] = CellOf(tb, raw, new, i)
  BY RowAtColumn
<1> HIDE DEF r
<1>2. RowOf(tb, raw, new2)[c] = after[c]
  <2>1. CASE i \in SetsOf(tb, r, t, after)
    <3>1. new2[i] = after[c]
      BY <2>1 DEF NewOf
    <3> HIDE DEF new2
    <3> QED BY <1>1, <3>1 DEF CellOf
  <2>2. CASE i \notin SetsOf(tb, r, t, after)
    <3>1. new2[i] = new[i] /\ after[c] = r[c]
      BY <2>2 DEF NewOf, SetsOf
    <3> HIDE DEF new2
    <3>2. CellOf(tb, raw, new2, i) = CellOf(tb, raw, new, i)
      BY <3>1 DEF CellOf
    <3> QED BY <1>1, <3>1, <3>2
  <2> QED BY <2>1, <2>2
<1> QED BY <1>2 DEF r

\* What one transformer made of a row is what the row was written with, where
\* it made something.
LEMMA AloneIs ==
  ASSUME RunInv, table # Unset, Len(table.chain) = 1, NEW j \in DOMAIN values,
         Meets(table.when, Original(j)), Meets(table.chain[1].when, Original(j)),
         NEW e, e = table.chain[1], NEW r, r = Original(j)
  PROVE  /\ IsTable(table) /\ Made(table, e) /\ 1 \in DOMAIN table.chain
         /\ j \in DOMAIN table.lines /\ r = RowOf(table, Raw(table, j), Clear(table))
         /\ \E t, seed :
              /\ Remembered(table, 1, t) /\ seed \in DrawOf(table, r, t)
              /\ AfterOf(e, t, r, seed) # Fail
              /\ \A c \in Names(table) :
                   AfterOf(e, t, r, seed)[c] # Unset => values[j][c] = AfterOf(e, t, r, seed)[c]
<1> DEFINE raw == Raw(table, j)
<1>1. pc \notin {"configure", "refused"} /\ HasTable /\ HasMemory /\ HasWritten
  BY EmptyIsSeq DEF RunInv
<1>2. IsTable(table) /\ DOMAIN table.chain = 1 .. 1
  BY <1>1, SeqIsSeq DEF HasTable, IsTable
<1>3. Made(table, e)
  BY <1>1, <1>2, AcceptedMade DEF HasMemory, MadeChain
<1>4. r = RowOf(table, raw, Clear(table))
  BY OriginalIs
<1>5. j \in DOMAIN table.lines
  <2>1. DOMAIN values = 1 .. Len(values) /\ Len(values) \in Nat
    BY SeqIsSeq DEF RunInv, IsSeq
  <2>2. DOMAIN table.lines = 1 .. Len(table.lines) /\ Len(table.lines) \in Nat
    BY <1>2, SeqIsSeq DEF IsTable, IsSeq
  <2>3. Len(values) <= Len(table.lines)
    BY <1>1 DEF HasWritten, RunInv
  <2> QED BY <2>1, <2>2, <2>3
<1>6. PICK new : Reached(table, raw, 1, new) /\ values[j] = RowOf(table, raw, new)
  BY <1>1 DEF HasWritten, WrittenAs
<1>7. PICK x : Trace(table, raw, 1, x) /\ x[1] = new
  BY <1>6 DEF Reached
<1>8. PICK t : Remembered(table, 1, t) /\ StepOf(table, raw, 1, t, Clear(table), new)
  <2>1. 1 \in 1 .. 1 /\ 1 - 1 = 0 /\ x[0] = Clear(table) /\ x[1] = new
    BY <1>7 DEF Trace
  <2> QED BY <1>7, <2>1 DEF Trace
<1>9. HoldsOf(r, table.when) /\ HoldsOf(r, e.when)
  BY DEF Meets, HoldsOf
<1>10. PICK seed \in DrawOf(table, r, t) :
          /\ AfterOf(e, t, r, seed) # Fail
          /\ new = NewOf(table, r, t, Clear(table), AfterOf(e, t, r, seed))
  BY <1>4, <1>8, <1>9 DEF StepOf
<1> DEFINE after == AfterOf(e, t, r, seed)
<1>11. ASSUME NEW c \in Names(table), after[c] # Unset PROVE values[j][c] = after[c]
  <2>1. PICK i \in DOMAIN table.columns : table.columns[i] = c
    BY DEF Names
  <2>2. new = NewOf(table, r, t, Clear(table), after)
    BY <1>10
  <2> HIDE DEF after
  <2>3. RowOf(table, raw, NewOf(table, RowOf(table, raw, Clear(table)), t, Clear(table), after))
          [table.columns[i]] = after[table.columns[i]]
    BY <1>2, <1>11, <2>1, StepCell
  <2> QED BY <1>4, <1>6, <2>1, <2>2, <2>3
<1> QED BY <1>2, <1>3, <1>4, <1>5, <1>8, <1>10, <1>11

\* A NULL that is to be kept is there after the row went through the one
\* transformer of its table, whatever rows came before.  (keep_null of each
\* transformer and of each of its columns)
THEOREM NullsAreKept ==
  Spec => []KeptNull
<1>1. RunInv => KeptNull
  <2> SUFFICES ASSUME RunInv, table # Unset, Len(table.chain) = 1, NEW j \in DOMAIN values,
                      Meets(table.when, Original(j)), Meets(table.chain[1].when, Original(j))
               PROVE  NullStays(table.chain[1], New(table, table.chain[1]), Original(j), values[j])
    BY DEF KeptNull, AloneEach
  <2> DEFINE e == table.chain[1]
             r == Original(j)
  <2>1. Made(table, e) /\ r = RowOf(table, Raw(table, j), Clear(table))
    BY AloneIs
  <2>2. PICK t, seed :
          /\ Remembered(table, 1, t) /\ seed \in DrawOf(table, r, t)
          /\ AfterOf(e, t, r, seed) # Fail
          /\ \A c \in Names(table) :
               AfterOf(e, t, r, seed)[c] # Unset => values[j][c] = AfterOf(e, t, r, seed)[c]
    BY AloneIs
  <2>3. Like(t, New(table, e))
    BY <2>2 DEF Remembered
  <2> SUFFICES ASSUME NEW c \in KeepsNull(e, New(table, e)), r[c] = Null
               PROVE  values[j][c] = Null
    BY DEF NullStays
  <2>4. DOMAIN r = Names(table)
    BY <2>1 DEF RowOf
  <2>5. c \in Names(table)
    <3> DEFINE t0 == New(table, e)
    <3>1. Like(t0, t0)
      BY <2>1, NewIs DEF Like
    <3>2. CASE e.kind \in RecordKinds
      <4>1. Listed(t0) = Listed(WithParameters(e))
        BY <2>1, <3>2, NewIs
      <4>2. "keepNull" \notin DOMAIN t0
        <5> HIDE DEF t0
        <5> QED BY <2>1, <3>1, <3>2, LikeNew DEF t0
      <4>3. c \in Listed(t0) /\ e.kind # "TemplateRecord"
        <5> HIDE DEF t0
        <5>1. c \in KeepsNull(e, t0)
          BY DEF t0
        <5> QED BY <3>2, <4>2, <5>1 DEF KeepsNull, Listed, RecordKinds
      <4> QED BY <2>1, <3>2, <4>3, NewIs
    <3>3. CASE e.kind \notin RecordKinds
      <4>1. t0.column \in Names(table)
        <5> HIDE DEF e
        <5> QED BY <2>1, <3>1, <3>3, LikeNew
      <4>2. c = t0.column
        <5> HIDE DEF t0
        <5>1. c \in KeepsNull(e, t0)
          BY DEF t0
        <5> QED BY <3>3, <5>1 DEF KeepsNull, RecordKinds
      <4> QED BY <4>1, <4>2
    <3> QED BY <3>2, <3>3
  <2>6. AfterOf(e, t, r, seed)[c] = Null
    <3> HIDE DEF e, r
    <3> QED BY <2>1, <2>2, <2>3, <2>4, <2>5, AfterKeeps
  <2> QED BY <2>2, <2>5, <2>6, NothingAssumption
<1> QED BY <1>1, RunInvariant, PTL

\* Where nothing of the chain is known to change, two lines that are equal are
\* equal after it.  (the engines, what a transformer keeps from row to row)
THEOREM RowsAreIndependent ==
  Spec => []RowsIndependent
<1>1. RunInv => RowsIndependent
  <2> SUFFICES ASSUME RunInv, values # <<>>, \A k \in DOMAIN table.chain : Stable(k),
                      NEW i \in DOMAIN values, NEW j \in DOMAIN values,
                      table.lines[i] = table.lines[j]
               PROVE  values[i] = values[j]
    BY DEF RowsIndependent
  <2>1. HasTable /\ HasMemory /\ HasWritten
    BY DEF RunInv
  <2>2. IsTable(table) /\ MadeChain(table)
    BY <2>1, AcceptedMade DEF HasTable, HasMemory
  <2>3. \A l \in DOMAIN table.chain : StableIn(table, l)
    BY DEF Stable, StableIn
  <2>4. PICK n1 : /\ Reached(table, Raw(table, i), Len(table.chain), n1)
                  /\ values[i] = RowOf(table, Raw(table, i), n1)
    BY <2>1 DEF HasWritten, WrittenAs
  <2>5. PICK n2 : /\ Reached(table, Raw(table, j), Len(table.chain), n2)
                  /\ values[j] = RowOf(table, Raw(table, j), n2)
    BY <2>1 DEF HasWritten, WrittenAs
  <2>6. Raw(table, i) = Raw(table, j)
    BY DEF Raw
  <2>7. n1 = n2
    BY <2>2, <2>3, <2>4, <2>5, <2>6, ReachedOnce
  <2> QED BY <2>4, <2>5, <2>6, <2>7
<1> QED BY <1>1, RunInvariant, PTL

-----------------------------------------------------------------------------
(* What is written for a table of texts *)

\* Two fields one after the other are one.
LEMMA FieldsTogether ==
  ASSUME NEW s, IsField(s), NEW t, IsField(t)
  PROVE  IsField(s \o t)
<1>1. s \in Seq(Byte) /\ t \in Seq(Byte)
  BY DEF IsField, Texts
<1>2. /\ s \o t \in Seq(Byte) /\ Len(s \o t) = Len(s) + Len(t)
      /\ Len(s) \in Nat /\ Len(t) \in Nat
      /\ \A i \in 1 .. Len(s) : (s \o t)[i] = s[i]
      /\ \A i \in 1 .. Len(t) : (s \o t)[Len(s) + i] = t[i]
  BY <1>1, Bytes2
<1> DEFINE u == s \o t
<1>3. ASSUME NEW i \in 1 .. Len(u) PROVE u[i] # Delimiter
  <2>1. CASE i \in 1 .. Len(s)
    BY <1>2, <2>1 DEF IsField
  <2>2. CASE i \notin 1 .. Len(s)
    <3>1. i - Len(s) \in 1 .. Len(t) /\ i = Len(s) + (i - Len(s))
      BY <1>2, <2>2
    <3>2. u[Len(s) + (i - Len(s))] = t[i - Len(s)]
      BY <1>2, <3>1
    <3>3. t[i - Len(s)] # Delimiter
      BY <3>1 DEF IsField
    <3> HIDE DEF u
    <3> QED BY <3>1, <3>2, <3>3
  <2> QED BY <2>1, <2>2
<1> QED BY <1>2, <1>3 DEF IsField, Texts

\* One byte as a field.
LEMMA OneByteField ==
  ASSUME NEW b \in Byte, b # Delimiter PROVE IsField(<<b>>)
<1>1. <<b>> \in Seq(Byte) /\ Len(<<b>>) = 1 /\ <<b>>[1] = b
  OBVIOUS
<1> QED BY <1>1 DEF IsField, Texts

\* Two bytes as a field.
LEMMA TwoBytesField ==
  ASSUME NEW b \in Byte, b # Delimiter, NEW c \in Byte, c # Delimiter PROVE IsField(<<b, c>>)
<1>1. <<b, c>> \in Seq(Byte) /\ Len(<<b, c>>) = 2 /\ <<b, c>>[1] = b /\ <<b, c>>[2] = c
  OBVIOUS
<1> QED BY <1>1 DEF IsField, Texts

\* Three bytes as a field.
LEMMA ThreeBytesField ==
  ASSUME NEW a \in Byte, a # Delimiter, NEW b \in Byte, b # Delimiter,
         NEW c \in Byte, c # Delimiter
  PROVE  IsField(<<a, b, c>>)
<1>1. /\ <<a, b, c>> \in Seq(Byte) /\ Len(<<a, b, c>>) = 3
      /\ <<a, b, c>>[1] = a /\ <<a, b, c>>[2] = b /\ <<a, b, c>>[3] = c
  OBVIOUS
<1> QED BY <1>1 DEF IsField, Texts

\* What EncodeAttr writes for the byte i, and for a mark at it.
PieceOf(c) ==
    CASE c \in DOMAIN Letters -> <<Backslash, Letters[c]>>
      [] c < 32 /\ c \notin DOMAIN Letters -> <<c, Backslash, c>>
      [] c = Backslash -> <<Backslash, Backslash>>
      [] OTHER -> <<c>>

\* None of it is a delimiter.
LEMMA PieceIsField ==
  ASSUME NEW c \in Byte
  PROVE  IsField(PieceOf(c))
<1>a. DOMAIN Letters = {8, 9, 10, 11, 12, 13} /\ Backslash = 92 /\ Delimiter = 9
      /\ \A l \in DOMAIN Letters : Letters[l] \in {98, 116, 110, 118, 102, 114}
  BY DEF Letters, Backslash, Delimiter
<1>b. Backslash \in Byte /\ Backslash # Delimiter
      /\ \A l \in DOMAIN Letters : Letters[l] \in Byte /\ Letters[l] # Delimiter
  BY <1>a DEF Byte
<1>1. CASE c \in DOMAIN Letters
  <2>1. PieceOf(c) = <<Backslash, Letters[c]>>
    BY <1>1, <1>a DEF PieceOf
  <2>2. IsField(<<Backslash, Letters[c]>>)
    BY <1>1, <1>b, TwoBytesField
  <2> QED BY <2>1, <2>2
<1>2. CASE c < 32 /\ c \notin DOMAIN Letters
  <2>1. PieceOf(c) = <<c, Backslash, c>>
    BY <1>2, <1>a DEF PieceOf
  <2>2. c # Delimiter
    BY <1>2, <1>a
  <2>3. IsField(<<c, Backslash, c>>)
    BY <1>b, <2>2, ThreeBytesField
  <2> QED BY <2>1, <2>3
<1>3. CASE c = Backslash
  <2>1. PieceOf(c) = <<Backslash, Backslash>>
    BY <1>3, <1>a DEF PieceOf
  <2>2. IsField(<<Backslash, Backslash>>)
    BY <1>b, TwoBytesField
  <2> QED BY <2>1, <2>2
<1>4. CASE c \notin DOMAIN Letters /\ ~(c < 32 /\ c \notin DOMAIN Letters) /\ c # Backslash
  <2>1. PieceOf(c) = <<c>>
    BY <1>4 DEF PieceOf
  <2>2. c # Delimiter
    BY <1>4, <1>a
  <2> QED BY <2>1, <2>2, OneByteField
<1> QED BY <1>1, <1>2, <1>3, <1>4

\* The text that stands for NULL, and a mark that is escaped, are fields.
LEMMA NullIsField ==
  IsField(NullText)
<1>1. 92 \in Byte /\ 78 \in Byte /\ 92 # Delimiter /\ 78 # Delimiter
  BY DEF Byte, Delimiter
<1>2. IsField(<<92, 78>>)
  BY <1>1, TwoBytesField
<1> QED BY <1>2 DEF NullText

\* A mark that is escaped is one.
LEMMA MarkIsField ==
  ASSUME NEW m \in Marks
  PROVE  IsField(<<Backslash>> \o m)
<1>0. Backslash \in Byte /\ Point \in Byte /\ Backslash # Delimiter /\ Point # Delimiter
  BY DEF Byte, Backslash, Delimiter, Point
<1>1. IsField(<<Backslash>>)
  BY <1>0, OneByteField
<1>2. IsField(<<Backslash, Point>>)
  BY <1>0, TwoBytesField
<1>3. IsField(m)
  BY <1>2, NullIsField DEF Marks
<1> QED BY <1>1, <1>3, FieldsTogether

\* What EncodeAttr writes has no delimiter.
LEMMA EncodeIsField ==
  ASSUME NEW v \in TextValues
  PROVE  IsField(EncodeAttr(v))
<1>1. CASE v = Null
  <2>1. EncodeAttr(v) = NullText
    BY <1>1 DEF EncodeAttr
  <2> QED BY <2>1, NullIsField
<1>2. CASE v # Null
  <2>0. v \in Texts /\ Len(v) \in Nat /\ \A i \in 1 .. Len(v) : v[i] \in Byte
    BY <1>2 DEF TextValues, Texts
  <2>1. PICK C : /\ EncodeAttr(v) = C[1]
                 /\ \A i \in 1 .. Len(v) + 3 : C[i] = EncodeFrom(v, C, i)
    BY <1>2, <2>0, EncodeRecursion
  <2> DEFINE M == Len(v) + 3
             Q == {m \in Nat : m < M => \A i \in M - m .. M : IsField(C[i])}
  <2>2. ASSUME NEW i \in 1 .. M, i > Len(v) PROVE IsField(C[i])
    <3>1. C[i] = <<>>
      BY <2>1, <2>2 DEF EncodeFrom
    <3>2. IsField(<<>>)
      BY DEF IsField, Texts
    <3> QED BY <3>1, <3>2
  <2>3. 0 \in Q
    <3> SUFFICES ASSUME NEW i \in M - 0 .. M PROVE IsField(C[i])
      OBVIOUS
    <3>1. i \in 1 .. M /\ i > Len(v)
      BY <2>0
    <3> QED BY <2>2, <3>1
  <2>4. ASSUME NEW m \in Nat, m \in Q PROVE m + 1 \in Q
    <3> SUFFICES ASSUME m + 1 < M, NEW i \in M - (m + 1) .. M PROVE IsField(C[i])
      OBVIOUS
    <3>1. i \in 1 .. M /\ m < M
      BY <2>0
    <3>2. CASE i > Len(v)
      BY <2>2, <3>1, <3>2
    <3>3. CASE i # M - (m + 1)
      <4>1. i \in M - m .. M
        BY <2>0, <3>3
      <4> QED BY <2>4, <3>1, <4>1
    <3>4. CASE i = M - (m + 1) /\ ~(i > Len(v))
      <4>1. i + 1 \in M - m .. M /\ i + 3 \in M - m .. M /\ i \in 1 .. Len(v)
        BY <2>0, <3>1, <3>4
      <4>2. IsField(C[i + 1]) /\ IsField(C[i + 3])
        BY <2>4, <3>1, <4>1
      <4>3. C[i] = EncodeFrom(v, C, i)
        BY <2>1, <3>1
      <4>4. CASE i < Len(v) /\ SubSeq(v, i, i + 1) \in Marks
        <5>1. C[i] = (<<Backslash>> \o SubSeq(v, i, i + 1)) \o C[i + 3]
          BY <3>4, <4>3, <4>4 DEF EncodeFrom
        <5>2. IsField(<<Backslash>> \o SubSeq(v, i, i + 1))
          BY <4>4, MarkIsField
        <5> QED BY <4>2, <5>1, <5>2, FieldsTogether
      <4>5. CASE ~(i < Len(v) /\ SubSeq(v, i, i + 1) \in Marks)
        <5>1. C[i] = PieceOf(v[i]) \o C[i + 1]
          BY <3>4, <4>3, <4>5 DEF EncodeFrom, PieceOf
        <5>2. IsField(PieceOf(v[i]))
          BY <2>0, <4>1, PieceIsField
        <5> QED BY <4>2, <5>1, <5>2, FieldsTogether
      <4> QED BY <4>4, <4>5
    <3> QED BY <3>2, <3>3, <3>4
  <2>5. Nat \subseteq Q
    <3> HIDE DEF Q
    <3> QED BY <2>3, <2>4, NatSetInduction
  <2>6. M - 1 \in Nat /\ M - 1 < M /\ 1 \in M - (M - 1) .. M
    BY <2>0
  <2>7. M - 1 \in Q
    BY <2>5, <2>6
  <2>8. IsField(C[1])
    BY <2>6, <2>7
  <2> QED BY <2>1, <2>8
<1> QED BY <1>1, <1>2

\* The line of a row of texts has the fields that were encoded or left alone.
LEMMA LineFields ==
  ASSUME NEW tb, IsTable(tb), tb.family = "text", NEW j \in DOMAIN tb.lines, NEW new,
         \A i \in DOMAIN tb.columns : new[i] \in TextValues \cup {Unset}
  PROVE  Split(LineOf(tb, Raw(tb, j), new)) =
           [i \in DOMAIN tb.columns |->
              IF new[i] # Unset THEN EncodeAttr(new[i]) ELSE Raw(tb, j)[i]]
<1> DEFINE raw == Raw(tb, j)
           F == [i \in DOMAIN tb.columns |-> IF new[i] # Unset THEN EncodeAttr(new[i]) ELSE raw[i]]
           n == Len(tb.columns)
<1>1. DOMAIN tb.columns = 1 .. n /\ n \in Nat \ {0}
  <2>1. IsSeq(tb.columns) /\ tb.columns # <<>>
    BY DEF IsTable
  <2>2. tb.columns = [i \in 1 .. n |-> tb.columns[i]] /\ n \in Nat
    BY <2>1 DEF IsSeq
  <2>3. n # 0
    <3> SUFFICES ASSUME n = 0 PROVE FALSE
      OBVIOUS
    <3>1. tb.columns \in Seq({tb.columns[i] : i \in DOMAIN tb.columns})
      BY <2>1, SeqIsSeq
    <3> QED BY <2>1, <3>1
  <2> QED BY <2>2, <2>3
<1>2. \A i \in DOMAIN tb.columns : IsField(raw[i])
  BY RawTexts
<1> HIDE DEF raw
<1>3. ASSUME NEW i \in 1 .. n PROVE IsField(F[i])
  <2>1. i \in DOMAIN tb.columns
    BY <1>1
  <2>2. CASE new[i] # Unset
    <3>1. IsField(EncodeAttr(new[i]))
      BY <2>1, <2>2, EncodeIsField
    <3> QED BY <2>1, <2>2, <3>1
  <2>3. CASE new[i] = Unset
    BY <1>2, <2>1, <2>3
  <2> QED BY <2>2, <2>3
<1>4. F = [i \in 1 .. n |-> F[i]]
  BY <1>1
<1>5. LineOf(tb, raw, new) = Join(F)
  BY DEF LineOf
<1> HIDE DEF F, n
<1>6. Split(Join(F)) = F
  BY <1>1, <1>3, <1>4, SplitJoin
<1>7. Split(LineOf(tb, raw, new)) = F
  BY <1>5, <1>6
<1> QED BY <1>7 DEF F, raw

\* The lines of a table of texts that were written, and what they came from.
LEMMA WrittenTexts ==
  ASSUME TextsGiven, RunInv, table # Unset, table.family = "text", NEW j \in DOMAIN values
  PROVE  \E new :
           /\ Reached(table, Raw(table, j), Len(table.chain), new)
           /\ \A i \in Cells : new[i] \in TextValues \cup {Unset}
           /\ \A i \in Cells : values[j][table.columns[i]] = CellOf(table, Raw(table, j), new, i)
           /\ Split(written[j]) = [i \in Cells |->
                IF new[i] # Unset THEN EncodeAttr(new[i]) ELSE Raw(table, j)[i]]
           /\ IsTable(table) /\ MadeChain(table) /\ j \in DOMAIN table.lines
<1> DEFINE raw == Raw(table, j)
<1>1. pc \notin {"configure", "refused"} /\ HasTable /\ HasMemory /\ HasWritten
  BY EmptyIsSeq DEF RunInv
<1>2. IsTable(table) /\ MadeChain(table)
  BY <1>1, AcceptedMade DEF HasTable, HasMemory
<1>3. j \in DOMAIN table.lines
  <2>1. DOMAIN table.lines = 1 .. Len(table.lines) /\ Len(table.lines) \in Nat
    BY <1>2, SeqIsSeq DEF IsTable, IsSeq
  <2>2. DOMAIN values = 1 .. Len(values) /\ Len(values) \in Nat
    BY SeqIsSeq DEF RunInv, IsSeq
  <2>3. Len(values) <= Len(table.lines)
    BY <1>1 DEF RunInv, HasWritten
  <2> QED BY <2>1, <2>2, <2>3
<1>4. PICK new : /\ Reached(table, raw, Len(table.chain), new)
                 /\ values[j] = RowOf(table, raw, new) /\ written[j] = LineOf(table, raw, new)
  BY <1>1 DEF HasWritten, WrittenAs
<1>5. \A i \in DOMAIN table.columns : new[i] \in TextValues \cup {Unset}
  <2>1. Len(table.chain) \in 0 .. Len(table.chain)
    BY <1>2 DEF IsTable, IsSeq
  <2> QED BY <1>2, <1>3, <1>4, <2>1, RowTexts
<1>6. Split(LineOf(table, raw, new)) =
        [i \in DOMAIN table.columns |-> IF new[i] # Unset THEN EncodeAttr(new[i]) ELSE raw[i]]
  BY <1>2, <1>3, <1>5, LineFields
<1>7. \A i \in DOMAIN table.columns :
        RowOf(table, raw, new)[table.columns[i]] = CellOf(table, raw, new, i)
  BY <1>2, RowAtColumn
<1> HIDE DEF raw
<1> QED BY <1>2, <1>3, <1>4, <1>5, <1>6, <1>7 DEF Cells, raw

\* The columns that no transformer declares are written as they came, whatever
\* escapes they use, where the operators of texts give texts.  (Row.Encode,
\* Record.SetRawColumnValueByIdx)
THEOREM UndeclaredAreKept ==
  ASSUME TextsGiven
  PROVE  Spec => []OnlyDeclared
<1>1. RunInv => OnlyDeclared
  <2> SUFFICES ASSUME RunInv, table # Unset, NEW j \in DOMAIN written, NEW i \in Cells,
                      \A k \in DOMAIN table.chain :
                        table.columns[i] \notin DeclaredColumns(table.chain[k])
               PROVE  Fields(table, written[j])[i] = Fields(table, table.lines[j])[i]
    BY DEF OnlyDeclared
  <2>0. \A k \in DOMAIN table.chain : table.columns[i] \notin DeclaredOf(table, table.chain[k])
    BY DEF DeclaredColumns, DeclaredOf, Names, Cells, Listed
  <2>1. pc \notin {"configure", "refused"} /\ HasTable /\ HasMemory /\ HasWritten
    BY EmptyIsSeq DEF RunInv
  <2>2. j \in DOMAIN values
    BY SeqIsSeq DEF RunInv
  <2>3. IsTable(table) /\ MadeChain(table) /\ i \in DOMAIN table.columns
    BY <2>1, AcceptedMade DEF HasTable, HasMemory, Cells
  <2>4. CASE table.family = "text"
    <3>1. PICK new : /\ Reached(table, Raw(table, j), Len(table.chain), new)
                     /\ \A l \in Cells : new[l] \in TextValues \cup {Unset}
                     /\ \A l \in Cells : values[j][table.columns[l]]
                                            = CellOf(table, Raw(table, j), new, l)
                     /\ Split(written[j]) = [l \in Cells |->
                          IF new[l] # Unset THEN EncodeAttr(new[l]) ELSE Raw(table, j)[l]]
                     /\ IsTable(table) /\ MadeChain(table) /\ j \in DOMAIN table.lines
      BY <2>2, <2>4, WrittenTexts
    <3>2. new[i] = Unset
      <4>1. Reached(table, Raw(table, j), Len(table.chain), new)
        BY <3>1
      <4> QED BY <2>0, <2>3, <4>1, ReachedUndeclared
    <3>3. Split(written[j])[i] = Raw(table, j)[i]
      BY <3>1, <3>2
    <3> QED BY <2>4, <3>3 DEF Fields, Raw
  <2>5. CASE table.family # "text"
    <3>1. PICK new : /\ Reached(table, Raw(table, j), Len(table.chain), new)
                     /\ written[j] = LineOf(table, Raw(table, j), new)
      BY <2>1, <2>2 DEF HasWritten, WrittenAs
    <3>2. new[i] = Unset
      BY <2>0, <2>3, <3>1, ReachedUndeclared
    <3>3. written[j][i] = CellOf(table, Raw(table, j), new, i)
      BY <2>3, <2>5, <3>1 DEF LineOf
    <3>4. written[j][i] = Raw(table, j)[i]
      BY <2>5, <3>2, <3>3 DEF CellOf, Value
    <3> QED BY <2>5, <3>4 DEF Fields, Raw
  <2> QED BY <2>4, <2>5
<1> QED BY <1>1, RunInvariant, PTL

-----------------------------------------------------------------------------
(* What DecodeAttr makes of what EncodeAttr writes *)

\* The rest of a text, from the byte i on.
RestOf(v, i) == [k \in 1 .. Len(v) + 1 - i |-> v[i + k - 1]]

\* Its first byte, and the rest of it.
LEMMA RestIs ==
  ASSUME NEW v \in Texts, NEW i \in 1 .. Len(v)
  PROVE  /\ <<v[i]>> \o RestOf(v, i + 1) = RestOf(v, i)
         /\ RestOf(v, i) \in Texts /\ RestOf(v, Len(v) + 1) = <<>>
<1>0. Len(v) \in Nat /\ v \in Seq(Byte) /\ v[i] \in Byte
  BY DEF Texts
<1> DEFINE s == <<v[i]>>
           t == RestOf(v, i + 1)
           u == RestOf(v, i)
           n == Len(v) - i
<1>1. s \in Seq(Byte) /\ Len(s) = 1 /\ s[1] = v[i]
  BY <1>0
<1>2. n \in Nat /\ Len(v) + 1 - (i + 1) = n /\ Len(v) + 1 - i = n + 1
  BY <1>0
<1>3. t = [k \in 1 .. n |-> v[i + k]]
  <2>1. \A k \in 1 .. n : (i + 1) + k - 1 = i + k
    BY <1>0, <1>2
  <2> QED BY <1>2, <2>1 DEF RestOf
<1>4. t \in Seq(Byte) /\ Len(t) = n /\ \A k \in 1 .. n : t[k] = v[i + k]
  <2>1. \A k \in 1 .. n : v[i + k] \in Byte
    BY <1>0, <1>2
  <2>2. t \in [1 .. n -> Byte]
    BY <1>3, <2>1
  <2> HIDE DEF t, n
  <2> QED BY <1>2, <1>3, <2>2
<1>5. u = [k \in 1 .. n + 1 |-> v[i + k - 1]]
  BY <1>2 DEF RestOf
<1>6. u \in Seq(Byte) /\ Len(u) = n + 1 /\ \A k \in 1 .. n + 1 : u[k] = v[i + k - 1]
  <2>1. \A k \in 1 .. n + 1 : v[i + k - 1] \in Byte
    BY <1>0, <1>2
  <2>2. PICK m : m = n + 1
    OBVIOUS
  <2>3. m \in Nat
    BY <1>2, <2>2
  <2>4. \A k \in 1 .. m : u[k] = v[i + k - 1]
    BY <1>5, <2>2
  <2>5. \A k \in 1 .. m : u[k] \in Byte
    BY <2>1, <2>2, <2>4
  <2>6. u = [k \in 1 .. m |-> u[k]]
    BY <1>5, <2>2
  <2> HIDE DEF u, n
  <2>7. u \in [1 .. m -> Byte]
    BY <2>5, <2>6
  <2>8. u \in Seq(Byte) /\ Len(u) = m
    BY <2>3, <2>7
  <2> QED BY <2>2, <2>4, <2>8
<1>7. RestOf(v, Len(v) + 1) = <<>>
  <2>1. Len(v) + 1 - (Len(v) + 1) = 0
    BY <1>0
  <2>2. RestOf(v, Len(v) + 1) = [k \in 1 .. 0 |-> v[(Len(v) + 1) + k - 1]]
    BY <2>1 DEF RestOf
  <2> QED BY <2>2
<1> HIDE DEF s, t, u, n
<1>8. /\ s \o t \in Seq(Byte) /\ Len(s \o t) = n + 1 /\ (s \o t)[1] = v[i]
      /\ \A k \in 1 .. n : (s \o t)[1 + k] = v[i + k]
  <2>1. /\ s \o t \in Seq(Byte) /\ Len(s \o t) = Len(s) + Len(t)
        /\ \A k \in 1 .. Len(s) : (s \o t)[k] = s[k]
        /\ \A k \in 1 .. Len(t) : (s \o t)[Len(s) + k] = t[k]
    BY <1>1, <1>4, Bytes2
  <2> QED BY <1>1, <1>2, <1>4, <2>1
<1>9. s \o t = u
  <2> DEFINE w == s \o t
  <2>1. \A k \in 1 .. n + 1 : w[k] = u[k]
    <3> SUFFICES ASSUME NEW k \in 1 .. n + 1 PROVE w[k] = u[k]
      OBVIOUS
    <3>1. CASE k = 1
      <4>1. i + 1 - 1 = i /\ 1 \in 1 .. n + 1
        BY <1>2
      <4>2. u[1] = v[i]
        BY <1>6, <4>1
      <4> QED BY <1>8, <3>1, <4>2
    <3>2. CASE k # 1
      <4>1. k - 1 \in 1 .. n /\ 1 + (k - 1) = k /\ i + (k - 1) = i + k - 1
        BY <1>0, <1>2, <3>2
      <4>2. w[1 + (k - 1)] = v[i + (k - 1)]
        BY <1>8, <4>1
      <4> QED BY <1>6, <4>1, <4>2
    <3> QED BY <3>1, <3>2
  <2>2. w \in Seq(Byte) /\ Len(w) = n + 1
    BY <1>8
  <2> HIDE DEF w
  <2>3. w = u
    BY <1>2, <1>6, <2>1, <2>2
  <2> QED BY <2>3 DEF w
<1>10. u \in Texts
  BY <1>6 DEF Texts
<1> QED BY <1>7, <1>9, <1>10 DEF s, t, u

\* Without the sequences and the bytes that are special, each byte is written
\* for itself.
LEMMA EncodePlain ==
  ASSUME NEW v \in Texts, ~Special(v), NEW C,
         \A i \in 1 .. Len(v) + 3 : C[i] = EncodeFrom(v, C, i)
  PROVE  /\ C[Len(v) + 1] = <<>>
         /\ \A i \in 1 .. Len(v) : C[i] = PieceOf(v[i]) \o C[i + 1]
<1>0. Len(v) \in Nat /\ v \in Seq(Byte) /\ \A i \in 1 .. Len(v) : v[i] \in Byte
  BY DEF Texts
<1>1. \A i \in Len(v) + 1 .. Len(v) + 3 : C[i] = <<>>
  <2> SUFFICES ASSUME NEW i \in Len(v) + 1 .. Len(v) + 3 PROVE C[i] = <<>>
    OBVIOUS
  <2>1. i \in 1 .. Len(v) + 3 /\ i > Len(v)
    BY <1>0
  <2> QED BY <2>1 DEF EncodeFrom
<1>2. ASSUME NEW i \in 1 .. Len(v), ~(i < Len(v) /\ SubSeq(v, i, i + 1) \in Marks)
      PROVE  C[i] = PieceOf(v[i]) \o C[i + 1]
  <2>1. i \in 1 .. Len(v) + 3 /\ ~(i > Len(v))
    BY <1>0
  <2>2. C[i] = EncodeFrom(v, C, i)
    BY <2>1
  <2> QED BY <1>2, <2>1, <2>2 DEF EncodeFrom, PieceOf
<1>3. ASSUME NEW i \in 1 .. Len(v), i < Len(v), SubSeq(v, i, i + 1) \in Marks
      PROVE  C[i] = PieceOf(v[i]) \o C[i + 1]
  <2>1. i = Len(v) - 1
    BY <1>0, <1>3 DEF Special
  <2>2. i + 1 \in 1 .. Len(v) /\ i + 1 = Len(v) /\ (i + 1) + 1 = Len(v) + 1
        /\ i + 3 \in Len(v) + 1 .. Len(v) + 3 /\ i + 2 = Len(v) + 1
        /\ i \in 1 .. Len(v) + 3 /\ ~(i > Len(v))
    BY <1>0, <2>1
  <2>3. PICK x : x \in {78, Point} /\ SubSeq(v, i, i + 1) = <<92, x>>
    BY <1>3 DEF Marks, NullText, Backslash
  <2>4. v[i] = 92 /\ v[i + 1] = x
    <3>1. PICK s : s = SubSeq(v, i, i + 1)
      OBVIOUS
    <3>2. s[1] = v[i] /\ s[2] = v[i + 1]
      <4>1. s = [k \in 1 .. 2 |-> v[i + k - 1]]
        <5>1. i + 1 - i + 1 = 2 /\ 1 + (i + 1) - i = 2
          BY <1>0
        <5> QED BY <1>0, <2>2, <3>1, <5>1
      <4>2. s[1] = v[i + 1 - 1] /\ s[2] = v[i + 2 - 1]
        BY <4>1
      <4>3. i + 1 - 1 = i /\ i + 2 - 1 = i + 1
        BY <1>0
      <4> QED BY <4>2, <4>3
    <3>3. s = <<92, x>>
      BY <2>3, <3>1
    <3>4. <<92, x>>[1] = 92 /\ <<92, x>>[2] = x
      OBVIOUS
    <3> QED BY <3>2, <3>3, <3>4
  <2>5. C[i + 1] = <<x>>
    <3>1. C[i + 1] = PieceOf(v[i + 1]) \o C[(i + 1) + 1]
      <4>1. i + 1 \in 1 .. Len(v) /\ ~(i + 1 < Len(v))
        BY <1>0, <2>2
      <4> QED BY <1>2, <4>1
    <3>2. PieceOf(x) = <<x>>
      BY <2>3 DEF PieceOf, Letters, Point, Backslash
    <3>3. C[(i + 1) + 1] = <<>>
      BY <1>0, <1>1, <2>2
    <3> QED BY <2>4, <3>1, <3>2, <3>3
  <2>6. C[i] = (<<92>> \o <<92, x>>) \o <<>>
    <3>1. C[i] = EncodeFrom(v, C, i) /\ C[i + 3] = <<>>
      BY <1>1, <2>2
    <3>2. EncodeFrom(v, C, i) = <<Backslash>> \o SubSeq(v, i, i + 1) \o C[i + 3]
      BY <1>3, <2>2 DEF EncodeFrom
    <3> QED BY <2>3, <3>1, <3>2 DEF Backslash
  <2>7. PieceOf(v[i]) = <<92, 92>>
    BY <2>4 DEF PieceOf, Letters, Backslash
  <2>8. (<<92>> \o <<92, x>>) \o <<>> = <<92, 92>> \o <<x>>
    OBVIOUS
  <2> QED BY <2>5, <2>6, <2>7, <2>8
<1>4. Len(v) + 1 \in Len(v) + 1 .. Len(v) + 3
  BY <1>0
<1> QED BY <1>1, <1>2, <1>3, <1>4

\* A piece is the byte, where it is no backslash and has no letter, or a
\* backslash and a byte that is read as the one it stands for.
LEMMA PieceIs ==
  ASSUME NEW c \in Byte, ~(c < 32 /\ c \notin DOMAIN Letters)
  PROVE  \/ PieceOf(c) = <<c>> /\ c # Backslash
         \/ \E x \in Byte :
              /\ PieceOf(c) = <<Backslash, x>> /\ ~IsOctal(x) /\ x # 120 /\ x # 78
              /\ c = IF \E l \in DOMAIN Letters : Letters[l] = x
                     THEN CHOOSE l \in DOMAIN Letters : Letters[l] = x ELSE x
<1>a. DOMAIN Letters = {8, 9, 10, 11, 12, 13} /\ Backslash = 92
      /\ Letters[8] = 98 /\ Letters[9] = 116 /\ Letters[10] = 110
      /\ Letters[11] = 118 /\ Letters[12] = 102 /\ Letters[13] = 114
  BY DEF Letters, Backslash
<1>1. CASE c \in DOMAIN Letters
  <2>1. PieceOf(c) = <<Backslash, Letters[c]>>
    BY <1>1, <1>a DEF PieceOf
  <2>2. Letters[c] \in Byte /\ ~IsOctal(Letters[c]) /\ Letters[c] # 120 /\ Letters[c] # 78
    BY <1>1, <1>a DEF Byte, IsOctal
  <2>3. \A l \in DOMAIN Letters : Letters[l] = Letters[c] => l = c
    BY <1>1, <1>a
  <2>4. (CHOOSE l \in DOMAIN Letters : Letters[l] = Letters[c]) = c
    BY <1>1, <2>3
  <2> QED BY <1>1, <2>1, <2>2, <2>4
<1>2. CASE c = Backslash
  <2>1. PieceOf(c) = <<Backslash, Backslash>>
    BY <1>2, <1>a DEF PieceOf
  <2>2. ~(\E l \in DOMAIN Letters : Letters[l] = Backslash)
    BY <1>a
  <2>3. Backslash \in Byte /\ ~IsOctal(Backslash) /\ Backslash # 120 /\ Backslash # 78
    BY <1>a DEF Byte, IsOctal
  <2> QED BY <1>2, <2>1, <2>2, <2>3
<1>3. CASE c \notin DOMAIN Letters /\ c # Backslash
  <2>1. PieceOf(c) = <<c>>
    BY <1>3, <1>a DEF PieceOf
  <2> QED BY <1>3, <2>1
<1> QED BY <1>1, <1>2, <1>3

\* The text raw has s after its first o bytes, and ends with it.
HasAt(raw, o, s) == \A k \in 1 .. Len(s) : raw[o + k] = s[k]
EndsWith(raw, o, s) == Len(raw) = o + Len(s) /\ HasAt(raw, o, s)

\* Then it has the first part of s there, and ends with the second.
LEMMA EndsWithBoth ==
  ASSUME NEW raw, NEW o \in Nat, NEW p \in Seq(Byte), NEW s \in Seq(Byte),
         NEW w, w = p \o s, EndsWith(raw, o, w)
  PROVE  /\ EndsWith(raw, o + Len(p), s)
         /\ HasAt(raw, o, p)
<1>1. /\ p \o s \in Seq(Byte) /\ Len(p \o s) = Len(p) + Len(s)
      /\ Len(p) \in Nat /\ Len(s) \in Nat
      /\ \A i \in 1 .. Len(p) : (p \o s)[i] = p[i]
      /\ \A i \in 1 .. Len(s) : (p \o s)[Len(p) + i] = s[i]
  BY Bytes2
<1>2. Len(raw) = o + Len(w) /\ \A k \in 1 .. Len(w) : raw[o + k] = w[k]
  BY DEF EndsWith, HasAt
<1>3. /\ Len(w) = Len(p) + Len(s)
      /\ \A i \in 1 .. Len(p) : w[i] = p[i]
      /\ \A i \in 1 .. Len(s) : w[Len(p) + i] = s[i]
  BY <1>1
<1>4. \A k \in 1 .. Len(p) : raw[o + k] = p[k]
  BY <1>1, <1>2, <1>3
<1>5. ASSUME NEW k \in 1 .. Len(s) PROVE raw[(o + Len(p)) + k] = s[k]
  <2>1. Len(p) + k \in 1 .. Len(w) /\ o + (Len(p) + k) = (o + Len(p)) + k
    BY <1>1, <1>2, <1>3
  <2>2. raw[o + (Len(p) + k)] = w[Len(p) + k]
    BY <1>2, <2>1
  <2> QED BY <1>3, <2>1, <2>2
<1>6. Len(raw) = (o + Len(p)) + Len(s)
  BY <1>1, <1>2, <1>3
<1> QED BY <1>4, <1>5, <1>6 DEF EndsWith, HasAt

\* What DecodeAttr reads from each byte on.
ReadAt(D, o, s) == D[o + 1] = s
Decodes(D, raw) == \A i \in 1 .. Len(raw) + 1 : D[i] = DecodeFrom(raw, D, i)

\* A byte that is no control character without a letter.
Plain(c) == ~(c < 32 /\ c \notin DOMAIN Letters)

\* A piece is decoded to its byte.
LEMMA DecodePiece ==
  ASSUME NEW raw \in Texts, NEW D, Decodes(D, raw),
         NEW c \in Byte, Plain(c),
         NEW s \in Seq(Byte), NEW o \in Nat, NEW w, w = PieceOf(c) \o s, EndsWith(raw, o, w),
         NEW m \in Nat, m = o + Len(PieceOf(c)), NEW rest, rest # Fail, ReadAt(D, m, rest)
  PROVE  ReadAt(D, o, <<c>> \o rest)
<1> USE DEF ReadAt
<1>0. Len(raw) \in Nat /\ Len(s) \in Nat /\ o \in Nat
  BY DEF Texts, EndsWith
<1>1. CASE PieceOf(c) = <<c>> /\ c # Backslash
  <2>1. <<c>> \in Seq(Byte) /\ Len(<<c>>) = 1 /\ <<c>>[1] = c
    OBVIOUS
  <2> DEFINE p == <<c>>
  <2>a. p \in Seq(Byte) /\ Len(p) = 1 /\ p[1] = c /\ w = p \o s
    BY <1>1, <2>1
  <2> HIDE DEF p
  <2>2. EndsWith(raw, o + 1, s) /\ raw[o + 1] = c
    <3>1. p \in Seq(Byte) /\ w = p \o s
      BY <2>a
    <3>2. EndsWith(raw, o + Len(p), s) /\ HasAt(raw, o, p)
      BY <3>1, EndsWithBoth
    <3> QED BY <2>a, <3>2 DEF HasAt
  <2>3. o + 1 \in 1 .. Len(raw) + 1 /\ ~(o + 1 > Len(raw))
    BY <1>0, <2>2 DEF EndsWith
  <2>4. D[(o + 1) + 1] = rest
    BY <1>1, <2>1
  <2>5. D[o + 1] = DecodeFrom(raw, D, o + 1)
    BY <2>3 DEF Decodes
  <2>6. DecodeFrom(raw, D, o + 1) = <<c>> \o rest
    BY <1>1, <2>2, <2>3, <2>4 DEF DecodeFrom
  <2> QED BY <2>5, <2>6
<1>2. ASSUME NEW x \in Byte, PieceOf(c) = <<Backslash, x>>, ~IsOctal(x), x # 120,
             c = IF \E l \in DOMAIN Letters : Letters[l] = x
                 THEN CHOOSE l \in DOMAIN Letters : Letters[l] = x ELSE x
      PROVE  D[o + 1] = <<c>> \o rest
  <2> DEFINE p == <<Backslash, x>>
  <2>1. p \in Seq(Byte) /\ Len(p) = 2 /\ p[1] = Backslash /\ p[2] = x
    BY DEF Backslash, Byte
  <2>a. PieceOf(c) = p
    BY <1>2
  <2> HIDE DEF p
  <2>2. EndsWith(raw, o + 2, s) /\ raw[o + 1] = Backslash /\ raw[o + 2] = x
    <3>1. p \in Seq(Byte) /\ w = p \o s
      BY <2>1, <2>a
    <3>2. EndsWith(raw, o + Len(p), s) /\ HasAt(raw, o, p)
      BY <3>1, EndsWithBoth
    <3> QED BY <2>1, <3>2 DEF HasAt
  <2>3. o + 1 \in 1 .. Len(raw) + 1 /\ ~(o + 1 > Len(raw)) /\ ~(o + 1 = Len(raw))
    BY <1>0, <2>2 DEF EndsWith
  <2>4. (o + 1) + 1 = o + 2 /\ o + 2 + 1 = (o + 1) + 2
    BY <1>0
  <2>5. EscapeLength(raw, o + 1) = 1
    BY <1>2, <2>2, <2>4 DEF EscapeLength
  <2>6. Escaped(raw, o + 1) = c
    BY <1>2, <2>2, <2>4 DEF Escaped
  <2>7. D[(o + 1) + 2] = rest
    BY <2>1, <2>a, <2>4
  <2>8. D[o + 1] = DecodeFrom(raw, D, o + 1)
    BY <2>3 DEF Decodes
  <2>9. DecodeFrom(raw, D, o + 1) = <<c>> \o rest
    <3> DEFINE n == IF raw[o + 1] = Backslash THEN EscapeLength(raw, o + 1) + 1 ELSE 1
    <3>1. n = 2
      BY <2>2, <2>5
    <3>2. DecodeFrom(raw, D, o + 1) =
            IF D[(o + 1) + n] = Fail THEN Fail
            ELSE <<IF n > 1 THEN Escaped(raw, o + 1) ELSE raw[o + 1]>> \o D[(o + 1) + n]
      BY <2>3 DEF DecodeFrom
    <3>3. D[(o + 1) + n] = rest
      BY <2>7, <3>1
    <3>4. n > 1
      BY <3>1
    <3> HIDE DEF n
    <3> QED BY <2>6, <3>2, <3>3, <3>4
  <2> QED BY <2>8, <2>9
<1> QED BY <1>1, <1>2, PieceIs DEF Plain

\* What EncodeAttr writes from each byte on is a text, and not the one that
\* stands for NULL.
LEMMA EncodedTails ==
  ASSUME NEW v \in Texts, NEW C, C[Len(v) + 1] = <<>>,
         \A i \in 1 .. Len(v) : C[i] = PieceOf(v[i]) \o C[i + 1],
         \A i \in 1 .. Len(v) : ~(v[i] < 32 /\ v[i] \notin DOMAIN Letters)
  PROVE  /\ \A i \in 1 .. Len(v) + 1 : C[i] \in Seq(Byte)
         /\ C[1] # NullText
<1>0. Len(v) \in Nat /\ \A i \in 1 .. Len(v) : v[i] \in Byte
  BY DEF Texts
<1> DEFINE M == Len(v) + 1
           Q == {m \in Nat : m < M => C[M - m] \in Seq(Byte)}
<1>1. 0 \in Q
  <2>1. M - 0 = Len(v) + 1
    BY <1>0
  <2>2. <<>> \in Seq(Byte)
    OBVIOUS
  <2> QED BY <2>1, <2>2
<1>2. ASSUME NEW m \in Nat, m \in Q PROVE m + 1 \in Q
  <2> SUFFICES ASSUME m + 1 < M PROVE C[M - (m + 1)] \in Seq(Byte)
    OBVIOUS
  <2> DEFINE i == M - (m + 1)
  <2>1. i \in 1 .. Len(v) /\ i + 1 = M - m /\ m < M
    BY <1>0
  <2>2. C[i + 1] \in Seq(Byte)
    BY <1>2, <2>1
  <2>3. v[i] \in Byte /\ C[i] = PieceOf(v[i]) \o C[i + 1]
    BY <1>0, <2>1
  <2> HIDE DEF i
  <2> DEFINE p == PieceOf(v[i])
             s == C[i + 1]
  <2>4. p \in Seq(Byte) /\ s \in Seq(Byte) /\ C[i] = p \o s
    BY <2>2, <2>3, PieceIsField DEF IsField, Texts
  <2> HIDE DEF p, s
  <2>5. C[i] \in Seq(Byte)
    BY <2>4, Bytes2
  <2> QED BY <2>5 DEF i
<1>3. Nat \subseteq Q
  <2> HIDE DEF Q
  <2> QED BY <1>1, <1>2, NatSetInduction
<1>4. ASSUME NEW i \in 1 .. Len(v) + 1 PROVE C[i] \in Seq(Byte)
  <2>1. M - i \in Nat /\ M - i < M /\ M - (M - i) = i
    BY <1>0
  <2>2. M - i \in Q
    BY <1>3, <2>1
  <2> QED BY <2>1, <2>2
<1>5. CASE Len(v) = 0
  <2>1. C[1] = <<>>
    BY <1>5
  <2>2. <<>> # NullText
    BY DEF NullText
  <2> QED BY <1>4, <2>1, <2>2
<1>6. CASE Len(v) # 0
  <2> DEFINE c == v[1]
             s == C[1 + 1]
  <2>1. 1 \in 1 .. Len(v) /\ 1 + 1 \in 1 .. Len(v) + 1
    BY <1>0, <1>6
  <2>2. c \in Byte /\ ~(c < 32 /\ c \notin DOMAIN Letters) /\ s \in Seq(Byte)
        /\ C[1] = PieceOf(c) \o s
    BY <1>0, <1>4, <2>1
  <2> HIDE DEF c, s
  <2>3. CASE PieceOf(c) = <<c>> /\ c # Backslash
    <3>1. C[1] = <<c>> \o s
      BY <2>2, <2>3
    <3>2. (<<c>> \o s)[1] = c
      BY <2>2
    <3>3. NullText[1] = Backslash
      BY DEF NullText, Backslash
    <3> QED BY <1>4, <2>3, <3>1, <3>2, <3>3
  <2>4. ASSUME NEW x \in Byte, PieceOf(c) = <<Backslash, x>>, x # 78
        PROVE  C[1] # NullText
    <3>1. C[1] = <<Backslash, x>> \o s
      BY <2>2, <2>4
    <3>2. (<<Backslash, x>> \o s)[2] = x
      BY <2>2, <2>4 DEF Backslash, Byte
    <3>3. NullText[2] = 78
      BY DEF NullText
    <3> QED BY <2>4, <3>1, <3>2, <3>3
  <2>5. C[1] # NullText
    BY <2>2, <2>3, <2>4, PieceIs
  <2> QED BY <1>4, <2>5
<1> QED BY <1>5, <1>6

\* What EncodeAttr writes for a value is decoded to the value.
LEMMA DecodeEncoded ==
  ASSUME NEW v \in TextValues, ~Special(Data(v))
  PROVE  DecodeAttr(EncodeAttr(v)) = v
<1>1. CASE v = Null
  <2>1. EncodeAttr(v) = NullText
    BY <1>1 DEF EncodeAttr
  <2>2. DecodeAttr(NullText) = Null
    BY DEF DecodeAttr
  <2> QED BY <1>1, <2>1, <2>2
<1>2. CASE v # Null
  <2>0. v \in Texts /\ v \in Seq(Byte) /\ Len(v) \in Nat /\ ~Special(v)
        /\ \A i \in 1 .. Len(v) : v[i] \in Byte
    BY <1>2 DEF TextValues, Texts, Data
  <2>1. PICK C : /\ EncodeAttr(v) = C[1]
                 /\ \A i \in 1 .. Len(v) + 3 : C[i] = EncodeFrom(v, C, i)
    BY <1>2, <2>0, EncodeRecursion
  <2>2. /\ C[Len(v) + 1] = <<>>
        /\ \A i \in 1 .. Len(v) : C[i] = PieceOf(v[i]) \o C[i + 1]
    BY <2>0, <2>1, EncodePlain
  <2>3. \A i \in 1 .. Len(v) : ~(v[i] < 32 /\ v[i] \notin DOMAIN Letters)
    <3>1. DOMAIN v = 1 .. Len(v)
      BY <2>0
    <3> QED BY <2>0, <3>1 DEF Special
  <2>4. /\ \A i \in 1 .. Len(v) + 1 : C[i] \in Seq(Byte)
        /\ C[1] # NullText
    BY <2>0, <2>2, <2>3, EncodedTails
  <2>5. PICK raw : raw = C[1]
    OBVIOUS
  <2>6. raw \in Texts /\ raw # NullText
    <3>1. 1 \in 1 .. Len(v) + 1
      BY <2>0
    <3> QED BY <2>4, <2>5, <3>1 DEF Texts
  <2>7. PICK D : /\ DecodeAttr(raw) = D[1]
                 /\ \A i \in 1 .. Len(raw) + 1 : D[i] = DecodeFrom(raw, D, i)
    BY <2>6, DecodeRecursion
  <2>a. Len(raw) \in Nat
    BY <2>6 DEF Texts
  <2> DEFINE M == Len(v) + 1
             Reads(i) == \A o \in Nat : EndsWith(raw, o, C[i]) => D[o + 1] = RestOf(v, i)
             Q == {m \in Nat : m < M => Reads(M - m)}
  <2>8. 0 \in Q
    <3> SUFFICES ASSUME NEW o \in Nat, EndsWith(raw, o, C[M - 0]) PROVE D[o + 1] = RestOf(v, M - 0)
      OBVIOUS
    <3>1. M - 0 = Len(v) + 1
      BY <2>0
    <3>2. EndsWith(raw, o, <<>>)
      BY <2>2, <3>1
    <3>3. o = Len(raw)
      BY <3>2, <2>a, EmptyIsSeq DEF EndsWith
    <3>4. Len(raw) + 1 \in 1 .. Len(raw) + 1 /\ Len(raw) + 1 > Len(raw)
      BY <2>a
    <3>5. D[Len(raw) + 1] = <<>>
      BY <2>7, <3>4 DEF DecodeFrom
    <3>6. RestOf(v, Len(v) + 1) = <<>>
      <4>1. Len(v) + 1 - (Len(v) + 1) = 0
        BY <2>0
      <4>2. RestOf(v, Len(v) + 1) = [k \in 1 .. 0 |-> v[(Len(v) + 1) + k - 1]]
        BY <4>1 DEF RestOf
      <4> QED BY <4>2
    <3> QED BY <3>1, <3>3, <3>5, <3>6
  <2>9. ASSUME NEW m \in Nat, m \in Q PROVE m + 1 \in Q
    <3> DEFINE i == M - (m + 1)
    <3> SUFFICES ASSUME m + 1 < M, NEW o \in Nat, EndsWith(raw, o, C[i]) PROVE D[o + 1] = RestOf(v, i)
      OBVIOUS
    <3>1. i \in 1 .. Len(v) /\ i + 1 = M - m /\ m < M /\ i + 1 \in 1 .. Len(v) + 1
      BY <2>0
    <3>2. Reads(i + 1)
      BY <2>9, <3>1
    <3> HIDE DEF i
    <3> DEFINE c == v[i]
               p == PieceOf(c)
               s == C[i + 1]
               w == C[i]
    <3>3. c \in Byte /\ ~(c < 32 /\ c \notin DOMAIN Letters) /\ s \in Seq(Byte) /\ w = p \o s
      BY <2>0, <2>2, <2>3, <2>4, <3>1
    <3>4. p \in Seq(Byte)
      <4> HIDE DEF c
      <4> QED BY <3>3, PieceIsField DEF IsField, Texts
    <3>5. EndsWith(raw, o, w)
      OBVIOUS
    <3> HIDE DEF s, w
    <3>6. EndsWith(raw, o + Len(p), s)
      <4> HIDE DEF p
      <4> QED BY <3>3, <3>4, <3>5, EndsWithBoth
    <3>7. D[o + Len(p) + 1] = RestOf(v, i + 1)
      <4>1. Len(p) \in Nat /\ o + Len(p) \in Nat
        BY <3>4
      <4>2. EndsWith(raw, o + Len(p), C[i + 1])
        BY <3>6 DEF s
      <4> HIDE DEF p
      <4> QED BY <3>2, <4>1, <4>2
    <3>8. RestOf(v, i + 1) \in Texts
      <4>1. CASE i + 1 \in 1 .. Len(v)
        BY <2>0, <4>1, RestIs
      <4>2. CASE i + 1 \notin 1 .. Len(v)
        <5>1. i + 1 = Len(v) + 1
          BY <2>0, <3>1, <4>2
        <5>2. RestOf(v, Len(v) + 1) = <<>>
          BY <2>0, <3>1, RestIs
        <5>3. RestOf(v, i + 1) = <<>>
          BY <5>1, <5>2
        <5>4. <<>> \in Texts
          BY DEF Texts
        <5> QED BY <5>3, <5>4
      <4> QED BY <4>1, <4>2
    <3>9. RestOf(v, i + 1) # Fail
      BY <3>8, NothingAssumption
    <3>10. D[o + 1] = <<c>> \o RestOf(v, i + 1)
      <4>1. PICK rest : rest = RestOf(v, i + 1)
        OBVIOUS
      <4>2. PICK next : next = o + Len(p)
        OBVIOUS
      <4>3. next \in Nat /\ next = o + Len(PieceOf(c))
        BY <3>4, <4>2
      <4>4. rest # Fail /\ ReadAt(D, next, rest)
        BY <3>7, <3>9, <4>1, <4>2 DEF ReadAt
      <4>5. w = PieceOf(c) \o s /\ EndsWith(raw, o, w)
        BY <3>3, <3>5
      <4>6. Decodes(D, raw)
        BY <2>7 DEF Decodes
      <4>7. c \in Byte /\ Plain(c) /\ s \in Seq(Byte)
        BY <3>3 DEF Plain
      <4> HIDE DEF c, p
      <4>8. ReadAt(D, o, <<c>> \o rest)
        BY <2>6, <4>3, <4>4, <4>5, <4>6, <4>7, DecodePiece
      <4> QED BY <4>1, <4>8 DEF c, ReadAt
    <3>11. <<v[i]>> \o RestOf(v, i + 1) = RestOf(v, i)
      BY <2>0, <3>1, RestIs
    <3> QED BY <3>10, <3>11
  <2>10. Nat \subseteq Q
    <3> HIDE DEF Q
    <3> QED BY <2>8, <2>9, NatSetInduction
  <2>11. Reads(1)
    <3>1. Len(v) \in Q
      BY <2>0, <2>10
    <3>2. M - Len(v) = 1 /\ Len(v) < M
      BY <2>0
    <3> HIDE DEF Reads, M
    <3> QED BY <3>1, <3>2
  <2>12. EndsWith(raw, 0, C[1])
    <3>1. \A k \in 1 .. Len(raw) : 0 + k = k
      BY <2>a
    <3> QED BY <2>5, <2>a, <3>1 DEF EndsWith, HasAt
  <2>13. D[0 + 1] = RestOf(v, 1)
    BY <2>11, <2>12
  <2>14. RestOf(v, 1) = v
    <3>1. v = [k \in 1 .. Len(v) |-> v[k]]
      BY <2>0
    <3>2. Len(v) + 1 - 1 = Len(v) /\ \A k \in 1 .. Len(v) : 1 + k - 1 = k
      BY <2>0
    <3>3. RestOf(v, 1) = [k \in 1 .. Len(v) |-> v[k]]
      BY <3>2 DEF RestOf
    <3> QED BY <3>1, <3>3
  <2> QED BY <2>1, <2>5, <2>7, <2>13, <2>14
<1> QED BY <1>1, <1>2

\* What a transformer set is what a reader of the line decodes, in as many
\* columns as there were, where the operators of texts give texts.
\* (EncodeAttr, DecodeAttr, Row.Encode)
THEOREM WrittenIsReadBack ==
  ASSUME TextsGiven
  PROVE  Spec => []ReadBackAsSet
<1>1. RunInv => ReadBackAsSet
  <2> SUFFICES ASSUME RunInv, table # Unset, table.family = "text", NEW j \in DOMAIN written
               PROVE  /\ Len(Split(written[j])) = Len(table.columns)
                      /\ \A i \in Cells :
                           ~Special(Data(values[j][table.columns[i]])) =>
                             DecodeAttr(Split(written[j])[i]) = values[j][table.columns[i]]
    BY DEF ReadBackAsSet
  <2>1. j \in DOMAIN values
    BY SeqIsSeq DEF RunInv
  <2>2. PICK new : /\ Reached(table, Raw(table, j), Len(table.chain), new)
                   /\ \A l \in Cells : new[l] \in TextValues \cup {Unset}
                   /\ \A l \in Cells : values[j][table.columns[l]]
                                          = CellOf(table, Raw(table, j), new, l)
                   /\ Split(written[j]) = [l \in Cells |->
                        IF new[l] # Unset THEN EncodeAttr(new[l]) ELSE Raw(table, j)[l]]
                   /\ IsTable(table) /\ MadeChain(table) /\ j \in DOMAIN table.lines
    BY <2>1, WrittenTexts
  <2> DEFINE out == Split(written[j])
  <2>3. Len(out) = Len(table.columns)
    <3>1. Cells = 1 .. Len(table.columns) /\ Len(table.columns) \in Nat
      BY <2>2, SeqIsSeq DEF IsTable, IsSeq, Cells
    <3>2. out = [l \in 1 .. Len(table.columns) |-> out[l]]
      BY <2>2, <3>1
    <3> HIDE DEF out
    <3> QED BY <3>1, <3>2, FunctionIsSeq
  <2>4. ASSUME NEW i \in Cells, ~Special(Data(values[j][table.columns[i]]))
        PROVE  DecodeAttr(out[i]) = values[j][table.columns[i]]
    <3>1. values[j][table.columns[i]] = CellOf(table, Raw(table, j), new, i)
      BY <2>2
    <3>2. CASE new[i] # Unset
      <4>1. values[j][table.columns[i]] = new[i] /\ out[i] = EncodeAttr(new[i])
        BY <2>2, <3>1, <3>2 DEF CellOf
      <4>2. new[i] \in TextValues /\ ~Special(Data(new[i]))
        BY <2>2, <2>4, <3>2, <4>1
      <4>3. DecodeAttr(EncodeAttr(new[i])) = new[i]
        BY <4>2, DecodeEncoded
      <4> QED BY <4>1, <4>3
    <3>3. CASE new[i] = Unset
      <4>1. values[j][table.columns[i]] = DecodeAttr(Raw(table, j)[i]) /\ out[i] = Raw(table, j)[i]
        BY <2>2, <3>1, <3>3 DEF CellOf, Value
      <4> QED BY <4>1
    <3> QED BY <3>2, <3>3
  <2> QED BY <2>3, <2>4
<1> QED BY <1>1, RunInvariant, PTL

-----------------------------------------------------------------------------
(* Integers: remainders, and what wraps *)

\* A remainder is the only number below the divisor that differs from the
\* dividend by a multiple.
LEMMA RemainderOf ==
  ASSUME NEW n \in Nat \ {0}, NEW a \in Int, NEW q \in Int, NEW m \in 0 .. n - 1, a = n * q + m
  PROVE  a % n = m
<1> DEFINE p == a \div n
           r == a % n
<1>1. p \in Int /\ r \in 0 .. n - 1 /\ a = n * p + r
  OBVIOUS
<1> HIDE DEF p, r
<1>2. n * (p - q) = m - r
  BY <1>1
<1>3. p - q >= 1 => n * (p - q) >= n
  BY <1>1
<1>4. p - q <= -1 => n * (p - q) <= -n
  BY <1>1
<1>5. p = q
  BY <1>1, <1>2, <1>3, <1>4
<1>6. r = m
  BY <1>1, <1>5
<1> QED BY <1>6 DEF r

\* What is below the divisor is its remainder, and a multiple of the divisor
\* does not change one.
LEMMA Remainder ==
  ASSUME NEW n \in Nat \ {0}, NEW a \in Int
  PROVE  /\ a % n \in 0 .. n - 1
         /\ a \in 0 .. n - 1 => a % n = a
         /\ a \in -n .. -1 => a % n = a + n
         /\ a \in n .. 2 * n - 1 => a % n = a - n
<1>1. a % n \in 0 .. n - 1
  OBVIOUS
<1>2. ASSUME a \in 0 .. n - 1 PROVE a % n = a
  <2>1. a = n * 0 + a
    OBVIOUS
  <2> QED BY <1>2, <2>1, RemainderOf
<1>3. ASSUME a \in -n .. -1 PROVE a % n = a + n
  <2>1. a = n * (-1) + (a + n) /\ a + n \in 0 .. n - 1 /\ -1 \in Int
    BY <1>3
  <2> QED BY <2>1, RemainderOf
<1>4. ASSUME a \in n .. 2 * n - 1 PROVE a % n = a - n
  <2>1. a = n * 1 + (a - n) /\ a - n \in 0 .. n - 1
    BY <1>4
  <2> QED BY <2>1, RemainderOf
<1> QED BY <1>1, <1>2, <1>3, <1>4

\* An int64 stays what it is, any integer becomes one, and an unsigned draw
\* becomes negative from Half on.
LEMMA WrapIs ==
  ASSUME NEW x \in Int
  PROVE  /\ Wrap(x) \in Int64
         /\ x \in Int64 => Wrap(x) = x
         /\ x \in Half .. 2 * Half - 1 => Wrap(x) = x - 2 * Half
         /\ x \in -3 * Half .. -Half - 1 => Wrap(x) = x + 2 * Half
<1>1. 2 * Half \in Nat \ {0} /\ Half \in Nat
  BY HalfAssumption
<1> DEFINE n == 2 * Half
           y == x + Half
<1>2. y \in Int
  BY <1>1
<1>3. /\ y % n \in 0 .. n - 1
      /\ y \in 0 .. n - 1 => y % n = y
      /\ y \in -n .. -1 => y % n = y + n
      /\ y \in n .. 2 * n - 1 => y % n = y - n
  <2> HIDE DEF y, n
  <2> QED BY <1>1, <1>2, Remainder DEF n
<1>4. Wrap(x) = (y % n) - Half
  BY DEF Wrap
<1> QED BY <1>1, <1>3, <1>4 DEF Int64

-----------------------------------------------------------------------------
(* The limiters of numbers *)

\* Int64Limiter.Limit, where the maximum is not negative.
LEMMA IntLimitIn ==
  ASSUME NEW min \in Int64, NEW max \in Int64, min < max, max >= 0, NEW v \in Uint64
  PROVE  IntLimit(min, max, v) \in min .. max
<1> DEFINE distance == (max - min) % (2 * Half)
           x == v % distance
           res == Wrap(min + Wrap(x))
<1>1. /\ Half \in Nat \ {0} /\ min \in Int /\ max \in Int /\ v \in Int
      /\ min >= -Half /\ max <= Half - 1
  BY HalfAssumption DEF Int64, Uint64
<1>2. distance = max - min
  <2>1. 2 * Half \in Nat \ {0} /\ max - min \in 0 .. 2 * Half - 1 /\ max - min \in Int
    BY <1>1
  <2> QED BY <2>1, Remainder
<1>3. x \in 0 .. max - min - 1
  <2>1. max - min \in Nat \ {0}
    BY <1>1
  <2>2. v % (max - min) \in 0 .. max - min - 1
    BY <1>1, <2>1, Remainder
  <2> QED BY <1>2, <2>2
<1>4. IntLimit(min, max, v) = IF res < 0 THEN Rem(res, min) ELSE Rem(res, max)
  BY DEF IntLimit
<1> HIDE DEF distance, x
<1>5. res = min + x
  <2>1. CASE x < Half
    <3>1. x \in Int64 /\ x \in Int
      BY <1>1, <1>3, <2>1 DEF Int64
    <3>2. Wrap(x) = x
      BY <3>1, WrapIs
    <3>3. min + x \in Int64 /\ min + x \in Int
      BY <1>1, <1>3 DEF Int64
    <3>4. Wrap(min + x) = min + x
      BY <3>3, WrapIs
    <3> QED BY <3>2, <3>4
  <2>2. CASE x >= Half
    <3>1. x \in Half .. 2 * Half - 1 /\ x \in Int
      BY <1>1, <1>3, <2>2
    <3>2. Wrap(x) = x - 2 * Half
      BY <3>1, WrapIs
    <3>3. min + (x - 2 * Half) \in -3 * Half .. -Half - 1 /\ min + (x - 2 * Half) \in Int
      BY <1>1, <1>3, <2>2
    <3>4. Wrap(min + (x - 2 * Half)) = (min + (x - 2 * Half)) + 2 * Half
      BY <3>3, WrapIs
    <3>5. (min + (x - 2 * Half)) + 2 * Half = min + x
      BY <1>1, <1>3
    <3> QED BY <3>2, <3>4, <3>5
  <2> QED BY <1>1, <1>3, <2>1, <2>2
<1> HIDE DEF res
<1>6. res \in min .. max - 1 /\ res \in Int
  BY <1>1, <1>3, <1>5
<1>7. CASE res < 0
  <2>1. min < 0 /\ -min \in Nat \ {0} /\ -res \in 1 .. -min /\ -res \in Int
    BY <1>1, <1>6, <1>7
  <2>2. Rem(res, min) = -((-res) % (-min))
    BY <1>7, <2>1 DEF Rem
  <2>3. (-res) % (-min) \in 0 .. -min - 1
    BY <2>1, Remainder
  <2>4. Rem(res, min) \in min .. max
    BY <1>1, <2>2, <2>3
  <2> QED BY <1>4, <1>7, <2>4
<1>8. CASE res >= 0
  <2>1. max \in Nat \ {0} /\ res \in 0 .. max - 1
    BY <1>1, <1>6, <1>8
  <2>2. Rem(res, max) = res % max
    BY <1>1, <1>6, <1>8, <2>1 DEF Rem
  <2>3. res % max = res
    BY <1>6, <2>1, Remainder
  <2> QED BY <1>1, <1>4, <1>6, <1>8, <2>2, <2>3
<1> QED BY <1>6, <1>7, <1>8

\* The quotient of what is at most a multiple of the divisor.
LEMMA QuotientIn ==
  ASSUME NEW n \in Nat \ {0}, NEW c \in Nat, NEW a \in Nat, a <= n * c
  PROVE  Quo(a, n) \in 0 .. c
<1> DEFINE q == a \div n
           m == a % n
<1>1. q \in Int /\ m \in 0 .. n - 1 /\ a = n * q + m
  OBVIOUS
<1>2. Quo(a, n) = q
  BY DEF Quo
<1> HIDE DEF q, m
<1>3. q <= -1 => n * q <= -n
  BY <1>1
<1>4. q > c => n * q >= n * c + n
  <2> SUFFICES ASSUME q > c PROVE n * q >= n * c + n
    OBVIOUS
  <2>1. n * (q - c) >= n
    BY <1>1
  <2>2. n * (q - c) = n * q - n * c
    BY <1>1
  <2>3. n * c \in Int /\ n * q \in Int
    BY <1>1
  <2> QED BY <2>1, <2>2, <2>3
<1>5. n * c \in Int /\ n * q \in Int
  BY <1>1
<1> QED BY <1>1, <1>2, <1>3, <1>4, <1>5

\* Round is off by half a step at most.
LEMMA RoundIs ==
  ASSUME NEW unit \in Nat \ {0}, NEW x \in Int
  PROVE  /\ Round(unit, x) \in Int
         /\ 2 * (x - Round(unit, x)) <= unit /\ 2 * (Round(unit, x) - x) <= unit
<1>1. ASSUME NEW y \in Nat
      PROVE  LET z == ((y * 2 + unit) \div (2 * unit)) * unit
             IN  z \in Int /\ 2 * (y - z) <= unit /\ 2 * (z - y) <= unit
  <2> DEFINE n == 2 * unit
             a == y * 2 + unit
             q == a \div n
             m == a % n
  <2>1. n \in Nat \ {0} /\ a \in Int
    OBVIOUS
  <2>2. q \in Int /\ m \in 0 .. n - 1 /\ a = n * q + m
    <3> HIDE DEF n, a
    <3> QED BY <2>1
  <2> HIDE DEF q, m
  <2>3. n * q = 2 * (q * unit) /\ q * unit \in Int
    BY <2>2
  <2>4. 2 * (y - q * unit) <= unit /\ 2 * (q * unit - y) <= unit
    BY <2>2, <2>3
  <2> QED BY <2>3, <2>4 DEF q
<1>2. CASE x < 0
  <2>1. -x \in Nat
    BY <1>2
  <2> DEFINE z == (((-x) * 2 + unit) \div (2 * unit)) * unit
  <2>2. z \in Int /\ 2 * (-x - z) <= unit /\ 2 * (z - (-x)) <= unit
    BY <1>1, <2>1
  <2>3. Round(unit, x) = -z
    BY <1>2 DEF Round, Steps
  <2> HIDE DEF z
  <2> QED BY <2>2, <2>3
<1>3. CASE x >= 0
  <2>1. x \in Nat
    BY <1>3
  <2> DEFINE z == ((x * 2 + unit) \div (2 * unit)) * unit
  <2>2. z \in Int /\ 2 * (x - z) <= unit /\ 2 * (z - x) <= unit
    BY <1>1, <2>1
  <2>3. Round(unit, x) = z
    BY <1>3 DEF Round, Steps
  <2> HIDE DEF z
  <2> QED BY <2>2, <2>3
<1> QED BY <1>2, <1>3

\* What passes the limits by half a step at most.
Near(v, min, max, unit) == v \in Int /\ 2 * (min - v) <= unit /\ 2 * (v - max) <= unit

LEMMA RoundNear ==
  ASSUME NEW unit \in Nat \ {0}, NEW min \in Int, NEW max \in Int, NEW x \in min .. max
  PROVE  Near(Round(unit, x), min, max, unit)
<1>1. x \in Int /\ min <= x /\ x <= max
  OBVIOUS
<1>2. /\ Round(unit, x) \in Int
      /\ 2 * (x - Round(unit, x)) <= unit /\ 2 * (Round(unit, x) - x) <= unit
  BY <1>1, RoundIs
<1> DEFINE y == Round(unit, x)
<1>3. y \in Int /\ 2 * (x - y) <= unit /\ 2 * (y - x) <= unit
  BY <1>2
<1> HIDE DEF y
<1>4. 2 * (min - y) <= unit /\ 2 * (y - max) <= unit
  BY <1>1, <1>3
<1> QED BY <1>3, <1>4 DEF Near, y

\* What is between the limits is near them.
LEMMA BetweenNear ==
  ASSUME NEW unit \in Nat \ {0}, NEW min \in Int, NEW max \in Int, NEW v \in min .. max
  PROVE  Near(v, min, max, unit)
  BY DEF Near

\* The numbers at both ends of those an int64 counts in units, and zero.
LEMMA EndsIs ==
  ASSUME NEW unit \in Nat \ {0}
  PROVE  /\ Half * unit \in Nat /\ unit <= Half * unit
         /\ (Half - 1) * unit = Half * unit - unit
         /\ (-Half) * unit = -(Half * unit) /\ 0 * unit = 0
<1>1. Half \in Nat \ {0}
  BY HalfAssumption
<1>2. (Half - 1) * unit = Half * unit - unit /\ (-Half) * unit = -(Half * unit)
  BY <1>1
<1>3. (Half - 1) * unit >= 0 /\ Half * unit \in Int /\ (Half - 1) * unit \in Int
  BY <1>1
<1> QED BY <1>2, <1>3

\* A conversion to int64 gives one, and the product is a number.
LEMMA RoundFloatIs ==
  ASSUME NEW unit \in Nat \ {0}, NEW x \in Int
  PROVE  Steps(unit, x) \in Int /\ RoundFloat(unit, x) \in Int
<1>1. \A a \in Int : a \div (2 * unit) \in Int
  OBVIOUS
<1>2. Steps(unit, x) \in Int
  BY <1>1 DEF Steps
<1>3. ToInt64(Steps(unit, x)) \in Int
  BY <1>2, HalfAssumption DEF ToInt64, Int64
<1> QED BY <1>2, <1>3 DEF RoundFloat

\* Rounding of floats stays near limits that an int64 can count between, or
\* that hold what becomes of a count that is none.
LEMMA RoundFloatNear ==
  ASSUME NEW unit \in Nat \ {0}, NEW lo \in Int, NEW hi \in Int, hi >= 0,
         lo <= -(Half * unit) \/ hi <= (Half - 1) * unit, NEW x \in lo .. hi
  PROVE  Near(RoundFloat(unit, x), lo, hi, unit)
<1> DEFINE q == Steps(unit, x)
           c == q * unit
           h == Half * unit
<1>1. x \in Int /\ lo <= x /\ x <= hi
  OBVIOUS
<1>2. q \in Int /\ Half \in Nat \ {0}
  BY <1>1, RoundFloatIs, HalfAssumption
<1>3. c \in Int /\ 2 * (x - c) <= unit /\ 2 * (c - x) <= unit
  BY <1>1, RoundIs DEF Round
<1>4. h \in Nat /\ unit <= h /\ (Half - 1) * unit = h - unit /\ (-Half) * unit = -h
  BY EndsIs
<1>5. CASE q \in Int64
  <2>1. RoundFloat(unit, x) = Round(unit, x)
    BY <1>5 DEF RoundFloat, Round, ToInt64
  <2> QED BY <2>1, RoundNear
<1>6. CASE q >= Half
  <2>1. c >= h
    <3>1. (q - Half) * unit >= 0
      <4>1. q - Half \in Nat
        BY <1>2, <1>6
      <4> QED BY <4>1
    <3>2. (q - Half) * unit = c - h
      BY <1>2
    <3> HIDE DEF c, h
    <3> QED BY <1>3, <1>4, <3>1, <3>2
  <2>2. RoundFloat(unit, x) \in {(Half - 1) * unit, (-Half) * unit}
    BY <1>2, <1>6 DEF RoundFloat, ToInt64, Int64
  <2> HIDE DEF c, h
  <2>3. hi > h - unit
    BY <1>1, <1>3, <1>4, <2>1
  <2>4. lo <= -h
    BY <1>4, <2>3 DEF h
  <2>5. RoundFloat(unit, x) \in lo .. hi
    BY <1>4, <2>2, <2>3, <2>4
  <2> QED BY <2>5, BetweenNear
<1>7. CASE q < -Half
  <2>1. c <= -h - unit
    <3>1. (-Half - 1 - q) * unit >= 0
      <4>1. -Half - 1 - q \in Nat
        BY <1>2, <1>7
      <4> QED BY <4>1
    <3>2. (-Half - 1 - q) * unit = -h - unit - c
      BY <1>2
    <3> HIDE DEF c, h
    <3> QED BY <1>3, <1>4, <3>1, <3>2
  <2>2. RoundFloat(unit, x) = (-Half) * unit
    BY <1>2, <1>7 DEF RoundFloat, ToInt64, Int64
  <2> HIDE DEF c, h
  <2>3. lo <= -h
    BY <1>1, <1>3, <1>4, <2>1
  <2>4. RoundFloat(unit, x) \in lo .. hi
    BY <1>4, <2>2, <2>3
  <2> QED BY <2>4, BetweenNear
<1>8. q \in Int64 \/ q >= Half \/ q < -Half
  BY <1>2 DEF Int64
<1> QED BY <1>5, <1>6, <1>7, <1>8

\* Countable limits are such limits, and when no float holds their distance
\* both ends of what an int64 counts are between them.
LEMMA CountableIs ==
  ASSUME NEW unit \in Nat \ {0}, NEW lo \in Int, NEW hi \in Int, Countable(lo, hi, unit)
  PROVE  /\ lo <= -(Half * unit) \/ hi <= (Half - 1) * unit
         /\ hi - lo > Float8 => lo <= -(Half * unit) /\ hi >= (Half - 1) * unit
  BY DEF Countable

\* Float64Limiter.Limit, with limits of its own that are inside of others
LEMMA FloatLimitNear ==
  ASSUME NEW unit \in Nat \ {0}, NEW min \in Int, NEW max \in Int, min < max,
         NEW lo \in Int, NEW hi \in Int, NEW v \in 0 .. Ratio
  PROVE  /\ FloatLimit(min, max, unit, v) \in Int
         /\ lo <= min /\ max <= hi /\ hi >= 0 /\ Countable(lo, hi, unit) =>
              Near(FloatLimit(min, max, unit, v), lo, hi, unit)
<1> DEFINE c == max - min
           a == v * c
           x == min + Quo(a, Ratio)
<1>1. Ratio \in Nat \ {0} /\ c \in Nat /\ v \in Nat /\ v <= Ratio
  BY ScaleAssumption
<1>2. a \in Nat /\ a <= Ratio * c
  <2> HIDE DEF c
  <2>1. (Ratio - v) * c >= 0
    BY <1>1
  <2>2. (Ratio - v) * c = Ratio * c - v * c
    BY <1>1
  <2>3. v * c \in Nat /\ Ratio * c \in Nat
    BY <1>1
  <2> QED BY <2>1, <2>2, <2>3
<1>3. Quo(a, Ratio) \in 0 .. c
  <2> HIDE DEF a, c
  <2> QED BY <1>1, <1>2, QuotientIn
<1>4. x \in min .. max /\ x \in Int
  <2> HIDE DEF a
  <2> QED BY <1>3
<1>5. CASE max - min > Float8
  <2> DEFINE h == Half * unit
             w == FloatLimit(min, max, unit, v)
  <2>1. h \in Nat /\ unit <= h /\ (Half - 1) * unit = h - unit /\ (-Half) * unit = -h
        /\ 0 * unit = 0
    BY EndsIs
  <2>2. w \in {0 * unit, (Half - 1) * unit, (-Half) * unit}
    BY <1>5, HalfAssumption DEF FloatLimit, ToInt64, Int64
  <2> HIDE DEF h, w
  <2>3. w \in Int
    BY <2>1, <2>2
  <2>4. ASSUME lo <= min, max <= hi, hi >= 0, Countable(lo, hi, unit)
        PROVE  Near(w, lo, hi, unit)
    <3>1. hi - lo > Float8
      BY <1>5, <2>4, FloatAssumption
    <3>2. lo <= -h /\ hi >= h - unit
      BY <2>1, <2>4, <3>1, CountableIs DEF h
    <3>3. w \in lo .. hi
      BY <2>1, <2>2, <2>4, <3>2
    <3> QED BY <3>3, BetweenNear
  <2> QED BY <2>3, <2>4 DEF w
<1>6. CASE ~(max - min > Float8)
  <2>1. FloatLimit(min, max, unit, v) = RoundFloat(unit, x)
    BY <1>6 DEF FloatLimit
  <2> HIDE DEF x
  <2>2. RoundFloat(unit, x) \in Int
    BY <1>4, RoundFloatIs
  <2>3. ASSUME lo <= min, max <= hi, hi >= 0, Countable(lo, hi, unit)
        PROVE  Near(RoundFloat(unit, x), lo, hi, unit)
    <3>1. x \in lo .. hi
      BY <1>4, <2>3
    <3> QED BY <2>3, <3>1, CountableIs, RoundFloatNear
  <2> QED BY <2>1, <2>2, <2>3
<1> QED BY <1>5, <1>6

\* RandomNumericLimiter.Limit
LEMMA NumericLimitNear ==
  ASSUME NEW unit \in Nat \ {0}, NEW min \in Int, NEW max \in Int, min < max, NEW v \in Nat
  PROVE  Near(NumericLimit(min, max, unit, v), min, max, unit)
<1> DEFINE x == v % (max - min)
<1>1. x \in 0 .. max - min - 1
  <2>1. max - min \in Nat \ {0}
    OBVIOUS
  <2>2. v % (max - min) \in 0 .. (max - min) - 1
    BY <2>1, Remainder
  <2> QED BY <2>2
<1>2. min + x \in min .. max /\ ~(min + x > max) /\ ~(min + x < min)
  <2> HIDE DEF x
  <2> QED BY <1>1
<1>3. NumericLimit(min, max, unit, v) = Round(unit, min + x)
  BY <1>2 DEF NumericLimit
<1> HIDE DEF x
<1> QED BY <1>2, <1>3, RoundNear

\* NoiseNumericLimiter.Limit
LEMMA ClampRoundNear ==
  ASSUME NEW unit \in Nat \ {0}, NEW min \in Int, NEW max \in Int, min < max, NEW v \in Int
  PROVE  Near(ClampRound(min, max, unit, v), min, max, unit)
<1>1. CASE v < min
  BY <1>1 DEF ClampRound, Near
<1>2. CASE ~(v < min) /\ v > max
  BY <1>2 DEF ClampRound, Near
<1>3. CASE ~(v < min) /\ ~(v > max)
  <2>1. v \in min .. max
    BY <1>3
  <2>2. ClampRound(min, max, unit, v) = Round(unit, v)
    BY <1>3 DEF ClampRound
  <2> QED BY <2>1, <2>2, RoundNear
<1> QED BY <1>1, <1>2, <1>3

\* NoiseFloat64Limiter.Limit, with limits of its own that are inside of others
LEMMA ClampRoundFloatNear ==
  ASSUME NEW unit \in Nat \ {0}, NEW min \in Int, NEW max \in Int, min < max,
         NEW lo \in Int, NEW hi \in Int, NEW v \in Int
  PROVE  /\ ClampRoundFloat(min, max, unit, v) \in Int
         /\ lo <= min /\ max <= hi /\ hi >= 0 /\ Countable(lo, hi, unit) =>
              Near(ClampRoundFloat(min, max, unit, v), lo, hi, unit)
<1> DEFINE w == ClampRoundFloat(min, max, unit, v)
<1>1. CASE v < min \/ v > max
  <2>1. w \in {min, max}
    BY <1>1 DEF ClampRoundFloat
  <2> HIDE DEF w
  <2>2. lo <= min /\ max <= hi => w \in lo .. hi
    BY <2>1
  <2>3. w \in Int
    BY <2>1
  <2> QED BY <2>2, <2>3, BetweenNear DEF w
<1>2. CASE ~(v < min) /\ ~(v > max)
  <2>1. w = RoundFloat(unit, v)
    BY <1>2 DEF ClampRoundFloat
  <2>2. RoundFloat(unit, v) \in Int
    BY RoundFloatIs
  <2>3. ASSUME lo <= min, max <= hi, hi >= 0, Countable(lo, hi, unit)
        PROVE  Near(RoundFloat(unit, v), lo, hi, unit)
    <3>1. v \in lo .. hi
      BY <1>2, <2>3
    <3> QED BY <2>3, <3>1, CountableIs, RoundFloatNear
  <2> QED BY <2>1, <2>2, <2>3
<1> QED BY <1>1, <1>2

-----------------------------------------------------------------------------
(* The limits a row gives *)

\* A parameter decodes into S, or not at all, in the row r.
GivesHere(p, r, S) ==
    /\ p.dynamic \in BOOLEAN /\ p.value \in S \cup {Unset}
    /\ p.dynamic /\ r[p.column] # Null => Cast(p.cast, r[p.column]) \in S \cup {Fail}

\* What is scanned is what is declared, or dest where nothing is.
LEMMA ScanIs ==
  ASSUME NEW S, Unset \notin S, NEW p, NEW r, GivesHere(p, r, S), NEW dest \in S, NEW none,
         Scan(p, r, dest) # Fail
  PROVE  /\ Scan(p, r, dest) \in S
         /\ \/ Scan(p, r, dest) = Declared(p, r, none)
            \/ ~p.dynamic /\ p.value = Unset /\ Scan(p, r, dest) = dest /\ Declared(p, r, none) = none
  BY DEF GivesHere, Scan, Declared

\* The limits l are below each other, and inside of min and max.
Inside(l, min, max) ==
    /\ min \in Int /\ max \in Int /\ l[1] \in Int /\ l[2] \in Int
    /\ min <= l[1] /\ l[1] < l[2] /\ l[2] <= max
    /\ max >= 0 => l[2] >= 0

\* The limits of a row, where one of the parameters is dynamic.
LEMMA RowLimitsIn ==
  ASSUME NEW S \in {Int, Int64}, NEW t, NEW r, GivesHere(t.min, r, S), GivesHere(t.max, r, S),
         Dynamic(t), NEW lo \in S, NEW hi \in S, lo < hi, NEW b \in Nat, NEW b0 \in Nat,
         -b <= lo, hi <= b, hi >= 0, RowLimits(t, r, lo, hi) # Fail
  PROVE  LET none == Unlimited(t, r)
             l == RowLimits(t, r, lo, hi)
         IN  /\ l[1] \in S /\ l[2] \in S
             /\ none => Inside(l, -b, b)
             /\ ~none => Inside(l, Declared(t.min, r, -b0), Declared(t.max, r, b0))
<1> DEFINE min == Scan(t.min, r, 0)
           max == Scan(t.max, r, 0)
<1>1. /\ 0 \in S /\ Unset \notin S /\ S \subseteq Int
  BY NothingAssumption, HalfAssumption DEF Int64
<1>2. min # Fail /\ max # Fail
  BY DEF RowLimits
<1>3. /\ min \in S
      /\ min = Declared(t.min, r, -b0) \/ (min = 0 /\ Declared(t.min, r, -b0) = -b0)
  BY <1>1, <1>2, ScanIs
<1>4. /\ max \in S
      /\ max = Declared(t.max, r, b0) \/ (max = 0 /\ Declared(t.max, r, b0) = b0)
  BY <1>1, <1>2, ScanIs
<1>5. Unlimited(t, r) = (min = 0 /\ max = 0)
  BY DEF Unlimited
<1>6. RowLimits(t, r, lo, hi) = IF min = 0 /\ max = 0 THEN <<lo, hi>> ELSE <<min, max>>
  BY <1>2 DEF RowLimits
<1>7. ~(min = 0 /\ max = 0) => min < max
  BY <1>2 DEF RowLimits, LimitsOk
<1> HIDE DEF min, max
<1>8. CASE min = 0 /\ max = 0
  <2> DEFINE l == RowLimits(t, r, lo, hi)
  <2>1. l[1] = lo /\ l[2] = hi
    BY <1>6, <1>8
  <2> HIDE DEF l
  <2>2. lo \in Int /\ hi \in Int
    BY <1>1
  <2>3. Inside(l, -b, b)
    BY <2>1, <2>2 DEF Inside
  <2>4. Unlimited(t, r) /\ l[1] \in S /\ l[2] \in S
    BY <1>5, <1>8, <2>1
  <2> QED BY <2>3, <2>4 DEF l
<1>9. CASE ~(min = 0 /\ max = 0)
  <2>1. min \in Int /\ max \in Int /\ min < max
    BY <1>1, <1>3, <1>4, <1>7, <1>9
  <2>2. Declared(t.min, r, -b0) \in Int /\ Declared(t.min, r, -b0) <= min
    BY <1>3, <2>1
  <2>3. Declared(t.max, r, b0) \in Int /\ max <= Declared(t.max, r, b0)
    BY <1>4, <2>1
  <2>4. Declared(t.max, r, b0) >= 0 => max >= 0
    BY <1>4, <2>1
  <2> DEFINE l == RowLimits(t, r, lo, hi)
  <2>5. l[1] = min /\ l[2] = max
    BY <1>6, <1>9
  <2> HIDE DEF l
  <2>6. Inside(l, Declared(t.min, r, -b0), Declared(t.max, r, b0))
    BY <2>1, <2>2, <2>3, <2>4, <2>5 DEF Inside
  <2>7. ~Unlimited(t, r) /\ l[1] \in S /\ l[2] \in S
    BY <1>3, <1>4, <1>5, <1>9, <2>5
  <2> QED BY <2>6, <2>7 DEF l
<1> QED BY <1>8, <1>9

\* The limits of a constructor.
LEMMA StaticLimitsIn ==
  ASSUME NEW S \in {Int, Int64}, NEW t, NEW r, GivesHere(t.min, r, S), GivesHere(t.max, r, S),
         ~Dynamic(t), NEW lo \in S, NEW hi \in S, NEW b \in Nat, -b <= lo, hi <= b, hi >= 0,
         StaticLimits(t, lo, hi) # Fail
  PROVE  LET l == StaticLimits(t, lo, hi)
         IN  /\ ~Unlimited(t, r) /\ l[1] \in S /\ l[2] \in S
             /\ Inside(l, Declared(t.min, r, -b), Declared(t.max, r, b))
<1> DEFINE min == IF t.min.value = Unset THEN lo ELSE t.min.value
           max == IF t.max.value = Unset THEN hi ELSE t.max.value
<1>1. /\ Unset \notin S /\ S \subseteq Int
  BY NothingAssumption, HalfAssumption DEF Int64
<1>2. ~t.min.dynamic /\ ~t.max.dynamic
  BY DEF Dynamic
<1>3. StaticLimits(t, lo, hi) = <<min, max>> /\ min < max
  BY DEF StaticLimits, LimitsOk
<1>4. min \in S /\ max \in S
  BY <1>1 DEF GivesHere
<1>5. /\ Declared(t.min, r, -b) = IF t.min.value = Unset THEN -b ELSE t.min.value
      /\ Declared(t.max, r, b) = IF t.max.value = Unset THEN b ELSE t.max.value
  BY <1>2 DEF Declared
<1>6. Unlimited(t, r) => t.min.value = 0 /\ t.max.value = 0
  BY DEF Unlimited
<1>7. ~Unlimited(t, r)
  <2> SUFFICES ASSUME Unlimited(t, r) PROVE FALSE
    OBVIOUS
  <2>1. t.min.value = 0 /\ t.max.value = 0 /\ 0 # Unset
    BY <1>6, NothingAssumption
  <2>2. min = 0 /\ max = 0
    BY <2>1
  <2> QED BY <1>3, <2>2
<1>8. /\ Declared(t.min, r, -b) \in Int /\ Declared(t.min, r, -b) <= min
      /\ Declared(t.max, r, b) \in Int /\ max <= Declared(t.max, r, b)
  <2>1. lo \in Int /\ hi \in Int /\ min \in Int /\ max \in Int
    BY <1>1, <1>4
  <2>2. Declared(t.min, r, -b) \in Int /\ Declared(t.min, r, -b) <= min
    BY <1>4, <1>1, <1>5, <2>1
  <2>3. Declared(t.max, r, b) \in Int /\ max <= Declared(t.max, r, b)
    BY <1>4, <1>1, <1>5, <2>1
  <2> QED BY <2>2, <2>3
<1>9. Declared(t.max, r, b) >= 0 => max >= 0
  <2>1. hi \in Int /\ max \in Int
    BY <1>1, <1>4
  <2> QED BY <1>5, <2>1
<1> HIDE DEF min, max
<1> QED BY <1>1, <1>3, <1>4, <1>7, <1>8, <1>9 DEF Inside

\* What is near limits that are inside of others is near those.
LEMMA InsideNear ==
  ASSUME NEW min, NEW max, NEW l, Inside(l, min, max),
         NEW unit \in Nat, NEW slack \in Nat, unit <= slack, NEW v, Near(v, l[1], l[2], unit)
  PROVE  v \in Int /\ 2 * (min - v) <= slack /\ 2 * (v - max) <= slack
  BY DEF Inside, Near

-----------------------------------------------------------------------------
(* What the transformers of numbers make *)

\* A draw of a number or a time, and a row with what a transformer of numbers
\* reads of it.
DrawnNumber == [v : Uint64, frac : 0 .. Ratio, negative : BOOLEAN, nano : 0 .. Nano - 1]
NumberRow(kind, t, r) ==
    /\ \A p \in {t.min, t.max} : GivesHere(p, r, IF kind \in IntKinds THEN Int64 ELSE Int)
    /\ t.step \in Nat \ {0} /\ t.minRatio \in Int /\ t.maxRatio \in Int
    /\ t.column \in DOMAIN r /\ r[t.column] \in Int \cup {Null}

\* The limits of NumberInLimits, by name.
BoundOf(kind, t, r) ==
    IF Unlimited(t, r) /\ kind = "RandomFloat" THEN Float8
    ELSE IF kind \in IntKinds THEN IntThreshold(t.size)
    ELSE IF kind \in FloatKinds THEN FloatThreshold(t.size) ELSE NumericMax
MinOf(kind, t, r) ==
    IF Unlimited(t, r) THEN -BoundOf(kind, t, r) ELSE Declared(t.min, r, -BoundOf(kind, t, r))
MaxOf(kind, t, r) ==
    IF Unlimited(t, r) THEN BoundOf(kind, t, r) ELSE Declared(t.max, r, BoundOf(kind, t, r))
SlackOf(kind, t) == IF kind \in IntKinds THEN 0 ELSE t.step
Counted(kind, t, r) ==
    kind \in FloatKinds => Countable(MinOf(kind, t, r), MaxOf(kind, t, r), t.step)

\* A number that is set between the limits, and NULL that is kept.
Limited(kind, t, r, after) ==
    \/ after = r /\ r[t.column] = Null
    \/ \E v \in Int :
         /\ after = Set(t, r, v)
         /\ MaxOf(kind, t, r) >= 0 /\ Counted(kind, t, r) =>
              2 * (MinOf(kind, t, r) - v) <= SlackOf(kind, t) /\
              2 * (v - MaxOf(kind, t, r)) <= SlackOf(kind, t)

LEMMA LimitedIs ==
  ASSUME NEW e, e.kind \in LimitedKinds, NEW t, NEW r, NEW made, t.column \in DOMAIN r,
         TakesLimits(e, t) => Limited(e.kind, t, r, made),
         NEW after, TakesLimits(e, t) => after[t.column] = made[t.column]
  PROVE  /\ NumberInLimits(e, t, r, after)
         /\ TakesLimits(e, t) => made[t.column] # Unset
<1>1. Threshold(e, t) = IF e.kind \in IntKinds THEN IntThreshold(t.size)
                        ELSE IF e.kind \in FloatKinds
                        THEN FloatThreshold(t.size) ELSE NumericMax
  BY DEF Threshold, IntKinds, FloatKinds
<1>2. NumberInLimits(e, t, r, after) =
        (after[t.column] # Null => (TakesLimits(e, t) /\ MaxOf(e.kind, t, r) >= 0
                                      /\ Counted(e.kind, t, r) =>
           2 * (MinOf(e.kind, t, r) - after[t.column]) <= SlackOf(e.kind, t) /\
           2 * (after[t.column] - MaxOf(e.kind, t, r)) <= SlackOf(e.kind, t)))
  BY <1>1 DEF NumberInLimits, MinOf, MaxOf, BoundOf, SlackOf, Counted, LimitedKinds
<1>3. \A v : Set(t, r, v)[t.column] = v
  BY DEF Set
<1>4. Null # Unset /\ Unset \notin Int
  BY NothingAssumption
<1>5. NumberInLimits(e, t, r, after)
  BY <1>2, <1>3 DEF Limited
<1> QED BY <1>3, <1>4, <1>5 DEF Limited

\* The bounds are numbers above zero; that of an integer is one of an int64.
LEMMA Bounds ==
  ASSUME NEW size
  PROVE  /\ IntThreshold(size) \in 1 .. Half /\ Half \in Nat
         /\ FloatThreshold(size) \in Nat \ {0} /\ Float8 \in Nat \ {0} /\ NumericMax \in Nat \ {0}
  BY WidthAssumption, HalfAssumption, FloatAssumption DEF IntThreshold, FloatThreshold

\* A number near limits that are inside is in the limits.
LEMMA NearLimited ==
  ASSUME NEW kind, NEW t, NEW r, NEW after, NEW l,
         Inside(l, MinOf(kind, t, r), MaxOf(kind, t, r)),
         NEW unit \in Nat, SlackOf(kind, t) \in Nat, unit <= SlackOf(kind, t), NEW v,
         MaxOf(kind, t, r) >= 0 => Near(v, l[1], l[2], unit), v \in Int, after = Set(t, r, v)
  PROVE  Limited(kind, t, r, after)
<1>1. MaxOf(kind, t, r) >= 0 =>
         2 * (MinOf(kind, t, r) - v) <= SlackOf(kind, t) /\
         2 * (v - MaxOf(kind, t, r)) <= SlackOf(kind, t)
  BY InsideNear
<1> QED BY <1>1 DEF Limited

\* So is a float near them, when they can be counted in its steps.
LEMMA FloatLimited ==
  ASSUME NEW kind \in FloatKinds, NEW t, NEW r, NEW after, t.step \in Nat, NEW v \in Int,
         MaxOf(kind, t, r) >= 0 /\ Countable(MinOf(kind, t, r), MaxOf(kind, t, r), t.step) =>
           Near(v, MinOf(kind, t, r), MaxOf(kind, t, r), t.step),
         after = Set(t, r, v)
  PROVE  Limited(kind, t, r, after)
<1>1. SlackOf(kind, t) = t.step
  BY DEF SlackOf, IntKinds, FloatKinds
<1> QED BY <1>1 DEF Limited, Counted, Near

\* Integers: the limits ...
LEMMA IntLimitsIn ==
  ASSUME NEW kind \in IntKinds, NEW t, NEW r, NumberRow(kind, t, r),
         NEW l, l # Fail,
         l = IF Dynamic(t) THEN RowLimits(t, r, -IntThreshold(t.size), IntThreshold(t.size) - 1)
             ELSE StaticLimits(t, -IntThreshold(t.size), IntThreshold(t.size) - 1)
  PROVE  l[1] \in Int64 /\ l[2] \in Int64 /\ Inside(l, MinOf(kind, t, r), MaxOf(kind, t, r))
<1> DEFINE b == IntThreshold(t.size)
           lo == -b
           hi == b - 1
<1>1. b \in 1 .. Half /\ Half \in Nat
  BY Bounds
<1>2. BoundOf(kind, t, r) = b
  BY DEF BoundOf, IntKinds, FloatKinds
<1>3. GivesHere(t.min, r, Int64) /\ GivesHere(t.max, r, Int64)
  BY DEF NumberRow
<1>4. l = IF Dynamic(t) THEN RowLimits(t, r, lo, hi) ELSE StaticLimits(t, lo, hi)
  OBVIOUS
<1> HIDE DEF b
<1>5. /\ b \in Nat /\ lo \in Int64 /\ hi \in Int64 /\ lo < hi /\ -b <= lo /\ hi <= b /\ hi >= 0
  BY <1>1 DEF Int64
<1> HIDE DEF lo, hi
<1>6. CASE Dynamic(t)
  <2>1. /\ l[1] \in Int64 /\ l[2] \in Int64
        /\ Unlimited(t, r) => Inside(l, -b, b)
        /\ ~Unlimited(t, r) => Inside(l, Declared(t.min, r, -b), Declared(t.max, r, b))
    BY <1>3, <1>4, <1>5, <1>6, RowLimitsIn
  <2> QED BY <1>2, <2>1 DEF MinOf, MaxOf
<1>7. CASE ~Dynamic(t)
  <2>1. /\ l[1] \in Int64 /\ l[2] \in Int64 /\ ~Unlimited(t, r)
        /\ Inside(l, Declared(t.min, r, -b), Declared(t.max, r, b))
    <3>1. l = StaticLimits(t, lo, hi) /\ StaticLimits(t, lo, hi) # Fail
      BY <1>4, <1>7
    <3>2. LET k == StaticLimits(t, lo, hi)
          IN  /\ ~Unlimited(t, r) /\ k[1] \in Int64 /\ k[2] \in Int64
              /\ Inside(k, Declared(t.min, r, -b), Declared(t.max, r, b))
      BY <1>3, <1>5, <1>7, <3>1, StaticLimitsIn
    <3> QED BY <3>1, <3>2
  <2> QED BY <1>2, <2>1 DEF MinOf, MaxOf
<1> QED BY <1>6, <1>7

\* ... RandomInt ...
LEMMA RandomIntIn ==
  ASSUME NEW t, NEW r, NumberRow("RandomInt", t, r), NEW d \in DrawnNumber,
         RandomInt(t, r, d) # Fail
  PROVE  Limited("RandomInt", t, r, RandomInt(t, r, d))
<1> DEFINE l == IF Dynamic(t)
                THEN RowLimits(t, r, -IntThreshold(t.size), IntThreshold(t.size) - 1)
                ELSE NewRandomInt(t)
           v == IntLimit(l[1], l[2], d.v)
<1>1. CASE Kept(t, r)
  BY <1>1 DEF RandomInt, Kept, Limited
<1>2. CASE ~Kept(t, r)
  <2>1. l # Fail /\ RandomInt(t, r, d) = Set(t, r, v) /\ v \in IntRange(t.size)
    BY <1>2 DEF RandomInt, SetInt
  <2>2. /\ l[1] \in Int64 /\ l[2] \in Int64
        /\ Inside(l, MinOf("RandomInt", t, r), MaxOf("RandomInt", t, r))
    BY <2>1, IntLimitsIn DEF NewRandomInt, IntKinds
  <2>3. d.v \in Uint64
    BY DEF DrawnNumber
  <2> HIDE DEF l
  <2>4. MaxOf("RandomInt", t, r) >= 0 => Near(v, l[1], l[2], 0)
    <3> SUFFICES ASSUME MaxOf("RandomInt", t, r) >= 0 PROVE Near(v, l[1], l[2], 0)
      OBVIOUS
    <3>1. l[1] < l[2] /\ l[2] >= 0 /\ l[1] \in Int /\ l[2] \in Int
      BY <2>2 DEF Inside
    <3>2. v \in l[1] .. l[2]
      BY <2>2, <2>3, <3>1, IntLimitIn
    <3> HIDE DEF v
    <3> QED BY <3>1, <3>2 DEF Near
  <2>5. v \in Int
    BY <2>1, WidthAssumption, HalfAssumption DEF IntRange, Int64
  <2>6. SlackOf("RandomInt", t) = 0
    BY DEF SlackOf, IntKinds
  <2> HIDE DEF v
  <2> QED BY <2>1, <2>2, <2>4, <2>5, <2>6, NearLimited
<1> QED BY <1>1, <1>2

\* The multiplier of a noise.
LEMMA MultiplierIs ==
  ASSUME NEW minRatio \in Int, NEW maxRatio \in Int, NEW d \in DrawnNumber
  PROVE  Multiplier(minRatio, maxRatio, d.frac, d.negative) \in Int
<1> DEFINE c == d.frac * (maxRatio - minRatio)
<1>1. c \in Int /\ Ratio \in Nat \ {0}
  BY ScaleAssumption DEF DrawnNumber
<1>2. Quo(c, Ratio) \in Int
  <2> HIDE DEF c
  <2> QED BY <1>1 DEF Quo
<1> HIDE DEF c
<1>3. minRatio + Quo(c, Ratio) \in Int
  BY <1>2
<1> QED BY <1>3 DEF Multiplier, c

\* ... NoiseInt ...
LEMMA NoiseIntIn ==
  ASSUME NEW t, NEW r, NumberRow("NoiseInt", t, r), NEW d \in DrawnNumber, ~Dynamic(t),
         NewNoiseInt(t) # Fail, NoiseIntRow(t, r, d) # Fail
  PROVE  Limited("NoiseInt", t, r, NoiseIntRow(t, r, d))
<1> DEFINE l == NewNoiseInt(t)
           m == Multiplier(t.minRatio, t.maxRatio, d.frac, d.negative)
           x == NoiseInt(r[t.column], m)
           v == Clamp(l[1], l[2], x)
<1>1. CASE r[t.column] = Null
  BY <1>1 DEF NoiseIntRow, Limited
<1>2. CASE r[t.column] # Null
  <2>1. NoiseIntRow(t, r, d) = Set(t, r, v) /\ v \in IntRange(t.size)
    BY <1>2 DEF NoiseIntRow, SetInt
  <2>2. Inside(l, MinOf("NoiseInt", t, r), MaxOf("NoiseInt", t, r))
    BY IntLimitsIn DEF NewNoiseInt, IntKinds
  <2>3. r[t.column] \in Int /\ m \in Int
    BY <1>2, MultiplierIs DEF NumberRow
  <2> HIDE DEF l, m
  <2>4. x \in Int
    <3>1. r[t.column] * m \in Int
      BY <2>3
    <3>2. Quo(r[t.column] * m, Ratio) \in Int
      BY <3>1, ScaleAssumption DEF Quo
    <3>3. ToInt64(Quo(r[t.column] * m, Ratio)) \in Int
      BY <3>2, HalfAssumption DEF ToInt64, Int64
    <3>4. r[t.column] + ToInt64(Quo(r[t.column] * m, Ratio)) \in Int
      BY <2>3, <3>3
    <3> QED BY <3>4, HalfAssumption DEF Wrap, NoiseInt
  <2> HIDE DEF x
  <2>5. Near(v, l[1], l[2], 0)
    BY <2>2, <2>4 DEF Inside, Clamp, Near
  <2>6. v \in Int
    BY <2>5 DEF Near
  <2>7. SlackOf("NoiseInt", t) = 0
    BY DEF SlackOf, IntKinds
  <2> HIDE DEF v
  <2> QED BY <2>1, <2>2, <2>5, <2>6, <2>7, NearLimited
<1> QED BY <1>1, <1>2

\* Floats and numerics: the limits ...
LEMMA FloatLimitsIn ==
  ASSUME NEW t, NEW r, NumberRow("RandomFloat", t, r), NEW l, l # Fail,
         l = IF Dynamic(t) THEN RowLimits(t, r, -Float8, Float8) ELSE NewRandomFloat(t)
  PROVE  Inside(l, MinOf("RandomFloat", t, r), MaxOf("RandomFloat", t, r))
<1> DEFINE b == FloatThreshold(t.size)
<1>1. b \in Nat \ {0} /\ Float8 \in Nat \ {0}
  BY Bounds
<1>2. BoundOf("RandomFloat", t, r) = IF Unlimited(t, r) THEN Float8 ELSE b
  BY DEF BoundOf, IntKinds, FloatKinds
<1>3. GivesHere(t.min, r, Int) /\ GivesHere(t.max, r, Int)
  BY DEF NumberRow, IntKinds
<1> HIDE DEF b
<1>4. -b \in Int /\ -Float8 \in Int /\ Float8 \in Int /\ b \in Int /\ -b <= -b /\ b <= b
  BY <1>1
<1>5. CASE Dynamic(t)
  <2>1. l = RowLimits(t, r, -Float8, Float8) /\ RowLimits(t, r, -Float8, Float8) # Fail
    BY <1>5
  <2>2. -Float8 < Float8 /\ -Float8 <= -Float8 /\ Float8 <= Float8 /\ Float8 >= 0
    BY <1>1
  <2>3. LET k == RowLimits(t, r, -Float8, Float8)
        IN  /\ Unlimited(t, r) => Inside(k, -Float8, Float8)
            /\ ~Unlimited(t, r) => Inside(k, Declared(t.min, r, -b), Declared(t.max, r, b))
    BY <1>1, <1>3, <1>4, <1>5, <2>1, <2>2, RowLimitsIn
  <2> QED BY <1>2, <2>1, <2>3 DEF MinOf, MaxOf
<1>6. CASE ~Dynamic(t) /\ t.min.value = 0 /\ t.max.value = 0
  <2>1. l = <<-Float8, Float8>>
    BY <1>6 DEF NewRandomFloat
  <2>2. Unlimited(t, r)
    BY <1>6 DEF Unlimited
  <2>3. l[1] = -Float8 /\ l[2] = Float8
    BY <2>1
  <2>4. Inside(l, -Float8, Float8)
    BY <1>1, <2>3 DEF Inside
  <2> QED BY <1>2, <2>2, <2>4 DEF MinOf, MaxOf
<1>7. CASE ~Dynamic(t) /\ ~(t.min.value = 0 /\ t.max.value = 0)
  <2>1. l = StaticLimits(t, -b, b) /\ StaticLimits(t, -b, b) # Fail
    BY <1>7 DEF NewRandomFloat, b
  <2>2. LET k == StaticLimits(t, -b, b)
        IN  ~Unlimited(t, r) /\ Inside(k, Declared(t.min, r, -b), Declared(t.max, r, b))
    BY <1>1, <1>3, <1>4, <1>7, <2>1, StaticLimitsIn
  <2> QED BY <1>2, <2>1, <2>2 DEF MinOf, MaxOf
<1> QED BY <1>5, <1>6, <1>7

LEMMA NumericLimitsIn ==
  ASSUME NEW kind \in {"NoiseFloat", "RandomNumeric", "NoiseNumeric"},
         NEW t, NEW r, NumberRow(kind, t, r), kind = "NoiseFloat" => ~Dynamic(t),
         NEW b, b = IF kind = "NoiseFloat" THEN FloatThreshold(t.size) ELSE NumericMax,
         NEW l, l # Fail,
         l = IF Dynamic(t) THEN RowLimits(t, r, -b, b) ELSE StaticLimits(t, -b, b)
  PROVE  Inside(l, MinOf(kind, t, r), MaxOf(kind, t, r))
<1>1. b \in Nat \ {0}
  BY Bounds
<1>2. BoundOf(kind, t, r) = b
  BY DEF BoundOf, IntKinds, FloatKinds
<1>3. GivesHere(t.min, r, Int) /\ GivesHere(t.max, r, Int)
  BY DEF NumberRow, IntKinds
<1>4. -b \in Int /\ b \in Int /\ -b <= -b /\ b <= b /\ -b < b /\ b >= 0 /\ b \in Nat
  BY <1>1
<1>5. CASE Dynamic(t)
  <2>1. l = RowLimits(t, r, -b, b) /\ RowLimits(t, r, -b, b) # Fail
    BY <1>5
  <2>2. LET k == RowLimits(t, r, -b, b)
        IN  /\ Unlimited(t, r) => Inside(k, -b, b)
            /\ ~Unlimited(t, r) => Inside(k, Declared(t.min, r, -b), Declared(t.max, r, b))
    BY <1>3, <1>4, <1>5, <2>1, RowLimitsIn
  <2> QED BY <1>2, <2>1, <2>2 DEF MinOf, MaxOf
<1>6. CASE ~Dynamic(t)
  <2>1. l = StaticLimits(t, -b, b) /\ StaticLimits(t, -b, b) # Fail
    BY <1>6
  <2>2. LET k == StaticLimits(t, -b, b)
        IN  ~Unlimited(t, r) /\ Inside(k, Declared(t.min, r, -b), Declared(t.max, r, b))
    BY <1>3, <1>4, <1>6, <2>1, StaticLimitsIn
  <2> QED BY <1>2, <2>1, <2>2 DEF MinOf, MaxOf
<1> QED BY <1>5, <1>6

\* ... RandomFloat ...
LEMMA RandomFloatIn ==
  ASSUME NEW t, NEW r, NumberRow("RandomFloat", t, r), NEW d \in DrawnNumber,
         RandomFloat(t, r, d) # Fail
  PROVE  Limited("RandomFloat", t, r, RandomFloat(t, r, d))
<1> DEFINE l == IF Dynamic(t) THEN RowLimits(t, r, -Float8, Float8) ELSE NewRandomFloat(t)
           v == FloatLimit(l[1], l[2], t.step, d.frac)
<1>1. CASE Kept(t, r)
  BY <1>1 DEF RandomFloat, Kept, Limited
<1>2. CASE ~Kept(t, r)
  <2>1. l # Fail /\ RandomFloat(t, r, d) = Set(t, r, v)
    BY <1>2 DEF RandomFloat
  <2>2. Inside(l, MinOf("RandomFloat", t, r), MaxOf("RandomFloat", t, r))
    BY <2>1, FloatLimitsIn
  <2>3. d.frac \in 0 .. Ratio /\ t.step \in Nat \ {0}
    BY DEF DrawnNumber, NumberRow
  <2> HIDE DEF l
  <2> DEFINE lo == MinOf("RandomFloat", t, r)
             hi == MaxOf("RandomFloat", t, r)
  <2>4. /\ l[1] \in Int /\ l[2] \in Int /\ lo \in Int /\ hi \in Int
        /\ l[1] < l[2] /\ lo <= l[1] /\ l[2] <= hi
    BY <2>2 DEF Inside
  <2>5. v \in Int /\ (hi >= 0 /\ Countable(lo, hi, t.step) => Near(v, lo, hi, t.step))
    <3> HIDE DEF lo, hi
    <3> QED BY <2>3, <2>4, FloatLimitNear
  <2> HIDE DEF v
  <2>6. "RandomFloat" \in FloatKinds /\ t.step \in Nat
    BY <2>3 DEF FloatKinds
  <2> QED BY <2>1, <2>5, <2>6, FloatLimited
<1> QED BY <1>1, <1>2

\* ... RandomNumeric ...
LEMMA RandomNumericIn ==
  ASSUME NEW t, NEW r, NumberRow("RandomNumeric", t, r), NEW d \in DrawnNumber,
         RandomNumeric(t, r, d) # Fail
  PROVE  Limited("RandomNumeric", t, r, RandomNumeric(t, r, d))
<1> DEFINE l == IF Dynamic(t) THEN RowLimits(t, r, -NumericMax, NumericMax)
                ELSE NewRandomNumeric(t)
           unit == IF Dynamic(t) THEN 1 ELSE t.step
           v == NumericLimit(l[1], l[2], unit, d.v)
<1>1. CASE Kept(t, r)
  BY <1>1 DEF RandomNumeric, Kept, Limited
<1>2. CASE ~Kept(t, r)
  <2>1. l # Fail /\ RandomNumeric(t, r, d) = Set(t, r, v)
    BY <1>2 DEF RandomNumeric
  <2>2. Inside(l, MinOf("RandomNumeric", t, r), MaxOf("RandomNumeric", t, r))
    BY <2>1, NumericLimitsIn DEF NewRandomNumeric
  <2>3. d.v \in Nat /\ t.step \in Nat \ {0}
    BY HalfAssumption DEF DrawnNumber, Uint64, NumberRow
  <2>4. unit \in Nat \ {0} /\ unit \in Nat /\ t.step \in Nat /\ unit <= t.step
    BY <2>3
  <2> HIDE DEF l, unit
  <2>5. Near(v, l[1], l[2], unit)
    BY <2>2, <2>3, <2>4, NumericLimitNear DEF Inside
  <2> HIDE DEF v
  <2>6. v \in Int
    BY <2>5 DEF Near
  <2>7. SlackOf("RandomNumeric", t) = t.step
    BY DEF SlackOf, IntKinds
  <2> QED BY <2>1, <2>2, <2>4, <2>5, <2>6, <2>7, NearLimited
<1> QED BY <1>1, <1>2

\* ... NoiseFloat and NoiseNumeric.
LEMMA NoiseNumbersIn ==
  ASSUME NEW kind \in {"NoiseFloat", "NoiseNumeric"},
         NEW t, NEW r, NumberRow(kind, t, r), kind = "NoiseFloat" => ~Dynamic(t),
         NEW d \in DrawnNumber, TransformNumber(kind, t, r, d) # Fail
  PROVE  Limited(kind, t, r, TransformNumber(kind, t, r, d))
<1> DEFINE b == IF kind = "NoiseFloat" THEN FloatThreshold(t.size) ELSE NumericMax
           l == IF Dynamic(t) THEN RowLimits(t, r, -b, b) ELSE StaticLimits(t, -b, b)
           m == Multiplier(t.minRatio, t.maxRatio, d.frac, d.negative)
           x == NoiseFloat(r[t.column], m)
           v == IF kind = "NoiseFloat" THEN ClampRoundFloat(l[1], l[2], t.step, x)
                ELSE ClampRound(l[1], l[2], t.step, x)
           after == TransformNumber(kind, t, r, d)
<1>0. after = IF r[t.column] = Null THEN r ELSE IF l = Fail THEN Fail ELSE Set(t, r, v)
  <2>1. CASE kind = "NoiseFloat"
    <3>1. after = NoiseFloatRow(t, r, d) /\ ~Dynamic(t)
      BY <2>1 DEF TransformNumber
    <3>2. l = NewNoiseFloat(t)
      BY <2>1, <3>1 DEF NewNoiseFloat
    <3> HIDE DEF l, m
    <3> QED BY <2>1, <3>1, <3>2 DEF NoiseFloatRow, m
  <2>2. CASE kind = "NoiseNumeric"
    <3>1. after = NoiseNumericRow(t, r, d)
      BY <2>2 DEF TransformNumber
    <3>2. l = IF Dynamic(t) THEN RowLimits(t, r, -NumericMax, NumericMax) ELSE NewNoiseNumeric(t)
      BY <2>2 DEF NewNoiseNumeric
    <3> HIDE DEF l, m
    <3> QED BY <2>2, <3>1, <3>2 DEF NoiseNumericRow, m
  <2> QED BY <2>1, <2>2
<1>1. CASE r[t.column] = Null
  BY <1>0, <1>1 DEF Limited
<1>2. CASE r[t.column] # Null
  <2>1. l # Fail /\ after = Set(t, r, v)
    BY <1>0, <1>2
  <2>2. Inside(l, MinOf(kind, t, r), MaxOf(kind, t, r))
    BY <2>1, NumericLimitsIn
  <2>3. r[t.column] \in Int /\ m \in Int /\ t.step \in Nat \ {0}
    BY <1>2, MultiplierIs DEF NumberRow
  <2> HIDE DEF l, m, after
  <2>4. x \in Int
    <3>1. r[t.column] * m \in Int
      BY <2>3
    <3>2. Quo(r[t.column] * m, Ratio) \in Int
      BY <3>1, ScaleAssumption DEF Quo
    <3> QED BY <2>3, <3>2 DEF NoiseFloat
  <2> HIDE DEF x
  <2> DEFINE lo == MinOf(kind, t, r)
             hi == MaxOf(kind, t, r)
  <2>5. /\ l[1] \in Int /\ l[2] \in Int /\ lo \in Int /\ hi \in Int
        /\ l[1] < l[2] /\ lo <= l[1] /\ l[2] <= hi
    BY <2>2 DEF Inside
  <2>6. t.step \in Nat /\ t.step <= t.step
    BY <2>3
  <2>7. CASE kind = "NoiseFloat"
    <3>1. v = ClampRoundFloat(l[1], l[2], t.step, x)
      BY <2>7
    <3> HIDE DEF v
    <3>2. v \in Int /\ (hi >= 0 /\ Countable(lo, hi, t.step) => Near(v, lo, hi, t.step))
      <4> HIDE DEF lo, hi
      <4> QED BY <2>3, <2>4, <2>5, <3>1, ClampRoundFloatNear
    <3>3. kind \in FloatKinds
      BY <2>7 DEF FloatKinds
    <3> QED BY <2>1, <2>6, <3>2, <3>3, FloatLimited DEF after
  <2>8. CASE kind = "NoiseNumeric"
    <3>1. v = ClampRound(l[1], l[2], t.step, x)
      BY <2>8
    <3> HIDE DEF v
    <3>2. Near(v, l[1], l[2], t.step)
      BY <2>3, <2>4, <2>5, <3>1, ClampRoundNear
    <3>3. v \in Int
      BY <3>2 DEF Near
    <3>4. SlackOf(kind, t) = t.step
      BY <2>8 DEF SlackOf, IntKinds
    <3> QED BY <2>1, <2>2, <2>6, <3>2, <3>3, <3>4, NearLimited DEF after
  <2> QED BY <2>7, <2>8
<1> QED BY <1>1, <1>2

\* All of them.
LEMMA NumbersIn ==
  ASSUME NEW e, e.kind \in LimitedKinds, NEW t, NEW r, NumberRow(e.kind, t, r),
         NEW d \in DrawnNumber, NewNumber(e.kind, t) # Fail, TakesLimits(e, t),
         NEW after, after = TransformNumber(e.kind, t, r, d), after # Fail
  PROVE  Limited(e.kind, t, r, after)
<1>2. e.kind \in {"NoiseInt", "NoiseFloat"} => ~Dynamic(t)
  BY DEF TakesLimits
<1>3. CASE e.kind = "RandomInt"
  BY <1>3, RandomIntIn DEF TransformNumber
<1>4. CASE e.kind = "NoiseInt"
  BY <1>2, <1>4, NoiseIntIn DEF TransformNumber, NewNumber
<1>5. CASE e.kind = "RandomFloat"
  BY <1>5, RandomFloatIn DEF TransformNumber
<1>6. CASE e.kind = "RandomNumeric"
  BY <1>6, RandomNumericIn DEF TransformNumber
<1>7. CASE e.kind \in {"NoiseFloat", "NoiseNumeric"}
  BY <1>2, <1>7, NoiseNumbersIn
<1> QED BY <1>3, <1>4, <1>5, <1>6, <1>7 DEF LimitedKinds, NumberKinds

-----------------------------------------------------------------------------
(* What the transformer of times makes *)

\* The absolute value of a draw is not negative, but for the smallest int64.
LEMMA DrawnSeconds ==
  ASSUME NEW draw \in Uint64
  PROVE  LET sec == IF Wrap(draw) < 0 THEN Wrap(-Wrap(draw)) ELSE Wrap(draw)
         IN  sec \in Nat \/ sec = -Half
<1> DEFINE w == Wrap(draw)
<1>1. Half \in Nat \ {0} /\ draw \in Int
  BY HalfAssumption DEF Uint64
<1>2. w \in Int64
  BY <1>1, WrapIs
<1> HIDE DEF w
<1>3. CASE w < 0 /\ w # -Half
  <2>1. -w \in Int /\ -w \in Int64 /\ -w > 0
    BY <1>1, <1>2, <1>3 DEF Int64
  <2>2. Wrap(-w) = -w
    BY <2>1, WrapIs
  <2>3. Wrap(-w) \in Nat
    BY <2>1, <2>2
  <2> QED BY <1>3, <2>3 DEF w
<1>4. CASE w = -Half
  <2>1. Half \in Half .. 2 * Half - 1 /\ Half \in Int
    BY <1>1
  <2>2. Wrap(Half) = Half - 2 * Half
    BY <2>1, WrapIs
  <2>3. -w = Half /\ w < 0 /\ Half - 2 * Half = -Half
    BY <1>1, <1>4
  <2>4. Wrap(-w) = -Half
    BY <2>2, <2>3
  <2> QED BY <2>3, <2>4 DEF w
<1>5. CASE w >= 0
  <2>1. w \in Nat /\ ~(w < 0)
    BY <1>1, <1>2, <1>5 DEF Int64
  <2> QED BY <2>1 DEF w
<1> QED BY <1>1, <1>2, <1>3, <1>4, <1>5 DEF Int64

\* What TimestampLimiter.Limit gives for what may be drawn.
TimeInside(v, min, max) ==
    /\ v.sec >= min.sec \/ v.sec = min.sec - (Half % (max.sec - min.sec + 1))
    /\ ~Before(max, v)

LEMMA TimestampIn ==
  ASSUME NEW min \in Time, NEW max \in Time, ~Before(max, min), NEW sec, sec \in Nat \/ sec = -Half,
         NEW nano \in 0 .. Nano - 1
  PROVE  LET v == TimestampLimit(min, max, sec, nano) IN v \in Time /\ TimeInside(v, min, max)
<1> DEFINE span == max.sec - min.sec + 1
           s == Rem(sec, TimestampSpan(min, max)) + min.sec
           n == IF s = min.sec THEN nano % (min.nano + 1)
                ELSE IF s = max.sec THEN nano % (max.nano + 1) ELSE nano
           v == [sec |-> s, nano |-> n]
<1>0. TimestampLimit(min, max, sec, nano) = v
  BY DEF TimestampLimit
<1>1. /\ min.sec \in Int /\ max.sec \in Int /\ min.nano \in 0 .. Nano - 1 /\ max.nano \in 0 .. Nano - 1
      /\ Nano \in Nat \ {0} /\ Half \in Nat \ {0}
  BY ScaleAssumption, HalfAssumption DEF Time
<1>2. min.sec <= max.sec /\ (min.sec = max.sec => min.nano <= max.nano)
  BY <1>1 DEF Before
<1>3. TimestampSpan(min, max) = span /\ span \in Nat \ {0}
  BY <1>1, <1>2 DEF TimestampSpan
<1>4. s \in Int /\ s <= max.sec /\ (s >= min.sec \/ s = min.sec - (Half % span))
  <2> HIDE DEF span
  <2>1. CASE sec \in Nat
    <3>1. Rem(sec, span) = sec % span
      BY <1>3, <2>1 DEF Rem
    <3>2. sec % span \in 0 .. span - 1
      BY <1>3, <2>1, Remainder
    <3>3. s = (sec % span) + min.sec
      BY <1>3, <3>1
    <3> QED BY <1>1, <1>3, <3>2, <3>3 DEF span
  <2>2. CASE sec = -Half
    <3>1. sec < 0 /\ -sec = Half
      BY <1>1, <2>2
    <3>2. Rem(sec, span) = -(Half % span)
      BY <1>3, <3>1 DEF Rem
    <3>3. Half % span \in 0 .. span - 1
      BY <1>1, <1>3, Remainder
    <3>4. s = -(Half % span) + min.sec
      BY <1>3, <3>2
    <3> DEFINE h == Half % span
    <3> HIDE DEF h, s
    <3>5. h \in Nat /\ s = -h + min.sec
      BY <1>3, <3>3, <3>4 DEF h
    <3>6. s \in Int /\ s <= min.sec /\ s = min.sec - h
      BY <1>1, <3>5
    <3> QED BY <1>1, <1>2, <3>6 DEF h
  <2> QED BY <2>1, <2>2
<1> HIDE DEF s
<1>5. n \in 0 .. Nano - 1 /\ (s = min.sec => n <= min.nano) /\ (s = max.sec => n <= max.nano)
  <2>1. min.nano + 1 \in Nat \ {0} /\ max.nano + 1 \in Nat \ {0} /\ nano \in Int
    BY <1>1
  <2>2. /\ nano % (min.nano + 1) \in 0 .. (min.nano + 1) - 1
        /\ nano % (max.nano + 1) \in 0 .. (max.nano + 1) - 1
    BY <2>1, Remainder
  <2>3. CASE s = min.sec
    <3>1. n = nano % (min.nano + 1)
      BY <2>3
    <3> HIDE DEF n
    <3> QED BY <1>1, <1>2, <2>2, <2>3, <3>1
  <2>4. CASE s # min.sec /\ s = max.sec
    <3>1. n = nano % (max.nano + 1)
      BY <2>4
    <3> HIDE DEF n
    <3> QED BY <1>1, <2>2, <2>4, <3>1
  <2>5. CASE s # min.sec /\ s # max.sec
    BY <2>5
  <2> QED BY <2>3, <2>4, <2>5
<1> HIDE DEF n
<1>6. v \in Time /\ v.sec = s /\ v.nano = n
  BY <1>4, <1>5 DEF Time
<1> HIDE DEF v
<1>7. ~Before(max, v)
  BY <1>1, <1>4, <1>5, <1>6 DEF Before
<1>8. TimeInside(v, min, max)
  BY <1>4, <1>6, <1>7 DEF TimeInside
<1> QED BY <1>0, <1>6, <1>8

\* A time that is truncated is no later, and in the same second unless the
\* part is larger.
LEMMA TruncateIs ==
  ASSUME NEW part \in {"none", "nanosecond", "second", "larger"}, NEW v \in Time,
         NEW min \in Time, NEW max \in Time, TimeInside(v, min, max)
  PROVE  /\ Truncate(part, v) \in Time
         /\ part # "larger" => TimeInside(Truncate(part, v), min, max)
<1>1. v.sec \in Int /\ v.nano \in 0 .. Nano - 1 /\ Nano \in Nat \ {0} /\ Part \in Nat \ {0}
  BY ScaleAssumption DEF Time
<1>2. CASE part \in {"none", "nanosecond"}
  BY <1>2 DEF Truncate
<1>3. CASE part = "second"
  <2> DEFINE u == [sec |-> v.sec, nano |-> 0]
  <2>1. Truncate(part, v) = u
    BY <1>3 DEF Truncate
  <2>2. u \in Time /\ u.sec = v.sec /\ u.nano = 0
    BY <1>1 DEF Time
  <2> HIDE DEF u
  <2>3. max.sec \in Int /\ max.nano \in Nat
    BY DEF Time
  <2>4. ~Before(max, u)
    BY <1>1, <2>2, <2>3 DEF TimeInside, Before
  <2>5. TimeInside(u, min, max)
    BY <2>2, <2>4 DEF TimeInside
  <2> QED BY <2>1, <2>2, <2>5
<1>4. CASE part = "larger"
  <2>1. v.sec % Part \in Int
    BY <1>1
  <2>2. v.sec - (v.sec % Part) \in Int /\ 0 \in 0 .. Nano - 1
    BY <1>1, <2>1
  <2>3. Truncate(part, v) = [sec |-> v.sec - (v.sec % Part), nano |-> 0]
    BY <1>4 DEF Truncate
  <2> QED BY <1>4, <2>2, <2>3 DEF Time
<1> QED BY <1>2, <1>3, <1>4

\* What the transformer of times reads of its row.
DateRow(t, r) ==
    /\ \A p \in {t.min, t.max} : GivesHere(p, r, Time) /\ (Dynamic(t) \/ Required(p))
    /\ t.part \in {"none", "nanosecond", "second", "larger"}
    /\ t.column \in DOMAIN r

\* RandomDate
LEMMA RandomDateIn ==
  ASSUME NEW e, e.kind = "RandomDate", NEW t, NEW r, DateRow(t, r), NEW d \in DrawnNumber,
         NEW made, made = RandomDate(t, r, d), made # Fail,
         NEW after, after[t.column] = made[t.column]
  PROVE  TimeInLimits(e, t, r, after) /\ made[t.column] # Unset
<1> DEFINE min == Declared(t.min, r, ZeroTime)
           max == Declared(t.max, r, ZeroTime)
           l == IF Dynamic(t) THEN TimeLimits(Scan(t.min, r, ZeroTime), Scan(t.max, r, ZeroTime))
                ELSE NewRandomDate(t)
           v == RandomTimestamp(l[1], l[2], t.part, d.v, d.nano)
<1>0. Unset \notin Time /\ ZeroTime \in Time /\ Null # Unset
  BY NothingAssumption, WidthAssumption
<1>1. CASE Kept(t, r)
  BY <1>0, <1>1 DEF RandomDate, Kept, TimeInLimits
<1>2. CASE ~Kept(t, r)
  <2>1. l # Fail /\ made = Set(t, r, v)
    BY <1>2 DEF RandomDate
  <2>2. min \in Time /\ max \in Time /\ ~Before(max, min) /\ l = <<min, max>>
    <3>1. CASE Dynamic(t)
      <4>1. l = TimeLimits(Scan(t.min, r, ZeroTime), Scan(t.max, r, ZeroTime))
        BY <3>1
      <4>2. /\ Scan(t.min, r, ZeroTime) # Fail /\ Scan(t.max, r, ZeroTime) # Fail
            /\ ~Before(Scan(t.max, r, ZeroTime), Scan(t.min, r, ZeroTime))
            /\ l = <<Scan(t.min, r, ZeroTime), Scan(t.max, r, ZeroTime)>>
        BY <2>1, <4>1 DEF TimeLimits
      <4>3. Scan(t.min, r, ZeroTime) = min /\ min \in Time
        <5>1. GivesHere(t.min, r, Time)
          BY DEF DateRow
        <5>2. /\ Scan(t.min, r, ZeroTime) \in Time
              /\ \/ Scan(t.min, r, ZeroTime) = Declared(t.min, r, ZeroTime)
                 \/ Scan(t.min, r, ZeroTime) = ZeroTime /\ Declared(t.min, r, ZeroTime) = ZeroTime
          BY <1>0, <4>2, <5>1, ScanIs
        <5> QED BY <5>2
      <4>4. Scan(t.max, r, ZeroTime) = max /\ max \in Time
        <5>1. GivesHere(t.max, r, Time)
          BY DEF DateRow
        <5>2. /\ Scan(t.max, r, ZeroTime) \in Time
              /\ \/ Scan(t.max, r, ZeroTime) = Declared(t.max, r, ZeroTime)
                 \/ Scan(t.max, r, ZeroTime) = ZeroTime /\ Declared(t.max, r, ZeroTime) = ZeroTime
          BY <1>0, <4>2, <5>1, ScanIs
        <5> QED BY <5>2
      <4> QED BY <4>2, <4>3, <4>4
    <3>2. CASE ~Dynamic(t)
      <4>1. ~t.min.dynamic /\ ~t.max.dynamic /\ t.min.value # Unset /\ t.max.value # Unset
        BY <3>2 DEF Dynamic, DateRow, Required
      <4>2. min = t.min.value /\ max = t.max.value
        BY <4>1 DEF Declared
      <4>3. min \in Time /\ max \in Time
        BY <4>1, <4>2 DEF DateRow, GivesHere
      <4>4. l = TimeLimits(t.min.value, t.max.value)
        BY <3>2 DEF NewRandomDate
      <4> QED BY <2>1, <4>2, <4>3, <4>4 DEF TimeLimits
    <3> QED BY <3>1, <3>2
  <2>3. l[1] = min /\ l[2] = max
    BY <2>2
  <2>4. v = RandomTimestamp(min, max, t.part, d.v, d.nano)
    BY <2>3
  <2> DEFINE sec == IF Wrap(d.v) < 0 THEN Wrap(-Wrap(d.v)) ELSE Wrap(d.v)
             u == TimestampLimit(min, max, sec, d.nano)
  <2>5. d.v \in Uint64 /\ d.nano \in 0 .. Nano - 1 /\ t.part \in {"none", "nanosecond", "second", "larger"}
    BY DEF DrawnNumber, DateRow
  <2>6. v = Truncate(t.part, u)
    BY <2>4 DEF RandomTimestamp
  <2>7. sec \in Nat \/ sec = -Half
    BY <2>5, DrawnSeconds
  <2> HIDE DEF min, max, sec, v, l
  <2>8. u \in Time /\ TimeInside(u, min, max)
    BY <2>2, <2>5, <2>7, TimestampIn
  <2> HIDE DEF u
  <2>9. v \in Time /\ (t.part # "larger" => TimeInside(v, min, max))
    BY <2>2, <2>5, <2>6, <2>8, TruncateIs
  <2>10. made[t.column] = v
    BY <2>1 DEF Set, DateRow
  <2>11. TimeInLimits(e, t, r, after)
    BY <2>9, <2>10 DEF TimeInLimits, TimeInside, min, max
  <2> QED BY <1>0, <2>9, <2>10, <2>11
<1> QED BY <1>1, <1>2

-----------------------------------------------------------------------------
(* The shapes of what the transformers of texts and addresses make *)

\* RandomString: the length and the symbols.
LEMMA RandomStringIn ==
  ASSUME TextsGiven, NEW e, e.kind = "RandomString", NEW t, NEW r, t.column \in DOMAIN r,
         t.symbols \in Texts \ {<<>>}, t.min \in Nat, t.max \in Nat,
         StringBytes(t.symbols, t.min, t.max) # 0, NEW seed \in Seeds,
         NEW made, made = RandomText(t, r, seed), made # Fail,
         NEW after, after[t.column] = made[t.column]
  PROVE  InShape(e, t, r, after) /\ made[t.column] # Unset
<1> DEFINE texts == RandomString(t.symbols, t.min, t.max, seed)
           v == CHOOSE x \in texts : TRUE
<1>0. Unset \notin Texts /\ Null # Unset
  BY NothingAssumption
<1>1. CASE Kept(t, r)
  <2>1. made[t.column] = Null
    BY <1>1 DEF RandomText, Kept
  <2>2. InShape(e, t, r, after)
    BY <2>1 DEF InShape
  <2> QED BY <1>0, <2>1, <2>2
<1>2. CASE ~Kept(t, r)
  <2>1. texts # {} /\ made = Set(t, r, v)
    BY <1>2 DEF RandomText
  <2>2. v \in texts
    <3> HIDE DEF texts
    <3> QED BY <2>1
  <2> HIDE DEF v
  <2>3. /\ v \in Texts /\ Len(v) \in t.min .. t.max
        /\ \A i \in DOMAIN v : \E k \in DOMAIN t.symbols : v[i] = t.symbols[k]
    BY <2>2, StringTexts
  <2>4. made[t.column] = v
    BY <2>1 DEF Set
  <2>5. InShape(e, t, r, after)
    BY <2>3, <2>4 DEF InShape
  <2> QED BY <1>0, <2>3, <2>4, <2>5
<1> QED BY <1>1, <1>2

\* RandomIp: neither the address of the network nor that of its broadcast.
LEMMA RandomIpIn ==
  ASSUME TextsGiven, NEW e, e.kind = "RandomIp", NEW t, NEW r, t.column \in DOMAIN r,
         GivesHere(t.subnet, r, Subnet), Required(t.subnet), NEW seed \in Seeds,
         NEW made, made = Ip(t, r, seed), made # Fail,
         NEW after, after[t.column] = made[t.column]
  PROVE  InShape(e, t, r, after) /\ made[t.column] # Unset
<1> DEFINE net == IF t.subnet.dynamic THEN Scan(t.subnet, r, Unset) ELSE t.subnet.value
           total == 2 ^ net.bits
           v == CHOOSE a \in RandomIp(net, seed) : TRUE
<1>1. net # Fail /\ RandomIp(net, seed) # {} /\ made = Set(t, r, v)
  BY DEF Ip
<1>2. net = Declared(t.subnet, r, Unset) /\ net \in Subnet
  BY <1>1 DEF GivesHere, Required, Scan, Declared
<1>3. total \in Nat /\ net.base \in Nat
  BY <1>2 DEF Subnet
<1> DEFINE w == Word(seed, 1)
           h == Host(total, w)
<1>4. ~(total <= 2) /\ RandomIp(net, seed) = {net.base + h}
  BY <1>1 DEF RandomIp
<1>5. v = net.base + h
  BY <1>4
<1>6. w \in Nat
  BY GivenIs
<1> HIDE DEF w, v, net
<1>7. h \in 1 .. total - 2
  <2> DEFINE n == total
  <2> HIDE DEF total
  <2>1. total - 2 \in Nat \ {0} /\ w \in Int
    BY <1>3, <1>4, <1>6
  <2>2. w % (total - 2) \in 0 .. (total - 2) - 1
    BY <2>1, Remainder
  <2>3. h = 1 + (w % (total - 2))
    BY DEF Host
  <2> QED BY <2>1, <2>2, <2>3
<1> HIDE DEF h
<1>8. v > net.base /\ v < net.base + 2 ^ net.bits - 1 /\ v \in Int
  <2>1. v > net.base /\ v < net.base + total - 1 /\ v \in Int
    <3> HIDE DEF total
    <3> QED BY <1>3, <1>5, <1>7
  <2> QED BY <2>1
<1>9. made[t.column] = v /\ Unset \notin Int
  BY <1>1, NothingAssumption DEF Set
<1>10. InShape(e, t, r, after)
  BY <1>2, <1>8, <1>9 DEF InShape
<1> QED BY <1>8, <1>9, <1>10

\* A bit of a byte is set, and the bit above it is left.
LEMMA SetBitIs ==
  ASSUME NEW byte \in Byte, NEW on \in BOOLEAN
  PROVE  /\ SetBit(byte, 1, on) \in Byte
         /\ (SetBit(byte, 1, on) % 2 = 1) = on
         /\ SetBit(byte, 1, on) \div 2 = byte \div 2
         /\ SetBit(byte, 2, on) \in Byte
         /\ ((SetBit(byte, 2, on) \div 2) % 2 = 1) = on
<1>1. byte \in 0 .. 255
  BY DEF Byte
<1> DEFINE q == byte \div 2
           m == byte % 2
           p == q \div 2
           n == q % 2
<1>2. byte = 2 * q + m /\ q \in 0 .. 127 /\ m \in 0 .. 1
  BY <1>1
<1>3. q = 2 * p + n /\ p \in 0 .. 63 /\ n \in 0 .. 1
  BY <1>2
<1>4. SetBit(byte, 1, on) = byte + (IF on THEN 1 - m ELSE -m)
  BY <1>1 DEF SetBit
<1>5. SetBit(byte, 2, on) = byte + (IF on THEN (1 - n) * 2 ELSE -(n * 2))
  BY DEF SetBit
<1> HIDE DEF m, n, p, q
<1>6. CASE on
  <2>1. SetBit(byte, 1, on) = 2 * q + 1 /\ SetBit(byte, 2, on) = 2 * (2 * p + 1) + m
    <3>1. SetBit(byte, 1, on) = byte + (1 - m) /\ SetBit(byte, 2, on) = byte + (1 - n) * 2
      BY <1>4, <1>5, <1>6
    <3>2. (1 - n) * 2 = 2 - 2 * n
      BY <1>3
    <3>3. byte + (1 - m) = 2 * q + 1
      BY <1>2
    <3>4. byte + (2 - 2 * n) = 2 * (2 * p + 1) + m
      BY <1>2, <1>3
    <3> QED BY <3>1, <3>2, <3>3, <3>4
  <2>2. (2 * q + 1) % 2 = 1 /\ (2 * q + 1) \div 2 = q
    BY <1>2
  <2>3. (2 * (2 * p + 1) + m) \div 2 = 2 * p + 1 /\ (2 * p + 1) % 2 = 1
    BY <1>2, <1>3
  <2>4. 2 * q + 1 \in Byte /\ 2 * (2 * p + 1) + m \in Byte
    BY <1>2, <1>3 DEF Byte
  <2> QED BY <1>6, <2>1, <2>2, <2>3, <2>4 DEF q
<1>7. CASE ~on
  <2>1. SetBit(byte, 1, on) = 2 * q /\ SetBit(byte, 2, on) = 2 * (2 * p) + m
    BY <1>2, <1>3, <1>4, <1>5, <1>7
  <2>2. (2 * q) % 2 = 0 /\ (2 * q) \div 2 = q
    BY <1>2
  <2>3. (2 * (2 * p) + m) \div 2 = 2 * p /\ (2 * p) % 2 = 0
    BY <1>2, <1>3
  <2>4. 2 * q \in Byte /\ 2 * (2 * p) + m \in Byte
    BY <1>2, <1>3 DEF Byte
  <2> QED BY <1>7, <2>1, <2>2, <2>3, <2>4 DEF q
<1> QED BY <1>6, <1>7

\* RandomMac: the vendor is kept, or the two bits are as asked for.
LEMMA RandomMacIn ==
  ASSUME TextsGiven, NEW e, e.kind = "RandomMac", NEW t, NEW r, t.column \in DOMAIN r,
         r[t.column] \in {m \in Texts : Len(m) >= 3} \cup {Null}, NEW seed \in Seeds,
         NEW made, made = Mac(t, r, seed), made # Fail,
         NEW after, after[t.column] = made[t.column]
  PROVE  InShape(e, t, r, after) /\ made[t.column] # Unset
<1> DEFINE new == Stream(seed, 6)
           old == r[t.column]
           v == ModifyMac(new, old, t.keepVendor, t.castType, t.managementType)
           m == IF t.managementType = "any" THEN new[1]
                ELSE SetBit(new[1], 2, t.managementType = "local")
           c == IF t.castType = "any" THEN m ELSE SetBit(m, 1, t.castType = "group")
<1>1. ~(old = Null /\ t.keepVendor) /\ made = Set(t, r, v)
  BY DEF Mac
<1>2. new \in Texts /\ Len(new) = 6
  BY GivenIs
<1>3. \A i \in 1 .. 6 : new[i] \in Byte
  BY <1>2 DEF Texts
<1>4. v = [i \in 1 .. 6 |-> IF t.keepVendor /\ i <= 3 THEN old[i] ELSE IF i = 1 THEN c ELSE new[i]]
  BY <1>2 DEF ModifyMac
<1> HIDE DEF new, v
<1>5. m \in Byte /\ (t.managementType # "any" => ((m \div 2) % 2 = 1) = (t.managementType = "local"))
  <2>1. new[1] \in Byte /\ (t.managementType = "local") \in BOOLEAN
    BY <1>3
  <2>2. /\ SetBit(new[1], 2, t.managementType = "local") \in Byte
        /\ ((SetBit(new[1], 2, t.managementType = "local") \div 2) % 2 = 1)
             = (t.managementType = "local")
    BY <2>1, SetBitIs
  <2> QED BY <2>1, <2>2
<1> HIDE DEF m
<1>6. /\ c \in Byte /\ c \div 2 = m \div 2
      /\ t.castType # "any" => (c % 2 = 1) = (t.castType = "group")
  <2>1. (t.castType = "group") \in BOOLEAN
    OBVIOUS
  <2>2. /\ SetBit(m, 1, t.castType = "group") \in Byte
        /\ (SetBit(m, 1, t.castType = "group") % 2 = 1) = (t.castType = "group")
        /\ SetBit(m, 1, t.castType = "group") \div 2 = m \div 2
    BY <1>5, <2>1, SetBitIs
  <2> QED BY <1>5, <2>2
<1> HIDE DEF c
<1>7. v \in Texts
  <2>1. t.keepVendor => \A i \in 1 .. 3 : old[i] \in Byte
    <3> SUFFICES ASSUME t.keepVendor PROVE \A i \in 1 .. 3 : old[i] \in Byte
      OBVIOUS
    <3>1. old \in Texts /\ Len(old) >= 3
      BY <1>1
    <3> HIDE DEF old
    <3> QED BY <3>1 DEF Texts
  <2> HIDE DEF old
  <2>2. \A i \in 1 .. 6 : (IF t.keepVendor /\ i <= 3 THEN old[i] ELSE IF i = 1 THEN c ELSE new[i]) \in Byte
    BY <1>3, <1>6, <2>1
  <2> QED BY <1>4, <2>2 DEF Texts
<1>8. made[t.column] = v /\ Unset \notin Texts
  BY <1>1, NothingAssumption DEF Set
<1>9. CASE t.keepVendor
  <2>1. \A i \in 1 .. 3 : v[i] = old[i]
    BY <1>4, <1>9
  <2>2. InShape(e, t, r, after)
    BY <1>8, <1>9, <2>1 DEF InShape
  <2> QED BY <1>7, <1>8, <2>2
<1>10. CASE ~t.keepVendor
  <2>1. v[1] = c
    BY <1>4, <1>10
  <2>2. /\ t.castType # "any" => (v[1] % 2 = 1) = (t.castType = "group")
        /\ t.managementType # "any" => ((v[1] \div 2) % 2 = 1) = (t.managementType = "local")
    BY <1>5, <1>6, <2>1
  <2>3. InShape(e, t, r, after)
    BY <1>8, <1>10, <2>2 DEF InShape
  <2> QED BY <1>7, <1>8, <2>3
<1> QED BY <1>9, <1>10

\* Masking: the length, and nothing but the head of a postcode.
LEMMA MaskingIn ==
  ASSUME TextsGiven, NEW e, e.kind = "Masking", NEW t, NEW r, t.column \in DOMAIN r,
         r[t.column] \in TextValues,
         NEW made, made = Masking(t, r), NEW after, after[t.column] = made[t.column]
  PROVE  InShape(e, t, r, after) /\ made[t.column] # Unset
<1> DEFINE old == r[t.column]
           v == Mask(t.type, old)
<1>0. Unset \notin Texts /\ Null # Unset
  BY NothingAssumption
<1>1. CASE old = Null
  <2>1. made[t.column] = Null
    BY <1>1 DEF Masking
  <2>2. InShape(e, t, r, after)
    BY <2>1 DEF InShape
  <2> QED BY <1>0, <2>1, <2>2
<1>2. CASE old # Null
  <2>1. made[t.column] = v /\ old \in Texts
    BY <1>2 DEF Masking, Set, TextValues
  <2>2. v \in Texts
    BY <2>1, MaskTexts
  <2>3. Len(old) \in Nat
    BY <2>1 DEF Texts
  <2>4. t.type \in {"default", "postcode"} => Len(v) = Len(old) /\ \A i \in 3 .. Len(v) : v[i] = Star
    <3> HIDE DEF old
    <3>1. CASE t.type = "default"
      <4>1. v = [i \in 1 .. Len(old) |-> Star]
        BY <3>1 DEF Mask
      <4>2. Len(v) = Len(old)
        BY <2>2, <2>3, <4>1 DEF Texts
      <4> QED BY <2>3, <4>1, <4>2
    <3>2. CASE t.type = "postcode"
      <4>1. v = [i \in 1 .. Len(old) |-> IF i <= 2 THEN old[i] ELSE Star]
        BY <3>2 DEF Mask
      <4>2. Len(v) = Len(old)
        BY <2>2, <2>3, <4>1 DEF Texts
      <4> QED BY <2>3, <4>1, <4>2
    <3> QED BY <3>1, <3>2
  <2>5. InShape(e, t, r, after)
    <3> HIDE DEF v
    <3> QED BY <2>1, <2>4 DEF InShape
  <2> QED BY <1>0, <2>1, <2>2, <2>5
<1> QED BY <1>1, <1>2

\* A text without an at sign.
NoAt(v) == \A i \in DOMAIN v : v[i] # At

\* The domain of a text with one at sign is what comes after it.
LEMMA DomainIs ==
  ASSUME NEW local \in Texts, NEW domain \in Texts, NoAt(local), NoAt(domain)
  PROVE  Domain(local \o <<At>> \o domain) = domain
<1> DEFINE l == Len(local)
           m == Len(domain)
           v == local \o <<At>> \o domain
<1>1. /\ l \in Nat /\ m \in Nat /\ local \in Seq(Byte) /\ domain \in Seq(Byte) /\ <<At>> \in Seq(Byte)
      /\ DOMAIN local = 1 .. l /\ DOMAIN domain = 1 .. m
  BY DEF Texts, At, Byte
<1>2. v \in Seq(Byte) /\ Len(v) = l + 1 + m /\ DOMAIN v = 1 .. l + 1 + m
  BY <1>1
<1>3. /\ \A i \in 1 .. l : v[i] = local[i]
      /\ v[l + 1] = At
      /\ \A i \in 1 .. m : v[l + 1 + i] = domain[i]
  <2> DEFINE u == local \o <<At>>
  <2>1. u \in Seq(Byte) /\ Len(u) = l + 1 /\ u[l + 1] = At /\ \A i \in 1 .. l : u[i] = local[i]
    BY <1>1
  <2>2. v = u \o domain
    OBVIOUS
  <2> HIDE DEF u, v, m
  <2>3. /\ \A i \in 1 .. l + 1 : v[i] = u[i]
        /\ \A i \in 1 .. m : v[l + 1 + i] = domain[i]
    BY <1>1, <2>1, <2>2 DEF m
  <2> HIDE DEF l
  <2>4. \A i \in 1 .. l : i \in 1 .. l + 1
    BY <1>1
  <2>5. l + 1 \in 1 .. l + 1
    BY <1>1
  <2> QED BY <2>1, <2>3, <2>4, <2>5
<1> HIDE DEF v, l, m
<1>4. \A i \in DOMAIN v : v[i] = At <=> i = l + 1
  <2> SUFFICES ASSUME NEW i \in 1 .. l + 1 + m, i # l + 1 PROVE v[i] # At
    BY <1>2, <1>3
  <2>1. CASE i \in 1 .. l
    BY <1>1, <1>3, <2>1 DEF NoAt
  <2>2. CASE i \in l + 2 .. l + 1 + m
    <3>1. i - (l + 1) \in 1 .. m /\ l + 1 + (i - (l + 1)) = i
      BY <1>1, <2>2
    <3>2. v[i] = domain[i - (l + 1)]
      BY <1>3, <3>1
    <3> QED BY <1>1, <3>1, <3>2 DEF NoAt
  <2> QED BY <1>1, <2>1, <2>2
<1>5. (CHOOSE i \in DOMAIN v : v[i] = At) = l + 1
  <2>1. l + 1 \in DOMAIN v
    BY <1>1, <1>2
  <2> QED BY <1>4, <2>1
<1>6. Domain(v) = SubSeq(v, l + 2, l + 1 + m)
  <2>1. Domain(v) = SubSeq(v, (l + 1) + 1, Len(v))
    BY <1>5 DEF Domain
  <2>2. (l + 1) + 1 = l + 2
    BY <1>1
  <2> QED BY <1>2, <2>1, <2>2
<1> DEFINE s == SubSeq(v, l + 2, l + 1 + m)
<1>7. s \in Seq(Byte) /\ Len(s) = m /\ \A i \in 1 .. m : s[i] = domain[i]
  <2>1. \A i \in l + 2 .. l + 1 + m : v[i] \in Byte
    BY <1>1, <1>2
  <2>2. l + 2 \in Int /\ l + 1 + m \in Int
    BY <1>1
  <2>3. /\ s \in Seq(Byte) /\ Len(s) = IF l + 2 <= l + 1 + m THEN (l + 1 + m) - (l + 2) + 1 ELSE 0
        /\ \A i \in 1 .. (l + 1 + m) - (l + 2) + 1 : s[i] = v[(l + 2) + i - 1]
    BY <2>1, <2>2, SubSeqProperties
  <2> HIDE DEF s
  <2>4. Len(s) = m
    BY <1>1, <2>3
  <2>5. ASSUME NEW i \in 1 .. m PROVE s[i] = domain[i]
    <3>1. i \in 1 .. (l + 1 + m) - (l + 2) + 1 /\ (l + 2) + i - 1 = l + 1 + i
      BY <1>1
    <3> QED BY <1>3, <2>3, <3>1
  <2> QED BY <2>3, <2>4, <2>5
<1> HIDE DEF s
<1>8. s = domain
  <2>1. domain \in Seq(Byte) /\ Len(s) = Len(domain) /\ \A i \in 1 .. Len(s) : s[i] = domain[i]
    BY <1>1, <1>7 DEF m
  <2> QED BY <1>7, <2>1, SeqEqual
<1> QED BY <1>6, <1>8 DEF s, v

\* The parts of an email have no at sign.
LEMMA EmailParts ==
  ASSUME NEW v \in Texts, IsEmail(v)
  PROVE  /\ LocalPart(v) \in Texts /\ NoAt(LocalPart(v))
         /\ Domain(v) \in Texts /\ NoAt(Domain(v))
<1> DEFINE n == Len(v)
<1>1. n \in Nat /\ DOMAIN v = 1 .. n /\ \A i \in 1 .. n : v[i] \in Byte
  BY DEF Texts
<1>2. PICK i \in 1 .. n : v[i] = At /\ \A j \in (1 .. n) \ {i} : v[j] # At
  BY <1>1 DEF IsEmail
<1>3. (CHOOSE k \in DOMAIN v : v[k] = At) = i
  BY <1>1, <1>2
<1>4. LocalPart(v) = SubSeq(v, 1, i - 1) /\ Domain(v) = SubSeq(v, i + 1, n)
  BY <1>3 DEF LocalPart, Domain
<1> HIDE DEF n
<1>5. ASSUME NEW a \in 1 .. n + 1, NEW b \in 0 .. n, i \notin a .. b
      PROVE  SubSeq(v, a, b) \in Texts /\ NoAt(SubSeq(v, a, b))
  <2> DEFINE s == SubSeq(v, a, b)
  <2>1. a \in Int /\ b \in Int /\ \A k \in a .. b : v[k] \in Byte
    BY <1>1
  <2>2. /\ s \in Seq(Byte) /\ Len(s) = IF a <= b THEN b - a + 1 ELSE 0
        /\ \A k \in 1 .. b - a + 1 : s[k] = v[a + k - 1]
    BY <2>1, SubSeqProperties
  <2> HIDE DEF s
  <2>3. DOMAIN s = 1 .. Len(s)
    BY <2>2
  <2>4. ASSUME NEW k \in DOMAIN s PROVE s[k] # At
    <3>1. k \in 1 .. b - a + 1
      BY <2>1, <2>2, <2>3
    <3>2. a + k - 1 \in a .. b /\ a + k - 1 \in 1 .. n
      BY <1>1, <2>1, <3>1
    <3> QED BY <1>2, <1>5, <2>2, <3>1, <3>2
  <2> QED BY <2>2, <2>4 DEF Texts, NoAt, s
<1>6. /\ 1 \in 1 .. n + 1 /\ i - 1 \in 0 .. n /\ i \notin 1 .. i - 1
      /\ i + 1 \in 1 .. n + 1 /\ n \in 0 .. n /\ i \notin i + 1 .. n
  BY <1>1
<1>7. SubSeq(v, 1, i - 1) \in Texts /\ NoAt(SubSeq(v, 1, i - 1))
  BY <1>5, <1>6
<1>8. SubSeq(v, i + 1, n) \in Texts /\ NoAt(SubSeq(v, i + 1, n))
  BY <1>5, <1>6
<1> QED BY <1>4, <1>7, <1>8

\* Email: the domain, where it is to be kept.
LEMMA EmailIn ==
  ASSUME TextsGiven, NEW tb, NEW e, e.kind = "Email", NEW t, MakesTexts(tb, "Email", t),
         NEW r \in TextRows(tb), t.column \in Names(tb), NEW seed \in Seeds,
         NEW made, made = Email(t, r, seed), made # Fail,
         NEW after, after[t.column] = made[t.column]
  PROVE  InShape(e, t, r, after) /\ made[t.column] # Unset
<1> DEFINE old      == r[t.column]
           original == Data(old)
           random   == Digest(Stream(seed, t.maxRandomLength))
           local    == IF t.localTemplate = "original" THEN LocalPart(original) \o random ELSE random
<1>0. made[t.column] # Unset
  <2>1. made[t.column] \in TextValues
    BY EmailTexts
  <2> QED BY <2>1, NothingAssumption DEF TextValues
<1> SUFFICES ASSUME made[t.column] # Null, t.keepDomain, t.domainTemplate = Unset
             PROVE  Domain(made[t.column]) = Domain(old)
  BY <1>0 DEF InShape
<1>1. Kept(t, r) => made[t.column] = Null
  BY DEF Email, Kept
<1>2. ~Kept(t, r)
  BY <1>1
<1>3. Unset # "original" /\ Unset # "random"
  BY NothingAssumption
<1>4. NeedsOriginal(t)
  BY DEF NeedsOriginal
<1>5. IsEmail(original)
  BY <1>2, <1>4 DEF Email
<1>6. made = Set(t, r, local \o <<At>> \o Domain(original))
  BY <1>2, <1>3, <1>4, <1>5 DEF Email
<1>7. original = old /\ old \in Texts
  <2>1. old \in TextValues
    BY DEF TextRows
  <2>2. old # Null
    <3> SUFFICES ASSUME old = Null PROVE FALSE
      OBVIOUS
    <3>1. original = <<>> /\ Len(<<>>) = 0
      BY DEF Data
    <3> QED BY <1>5, <3>1 DEF IsEmail
  <2> QED BY <2>1, <2>2 DEF Data, TextValues
<1>8. random \in Texts /\ NoAt(random)
  <2>1. t.maxRandomLength \in Nat
    BY DEF MakesTexts
  <2>2. Stream(seed, t.maxRandomLength) \in Texts
    BY <2>1, GivenIs
  <2>3. random \in Texts /\ \A i \in DOMAIN random : random[i] \in Hexadecimal
    BY <2>2, GivenIs
  <2>4. At \notin Hexadecimal
    BY DEF At, Hexadecimal
  <2> HIDE DEF random
  <2> QED BY <2>3, <2>4 DEF NoAt
<1> HIDE DEF original, random
<1>9. /\ LocalPart(original) \in Texts /\ NoAt(LocalPart(original))
      /\ Domain(original) \in Texts /\ NoAt(Domain(original))
  BY <1>5, <1>7, EmailParts
<1>10. local \in Texts /\ NoAt(local)
  <2> DEFINE p == LocalPart(original)
             s == p \o random
  <2> HIDE DEF p
  <2>1. p \in Texts /\ NoAt(p)
    BY <1>9 DEF p
  <2>2. s \in Texts /\ Len(s) = Len(p) + Len(random) /\ Len(p) \in Nat /\ Len(random) \in Nat
        /\ DOMAIN s = 1 .. Len(s) /\ DOMAIN p = 1 .. Len(p) /\ DOMAIN random = 1 .. Len(random)
    BY <1>8, <2>1 DEF Texts
  <2>3. \A i \in 1 .. Len(s) : s[i] = IF i <= Len(p) THEN p[i] ELSE random[i - Len(p)]
    BY <1>8, <2>1 DEF Texts
  <2> HIDE DEF s
  <2>4. ASSUME NEW i \in DOMAIN s PROVE s[i] # At
    <3>1. CASE i <= Len(p)
      <4>1. i \in DOMAIN p /\ s[i] = p[i]
        BY <2>2, <2>3, <3>1
      <4> QED BY <2>1, <4>1 DEF NoAt
    <3>2. CASE i > Len(p)
      <4>1. i - Len(p) \in DOMAIN random /\ s[i] = random[i - Len(p)]
        BY <2>2, <2>3, <3>2
      <4> QED BY <1>8, <4>1 DEF NoAt
    <3> QED BY <2>2, <3>1, <3>2
  <2>5. NoAt(s)
    BY <2>4 DEF NoAt
  <2> QED BY <1>8, <2>2, <2>5 DEF s, p
<1> HIDE DEF local
<1>11. Domain(local \o <<At>> \o Domain(original)) = Domain(original)
  BY <1>9, <1>10, DomainIs
<1>12. made[t.column] = local \o <<At>> \o Domain(original)
  BY <1>6 DEF Set, TextRows
<1> QED BY <1>7, <1>11, <1>12

-----------------------------------------------------------------------------
(* What a transformer reads of a table *)

\* What a column of a row is, before it is transformed.
LEMMA InItsLine ==
  ASSUME NEW tb, IsTable(tb), NEW j \in DOMAIN tb.lines, NEW c \in Names(tb),
         NEW r, r = RowOf(tb, Raw(tb, j), Clear(tb))
  PROVE  r[c] \in InLines(tb, c) \cup {Null}
<1>1. PICK i \in DOMAIN tb.columns : tb.columns[i] = c
  BY DEF Names
<1>2. r[c] = CellOf(tb, Raw(tb, j), Clear(tb), i)
  BY <1>1, RowAtColumn
<1>3. r[c] = Value(tb, Fields(tb, tb.lines[j])[i])
  BY <1>2 DEF CellOf, Clear, Raw
<1> QED BY <1>1, <1>3 DEF InLines

\* So a parameter decodes.
LEMMA GivenHere ==
  ASSUME NEW tb, IsTable(tb), NEW j \in DOMAIN tb.lines, NEW p, NEW S, Gives(tb, p, S),
         NEW r, r = RowOf(tb, Raw(tb, j), Clear(tb))
  PROVE  GivesHere(p, r, S)
<1>1. p.dynamic => r[p.column] \in InLines(tb, p.column) \cup {Null}
  BY InItsLine DEF Gives
<1> QED BY <1>1 DEF Gives, GivesHere

\* The kinds whose values are limited, and what their elements have.
ValueKinds == LimitedKinds \cup {"RandomDate", "RandomIp", "RandomMac"} \cup ShapedKinds

LEMMA ValuesOf ==
  ASSUME NEW tb, IsTable(tb), NEW k \in DOMAIN tb.chain, NEW e, e = tb.chain[k], Made(tb, e),
         e.kind \in ValueKinds, NEW w, w = WithParameters(e),
         NEW t, Remembered(tb, k, t)
  PROVE  /\ New(tb, e) = w /\ w # Fail /\ MakesValues(tb, e.kind, w)
         /\ ValueFields(e.kind) \subseteq DOMAIN t
         /\ \A f \in ValueFields(e.kind) \cup {"column"} : t[f] = w[f]
         /\ {"column"} \subseteq DOMAIN t /\ t.column \in Names(tb)
         /\ e.kind \in ShapedKinds => MakesTexts(tb, e.kind, w)
<1>0. ParameterWarnings(tb, e) = {}
  BY DEF Made, Accepted
<1>1. MakesValues(tb, e.kind, w) /\ (tb.family = "text" => MakesTexts(tb, e.kind, w))
  BY <1>0 DEF IsTable
<1>2. e.kind \notin RecordKinds
  BY DEF ValueKinds, LimitedKinds, ShapedKinds, NumberKinds, RecordKinds
<1>3. New(tb, e) = w /\ w # Fail
  BY <1>2, NewIs
<1>4. Like(t, New(tb, e))
  BY DEF Remembered
<1>5. /\ \A f \in DOMAIN w \ {"columns", "default", "value", "values", "filled", "cached"} : t[f] = w[f]
      /\ DOMAIN t = DOMAIN w /\ "column" \in DOMAIN t /\ t.column \in Names(tb)
  BY <1>2, <1>4, LikeNew
<1>6. ValueFields(e.kind) \subseteq DOMAIN w
  BY <1>1 DEF MakesValues
<1>7. ValueFields(e.kind) \cap {"columns", "default", "value", "values", "filled", "cached"} = {}
  BY DEF ValueFields
<1>8. e.kind \in ShapedKinds => MakesTexts(tb, e.kind, w)
  BY <1>1 DEF MakesValues
<1> QED BY <1>1, <1>3, <1>5, <1>6, <1>7, <1>8

-----------------------------------------------------------------------------
(* The values of a row are in their limits *)

\* The three properties of a row that one transformer made.
RowInLimits(e, t, r, after) ==
    /\ NumberInLimits(e, t, r, after)
    /\ TimeInLimits(e, t, r, after)
    /\ ShapeAsAsked(e, t, r, after)

\* They ask nothing of the other kinds.
LEMMA OtherInLimits ==
  ASSUME NEW e, e.kind \notin ValueKinds, NEW t, NEW r, NEW after
  PROVE  RowInLimits(e, t, r, after)
<1>1. e.kind \notin LimitedKinds /\ e.kind # "RandomDate"
  BY DEF ValueKinds
<1>2. e.kind \notin {"RandomIp", "RandomMac", "RandomString", "Email", "Masking"}
  BY DEF ValueKinds, ShapedKinds
<1>3. InShape(e, t, r, after)
  BY <1>2 DEF InShape
<1> QED BY <1>1, <1>3 DEF RowInLimits, NumberInLimits, TimeInLimits, ShapeAsAsked

\* They read of a transformer what it keeps as it was made.
LEMMA SameLimits ==
  ASSUME NEW e, e.kind \in ValueKinds, NEW t, NEW w,
         \A f \in ValueFields(e.kind) \cup {"column"} : t[f] = w[f],
         e.kind = "RandomString" => \A f \in {"symbols", "min", "max"} : t[f] = w[f],
         NEW r, NEW after
  PROVE  /\ e.kind \in LimitedKinds => NumberInLimits(e, t, r, after) = NumberInLimits(e, w, r, after)
         /\ e.kind = "RandomDate" => TimeInLimits(e, t, r, after) = TimeInLimits(e, w, r, after)
         /\ InShape(e, t, r, after) = InShape(e, w, r, after)
<1>1. t.column = w.column
  OBVIOUS
<1>2. e.kind \in LimitedKinds => NumberInLimits(e, t, r, after) = NumberInLimits(e, w, r, after)
  <2> SUFFICES ASSUME e.kind \in LimitedKinds
               PROVE  NumberInLimits(e, t, r, after) = NumberInLimits(e, w, r, after)
    OBVIOUS
  <2>1. t.min = w.min /\ t.max = w.max /\ t.step = w.step /\ t.size = w.size
    BY DEF ValueFields, LimitedKinds, NumberKinds
  <2>2. Unlimited(t, r) = Unlimited(w, r) /\ TakesLimits(e, t) = TakesLimits(e, w)
    BY <2>1 DEF Unlimited, TakesLimits, Dynamic
  <2>3. Threshold(e, t) = Threshold(e, w)
    BY <2>1 DEF Threshold
  <2> QED BY <1>1, <2>1, <2>2, <2>3 DEF NumberInLimits
<1>3. e.kind = "RandomDate" => TimeInLimits(e, t, r, after) = TimeInLimits(e, w, r, after)
  <2> SUFFICES ASSUME e.kind = "RandomDate"
               PROVE  TimeInLimits(e, t, r, after) = TimeInLimits(e, w, r, after)
    OBVIOUS
  <2>1. t.min = w.min /\ t.max = w.max /\ t.part = w.part
    BY DEF ValueFields, LimitedKinds, NumberKinds
  <2> QED BY <1>1, <2>1 DEF TimeInLimits
<1>4. InShape(e, t, r, after) = InShape(e, w, r, after)
  <2>1. CASE e.kind \in LimitedKinds \cup {"RandomDate"}
    <3>1. e.kind \notin {"RandomIp", "RandomMac", "RandomString", "Email", "Masking"}
      BY <2>1 DEF LimitedKinds, NumberKinds
    <3> QED BY <3>1 DEF InShape
  <2>2. CASE e.kind = "RandomString"
    <3>1. t.symbols = w.symbols /\ t.min = w.min /\ t.max = w.max
      BY <2>2
    <3> QED BY <1>1, <2>2, <3>1 DEF InShape
  <2>3. CASE e.kind = "RandomIp"
    <3>1. t.subnet = w.subnet
      BY <2>3 DEF ValueFields, LimitedKinds, NumberKinds
    <3> QED BY <1>1, <2>3, <3>1 DEF InShape
  <2>4. CASE e.kind = "RandomMac"
    <3>1. t.keepVendor = w.keepVendor /\ t.castType = w.castType
          /\ t.managementType = w.managementType
      BY <2>4 DEF ValueFields, LimitedKinds, NumberKinds
    <3> QED BY <1>1, <2>4, <3>1 DEF InShape
  <2>5. CASE e.kind = "Email"
    <3>1. t.keepDomain = w.keepDomain /\ t.domainTemplate = w.domainTemplate
      BY <2>5 DEF ValueFields, LimitedKinds, NumberKinds
    <3> QED BY <1>1, <2>5, <3>1 DEF InShape
  <2>6. CASE e.kind = "Masking"
    <3>1. t.type = w.type
      BY <2>6 DEF ValueFields, LimitedKinds, NumberKinds
    <3> QED BY <1>1, <2>6, <3>1 DEF InShape
  <2> QED BY <2>1, <2>2, <2>3, <2>4, <2>5, <2>6 DEF ValueKinds, ShapedKinds
<1> QED BY <1>2, <1>3, <1>4

\* The row of a line, and that of a table of texts.
LEMMA OriginalTexts ==
  ASSUME NEW tb, IsTable(tb), tb.family = "text", NEW j \in DOMAIN tb.lines
  PROVE  RowOf(tb, Raw(tb, j), Clear(tb)) \in TextRows(tb)
<1>1. \A i \in DOMAIN tb.columns : Clear(tb)[i] \in TextValues \cup {Unset}
  BY DEF Clear
<1> HIDE DEF Clear
<1> QED BY <1>1, RowOfTexts

\* What is drawn for the row of a line is a seed.
LEMMA SeedOf ==
  ASSUME TextsGiven, NEW tb, IsTable(tb), NEW j \in DOMAIN tb.lines,
         NEW r, r = RowOf(tb, Raw(tb, j), Clear(tb)),
         NEW kind, kind \in ValueKinds, NEW w, MakesValues(tb, kind, w),
         NEW t, "column" \in DOMAIN t, t.column = w.column, t.column \in Names(tb)
  PROVE  DrawOf(tb, r, t) \subseteq Seeds
<1>1. Bytes(tb.family, r[t.column]) \in Texts
  <2>1. CASE kind \in ShapedKinds
    <3>1. tb.family = "text"
      BY <2>1 DEF MakesValues
    <3>2. r[t.column] \in TextValues
      BY <3>1, OriginalTexts DEF TextRows
    <3> QED BY <3>1, <3>2, GivenIs
  <2>2. CASE kind \notin ShapedKinds
    <3>1. kind \in {"RandomIp", "RandomMac", "RandomDate"} \cup LimitedKinds
      BY <2>2 DEF ValueKinds
    <3>2. \A v \in InLines(tb, w.column) \cup {Null} : Bytes(tb.family, v) \in Texts
      BY <3>1 DEF MakesValues
    <3> QED BY <3>2, InItsLine
  <2> QED BY <2>1, <2>2
<1>2. Seed(Bytes(tb.family, r[t.column])) \in Seeds
  BY <1>1, GivenIs
<1> QED BY <1>2 DEF DrawOf

\* Whether a transformer of numbers is made.
LEMMA NewNumberSame ==
  ASSUME NEW kind \in LimitedKinds, NEW t, NEW w, t.min = w.min, t.max = w.max, t.step = w.step,
         t.size = w.size, t.minRatio = w.minRatio, t.maxRatio = w.maxRatio
  PROVE  (NewNumber(kind, t) = Fail) = (NewNumber(kind, w) = Fail)
<1>1. \A lo, hi : StaticLimits(t, lo, hi) = StaticLimits(w, lo, hi)
  BY DEF StaticLimits, Dynamic
<1>2. NewRandomInt(t) = NewRandomInt(w) /\ NewNoiseInt(t) = NewNoiseInt(w)
  BY <1>1 DEF NewRandomInt, NewNoiseInt
<1>3. NewRandomFloat(t) = NewRandomFloat(w) /\ NewNoiseFloat(t) = NewNoiseFloat(w)
  BY <1>1 DEF NewRandomFloat, NewNoiseFloat, Dynamic
<1>4. NewRandomNumeric(t) = NewRandomNumeric(w) /\ NewNoiseNumeric(t) = NewNoiseNumeric(w)
  BY <1>1 DEF NewRandomNumeric, NewNoiseNumeric
<1> QED BY <1>2, <1>3, <1>4 DEF NewNumber, LimitedKinds, NumberKinds

\* What an element of a chain makes of the row of a line is in its limits.
LEMMA MadeInLimits ==
  ASSUME TextsGiven, NEW tb, IsTable(tb), NEW j \in DOMAIN tb.lines,
         NEW r, r = RowOf(tb, Raw(tb, j), Clear(tb)),
         NEW k \in DOMAIN tb.chain, NEW e, e = tb.chain[k], Made(tb, e), e.kind \in ValueKinds,
         NEW w, w = WithParameters(e), NEW t, Remembered(tb, k, t),
         NEW seed \in DrawOf(tb, r, t), NEW made, made = AfterOf(e, t, r, seed), made # Fail,
         NEW after, \A c \in Names(tb) : made[c] # Unset => after[c] = made[c]
  PROVE  RowInLimits(e, w, r, after)
<1>1. /\ New(tb, e) = w /\ w # Fail /\ MakesValues(tb, e.kind, w)
      /\ \A f \in ValueFields(e.kind) \cup {"column"} : t[f] = w[f]
      /\ "column" \in DOMAIN t /\ t.column \in Names(tb) /\ t.column = w.column
  BY ValuesOf
<1>2. DOMAIN r = Names(tb) /\ t.column \in DOMAIN r
  BY <1>1 DEF RowOf
<1>3. seed \in Seeds
  BY <1>1, SeedOf
<1>4. NumberDraw(seed) \in DrawnNumber
  BY <1>3, DrawAssumption DEF DrawnNumber
<1>5. e.kind \in ShapedKinds => r \in TextRows(tb) /\ MakesTexts(tb, e.kind, w)
                                /\ MakesTexts(tb, e.kind, t)
  <2> SUFFICES ASSUME e.kind \in ShapedKinds
               PROVE  r \in TextRows(tb) /\ MakesTexts(tb, e.kind, w) /\ MakesTexts(tb, e.kind, t)
    OBVIOUS
  <2>1. tb.family = "text"
    BY <1>1 DEF MakesValues
  <2>2. MakesTexts(tb, e.kind, t)
    BY <2>1 DEF Remembered
  <2>3. MakesTexts(tb, e.kind, w)
    BY ValuesOf
  <2>4. r \in TextRows(tb)
    BY <2>1, OriginalTexts
  <2> QED BY <2>2, <2>3, <2>4
<1>6. e.kind = "RandomString" => \A f \in {"symbols", "min", "max"} : t[f] = w[f]
  <2> SUFFICES ASSUME e.kind = "RandomString" PROVE \A f \in {"symbols", "min", "max"} : t[f] = w[f]
    OBVIOUS
  <2>1. {"symbols", "min", "max"} \subseteq DOMAIN w
    BY <1>5 DEF MakesTexts, TextFields, ShapedKinds
  <2>2. Like(t, New(tb, e))
    BY DEF Remembered
  <2> QED BY <2>1, <2>2, LikeNew
<1>7. e.kind \in LimitedKinds => NumberInLimits(e, t, r, after)
  <2> SUFFICES ASSUME e.kind \in LimitedKinds PROVE NumberInLimits(e, t, r, after)
    OBVIOUS
  <2>1. t.min = w.min /\ t.max = w.max /\ t.step = w.step /\ t.size = w.size
        /\ t.minRatio = w.minRatio /\ t.maxRatio = w.maxRatio
    BY <1>1 DEF ValueFields, LimitedKinds, NumberKinds
  <2>2. e.kind \in NumberKinds
    BY DEF LimitedKinds
  <2>3. NumberRow(e.kind, t, r)
    <3> DEFINE S == IF e.kind \in IntKinds THEN Int64 ELSE Int
    <3>1. Gives(tb, t.min, S) /\ Gives(tb, t.max, S)
      BY <1>1, <2>1 DEF MakesValues
    <3>2. GivesHere(t.min, r, S) /\ GivesHere(t.max, r, S)
      <4> HIDE DEF S
      <4> QED BY <3>1, GivenHere
    <3>3. t.step \in Nat \ {0} /\ t.minRatio \in Int /\ t.maxRatio \in Int
      BY <1>1, <2>1 DEF MakesValues
    <3>4. InLines(tb, t.column) \subseteq Int
      BY <1>1 DEF MakesValues
    <3>5. r[t.column] \in Int \cup {Null}
      BY <1>1, <3>4, InItsLine
    <3> QED BY <1>2, <3>2, <3>3, <3>5 DEF NumberRow
  <2>4. NewNumber(e.kind, w) # Fail
    BY <1>1, <2>2, KindsApart DEF New
  <2>5. NewNumber(e.kind, t) # Fail
    BY <2>1, <2>4, NewNumberSame
  <2>6. made = TransformNumber(e.kind, t, r, NumberDraw(seed))
    BY <2>2, KindsApart DEF AfterOf
  <2>7. TakesLimits(e, t) => Limited(e.kind, t, r, made)
    BY <1>4, <2>3, <2>5, <2>6, NumbersIn
  <2>8. TakesLimits(e, t) => made[t.column] # Unset
    BY <1>2, <2>7, LimitedIs
  <2> QED BY <1>1, <1>2, <2>7, <2>8, LimitedIs
<1>8. e.kind = "RandomDate" => TimeInLimits(e, t, r, after)
  <2> SUFFICES ASSUME e.kind = "RandomDate" PROVE TimeInLimits(e, t, r, after)
    OBVIOUS
  <2>1. t.min = w.min /\ t.max = w.max /\ t.part = w.part
    BY <1>1 DEF ValueFields, LimitedKinds, NumberKinds
  <2>2. \A p \in {t.min, t.max} : Gives(tb, p, Time) /\ (Dynamic(t) \/ Required(p))
    BY <1>1, <2>1 DEF MakesValues, Dynamic
  <2>3. GivesHere(t.min, r, Time) /\ GivesHere(t.max, r, Time)
    BY <2>2, GivenHere
  <2>4. DateRow(t, r)
    BY <1>1, <1>2, <2>1, <2>2, <2>3 DEF DateRow, MakesValues
  <2>5. made = RandomDate(t, r, NumberDraw(seed))
    BY KindsApart DEF AfterOf, TransformNumber, TimeKinds
  <2>6. made[t.column] # Unset
    BY <1>4, <2>4, <2>5, RandomDateIn
  <2>7. after[t.column] = made[t.column]
    BY <1>1, <2>6
  <2> QED BY <1>4, <2>4, <2>5, <2>7, RandomDateIn
<1>9. e.kind \in {"RandomIp", "RandomMac"} \cup ShapedKinds => InShape(e, t, r, after)
  <2> SUFFICES ASSUME e.kind \in {"RandomIp", "RandomMac"} \cup ShapedKinds
               PROVE  InShape(e, t, r, after)
    OBVIOUS
  <2>1. e.kind \in TextKinds
    BY DEF ShapedKinds, TextKinds
  <2>2. made = TransformText(e.kind, t, r, seed)
    BY <2>1, KindsApart DEF AfterOf
  <2>3. made[t.column] # Unset => after[t.column] = made[t.column]
    BY <1>1
  <2>a. CASE e.kind = "RandomString"
    <3>1. NewText(e.kind, w) # Fail
      BY <1>1, <2>1, KindsApart DEF New
    <3>2. StringBytes(t.symbols, t.min, t.max) # 0
      BY <1>6, <2>a, <3>1 DEF NewText, NewRandomString
    <3>3. t.symbols \in Texts \ {<<>>} /\ t.min \in Nat /\ t.max \in Nat
      BY <1>5, <2>a DEF MakesTexts, ShapedKinds
    <3>4. made = RandomText(t, r, seed)
      BY <2>2, <2>a DEF TransformText
    <3>5. made[t.column] # Unset
      BY <1>2, <1>3, <2>a, <3>2, <3>3, <3>4, RandomStringIn
    <3> QED BY <1>2, <1>3, <2>3, <2>a, <3>2, <3>3, <3>4, <3>5, RandomStringIn
  <2>b. CASE e.kind = "RandomIp"
    <3>1. t.subnet = w.subnet
      BY <1>1, <2>b DEF ValueFields, LimitedKinds, NumberKinds
    <3>2. Gives(tb, t.subnet, Subnet) /\ Required(t.subnet)
      BY <1>1, <2>b, <3>1 DEF MakesValues
    <3>3. GivesHere(t.subnet, r, Subnet)
      BY <3>2, GivenHere
    <3>4. made = Ip(t, r, seed)
      BY <2>2, <2>b DEF TransformText
    <3>5. made[t.column] # Unset
      BY <1>2, <1>3, <2>b, <3>2, <3>3, <3>4, RandomIpIn
    <3> QED BY <1>2, <1>3, <2>3, <2>b, <3>2, <3>3, <3>4, <3>5, RandomIpIn
  <2>c. CASE e.kind = "RandomMac"
    <3>1. InLines(tb, t.column) \subseteq {m \in Texts : Len(m) >= 3}
      BY <1>1, <2>c DEF MakesValues
    <3>2. r[t.column] \in {m \in Texts : Len(m) >= 3} \cup {Null}
      BY <1>1, <3>1, InItsLine
    <3>3. made = Mac(t, r, seed)
      BY <2>2, <2>c DEF TransformText
    <3>4. made[t.column] # Unset
      BY <1>2, <1>3, <2>c, <3>2, <3>3, RandomMacIn
    <3> QED BY <1>2, <1>3, <2>3, <2>c, <3>2, <3>3, <3>4, RandomMacIn
  <2>d. CASE e.kind = "Masking"
    <3>1. r[t.column] \in TextValues
      BY <1>1, <1>5, <2>d DEF TextRows, ShapedKinds
    <3>2. made = Masking(t, r)
      BY <2>2, <2>d DEF TransformText
    <3>3. made[t.column] # Unset
      BY <1>2, <2>d, <3>1, <3>2, MaskingIn
    <3> QED BY <1>2, <2>3, <2>d, <3>1, <3>2, <3>3, MaskingIn
  <2>e. CASE e.kind = "Email"
    <3>1. r \in TextRows(tb) /\ MakesTexts(tb, "Email", t)
      BY <1>5, <2>e DEF ShapedKinds
    <3>2. made = Email(t, r, seed)
      BY <2>2, <2>e DEF TransformText
    <3>3. made[t.column] # Unset
      BY <1>1, <1>3, <2>e, <3>1, <3>2, EmailIn
    <3> QED BY <1>1, <1>3, <2>3, <2>e, <3>1, <3>2, <3>3, EmailIn
  <2> QED BY <2>a, <2>b, <2>c, <2>d, <2>e DEF ShapedKinds
<1>10. e.kind \notin {"RandomIp", "RandomMac"} \cup ShapedKinds => InShape(e, t, r, after)
  BY DEF ShapedKinds, InShape
<1>11. NumberInLimits(e, w, r, after)
  <2>1. CASE e.kind \in LimitedKinds
    BY <1>1, <1>6, <1>7, <2>1, SameLimits
  <2>2. CASE e.kind \notin LimitedKinds
    BY <2>2 DEF NumberInLimits
  <2> QED BY <2>1, <2>2
<1>12. TimeInLimits(e, w, r, after)
  <2>1. CASE e.kind = "RandomDate"
    BY <1>1, <1>6, <1>8, <2>1, SameLimits
  <2>2. CASE e.kind # "RandomDate"
    BY <2>2 DEF TimeInLimits
  <2> QED BY <2>1, <2>2
<1>13. InShape(e, w, r, after)
  BY <1>1, <1>6, <1>9, <1>10, SameLimits
<1> QED BY <1>11, <1>12, <1>13 DEF RowInLimits, ShapeAsAsked

\* A number is generated between the limits that the configuration declares
\* or that the columns of its own row give, and so is a time; a text has its
\* length, its symbols or its domain, an address its network, a hardware
\* address its vendor or its bits, for every table and every draw, where the
\* operators of texts give texts.  (generators/transformers/, limiters)
THEOREM ValuesAreInLimits ==
  ASSUME TextsGiven
  PROVE  Spec => []ValuesInLimits
<1>1. RunInv => ValuesInLimits
  <2> SUFFICES ASSUME RunInv, table # Unset, Len(table.chain) = 1, NEW j \in DOMAIN values,
                      Meets(table.when, Original(j)), Meets(table.chain[1].when, Original(j))
               PROVE  RowInLimits(table.chain[1], New(table, table.chain[1]), Original(j), values[j])
    BY DEF ValuesInLimits, AloneEach, RowInLimits
  <2> DEFINE e == table.chain[1]
             r == Original(j)
             w == WithParameters(e)
  <2>1. /\ IsTable(table) /\ Made(table, e) /\ 1 \in DOMAIN table.chain
        /\ j \in DOMAIN table.lines /\ r = RowOf(table, Raw(table, j), Clear(table))
    BY AloneIs
  <2>2. PICK t, seed :
          /\ Remembered(table, 1, t) /\ seed \in DrawOf(table, r, t)
          /\ AfterOf(e, t, r, seed) # Fail
          /\ \A c \in Names(table) :
               AfterOf(e, t, r, seed)[c] # Unset => values[j][c] = AfterOf(e, t, r, seed)[c]
    BY AloneIs
  <2>3. CASE e.kind \in ValueKinds
    <3>1. New(table, e) = w
      BY <2>1, <2>2, <2>3, ValuesOf
    <3>2. RowInLimits(e, w, r, values[j])
      BY <2>1, <2>2, <2>3, MadeInLimits
    <3> QED BY <3>1, <3>2
  <2>4. CASE e.kind \notin ValueKinds
    BY <2>4, OtherInLimits
  <2> QED BY <2>3, <2>4
<1> QED BY <1>1, RunInvariant, PTL
=============================================================================
