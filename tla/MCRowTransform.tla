--------------------------- MODULE MCRowTransform ---------------------------
(***************************************************************************)
(* Small tables for RowTransform: an int64 has 6 bits, a column of 4 bytes *)
(* 5 and one of 2 bytes 4; a second has 8 nanoseconds.                     *)
(***************************************************************************)
EXTENDS RowTransform, TLC

CONSTANT Broken   \* a value for which a template fails

MCChain(type) == IF type = "posint" THEN {"int"} ELSE {}
MCTemplate(v) == IF v = Null THEN NullText ELSE IF v = Broken THEN Fail ELSE v
MCRender(v) == IF v = Broken THEN Fail ELSE v
MCZeroTime == [sec |-> -30, nano |-> 0]

MCNumberDraw(seed) ==
    [v |-> (<<0, 3, 17, 32, 63, 10>>)[seed + 1], frac |-> (<<0, 1, 2, 3, 4, 1>>)[seed + 1],
     negative |-> seed % 2 = 0, nano |-> (<<0, 7, 3, 5, 1, 2>>)[seed + 1]]

Sum(s) == LET sum[i \in 0 .. Len(s)] == IF i = 0 THEN 0 ELSE sum[i - 1] + s[i] IN sum[Len(s)]
MCSeed(bytes) == (Sum(bytes) + 2 * Len(bytes)) % 6
MCStream(seed, n) == [i \in 1 .. n |-> (seed * 37 + i * 11) % 256]
MCWord(seed, i) == (seed * 5 + i * 3) % 7
MCDigest(bytes) == <<97 + (Sum(bytes) % 6), 98, 99>>
MCDecodable(v) == v # <<33>>
MCSubstitute(v) == IF v # <<>> /\ v[1] = 120 THEN <<120>> \o v ELSE v
MCMasked(v) == IF v = <<>> THEN v ELSE <<v[1], Star>>
MCFill(template, attributes) == attributes[template]
MCPosition == [a |-> 0, b |-> 1, c |-> 2]
MCBytes(family, v) ==
    IF v = Null THEN <<>> ELSE IF family = "text" THEN v
    ELSE IF family = "number" THEN <<IF v < 0 THEN 100 - v ELSE v>>
    ELSE IF family = "time" THEN <<IF v.sec < 0 THEN 100 - v.sec ELSE v.sec, v.nano>>
    ELSE IF family \in {"name", "bytes"} THEN v ELSE <<1>>

-----------------------------------------------------------------------------
(* Parameters *)

Def == [required |-> FALSE, isColumn |-> FALSE, linked |-> FALSE, dynamic |-> FALSE,
        types |-> {}, default |-> Unset, env |-> Unset, allowed |-> {}]
LimitDef == [Def EXCEPT !.dynamic = TRUE, !.linked = TRUE, !.types = {"int"}]
ColumnDef == [Def EXCEPT !.required = TRUE, !.isColumn = TRUE]
NoParam == [dynamic |-> FALSE, column |-> Unset, cast |-> <<>>, value |-> Unset]
Fixed(v) == [NoParam EXCEPT !.value = v]
From(column, default) == [dynamic |-> TRUE, column |-> column, cast |-> <<>>, value |-> default]

NoRaw == [defs |-> <<>>, static |-> <<>>, dynamic |-> <<>>]
Element(kind, t) == [kind |-> kind, t |-> t, when |-> Unset, raw |-> NoRaw]
Table(family, types, lines, chain) ==
    [family |-> family, columns |-> <<"a", "b", "c">>, types |-> types, lines |-> lines,
     when |-> Unset, chain |-> chain]
Typed(type) == [x \in {"a", "b", "c"} |-> [type |-> type, notNull |-> FALSE, length |-> -1]]

-----------------------------------------------------------------------------
(* Numbers: a is transformed, b and c may give its limits. *)

Number == [column |-> "a", size |-> 4, keepNull |-> TRUE, engine |-> "random",
           min |-> NoParam, max |-> NoParam, minRatio |-> 1, maxRatio |-> 3, step |-> 2,
           part |-> "none", unit |-> "sec", minUnit |-> "sec", maxUnit |-> "milli"]

NumberLines == <<<<Null, 2, 6>>, <<5, Null, 9>>, <<-7, -3, 4>>, <<1, 0, 0>>>>
NumberLimits ==
    {<<NoParam, NoParam>>, <<Fixed(2), Fixed(6)>>, <<Fixed(-6), Fixed(3)>>,
     <<From("b", 4), From("c", Unset)>>, <<From("b", Unset), From("c", Unset)>>,
     <<Fixed(7), Fixed(3)>>}

Elements(kinds, t, limits, sizes) ==
    {Element(kind, [t EXCEPT !.size = size, !.min = l[1], !.max = l[2], !.engine = engine,
                             !.keepNull = keep]) :
       kind \in kinds, size \in sizes, l \in limits, engine \in {"random", "hash"},
       keep \in BOOLEAN}

Given(limits) == {l \in limits : \A i \in 1 .. 2 : l[i].dynamic \/ l[i].value # Unset}

NumberElements ==
    Elements({"RandomInt", "NoiseInt", "RandomNumeric"}, Number, NumberLimits, {2, 4})
    \cup Elements({"RandomFloat", "RandomUnixTimestamp"}, Number, Given(NumberLimits), {4})
    \cup Elements({"NoiseFloat", "NoiseNumeric"}, Number, NumberLimits, {8})
    \cup Elements({"RandomInt"}, Number, {<<Fixed(-20), Fixed(20)>>}, {8})

\* An int64 counts floats from -64 to 62 in steps of 2.
FloatLines == <<<<52, -66, 64>>, <<-61, 50, 70>>>>
FloatElements ==
    Elements({"RandomFloat", "NoiseFloat"}, Number,
             {<<Fixed(-70), Fixed(66)>>, <<Fixed(-70), Fixed(10)>>, <<Fixed(2), Fixed(70)>>,
              <<Fixed(-80), Fixed(80)>>, <<Fixed(0), Fixed(0)>>, <<From("b", 4), From("c", 6)>>},
             {4, 8})

NumberTables ==
    {Table("number", Typed("int"), NumberLines, <<e>>) : e \in NumberElements}
    \cup {Table("number", Typed("float"), FloatLines, <<e>>) : e \in FloatElements}

-----------------------------------------------------------------------------
(* Times, in seconds and nanoseconds *)

At0(sec, nano) == [sec |-> sec, nano |-> nano]
TimeLines == <<<<Null, At0(-9, 3), At0(7, 1)>>, <<At0(2, 5), Null, At0(3, 0)>>>>
TimeLimitPairs ==
    {<<Fixed(At0(-9, 3)), Fixed(At0(-4, 2))>>, <<Fixed(At0(-3, 2)), Fixed(At0(5, 1))>>,
     <<Fixed(At0(6, 0)), Fixed(At0(6, 4))>>, <<Fixed(At0(6, 4)), Fixed(At0(2, 0))>>,
     <<From("b", At0(-2, 0)), From("c", Unset)>>}
Date == [Number EXCEPT !.minRatio = Unset, !.maxRatio = 40]
TimeTables ==
    {Table("time", Typed("timestamp"), TimeLines, <<[e EXCEPT !.t.part = part]>>) :
       part \in {"none", "second", "larger"},
       e \in Elements({"RandomDate"}, Date, TimeLimitPairs, {8})
             \cup Elements({"NoiseDate"}, Date, TimeLimitPairs \cup {<<NoParam, NoParam>>}, {8})}

-----------------------------------------------------------------------------
(* Texts.  The bytes: a 97, b 98, x 120, N 78, a point, an at sign. *)

Text == [column |-> "a", keepNull |-> TRUE, engine |-> "hash"]
NL == 10
TextLines ==
    <<Join(<<<<97>>, NullText, <<92, 49, 48, 49>>>>),
      Join(<<<<120, 92, 116, 98>>, <<120, 92, 92, 78>>, <<>>>>),
      Join(<<NullText, <<98>>, NullText>>),
      Join(<<<<97>>, NullText, <<92, 49, 48, 49>>>>),
      Join(<<<<97, 64, 98, 46, 120, 120>>, <<98>>, <<92, 120, 52, 49>>>>)>>

DictOf(default, fail) ==
    [values |-> <<97>> :> <<120, 9>> @@ <<98>> :> Null, default |-> default,
     failNotMatched |-> fail, validate |-> FALSE] @@ Text
ReplaceBy(p, validate) == [value |-> p, validate |-> validate] @@ Text
EmailOf(local, domain, keep, engine) ==
    [localTemplate |-> local, domainTemplate |-> domain, keepDomain |-> keep,
     validate |-> keep, domains |-> <<>>, providers |-> <<<<100, 46, 101, 101>>, <<98, 46, 99, 99>>>>,
     maxRandomLength |-> IF local = "original" THEN 65 ELSE 3] @@ [Text EXCEPT !.engine = engine]
StringOf(symbols, min, max, engine) ==
    [symbols |-> symbols, min |-> min, max |-> max] @@ [Text EXCEPT !.engine = engine]
ChoiceOf(list, engine) ==
    [values |-> list, validate |-> TRUE] @@ [Text EXCEPT !.engine = engine]

DictElements ==
    {Element("Dict", DictOf(d, f)) : d \in {Unset, <<92, 46, 98>>, <<1>>}, f \in BOOLEAN}
ReplaceElements ==
    {Element("Replace", ReplaceBy(p, validate)) : validate \in BOOLEAN,
       p \in {Fixed(Null), Fixed(<<33>>), Fixed(<<92, 78, 97>>), Fixed(<<120, 92>>), From("b", Unset),
              From("b", <<97, NL>>)}}
Regexp == Element("RegexpReplace", Text)
HashOf(salt, length, column) ==
    Element("Hash", [salt |-> salt, maxLength |-> length] @@ [Text EXCEPT !.column = column])

TextElements ==
    <<DictElements, ReplaceElements, {Regexp}, {Element("SetNull", Text)}, {Element("Template", Text)},
      {HashOf(salt, length, "a") : salt \in {<<>>, <<97>>}, length \in {0, 2}},
      {Element("Masking", [type |-> type] @@ Text) : type \in {"default", "postcode", "name"}},
      {Element("RandomChoice", ChoiceOf(list, engine)) : engine \in {"random", "hash"},
         list \in {<<<<120>>, Null, <<97, 9>>>>, <<<<97>>, <<97>>>>, <<<<33>>>>}},
      {Element("Email", EmailOf(local, domain, keep, engine)) : local \in {Unset, "original"},
         domain \in {Unset, "random", "original"}, keep \in BOOLEAN, engine \in {"random", "hash"}},
      {Element("RandomString", StringOf(l[1], l[2], l[3], engine)) : engine \in {"random", "hash"},
         l \in {<<<<97, 98, 9>>, 1, 4>>, <<<<97, 98, 99, 46, 120>>, 2, 7>>, <<<<97>>, 3, 2>>,
                <<<<97, 92>>, 30, 32>>}}>>

\* Two transformers, where the second sees what the first did.
TextChains ==
    <<{<<e, Regexp>> : e \in DictElements}, {<<e, Regexp>> : e \in ReplaceElements},
      {<<HashOf(<<>>, 0, "a"), e>> : e \in DictElements},
      {<<[HashOf(<<>>, 0, "a") EXCEPT !.when = "b"], HashOf(<<97>>, 0, "c")>>},
      {<<[HashOf(<<>>, 0, "a") EXCEPT !.when = "broken"]>>},
      {<<Element("RandomChoice", ChoiceOf(<<<<120>>, <<120, 97>>>>, "hash")), Regexp>>}>>

TextTables ==
    [i \in DOMAIN TextElements |->
        {Table("text", Typed("text"), TextLines, <<e>>) : e \in TextElements[i]}]
    \o [i \in DOMAIN TextChains |->
        {Table("text", Typed("text"), TextLines, chain) : chain \in TextChains[i]}]
    \o <<{[Table("text", Typed("text"), TextLines, <<HashOf(<<>>, 0, "a")>>) EXCEPT !.when = w] :
            w \in {"b", "broken"}},
         {Table("text", Typed("text"), <<Join(<<<<97>>, <<>>, <<>>, <<>>>>)>>, <<Regexp>>)}>>

-----------------------------------------------------------------------------
(* Addresses, truth values, documents *)

Generated(family, lines, elements) ==
    {Table(family, Typed(family), lines, <<e>>) : e \in elements}

Nets == {[base |-> 8, bits |-> 2], [base |-> 16, bits |-> 3], [base |-> 4, bits |-> 1]}
IpTables ==
    Generated("ip", <<<<Null, [base |-> 32, bits |-> 3], Null>>, <<9, Null, Null>>>>,
        {Element("RandomIp", [column |-> "a", engine |-> engine, subnet |-> p]) :
           engine \in {"random", "hash"},
           p \in {Fixed(n) : n \in Nets} \cup {From("b", [base |-> 16, bits |-> 2]), From("b", Unset)}})

Address1 == <<5, 6, 7, 8, 9, 10>>
MacTables ==
    Generated("bytes", <<<<Address1, Null, Null>>, <<Null, Null, Null>>>>,
        {Element("RandomMac", [column |-> "a", engine |-> engine, keepVendor |-> keep,
                               castType |-> ct, managementType |-> mt]) :
           engine \in {"random", "hash"}, keep \in BOOLEAN, ct \in {"any", "group", "individual"},
           mt \in {"any", "local", "universal"}})
UuidTables ==
    Generated("bytes", <<<<Address1, Null, Null>>, <<Null, Null, Null>>>>,
        {Element("RandomUuid", [Text EXCEPT !.keepNull = keep]) : keep \in BOOLEAN})
FakerTables ==
    Generated("bytes", <<<<Address1, Null, Null>>, <<Null, Null, Null>>>>,
        {Element("Faker", [column |-> "a", keepNull |-> keep]) : keep \in BOOLEAN})

BoolTables ==
    Generated("bool", <<<<Null, Null, Null>>, <<TRUE, Null, Null>>>>,
        {Element("RandomBool", [Text EXCEPT !.engine = engine]) : engine \in {"random", "hash"}})

Op(name, path, template, skip, error) ==
    [name |-> name, path |-> path, value |-> <<97, 98>>, template |-> template,
     skip |-> skip, error |-> error]
Ops == {Op(name, path, template, skip, error) : name \in {"set", "delete"}, path \in {"x", "z"},
          template \in BOOLEAN, skip \in BOOLEAN, error \in BOOLEAN}
JsonTables ==
    Generated("json", <<<<[x |-> <<98>>, y |-> <<120>>], Null, Null>>, <<[x |-> Broken], Null, Null>>, <<Null, Null, Null>>>>,
        {Element("Json", [column |-> "a", keepNull |-> TRUE, operations |-> <<op>>]) : op \in Ops}
        \cup {Element("Json", [column |-> "a", keepNull |-> TRUE,
                               operations |-> <<Op("delete", "x", FALSE, FALSE, FALSE), op>>]) : op \in Ops}
        \cup {Element("Json", [column |-> "a", keepNull |-> TRUE,
                               operations |-> <<Op("move", "x", FALSE, FALSE, FALSE)>>])})

-----------------------------------------------------------------------------
(* Several columns *)

Col(name, template, keep, hashing) ==
    [name |-> name, template |-> template, keepNull |-> keep, hashing |-> hashing]
NameLines == <<<<<<97>>, Null, "m">>, <<Null, <<98>>, Null>>, <<<<97>>, Null, "f">>,
               <<<<98>>, <<98>>, Null>>, <<Null, <<98>>, Null>>>>

ColumnSets ==
    {<<Col("a", "name", Unset, hashing), Col("b", "other", keep, FALSE)>> :
       hashing \in BOOLEAN, keep \in BOOLEAN}
    \cup {<<Col("d", "name", Unset, FALSE)>>, <<Col("a", "broken", Unset, FALSE)>>}

Attributes == <<<<"name", <<<<65>>, <<66>>>>>>, <<"other", <<<<67>>, <<68>>>>>>>>
People == [Male |-> Attributes, Female |-> <<<<"name", <<<<69>>>>>>, <<"other", <<<<70>>>>>>>>]

CompanyElements ==
    {Element("RandomCompany", [columns |-> cols, engine |-> engine, filled |-> 0, db |-> Attributes]) :
       cols \in ColumnSets, engine \in {"random", "hash"}}
PersonElements ==
    {Element("RandomPerson", [columns |-> cols, engine |-> "hash", filled |-> 0, db |-> People,
                              gender |-> gender, mapping |-> [m |-> "Male", f |-> "Female"],
                              fallback |-> "Any", order |-> order, cached |-> Unset]) :
       cols \in ColumnSets, order \in {<<"Male", "Female">>, <<"Female", "Male">>},
       gender \in {Fixed("Any"), Fixed("Male"), Fixed("None"), From("c", "f"), From("c", Unset)}}
AddressElements ==
    {Element("RealAddress", [columns |-> <<Col("a", template, ka, FALSE), Col("b", "address", kb, FALSE)>>]) :
       template \in {"address", "broken"}, ka \in BOOLEAN, kb \in BOOLEAN}
RecordElements ==
    {Element("TemplateRecord", [names |-> names, columns |-> <<Col("a", "", TRUE, FALSE)>>, sets |-> sets]) :
       names \in {{"a"}, {"d"}}, sets \in {<<<<"a", <<98>>>>, <<"b", Null>>>>, <<<<"d", <<98>>>>>>,
                                           <<<<"a", Fail>>>>}}
CompanyTables == Generated("name", NameLines, CompanyElements)
PersonTables == Generated("name", NameLines, PersonElements)
AddressTables == Generated("name", SubSeq(NameLines, 1, 2), AddressElements)
RecordTables == Generated("name", NameLines, RecordElements)

-----------------------------------------------------------------------------
(* Parameters that are not valid, and casts *)

Defs == [column |-> ColumnDef, min |-> LimitDef,
         max |-> [LimitDef EXCEPT !.default = 20, !.allowed = {20, 6, 30}],
         engine |-> [Def EXCEPT !.types = {}]]
CastTypesOf == [Typed("int") EXCEPT !["b"].type = "timestamp", !["c"].type = "posint"]
CastLines == <<<<5, At0(2, 4), 3>>, <<4, Null, 2>>>>

Raw(static, dynamic) == [defs |-> [n \in {"column", "min", "max"} |-> Defs[n]],
                         static |-> static, dynamic |-> dynamic]
DynamicOf(column, cast, default) == [column |-> column, cast |-> cast, default |-> default]
Raws ==
    {Raw([column |-> "a"], <<>>), Raw(<<>>, <<>>), Raw([column |-> "d"], <<>>),
     Raw([column |-> "a", min |-> 2, max |-> 6], <<>>), Raw([column |-> "a", max |-> 7], <<>>),
     Raw([column |-> "a", other |-> 2], <<>>), Raw([column |-> "a", max |-> Broken], <<>>),
     Raw([column |-> "a", min |-> 2], [min |-> DynamicOf("c", <<>>, Unset)]),
     Raw([max |-> 6], [column |-> DynamicOf("c", <<>>, Unset)])}
    \cup {Raw([column |-> "a"], [min |-> DynamicOf("c", <<"template">>, default)]) : default \in {Unset, 1}}
    \cup {Raw([column |-> "a"], [min |-> DynamicOf(column, cast, default)]) :
            column \in {"b", "c", "d", Unset}, default \in {Unset, 1},
            cast \in {<<>>, <<"broken">>, <<"unknown">>, <<"floatToInt">>,
                      <<"timeToUnix", "sec", "timestamp">>, <<"unixToTime", "sec", "timestamp">>}}
ParameterTables ==
    {[Table("number", CastTypesOf, CastLines, <<[Element("RandomInt", Number) EXCEPT !.raw = raw]>>)
        EXCEPT !.family = "cast"] : raw \in Raws}

MCTables ==
    TextTables \o
    <<NumberTables, TimeTables, IpTables, MacTables, UuidTables,
      FakerTables, BoolTables, JsonTables, CompanyTables, PersonTables, AddressTables,
      RecordTables, ParameterTables>>

\* The operators that stand for libraries make texts of texts.
ASSUME TextOperators(UNION {[1 .. n -> {0, 33, 97, 120, 255}] : n \in 0 .. 3}, 70)
=============================================================================
