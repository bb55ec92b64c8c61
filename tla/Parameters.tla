----------------------------- MODULE Parameters -----------------------------
(***************************************************************************)
(* The parameters of a transformer: how the values of the configuration    *)
(* become parameters, what is refused on the way, and what a parameter is  *)
(* worth while a row is transformed.                                       *)
(*                                                                         *)
(* A definition is a record                                                *)
(*   required, isColumn, linked, dynamic   flags                           *)
(*   types      the types a column or a dynamic column may have, {}: any   *)
(*   default, env   values or Unset                                        *)
(*   allowed    the values allowed, {}: any                                *)
(* A dynamic value is a record column, cast, default: the cast is <<>>,    *)
(* <<"template">>, <<"broken">> for one that does not parse, or names a    *)
(* cast function.  A column is a record type, notNull, length.             *)
(*                                                                         *)
(* Code: pkg/toolkit/ and transformers/utils/.                             *)
(***************************************************************************)
EXTENDS Generators

CONSTANTS
    Null, Unset, Fail,   \* NULL in a row, nil in the program, an error
    Chain(_),            \* the names of the base types of a domain
    Template(_),         \* what the template of a dynamic value makes of one
    Render(_),           \* a static value with its template and environment
    Milli, Micro         \* milliseconds and microseconds in a second

ASSUME UnitAssumption ==
    /\ Milli \in Nat \ {0} /\ Nano % Milli = 0
    /\ Micro \in Nat \ {0} /\ Nano % Micro = 0

Warnings == {"required", "unknown", "both", "interpolation", "noColumn",
             "type", "value", "noDynamicMode", "emptyColumn", "dynamicColumn",
             "template", "castUnlinked", "castUnknown", "castTypes"}

TypeAllowed(types, type) == type \in types \/ Chain(type) \cap types # {}

-----------------------------------------------------------------------------
(* Cast functions: "unixToTime" and "timeToUnix" with a unit and the type  *)
(* of the time, "floatToInt" and "intToFloat"                              *)

Numbers == {"int", "float"}
Times == {"date", "timestamp", "timestamptz"}
PerSecond == [sec |-> 1, milli |-> Milli, micro |-> Micro, nano |-> Nano]

CastNames ==
    ({"unixToTime", "timeToUnix"} \X (DOMAIN PerSecond) \X Times)
    \cup {<<"floatToInt">>, <<"intToFloat">>}

\* CastFunctionsMap: the types of the input and of the output.  The entry of
\* TimestampTzToUnixNano names date.
CastTypes(name) ==
    CASE name[1] = "unixToTime" -> <<Numbers, {name[3]}>>
      [] name[1] = "timeToUnix" ->
           <<IF name[2] = "nano" /\ name[3] = "timestamptz" THEN {"date"} ELSE {name[3]}, Numbers>>
      [] name[1] = "floatToInt" -> <<{"float"}, {"int"}>>
      [] name[1] = "intToFloat" -> <<{"int"}, {"float"}>>

\* unixLikeToTimeLikeFuncMaker: of nanoseconds the seconds are subtracted as
\* if they were nanoseconds.
UnixToTime(unit, v) ==
    LET per == PerSecond[unit] IN
    IF unit = "nano" THEN FromNanos(Quo(v, Nano) * Nano + (v - Quo(v, Nano)))
    ELSE [sec |-> v \div per, nano |-> (v % per) * (Nano \div per)]

\* timeLikeToUnixLikeFuncMaker
TimeToUnix(unit, t) ==
    LET per == PerSecond[unit] IN t.sec * per + (t.nano \div (Nano \div per))

\* The encoding of a date keeps the day; a float is an integer in 1 / Unit.
CastTo(name, v) ==
    CASE name[1] = "unixToTime" ->
           Truncate(IF name[3] = "date" THEN "larger" ELSE "none", UnixToTime(name[2], v))
      [] name[1] = "timeToUnix" -> TimeToUnix(name[2], v)
      [] name[1] = "floatToInt" -> ToInt64(Quo(v, Unit))
      [] name[1] = "intToFloat" -> v * Unit

-----------------------------------------------------------------------------
(* Initialization *)

\* StaticParameter.Init: the raw value.  The default replaces the value of
\* the environment, and only a value of the configuration stops it.
StaticRaw(def, v) ==
    IF v # Unset THEN Render(v)
    ELSE IF ~def.required /\ def.default # Unset THEN def.default ELSE def.env

\* StaticParameter.Init: the warnings, each of which ends it
StaticWarnings(def, v, columns) ==
    IF v # Unset /\ Render(v) = Fail THEN {"interpolation"}
    ELSE IF v = Unset /\ def.required THEN {"required"}
    ELSE IF def.isColumn /\ v \notin DOMAIN columns THEN {"noColumn"}
    ELSE IF /\ def.isColumn /\ def.types # {}
            /\ ~TypeAllowed(def.types, columns[v].type) THEN {"type"}
    ELSE IF def.allowed # {} /\ StaticRaw(def, v) \notin def.allowed THEN {"value"}
    ELSE {}

\* DynamicParameter.Init; linkType is the type of the linked column, or Unset
DynamicWarnings(def, dyn, columns, linkType) ==
    IF ~def.dynamic THEN {"noDynamicMode"}
    ELSE IF dyn.column = Unset THEN {"emptyColumn"}
    ELSE IF dyn.cast = <<"broken">> THEN {"template"}
    ELSE IF def.isColumn THEN {"dynamicColumn"}
    ELSE IF dyn.column \notin DOMAIN columns THEN {"noColumn"}
    ELSE LET type == columns[dyn.column].type IN
         IF dyn.cast \in CastNames \cup {<<"unknown">>} /\ ~def.linked THEN {"castUnlinked"}
    ELSE IF dyn.cast = <<"unknown">> THEN {"castUnknown"}
    ELSE IF /\ dyn.cast \in CastNames
            /\ type \notin CastTypes(dyn.cast)[1] \/ linkType \notin CastTypes(dyn.cast)[2]
         THEN {"castTypes"}
    ELSE IF /\ def.linked /\ dyn.cast = <<>> /\ linkType # type
            /\ ~TypeAllowed(def.types, type)
         THEN {"type"}
    ELSE {}

\* A mutant: nothing is said of a parameter that is given twice.
NameWarnings_Twice(defs, static, dynamic) ==
    LET missing == {n \in DOMAIN defs : defs[n].required}
                       \ (DOMAIN static \cup DOMAIN dynamic)
        unknown == (DOMAIN static \cup DOMAIN dynamic) \ DOMAIN defs
    IN  IF missing # {} THEN {"required"} ELSE IF unknown # {} THEN {"unknown"} ELSE {}

\* InitParameters: the names first, then the columns, then the others
NameWarnings(defs, static, dynamic) ==
    LET missing == {n \in DOMAIN defs : defs[n].required}
                       \ (DOMAIN static \cup DOMAIN dynamic)
        unknown == (DOMAIN static \cup DOMAIN dynamic) \ DOMAIN defs
        both    == DOMAIN static \cap DOMAIN dynamic
    IN  IF missing # {} THEN {"required"}
        ELSE (IF unknown # {} THEN {"unknown"} ELSE {})
             \cup (IF both # {} THEN {"both"} ELSE {})

ColumnWarnings(defs, static, dynamic, columns) ==
    UNION {IF n \in DOMAIN static THEN StaticWarnings(defs[n], static[n], columns)
           ELSE IF n \in DOMAIN dynamic THEN {"dynamicColumn"} ELSE {} :
             n \in {m \in DOMAIN defs : defs[m].isColumn}}

OtherWarnings(defs, static, dynamic, columns) ==
    LET links == {static[n] : n \in {m \in DOMAIN defs \cap DOMAIN static : defs[m].isColumn}}
        linkType == IF links = {} THEN Unset ELSE columns[CHOOSE c \in links : TRUE].type
        Value(n) == IF n \in DOMAIN static THEN static[n] ELSE Unset
    IN  UNION {IF n \in DOMAIN dynamic
               THEN DynamicWarnings(defs[n], dynamic[n], columns, linkType)
               ELSE StaticWarnings(defs[n], Value(n), columns) :
                 n \in {m \in DOMAIN defs : ~defs[m].isColumn}}

InitParameters(defs, static, dynamic, columns) ==
    LET names == NameWarnings(defs, static, dynamic)
        cols  == ColumnWarnings(defs, static, dynamic, columns)
    IN  IF names # {} THEN names ELSE IF cols # {} THEN cols
        ELSE OtherWarnings(defs, static, dynamic, columns)

\* The parameter that results: [dynamic, column, cast, value].
StaticParam(def, v) ==
    [dynamic |-> FALSE, column |-> Unset, cast |-> <<>>, value |-> StaticRaw(def, v)]

DynamicParam(def, dyn) ==
    [dynamic |-> TRUE, column |-> dyn.column, cast |-> dyn.cast,
     value |-> IF dyn.default # Unset THEN dyn.default ELSE def.default]

-----------------------------------------------------------------------------
(* While a row is transformed *)

Cast(cast, v) ==
    CASE cast = <<>> -> v [] cast = <<"template">> -> Template(v) [] OTHER -> CastTo(cast, v)

\* IsEmpty of both kinds
IsEmpty(p, row) ==
    p.value = Unset /\ (p.dynamic => row[p.column] = Null)

\* Scan into dest: a static parameter without a value leaves it alone; NULL
\* takes the default, which is not cast.
Scan(p, row, dest) ==
    IF ~p.dynamic THEN IF p.value = Unset THEN dest ELSE p.value
    ELSE IF row[p.column] # Null THEN Cast(p.cast, row[p.column])
    ELSE IF p.value = Unset THEN Fail ELSE p.value

\* RawValue: neither a template nor a cast is applied.
RawValue(p, row) ==
    IF ~p.dynamic THEN p.value
    ELSE IF row[p.column] # Null THEN row[p.column]
    ELSE IF p.value = Unset THEN Fail ELSE p.value

\* The rows a random transformer returns as they are.
Kept(t, row) == row[t.column] = Null /\ t.keepNull

Set(t, row, v) == [row EXCEPT ![t.column] = v]
=============================================================================
