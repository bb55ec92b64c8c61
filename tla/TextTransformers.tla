-------------------------- MODULE TextTransformers --------------------------
(***************************************************************************)
(* The transformers of one column that is not a number or a time.  A       *)
(* transformer is a record with column, keepNull and what its operators    *)
(* read of it; a row is a function from columns to values, a value of a    *)
(* text a sequence of bytes.  A transformer's operator gives the row or    *)
(* Fail.  A column set to Unset has its original value again.              *)
(*                                                                         *)
(* Code: internal/db/postgres/transformers/.                               *)
(***************************************************************************)
EXTENDS Parameters, ByteGenerators

CONSTANTS
    Decodable(_),    \* whether the type of the column accepts a value
    Substitute(_),   \* what a regular expression makes of a text
    Masked(_)        \* what a masking function of the library makes of it

\* The text that stands for NULL, the at sign and the point
NullText == <<92, 78>>
At == 64
Point == 46
Star == 42

TextOrNull(v) == IF v = NullText THEN Null ELSE v

\* The bytes of a value, none for NULL
Data(v) == IF v = Null THEN <<>> ELSE v

-----------------------------------------------------------------------------
(* Dict, RandomChoice, Replace, SetNull: values of the configuration *)

Refused(t, values) == t.validate /\ \E v \in values \ {Null, Unset} : ~Decodable(v)

NewDict(t) ==
    IF Refused(t, DOMAIN t.values \cup {t.values[k] : k \in DOMAIN t.values} \cup {t.default})
    THEN Fail ELSE t

\* Dict without a match, a default or fail_not_matched sets nil: whatever an
\* earlier transformer put there, the original value is back.
Dict(t, row) ==
    LET key == row[t.column] IN
    IF key \in DOMAIN t.values THEN Set(t, row, t.values[key])
    ELSE IF t.default # Unset THEN Set(t, row, t.default)
    ELSE IF t.failNotMatched THEN Fail
    ELSE Set(t, row, Unset)

NewRandomChoice(t) ==
    IF t.validate /\ \E i, j \in DOMAIN t.values : i # j /\ t.values[i] = t.values[j] THEN Fail
    ELSE IF Refused(t, {t.values[i] : i \in DOMAIN t.values}) THEN Fail ELSE t

RandomChoice(t, row, seed) ==
    IF Kept(t, row) THEN row ELSE Set(t, row, Choice(t.values, seed))

NewReplace(t) == IF ~t.value.dynamic /\ Refused(t, {t.value.value}) THEN Fail ELSE t

\* getValueToReplace: a dynamic value is taken as it is in its column.
Replace(t, row) ==
    LET v == IF IsEmpty(t.value, row) THEN Null ELSE RawValue(t.value, row) IN
    IF Kept(t, row) THEN row
    ELSE IF t.value.dynamic /\ (v = Fail \/ Refused(t, {v})) THEN Fail
    ELSE Set(t, row, v)

SetNull(t, row) == Set(t, row, Null)

-----------------------------------------------------------------------------
(* Hash, Masking, RegexpReplace, Template: a function of the text *)

Hash(t, row) ==
    LET d == Digest(t.salt \o Data(row[t.column])) IN
    IF row[t.column] = Null THEN row
    ELSE Set(t, row, IF t.maxLength > 0 /\ Len(d) > t.maxLength
                     THEN SubSeq(d, 1, t.maxLength) ELSE d)

\* defaultMasker, postcodeMasker, or a function of the library
Mask(type, v) ==
    CASE type = "default" -> [i \in 1 .. Len(v) |-> Star]
      [] type = "postcode" -> [i \in 1 .. Len(v) |-> IF i <= 2 THEN v[i] ELSE Star]
      [] OTHER -> Masked(v)

Masking(t, row) ==
    IF row[t.column] = Null THEN row ELSE Set(t, row, Mask(t.type, row[t.column]))

RegexpReplace(t, row) ==
    IF row[t.column] = Null THEN row ELSE Set(t, row, Substitute(row[t.column]))

TemplateValue(t, row) ==
    LET v == Template(row[t.column])
    IN  IF v = Fail THEN Fail ELSE Set(t, row, TextOrNull(v))

-----------------------------------------------------------------------------
(* Email *)

IsEmail(v) ==
    \E i \in 2 .. Len(v) - 3 :
      /\ v[i] = At
      /\ \A j \in (1 .. Len(v)) \ {i} : v[j] # At
      /\ \E k \in i + 2 .. Len(v) - 1 : v[k] = Point

LocalPart(v) == SubSeq(v, 1, (CHOOSE i \in DOMAIN v : v[i] = At) - 1)
Domain(v) == SubSeq(v, (CHOOSE i \in DOMAIN v : v[i] = At) + 1, Len(v))

\* The templates are Unset, "random" or "original", for the part they use.
NewEmail(t) ==
    IF t.maxRandomLength < 1 \/ (t.engine = "hash" /\ HashSize(t.maxRandomLength) = 0)
    THEN Fail ELSE t

NeedsOriginal(t) == t.keepDomain \/ "original" \in {t.localTemplate, t.domainTemplate}

\* generateEmail: a template replaces a part, the original domain comes next,
\* and then the lists of domains
Email(t, row, seed) ==
    LET original == Data(row[t.column])
        random   == Digest(Stream(seed, t.maxRandomLength))
        local    == IF t.localTemplate = "original" THEN LocalPart(original) \o random ELSE random
        domain   == IF t.domainTemplate = "original" THEN Domain(original)
                    ELSE IF t.domainTemplate = "random" THEN random
                    ELSE IF t.keepDomain THEN Domain(original)
                    ELSE Choice(IF t.domains # <<>> THEN t.domains ELSE t.providers, seed)
    IN  IF Kept(t, row) THEN row
        ELSE IF NeedsOriginal(t) /\ ~IsEmail(original) THEN Fail
        ELSE IF t.validate /\ ~IsEmail(local \o <<At>> \o domain) THEN Fail
        ELSE Set(t, row, local \o <<At>> \o domain)

-----------------------------------------------------------------------------
(* Generated values *)

NewRandomString(t) == IF StringBytes(t.symbols, t.min, t.max) = 0 THEN Fail ELSE t

RandomText(t, row, seed) ==
    LET texts == RandomString(t.symbols, t.min, t.max, seed) IN
    IF Kept(t, row) THEN row
    ELSE IF texts = {} THEN Fail ELSE Set(t, row, CHOOSE x \in texts : TRUE)

RandomBool(t, row, seed) == IF Kept(t, row) THEN row ELSE Set(t, row, Boolean(seed))

\* RandomUuid takes 16 bytes; a faker has no engine and any seed.
RandomUuid(t, row, seed) == IF Kept(t, row) THEN row ELSE Set(t, row, Stream(seed, 16))
Faker(t, row, seed) == IF Kept(t, row) THEN row ELSE Set(t, row, Digest(<<seed>>))

\* There is no keep_null: NULL gets an address too.
Ip(t, row, seed) ==
    LET subnet == IF t.subnet.dynamic THEN Scan(t.subnet, row, Unset) ELSE t.subnet.value IN
    IF subnet = Fail THEN Fail
    ELSE IF RandomIp(subnet, seed) = {} THEN Fail
    ELSE Set(t, row, CHOOSE a \in RandomIp(subnet, seed) : TRUE)

\* NULL has no vendor to keep, and ends the program where it should.
Mac(t, row, seed) ==
    IF row[t.column] = Null /\ t.keepVendor THEN Fail
    ELSE Set(t, row, ModifyMac(Stream(seed, 6), row[t.column],
                               t.keepVendor, t.castType, t.managementType))

-----------------------------------------------------------------------------
(* Json: a document is a function from paths to values. *)

\* Operation.Apply: a set without a template does not look at error_not_exist.
JsonOp(op, doc) ==
    LET exists == op.path \in DOMAIN doc
        old    == IF exists THEN doc[op.path] ELSE Null
        new    == IF op.template THEN Template(old) ELSE op.value
    IN  IF op.name \notin {"set", "delete"} THEN Fail
        ELSE IF op.skip /\ ~exists THEN doc
        ELSE IF op.error /\ ~exists /\ (op.name = "delete" \/ op.template) THEN Fail
        ELSE IF op.name = "delete" THEN [p \in DOMAIN doc \ {op.path} |-> doc[p]]
        ELSE IF new = Fail THEN Fail
        ELSE [p \in DOMAIN doc \cup {op.path} |-> IF p = op.path THEN new ELSE doc[p]]

\* The operations in order, the first error ends them; NULL is a document
\* without paths.
Json(t, row) ==
    LET after[i \in 0 .. Len(t.operations)] ==
          IF i = 0 THEN Data(row[t.column])
          ELSE IF after[i - 1] = Fail THEN Fail ELSE JsonOp(t.operations[i], after[i - 1])
        doc == after[Len(t.operations)]
    IN  IF Kept(t, row) THEN row ELSE IF doc = Fail THEN Fail ELSE Set(t, row, doc)

-----------------------------------------------------------------------------
(* All of them *)

TextKinds == {"Dict", "RandomChoice", "Replace", "SetNull", "Hash", "Masking",
              "RegexpReplace", "Template", "Email", "RandomString", "RandomBool",
              "RandomUuid", "Faker", "RandomIp", "RandomMac", "Json"}

\* What a constructor makes of its parameters: Fail or the transformer
NewText(kind, t) ==
    CASE kind = "Dict" -> NewDict(t)
      [] kind = "RandomChoice" -> NewRandomChoice(t)
      [] kind = "Replace" -> NewReplace(t)
      [] kind = "Email" -> NewEmail(t)
      [] kind = "RandomString" -> NewRandomString(t)
      [] OTHER -> t

TransformText(kind, t, row, seed) ==
    CASE kind = "Dict" -> Dict(t, row)
      [] kind = "RandomChoice" -> RandomChoice(t, row, seed)
      [] kind = "Replace" -> Replace(t, row)
      [] kind = "SetNull" -> SetNull(t, row)
      [] kind = "Hash" -> Hash(t, row)
      [] kind = "Masking" -> Masking(t, row)
      [] kind = "RegexpReplace" -> RegexpReplace(t, row)
      [] kind = "Template" -> TemplateValue(t, row)
      [] kind = "Email" -> Email(t, row, seed)
      [] kind = "RandomString" -> RandomText(t, row, seed)
      [] kind = "RandomBool" -> RandomBool(t, row, seed)
      [] kind = "RandomUuid" -> RandomUuid(t, row, seed)
      [] kind = "Faker" -> Faker(t, row, seed)
      [] kind = "RandomIp" -> Ip(t, row, seed)
      [] kind = "RandomMac" -> Mac(t, row, seed)
      [] kind = "Json" -> Json(t, row)

-----------------------------------------------------------------------------
(* A raw value that a row shares with its transformer.  RegexpReplace      *)
(* writes into the raw value it finds, and so into the transformer that    *)
(* set it: a place is where, {} when the value is the row's own.           *)

SharedPlace(kind, t, row, seed) ==
    CASE kind = "Dict" ->
           IF row[t.column] \in DOMAIN t.values THEN {<<"values", row[t.column]>>}
           ELSE IF t.default # Unset THEN {<<"default">>} ELSE {}
      [] kind = "RandomChoice" ->
           IF Kept(t, row) THEN {}
           ELSE {<<"values", 1 + (Word(seed, 1) % Len(t.values))>>}
      [] kind = "Replace" -> IF Kept(t, row) \/ t.value.dynamic THEN {} ELSE {<<"value">>}
      [] OTHER -> {}

Overwrite(t, place, v) ==
    CASE place = <<"default">> -> [t EXCEPT !.default = v]
      [] place = <<"value">> -> [t EXCEPT !.value.value = v]
      [] OTHER -> [t EXCEPT !.values[place[2]] = v]
=============================================================================
