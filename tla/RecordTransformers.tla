------------------------- MODULE RecordTransformers -------------------------
(***************************************************************************)
(* The transformers of several columns.  A transformer has columns, a      *)
(* sequence of records name, template, keepNull, hashing; for a company    *)
(* and a person also engine, filled (the length of the buffer that is      *)
(* hashed) and db; for a person the parameter gender, and mapping,         *)
(* fallback, order (the genders as a map gave them) and cached (the        *)
(* default of gender once it was scanned).                                 *)
(*                                                                         *)
(* Code: internal/db/postgres/transformers/.                               *)
(***************************************************************************)
EXTENDS TextTransformers

CONSTANTS
    Seed(_),            \* the seed the hash engine makes of the bytes
    Fill(_, _),         \* what a template makes of the attributes
    Position            \* the position of each column in its table

EngineSeed(t, bytes, draw) == IF t.engine = "hash" THEN Seed(bytes) ELSE draw

-----------------------------------------------------------------------------
(* Company and person *)

\* validateColumnsAndSetDefault, validateCompanyColumnsAndSetDefault: NULL is
\* kept by default, and without a column marked for it all are hashed.
NewColumns(t, row) ==
    LET hashing == \E i \in DOMAIN t.columns : t.columns[i].hashing IN
    IF \E i \in DOMAIN t.columns :
          t.columns[i].name \notin DOMAIN row \/ t.columns[i].template \in {Unset, "broken"}
    THEN Fail
    ELSE [t EXCEPT !.columns =
            [i \in DOMAIN t.columns |->
               [t.columns[i] EXCEPT
                  !.keepNull = IF @ = Unset THEN TRUE ELSE @,
                  !.hashing = @ \/ (~hashing /\ t.engine = "hash")]]]

\* The columns that are affected are numbered as they are in the list, and
\* not as they are in the table.
Affected(t) == {i - 1 : i \in DOMAIN t.columns}
AffectedPositions(t) == {Position[t.columns[i].name] : i \in DOMAIN t.columns}

\* The values of the columns to hash, one after the other
Hashed(t, row) ==
    LET joined[i \in 0 .. Len(t.columns)] ==
          IF i = 0 THEN <<>>
          ELSE joined[i - 1] \o
               (IF t.columns[i].hashing THEN Data(row[t.columns[i].name]) ELSE <<>>)
    IN  joined[Len(t.columns)]

\* A mutant: keep_null is not asked.
FillColumns_All(t, row, keeps, attributes) ==
    [c \in DOMAIN row |->
        LET of == {i \in DOMAIN t.columns : t.columns[i].name = c}
        IN  IF of = {} THEN row[c]
            ELSE Fill(t.columns[CHOOSE i \in of : TRUE].template, attributes)]

\* Each column gets its template, but NULL where it keeps NULL and where the
\* transformer knows that it is NULL.
FillColumns(t, row, keeps, attributes) ==
    [c \in DOMAIN row |->
        LET of == {i \in DOMAIN t.columns : t.columns[i].name = c}
            i  == CHOOSE j \in of : TRUE
        IN  IF of = {} THEN row[c]
            ELSE IF keeps /\ row[c] = Null /\ t.columns[i].keepNull THEN row[c]
            ELSE Fill(t.columns[i].template, attributes)]

\* RandomCompanyTransformer.Transform: what is hashed comes after the bytes
\* that are already in the buffer, all cleared; with the random engine the
\* transformer does not look for NULL.
Company(t, row, draw) ==
    LET bytes == [i \in 1 .. t.filled |-> 0] \o Hashed(t, row)
    IN  FillColumns(t, row, t.engine = "hash", CompanyName(t.db, EngineSeed(t, bytes, draw)))

\* clear keeps the length of the buffer, and append adds to it.
CompanyAfter(t, row) ==
    IF t.engine = "hash" THEN [t EXCEPT !.filled = @ + Len(Hashed(t, row))] ELSE t

Genders == {"Male", "Female", "Any"}

NewPerson(t, row) ==
    IF \/ NewColumns(t, row) = Fail
       \/ ~t.gender.dynamic /\ t.gender.value \notin Genders \cup {""}
       \/ \E k \in DOMAIN t.mapping : t.mapping[k] \notin Genders
       \/ t.fallback \notin Genders
    THEN Fail ELSE NewColumns(t, row)

\* The gender that is scanned: a default that was scanned before is read
\* where it was put, and there the gender of the mapping is by now.
ScannedGender(t, row) ==
    IF row[t.gender.column] = Null /\ t.cached # Unset THEN t.cached
    ELSE Scan(t.gender, row, "Any")

MappedGender(t, row) ==
    IF ~t.gender.dynamic THEN t.gender.value
    ELSE LET g == ScannedGender(t, row)
         IN  IF g \in DOMAIN t.mapping THEN t.mapping[g] ELSE t.fallback

\* RandomNameTransformer.Transform
Person(t, row, draw) ==
    IF t.gender.dynamic /\ ScannedGender(t, row) = Fail THEN Fail
    ELSE FillColumns(t, row, TRUE,
                     FullName(t.db, t.order, MappedGender(t, row), "Any",
                              EngineSeed(t, Hashed(t, row), draw)))

\* The variable gender of the first row with NULL is the cached default.
PersonAfter(t, row) ==
    IF /\ t.gender.dynamic /\ row[t.gender.column] = Null
       /\ t.cached = Unset /\ t.gender.value # Unset
    THEN [t EXCEPT !.cached = MappedGender(t, row)] ELSE t

-----------------------------------------------------------------------------
(* Address *)

NewAddress(t, row) ==
    IF \E i \in DOMAIN t.columns :
          t.columns[i].name \notin DOMAIN row \/ t.columns[i].template \in {Unset, "broken"}
    THEN Fail ELSE t

\* RealAddressTransformer.Transform: the first NULL that is kept ends the
\* row, and the columns after it keep their values.
Address(t, row, draw) ==
    LET kept == {i \in DOMAIN t.columns :
                   row[t.columns[i].name] = Null /\ t.columns[i].keepNull}
        end  == IF kept = {} THEN Len(t.columns)
                ELSE (CHOOSE i \in kept : \A j \in kept : i <= j) - 1
    IN  FillColumns([t EXCEPT !.columns = SubSeq(@, 1, end)], row, FALSE,
                    [address |-> <<draw>>])

-----------------------------------------------------------------------------
(* TemplateRecord: sets is what its template sets, a sequence of pairs of  *)
(* a column and a value or Fail, whatever columns says.                    *)

\* An unknown column in columns ends the program, and not with a warning.
NewTemplateRecord(t, row) ==
    IF \E c \in t.names : c \notin DOMAIN row THEN Fail ELSE t

TemplateRecord(t, row) ==
    LET after[i \in 0 .. Len(t.sets)] ==
          IF i = 0 THEN row
          ELSE IF after[i - 1] = Fail \/ t.sets[i][1] \notin DOMAIN row \/ t.sets[i][2] = Fail
               THEN Fail
          ELSE [after[i - 1] EXCEPT ![t.sets[i][1]] = t.sets[i][2]]
    IN  after[Len(t.sets)]

-----------------------------------------------------------------------------

RecordKinds == {"RandomCompany", "RandomPerson", "RealAddress", "TemplateRecord"}

NewOfRecord(kind, t, row) ==
    CASE kind = "RandomCompany" -> NewColumns(t, row)
      [] kind = "RandomPerson" -> NewPerson(t, row)
      [] kind = "RealAddress" -> NewAddress(t, row)
      [] kind = "TemplateRecord" -> NewTemplateRecord(t, row)

TransformRecord(kind, t, row, draw) ==
    CASE kind = "RandomCompany" -> Company(t, row, draw)
      [] kind = "RandomPerson" -> Person(t, row, draw)
      [] kind = "RealAddress" -> Address(t, row, draw)
      [] kind = "TemplateRecord" -> TemplateRecord(t, row)

\* What a transformer remembers after a row.
RecordAfter(kind, t, row) ==
    CASE kind = "RandomCompany" -> CompanyAfter(t, row)
      [] kind = "RandomPerson" -> PersonAfter(t, row)
      [] OTHER -> t
=============================================================================
