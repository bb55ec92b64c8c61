------------------------------ MODULE RowCodec ------------------------------
(***************************************************************************)
(* The row of a COPY stream: a line of bytes, its columns, the values that *)
(* transformers set, and the line that is written.  A value of a column    *)
(* that is not a text stands for its own representation: the driver, which *)
(* is a library, converts it.                                              *)
(*                                                                         *)
(* Code: internal/db/postgres/pgcopy/ and pkg/toolkit/record.go.           *)
(***************************************************************************)
EXTENDS TextTransformers

Backslash == 92
Delimiter == 9

\* The control characters that have a letter of their own.
Letters == [c \in {8, 9, 10, 11, 12, 13} |->
              CASE c = 8 -> 98 [] c = 9 -> 116 [] c = 10 -> 110
                [] c = 11 -> 118 [] c = 12 -> 102 [] c = 13 -> 114]

-----------------------------------------------------------------------------
(* Attributes *)

\* A mutant: a backslash is written as it is.
EncodeAttr_Plain(v) ==
    LET enc[i \in 1 .. Len(Data(v)) + 1] ==
          IF i > Len(v) THEN <<>>
          ELSE (IF v[i] \in DOMAIN Letters THEN <<Backslash, Letters[v[i]]>> ELSE <<v[i]>>)
               \o enc[i + 1]
    IN  IF v = Null THEN NullText ELSE enc[1]

\* EncodeAttr: after one of the two sequences with a meaning of their own a
\* third byte is passed over; a control character without a letter is
\* written, and then once more after a backslash.
EncodeAttr(v) ==
    LET marks == {NullText, <<Backslash, Point>>}
        enc[i \in 1 .. Len(Data(v)) + 3] ==
          IF i > Len(v) THEN <<>>
          ELSE IF i < Len(v) /\ SubSeq(v, i, i + 1) \in marks
               THEN <<Backslash>> \o SubSeq(v, i, i + 1) \o enc[i + 3]
          ELSE (CASE v[i] \in DOMAIN Letters -> <<Backslash, Letters[v[i]]>>
                  [] v[i] < 32 /\ v[i] \notin DOMAIN Letters -> <<v[i], Backslash, v[i]>>
                  [] v[i] = Backslash -> <<Backslash, Backslash>>
                  [] OTHER -> <<v[i]>>)
               \o enc[i + 1]
    IN  IF v = Null THEN NullText ELSE enc[1]

IsOctal(c) == c \in 48 .. 55
HexValue(c) == CASE c \in 48 .. 57 -> c - 48 [] c \in 97 .. 102 -> c - 87
                 [] c \in 65 .. 70 -> c - 55
IsHex(c) == c \in 48 .. 57 \cup 97 .. 102 \cup 65 .. 70

\* The bytes after a backslash at i that belong to it: up to three octal
\* digits, an x with up to two hexadecimal ones, or one byte.
EscapeLength(raw, i) ==
    LET Run(from, most, is(_)) ==
          CHOOSE n \in 0 .. most :
            /\ \A k \in 0 .. n - 1 : from + k <= Len(raw) /\ is(raw[from + k])
            /\ n = most \/ from + n > Len(raw) \/ ~is(raw[from + n])
    IN  IF IsOctal(raw[i + 1]) THEN Run(i + 1, 3, IsOctal)
        ELSE IF raw[i + 1] = 120 THEN 1 + Run(i + 2, 2, IsHex) ELSE 1

Escaped(raw, i) ==
    LET c == raw[i + 1]
        n == EscapeLength(raw, i)
    IN  IF IsOctal(c)
        THEN (CASE n = 1 -> c - 48
                [] n = 2 -> (c - 48) * 8 + (raw[i + 2] - 48)
                [] n = 3 -> (c - 48) * 64 + (raw[i + 2] - 48) * 8 + (raw[i + 3] - 48)) % 256
        ELSE IF c = 120
        THEN (CASE n = 1 -> 0
                [] n = 2 -> HexValue(raw[i + 2])
                [] n = 3 -> HexValue(raw[i + 2]) * 16 + HexValue(raw[i + 3]))
        ELSE IF \E l \in DOMAIN Letters : Letters[l] = c
        THEN CHOOSE l \in DOMAIN Letters : Letters[l] = c
        ELSE c

\* DecodeAttr; Fail where it ends the program, at a backslash that is last.  Its
\* second panic, at text with an escape in octal digits that is no UTF-8, is left
\* out: COPY TO writes no such escape, and EncodeAttr neither.
DecodeAttr(raw) ==
    LET dec[i \in 1 .. Len(raw) + 1] ==
          IF i > Len(raw) THEN <<>>
          ELSE IF raw[i] = Backslash /\ i = Len(raw) THEN Fail
          ELSE LET n    == IF raw[i] = Backslash THEN EscapeLength(raw, i) + 1 ELSE 1
                   rest == dec[i + n]
               IN  IF rest = Fail THEN Fail
                   ELSE <<IF n > 1 THEN Escaped(raw, i) ELSE raw[i]>> \o rest
    IN  IF raw = NullText THEN Null ELSE dec[1]

-----------------------------------------------------------------------------
(* Rows: raw, the fields of the line, and new, what was set or Unset. *)

Split(line) ==
    LET ends == {i \in 1 .. Len(line) : line[i] = Delimiter} \cup {Len(line) + 1}
        End[k \in 0 .. Cardinality(ends)] ==
          IF k = 0 THEN 0
          ELSE CHOOSE e \in ends : e > End[k - 1] /\ \A o \in ends : o > End[k - 1] => e <= o
    IN  [k \in 1 .. Cardinality(ends) |-> SubSeq(line, End[k - 1] + 1, End[k] - 1)]

Join(fields) ==
    LET joined[k \in 1 .. Len(fields)] ==
          IF k = 1 THEN fields[1] ELSE joined[k - 1] \o <<Delimiter>> \o fields[k]
    IN  joined[Len(fields)]

\* A mutant: every column is decoded and encoded.
Line_Reencoded(row) ==
    Join([i \in DOMAIN row.new |->
            EncodeAttr(IF row.new[i] # Unset THEN row.new[i] ELSE DecodeAttr(row.raw[i]))])

\* Row.Encode: a column that was not set is written as it came.
Line(row) ==
    Join([i \in DOMAIN row.new |->
            IF row.new[i] # Unset THEN EncodeAttr(row.new[i]) ELSE row.raw[i]])

\* A mutant: the columns are cut off.
Cleared_Cut(row) == [row EXCEPT !.new = <<>>]

\* A mutant: what was set is not cleared for the next row.
Cleared_Not(row) == row

Cleared(row) == [row EXCEPT !.new = [i \in DOMAIN @ |-> Unset]]
=============================================================================
