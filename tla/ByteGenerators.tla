--------------------------- MODULE ByteGenerators ---------------------------
(***************************************************************************)
(* The generators that make texts, addresses and choices of a seed.  A     *)
(* text is a sequence of bytes.  What an engine gives for a seed is        *)
(* Stream(seed, n), n bytes, and Word(seed, i), its i-th integer of 4      *)
(* bytes; the hash engine makes the seed of the salt and the original      *)
(* value, the random engine takes the next one.                            *)
(*                                                                         *)
(* Code: internal/generators/ and internal/generators/transformers/.       *)
(***************************************************************************)
EXTENDS Integers, Sequences, FiniteSets

CONSTANTS
    Stream(_, _),   \* the first n bytes an engine makes of a seed
    Word(_, _),     \* its integers of 4 bytes
    Digest(_),      \* a hash in hexadecimal
    MaxHash,        \* 64 bytes, the longest hash
    LengthBytes,    \* 4 bytes give the length of a text
    ByteSymbols     \* 256, the symbols one byte tells apart

\* The shortest hash has 28 bytes: behind the length some are left.
ASSUME ByteAssumption ==
    /\ MaxHash \in Nat \ {0}
    /\ LengthBytes \in 0 .. 26
    /\ ByteSymbols \in Nat \ {0}

\* GetHashFunctionNameBySize: the shortest hash that is long enough, or 0
HashSize(n) ==
    LET enough == {s \in {28, 32, 48, 64} : n <= s}
    IN  IF enough = {} THEN 0 ELSE CHOOSE s \in enough : \A o \in enough : s <= o

-----------------------------------------------------------------------------
(* Texts *)

BytesPerChar(chars) == IF Len(chars) > ByteSymbols THEN 2 ELSE 1

\* NewRandomStringTransformer: the bytes it asks the engine for, 0 for an error
StringBytes(chars, min, max) ==
    IF min > max THEN 0 ELSE HashSize((max + BytesPerChar(chars)) % MaxHash)

StringLength(min, max, word) == min + (word % (max - min + 1))

\* RandomStringTransformer.Transform.  Positions advance by the bytes of a
\* character and are multiplied by them once more: with two bytes they leave
\* the bytes there are, which ends the program, here {}.  Every time the
\* positions start again, the characters are shifted by one.
RandomString(chars, min, max, seed) ==
    LET req   == BytesPerChar(chars)
        n     == StringBytes(chars, min, max)
        bytes == SubSeq(Stream(seed, n), LengthBytes + 1, n)
        cycle == (Len(bytes) - 1 + req - 1) \div req
        len   == StringLength(min, max, Word(seed, 1))
        At(i) == (i % cycle) * req * req
        Value(i) == IF req = 1 THEN bytes[At(i) + 1]
                    ELSE bytes[At(i) + 1] + ByteSymbols * bytes[At(i) + 2]
    IN  IF \E i \in 0 .. len - 1 : At(i) + req > Len(bytes) THEN {}
        ELSE {[i \in 1 .. len |->
                 chars[1 + ((Value(i - 1) + (i - 1) \div cycle) % Len(chars))]]}

\* RandomChoiceTransformer.Transform and the other choices from a list
Choice(values, seed) == values[1 + (Word(seed, 1) % Len(values))]

\* RandomBoolean.Transform
Boolean(seed) == Stream(seed, 1)[1] % 2 = 0

-----------------------------------------------------------------------------
(* Addresses *)

\* A mutant: the address of the network is not left out.
Host_FromZero(total, word) == word % (total - 2)

Host(total, word) == 1 + (word % (total - 2))

\* IpAddress.Generate in a subnet [base, bits], bits those of the host, or {}
\* for a subnet that is too small
RandomIp(subnet, seed) ==
    LET total == 2 ^ subnet.bits
    IN  IF total <= 2 THEN {} ELSE {subnet.base + Host(total, Word(seed, 1))}

SetBit(byte, bit, on) ==
    LET is == (byte \div bit) % 2
    IN  byte + (IF on THEN (1 - is) * bit ELSE -(is * bit))

\* ModifyMacAddress: the vendor is the first three bytes.
ModifyMac(new, original, keepVendor, castType, managementType) ==
    LET m == IF managementType = "any" THEN new[1]
             ELSE SetBit(new[1], 2, managementType = "local")
        c == IF castType = "any" THEN m ELSE SetBit(m, 1, castType = "group")
    IN  [i \in 1 .. Len(new) |->
           IF keepVendor /\ i <= 3 THEN original[i] ELSE IF i = 1 THEN c ELSE new[i]]

-----------------------------------------------------------------------------
(* Names *)

\* GetCompanyName: one integer for each attribute, db a sequence of pairs of
\* an attribute and its values
CompanyName(db, seed) ==
    [a \in {db[i][1] : i \in DOMAIN db} |->
        LET i == CHOOSE j \in DOMAIN db : db[j][1] = a
        IN  db[i][2][1 + (Word(seed, i) % Len(db[i][2]))]]

\* getGender: genders is the order in which a map gave its keys.
Gender(genders, gender, default, seed) ==
    LET g == IF gender = "" THEN default ELSE gender
    IN  IF g = "Any" THEN genders[1 + (Stream(seed, 1)[1] % Len(genders))] ELSE g

\* GetFullName: db gives the attributes of a gender
FullName(db, genders, gender, default, seed) ==
    CompanyName(db[Gender(genders, gender, default, seed)], seed)
=============================================================================
