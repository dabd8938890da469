------------------------------- MODULE DVEntry -------------------------------
(* A decoded data record of a telegram and how its value is read.  A value  *)
(* is the sequence of its bytes, lowest byte first, as in the telegram.     *)
(*                                                                          *)
(* A number of the C++ type int that is put together from bits is the set   *)
(* of the positions of its one bits.                                        *)
EXTENDS Integers, Sequences, FiniteSets, FiniteSetsExt

Byte == 0..255
\* The bits that the parser tests: a further dife or vife, the rest of a vif.
HasMore(b) == b >= 128
Low7(b) == b % 128
Nibble(b) == b % 16
High(b) == b \div 16

\* The number of data bytes; -1: the first data byte says; -2: none follow.
difLenBytes(dif) ==
    IF Nibble(dif) = 15 THEN IF dif = \h2F THEN 1 ELSE -2
    ELSE <<0, 1, 2, 3, 4, 4, 6, 8, 0, 1, 2, 3, 4, -1, 6>>[Nibble(dif) + 1]

MeasurementType == {"Instantaneous", "Maximum", "Minimum", "AtError"}
difMeasurementType(dif) ==
    <<"Instantaneous", "Maximum", "Minimum", "AtError">>[(High(dif) % 4) + 1]

BinaryNibbles == {1, 2, 3, 4, 6, 7}
BCDNibbles == {9, 10, 11, 12, 14}

-----------------------------------------------------------------------------
\* Bits of an int of IntWidth bits.
IntWidth == 32
Bits(n, k) == {i \in 0..(k - 1) : (n \div 2^i) % 2 = 1}
IntValue(bits) == MapThenSumSet(LAMBDA i : 2^i, bits)

\* What bits << n may be.  A shift by the width of an int or more is
\* undefined: the processors the program is built for shift by n modulo the
\* width or give zero.
ShiftLeft(bits, n) ==
    LET by(k) == {i + k : i \in bits} \cap (0..(IntWidth - 1))
    IN IF n < IntWidth THEN {by(n)} ELSE {by(n % IntWidth), {}}

\* What a dife contributes: one bit of the subunit, two of the tariff and
\* four of the storage number.
SubunitBits(dife) == Bits((dife \div 64) % 2, 1)
TariffBits(dife) == Bits(High(dife) % 4, 2)
StorageBits(dife) == Bits(Nibble(dife), 4)
StorageLsb(dif) == Bits((dif \div 64) % 2, 1)

-----------------------------------------------------------------------------
(* The combinable vifs.  A VIFCombinable is named by its first code.        *)

CombinableRanges ==
    {\h00..\h11, \h15..\h1C, \h50..\h53, \h54..\h57, \h58..\h5B, \h5C..\h5F,
     \h60..\h63, \h64..\h67, \h70..\h77, \h78..\h7B}
CombinableCodes ==
    (\h12..\h14) \cup (\h1D..\h43) \cup (\h46..\h4B) \cup {\h4D, \h4E}
    \cup (\h68..\h6C) \cup {\h6E, \h6F} \cup (\h7C..\h7F)
    \cup (\h7C01..\h7C0C) \cup (\h7C10..\h7C12) \cup (\h7F00..\h7F08)
    \cup {\h7F21, \h7F72, \h7F77}
None == -1
toVIFCombinable(i) ==
    IF i \in CombinableCodes THEN i
    ELSE IF \E r \in CombinableRanges : i \in r
         THEN Min(CHOOSE r \in CombinableRanges : i \in r)
         ELSE None

InverseCompactProfile == \h13
CompactProfileWithRegister == \h1E
CompactProfile == \h1F
Synthetic == \h7F77

-----------------------------------------------------------------------------
(* A DVEntry.  The key of an entry is the bytes of its difs and vifs and    *)
(* the number nr that tells entries with the same bytes apart.  cleared:    *)
(* a reader has overwritten the sign digit of the BCD value with a zero.    *)

Entry(key, mt, vif, combs, raws, storage, tariff, subunit, offset, value) ==
    [key |-> key, measurement_type |-> mt, vif |-> vif,
     combinable_vifs |-> combs, combinable_vifs_raw |-> raws, storage_nr |-> storage, tariff_nr |-> tariff, subunit_nr |-> subunit,
     offset |-> offset, value |-> value, cleared |-> FALSE]

\* The dif, vif and difes that the key tells (extractDV).
KeyDif(e) == e.key.id[1]
KeyDifes(e) ==
    LET id == e.key.id
    IN {i \in 2..Len(id) : \A j \in 1..(i - 1) : HasMore(id[j])}
KeyVif(e) ==
    LET id == e.key.id
        at == Cardinality(KeyDifes(e)) + 2
    IN IF at > Len(id) THEN 0
       ELSE IF id[at] \in {\hFB, \hFD, \hEF, \hFF} /\ at < Len(id)
            THEN 256 * id[at] + id[at + 1]
            ELSE id[at]
\* Without the high bits that announce further bytes.
VifOfKey(e) == 256 * ((KeyVif(e) \div 256) % 128) + (KeyVif(e) % 128)
StorageOfKey(e) ==
    LET id == e.key.id
    IN StorageLsb(KeyDif(e))
       \cup UNION {{b + 1 + 4 * (i - 2) : b \in StorageBits(id[i])} : i \in KeyDifes(e)}
TariffOfKey(e) ==
    UNION {{b + 2 * (i - 2) : b \in TariffBits(e.key.id[i])} : i \in KeyDifes(e)}
SubunitOfKey(e) ==
    UNION {{b + i - 2 : b \in SubunitBits(e.key.id[i])} : i \in KeyDifes(e)}

-----------------------------------------------------------------------------
(* Reading a number.  A value of the wrong size and a BCD value of F digits *)
(* only are refused.  The sign of a BCD value is an F in its first digit.   *)

SizeFits(e) == Len(e.value) = difLenBytes(Nibble(KeyDif(e)))
AllF(e) == ~e.cleared /\ \A i \in DOMAIN e.value : e.value[i] = \hFF
IsBCD(e) == Nibble(KeyDif(e)) \in BCDNibbles
IsBinary(e) == Nibble(KeyDif(e)) \in BinaryNibbles

Unsigned(v) == MapThenSumSet(LAMBDA i : v[i] * 2^(8 * (i - 1)), DOMAIN v)
Signed(v) ==
    IF v[Len(v)] >= 128 THEN Unsigned(v) - 2^(8 * Len(v)) ELSE Unsigned(v)
\* A digit above 9 counts for what its character is above the character 0.
Digit(d) == IF d > 9 THEN d + 7 ELSE d
\* What the digits say; the first one is read as a zero when it is the sign.
Decimal(v, signed) ==
    LET hi(i) == IF signed /\ i = Len(v) THEN 0 ELSE Digit(High(v[i]))
    IN MapThenSumSet(LAMBDA i : (10 * hi(i) + Digit(Nibble(v[i]))) * 100^(i - 1), DOMAIN v)
HasSign(e) == High(e.value[Len(e.value)]) = 15
BCDNumber(e) ==
    IF HasSign(e) THEN IF e.cleared THEN Decimal(e.value, TRUE) ELSE -Decimal(e.value, TRUE)
    ELSE Decimal(e.value, FALSE)

\* Is the number read, and which one?  extractLong takes a binary value
\* as unsigned, extractDouble as signed unless the field says otherwise.
Extractable(e) ==
    /\ IsBinary(e) \/ IsBCD(e)
    /\ IsBCD(e) => ~AllF(e)
    /\ SizeFits(e)
extractDouble(e, force_unsigned) ==
    IF IsBCD(e) THEN BCDNumber(e)
    ELSE IF force_unsigned THEN Unsigned(e.value) ELSE Signed(e.value)
extractLong(e) == IF IsBCD(e) THEN BCDNumber(e) ELSE Unsigned(e.value)
\* The entry after either has read it.
AfterExtract(e) ==
    IF Extractable(e) /\ IsBCD(e) /\ HasSign(e) THEN [e EXCEPT !.cleared = TRUE] ELSE e

\* extractDate: a date, or a time and a date.  A value of another size is
\* taken for the day before the 20th century; month 0 is not refused.
DateSizes == {2, 4, 6}
DatePart(v) ==
    CASE Len(v) = 2 -> v [] Len(v) = 4 -> SubSeq(v, 3, 4) [] Len(v) = 6 -> SubSeq(v, 4, 5)
TimePart(v) ==
    LET time(s, m, h) == [second |-> s % 64, minute |-> m % 64, hour |-> h % 32]
    IN CASE Len(v) = 2 -> time(0, 0, 0)
         [] Len(v) = 4 -> time(0, v[1], v[2])
         [] Len(v) = 6 -> time(v[1], v[2], v[3])
IsDate(v) ==
    Len(v) \in DateSizes =>
        Nibble(DatePart(v)[2]) <= 12 /\ TimePart(v).minute <= 59 /\ TimePart(v).hour <= 23
Date(v) ==
    IF Len(v) \notin DateSizes THEN [year |-> 1899, month |-> 12, day |-> 31, second |-> 0]
    ELSE LET d == DatePart(v)
             t == TimePart(v)
         IN [year |-> 2000 + (d[1] \div 32) + 8 * High(d[2]), month |-> Nibble(d[2]),
             day |-> d[1] % 32, second |-> 3600 * t.hour + 60 * t.minute + t.second]
=============================================================================
