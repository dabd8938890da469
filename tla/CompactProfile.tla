---------------------------- MODULE CompactProfile ----------------------------
(* The history of a meter in one data record: a compact profile holds the   *)
(* values of earlier periods.  addSyntheticCompactProfileEntries turns each *)
(* of its slots into an entry of its own, with the storage numbers after    *)
(* the one of the profile and, if the telegram has a date with the storage  *)
(* number of the profile, a date.                                           *)
EXTENDS DVEntry, SequencesExt

\* The first two bytes of the profile: the size of a slot, what a slot
\* tells, and the time between two slots.  Values 251, 252 and 255 and some
\* combinations are reserved.
ReservedSpacing(unit, value) ==
    \/ value \in {251, 252, 255}
    \/ value = 253 /\ unit # 3
    \/ value = 254 /\ unit = 0
decodeCompactProfileHeader(control, value) ==
    LET unit == High(control) % 4
        mode == <<"Absolute", "Increments", "Decrements", "SignedDifference">>[(control \div 64) + 1]
        spaced(d, n) == [distance |-> d, step |-> n]
        spacing ==
            IF value = 0 THEN spaced("NotSpacedInTime", 0)
            ELSE IF value = 253 THEN spaced("HalfMonth", 1)
            ELSE IF value = 254 THEN spaced("Months", <<6, 3, 1>>[unit])
            ELSE spaced(<<"Seconds", "Minutes", "Hours", "Days">>[unit + 1], value)
    IN [nibble |-> Nibble(control), mode |-> mode,
        binary_value_is_unsigned |->
            Nibble(control) \in BinaryNibbles /\ mode \in {"Increments", "Decrements"},
        distance |-> spacing.distance, step |-> spacing.step,
        array_column |-> IF value = 0 THEN unit + 1 ELSE 0]

-----------------------------------------------------------------------------
(* Dates.  Local time has no daylight saving in this model.                 *)

is_leap_year(y) == y % 4 = 0 /\ (y % 100 = 0 => y % 400 = 0)
get_days_in_month(y, m) ==
    IF m = 2 /\ is_leap_year(y) THEN 29
    ELSE <<31, 28, 31, 30, 31, 30, 31, 31, 30, 31, 30, 31>>[IF m \in 1..12 THEN m ELSE 1]

\* Fault: the last day of a month is a day like any other.
addMonthsSameDay(date, months) ==
    LET n == 12 * date.year + (date.month - 1) + months
        y == n \div 12
        m == (n % 12) + 1
        last == get_days_in_month(y, m)
    IN [date EXCEPT !.year = y, !.month = m,
                    !.day = Min({date.day, last})]

\* The last day of a month maps to the last day of the other month.
addMonths(date, months) ==
    LET n == 12 * date.year + (date.month - 1) + months
        y == n \div 12
        m == (n % 12) + 1
        last == get_days_in_month(y, m)
        is_last == date.day = get_days_in_month(date.year, date.month)
    IN [date EXCEPT !.year = y, !.month = m,
                    !.day = IF is_last THEN last ELSE Min({date.day, last})]

\* Days since the first of January 2000, and the date of such a day.
DaysBeforeYear(y) ==
    365 * (y - 2000) + Cardinality({i \in 2000..(y - 1) : is_leap_year(i)})
                     - Cardinality({i \in y..1999 : is_leap_year(i)})
DaysBefore(y, m) ==
    DaysBeforeYear(y) + MapThenSumSet(LAMBDA i : get_days_in_month(y, i), 1..(m - 1))
DayNr(date) == DaysBefore(date.year, date.month) + date.day - 1
DateOf(n, second) ==
    LET y == CHOOSE i \in 2000..2127 : DaysBeforeYear(i) <= n /\ n < DaysBeforeYear(i + 1)
        m == CHOOSE i \in 1..12 :
                 DaysBefore(y, i) <= n /\ n < DaysBefore(y, i) + get_days_in_month(y, i)
    IN [year |-> y, month |-> m, day |-> n - DaysBefore(y, m) + 1, second |-> second]

\* The half months start on the 1st and on the 16th.
StepHalfMonth(date, inverse) ==
    IF inverse
    THEN IF date.day >= 16 THEN [date EXCEPT !.day = 1]
         ELSE [addMonths(date, -1) EXCEPT !.day = 16]
    ELSE IF date.day <= 15 THEN [date EXCEPT !.day = 16]
         ELSE [addMonths(date, 1) EXCEPT !.day = 1]
\* A running date is a date and the seconds of the day.
SecondsOf(distance) ==
    [Seconds |-> 1, Minutes |-> 60, Hours |-> 3600, Days |-> 86400][distance]
StepSeconds(date, seconds) ==
    LET n == 86400 * DayNr(date) + date.second + seconds
    IN DateOf(n \div 86400, n % 86400)

stepCompactProfileDate(date, h, inverse) ==
    LET direction == IF inverse THEN -1 ELSE 1
    IN CASE h.distance = "Months" -> addMonths(date, direction * h.step)
         [] h.distance = "HalfMonth" -> StepHalfMonth(date, inverse)
         [] OTHER -> StepSeconds(date, direction * h.step * SecondsOf(h.distance))
\* A date is stored in two bytes, or in four with hours and minutes; the
\* years 2000 to 2127 fit.
encodeDateBytes(date, date_len) ==
    LET y == date.year - 2000
        time == IF date_len = 2 THEN <<>>
                ELSE <<(date.second \div 60) % 60, date.second \div 3600>>
    IN time \o <<date.day + 32 * (y % 8), date.month + 16 * (y \div 8)>>
Encodable(date) == date.year \in 2000..2127 /\ date.month \in 1..12 /\ date.day \in 1..31

-----------------------------------------------------------------------------
(* The slots.                                                               *)

DigitsFit(bytes) == \A i \in DOMAIN bytes : Nibble(bytes[i]) <= 9 /\ High(bytes[i]) <= 9
IllegalSigned(bytes) ==
    bytes[Len(bytes)] = 128 /\ \A i \in 1..(Len(bytes) - 1) : bytes[i] = 0
decodeCompactSlotSigned(h, bytes) ==
    IF h.nibble \in BCDNibbles THEN Decimal(bytes, FALSE)
    ELSE IF h.binary_value_is_unsigned THEN Unsigned(bytes) ELSE Signed(bytes)
\* A binary value is stored as signed, and a BCD value is not negative.
CompactSlotFits(h, n, value) ==
    IF h.nibble \in BCDNibbles THEN value \in 0..(100^n - 1)
    ELSE value \in -(2^(8 * n - 1))..(2^(8 * n - 1) - 1)
encodeCompactSlotSigned(h, n, value) ==
    IF h.nibble \in BCDNibbles
    THEN [i \in 1..n |-> LET d == (value \div 100^(i - 1)) % 100
                        IN 16 * (d \div 10) + (d % 10)]
    ELSE [i \in 1..n |-> (value \div 256^(i - 1)) % 256]

\* The bytes of the key of a synthetic entry.
makeSyntheticStorageKey(nibble, storage, vif) ==
    LET rest == storage \div 2
        difes == IF rest = 0 THEN 0 ELSE CHOOSE k \in 1..10 : 16^(k - 1) <= rest /\ rest < 16^k
        more(b, last) == IF last THEN b ELSE b + 128
    IN <<more(nibble + 64 * (storage % 2), difes = 0)>>
       \o [i \in 1..difes |-> more((rest \div 16^(i - 1)) % 16, i = difes)]
       \o <<vif % 256, \h7F, \h77>>
FreeKey(id, taken) ==
    [id |-> id, nr |-> Min({n \in 1..(Cardinality(taken) + 1) : [id |-> id, nr |-> n] \notin taken})]

-----------------------------------------------------------------------------
(* The synthetic entries of a profile.                                      *)

Profiles == {InverseCompactProfile, CompactProfileWithRegister, CompactProfile}
Header(e) == decodeCompactProfileHeader(e.value[1], e.value[2])
SlotBytes(e) == difLenBytes(Nibble(e.value[1]))
IsProfile(e) ==
    /\ e.combinable_vifs \cap Profiles # {}
    /\ Len(e.value) >= 2
    /\ ~ReservedSpacing(High(e.value[1]) % 4, e.value[2])
    /\ SlotBytes(e) > 0
    /\ (Len(e.value) - 2) % SlotBytes(e) = 0

SamePlace(c, e) ==
    /\ c.storage_nr = e.storage_nr
    /\ c.tariff_nr = e.tariff_nr
    /\ c.subunit_nr = e.subunit_nr
\* The entries that tell the present value, and the date, of the profile.
\* The first one in the order of a hash table is taken.
BaseValues(entries, e) ==
    {c \in entries : /\ SamePlace(c, e)
                     /\ Nibble(KeyDif(c)) = Header(e).nibble
                     /\ c.vif % 256 = e.vif % 256
                     /\ Extractable(c)}
BaseDates(entries, e) ==
    {c \in entries : SamePlace(c, e) /\ c.vif = \h6C /\ Len(c.value) \in {2, 4} /\ IsDate(c.value)}

\* The slots in the order in which they are taken.
Slots(e) ==
    LET n == SlotBytes(e)
        count == (Len(e.value) - 2) \div n
        slots == [i \in 1..count |-> SubSeq(e.value, 2 + (i - 1) * n + 1, 2 + i * n)]
    IN IF e.combinable_vifs \cap {InverseCompactProfile, CompactProfileWithRegister} # {}
       THEN slots ELSE Reverse(slots)

\* add_slot.  r: the running value and date, the number of slots added, the
\* entries made from them, and whether the profile has ended.  taken: the
\* keys of the entries of the telegram.
add_slot(r, bytes, e, taken) ==
    LET h == Header(e)
        inverse == InverseCompactProfile \in e.combinable_vifs
        incremental == h.mode # "Absolute"
        unused == \A i \in DOMAIN bytes : bytes[i] = \hFF
        illegal == /\ incremental /\ h.nibble \in BinaryNibbles
                   /\ ~h.binary_value_is_unsigned /\ IllegalSigned(bytes)
        relative == inverse /\ incremental /\ r.have_value
        undecodable == relative /\ h.nibble \in BCDNibbles /\ ~DigitsFit(bytes)
        delta == decodeCompactSlotSigned(h, bytes)
        absolute == IF h.mode = "Decrements" THEN r.value + delta ELSE r.value - delta
        storage == IntValue(e.storage_nr) + 1 + r.count
        subunit == Bits(IntValue(e.subunit_nr)
                        + (IF h.array_column > 0 THEN h.array_column - 1 ELSE 0), 8)
        synthetic(keys, nibble, mt, vif, value) ==
            Entry(FreeKey(makeSyntheticStorageKey(nibble, storage, vif), keys), mt, vif,
                  {Synthetic}, {}, Bits(storage, 16), e.tariff_nr, subunit, e.offset, value)
        keys == taken \cup {c.key : c \in r.entries}
        entry == synthetic(keys, h.nibble, e.measurement_type, e.vif,
                     IF relative THEN encodeCompactSlotSigned(h, Len(bytes), absolute) ELSE bytes)
        dated == r.have_date /\ h.distance # "NotSpacedInTime"
        next == stepCompactProfileDate(r.date, h, inverse)
        date_entry == synthetic(keys \cup {entry.key}, r.date_nibble, r.date_type, \h6C,
                                encodeDateBytes(next, r.date_len))
    IN IF r.stopped THEN r
       ELSE IF unused THEN [r EXCEPT !.stopped = incremental]
       ELSE IF illegal \/ undecodable THEN [r EXCEPT !.stopped = TRUE]
       ELSE IF relative /\ ~CompactSlotFits(h, Len(bytes), absolute)
            THEN [r EXCEPT !.stopped = TRUE]
       ELSE [r EXCEPT !.count = @ + 1,
                      !.value = IF relative THEN absolute ELSE @,
                      !.date = IF dated /\ Encodable(next) THEN next ELSE @,
                      !.entries = @ \cup {entry}
                                    \cup (IF dated /\ Encodable(next) THEN {date_entry} ELSE {})]

\* base and date are {} or the one entry found.
SyntheticEntries(entries, e, base, date) ==
    LET taken == {c.key : c \in entries}
        the(s) == CHOOSE c \in s : TRUE
        start == [stopped |-> FALSE, count |-> 0, entries |-> {},
                  have_value |-> base # {},
                  value |-> IF base = {} THEN 0 ELSE extractLong(the(base)),
                  have_date |-> date # {},
                  date |-> IF date = {} THEN Date(<<0, 0>>) ELSE Date(the(date).value),
                  date_len |-> IF date = {} THEN 0 ELSE Len(the(date).value),
                  date_nibble |-> IF date = {} THEN 0 ELSE Nibble(KeyDif(the(date))),
                  date_type |-> IF date = {} THEN "Instantaneous" ELSE the(date).measurement_type]
    IN FoldLeft(LAMBDA r, bytes : add_slot(r, bytes, e, taken), start, Slots(e)).entries
=============================================================================
