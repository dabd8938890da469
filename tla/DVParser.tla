------------------------------ MODULE DVParser ------------------------------
(* How the content of a telegram is taken apart (parseDV).  The content is  *)
(* a sequence of records: a dif with difes, a vif with vifes, data.  A meter *)
(* may also send compact telegrams with the data only and the checksum of   *)
(* the difs and vifs, its format; the program remembers the format of each  *)
(* telegram it has parsed.                                                  *)
EXTENDS CompactProfile

CONSTANTS
    Contents,   \* the contents of full telegrams: [bytes, force_mfct_index,
                \* history], history: what a profile in it is to tell
    MaxDifes    \* difes, and vifes, read of one record (10)

VARIABLES
    content,        \* what is parsed: a content and compact, is it compact?
    data,           \* index of the next byte of the content
    format,         \* of a compact telegram: index of the next format byte
    at,             \* the part of a record that is read next
    rec,            \* the record that is read
    dv_entries,     \* entries of the telegram
    synthetic,      \* entries made from compact profiles
    format_bytes,
    hash_to_format_,
    mfct_0f_index,  \* where manufacturer data starts, -1: nowhere
    mfct_1f_index,  \* where the mark of more records is, -1: nowhere
    whole,          \* every record read so far was complete
    data_bytes,     \* the data read so far
    full            \* what the last full telegram gave

telegramVars == <<content, hash_to_format_, full>>
vars == <<content, data, format, at, rec, dv_entries, synthetic, format_bytes,
          hash_to_format_, mfct_0f_index, mfct_1f_index, whole, data_bytes, full>>

\* The checksum of a format; its bits are a set of positions.  crc[i] is the
\* remainder after i bits, the highest bit of a byte first.
crc16_EN13757(bytes) ==
    LET bit(i) == (bytes[((i - 1) \div 8) + 1] \div 2^(7 - ((i - 1) % 8))) % 2 = 1
        polynomial == Bits(\h3D65, 16)
        per_bit(crc, b) ==
            LET up == {j + 1 : j \in crc \ {15}}
            IN IF (15 \in crc) # b THEN SymDiff(up, polynomial) ELSE up
        crc[i \in 0..(8 * Len(bytes))] ==
            IF i = 0 THEN {} ELSE UNION {per_bit(c, bit(i)) : c \in {crc[i - 1]}}
    IN (0..15) \ crc[8 * Len(bytes)]

Steps == {"dif", "dife", "vif", "vife", "value", "end", "done"}
NoRecord ==
    [id |-> <<>>, difes |-> 0, subunit |-> {}, tariff |-> {}, storage |-> {},
     full_vif |-> 0, extension |-> FALSE, vifes |-> 0,
     combinable |-> 0, extended |-> FALSE, combs |-> {}, raws |-> {}]

data_has_difvifs == ~content.compact
DataEnd == Len(content.bytes) + 1
difvifs == IF data_has_difvifs THEN content.bytes ELSE hash_to_format_[content.sig]
pos == IF data_has_difvifs THEN data ELSE format
AtFormatEnd == pos > Len(difvifs)
Next1 == difvifs[pos]
MoveTo(i) ==
    IF data_has_difvifs THEN data' = i /\ UNCHANGED format ELSE format' = i /\ UNCHANGED data
Collect(bytes) ==
    format_bytes' = IF data_has_difvifs THEN format_bytes \o bytes ELSE format_bytes

Full(c) ==
    [bytes |-> c.bytes, force_mfct_index |-> c.force_mfct_index, history |-> c.history,
     compact |-> FALSE, sig |-> {}]
Init ==
    /\ \E c \in Contents : content = Full(c)
    /\ hash_to_format_ = <<>>
    /\ full = [known |-> FALSE, entries |-> {}]
    /\ data = 1 /\ format = 1 /\ at = "dif" /\ rec = NoRecord
    /\ dv_entries = {} /\ synthetic = {} /\ format_bytes = <<>>
    /\ mfct_0f_index = -1 /\ mfct_1f_index = -1 /\ whole = TRUE /\ data_bytes = <<>>

-----------------------------------------------------------------------------
(* The dif.                                                                 *)

Unparsed == UNCHANGED <<rec, synthetic, format_bytes, telegramVars, data_bytes>>

\* The parser stops where the format ends, and where a driver says that
\* manufacturer data starts.
StopBeforeRecord ==
    /\ at = "dif"
    /\ \/ AtFormatEnd /\ UNCHANGED data
       \/ /\ ~AtFormatEnd
          /\ content.force_mfct_index # -1
          /\ data - 1 >= content.force_mfct_index
          /\ data' = DataEnd
    /\ at' = "end"
    /\ UNCHANGED <<format, dv_entries, mfct_0f_index, mfct_1f_index, whole>> /\ Unparsed

RecordFollows ==
    /\ at = "dif" /\ ~AtFormatEnd
    /\ content.force_mfct_index = -1 \/ data - 1 < content.force_mfct_index

\* 0F: the rest is manufacturer data, 1F: more records in the next telegram.
\* An unknown dif is treated like manufacturer data.
Special ==
    /\ RecordFollows
    /\ difLenBytes(Next1) = -2
    /\ mfct_0f_index' = data
    /\ mfct_1f_index' = IF Next1 = \h1F THEN data ELSE mfct_1f_index
    /\ dv_entries' =
           IF Next1 = \h0F
           THEN dv_entries \cup
                {Entry([id |-> <<\h0F>>, nr |-> 1], "Instantaneous", \h7F, {}, {}, {}, {}, {},
                       data, SubSeq(content.bytes, data + 1, DataEnd - 1))}
           ELSE dv_entries
    /\ data' = DataEnd
    /\ at' = "end"
    /\ UNCHANGED <<format, whole>> /\ Unparsed

Skip ==
    /\ RecordFollows
    /\ Next1 = \h2F
    /\ MoveTo(pos + 1)
    /\ UNCHANGED <<at, dv_entries, mfct_0f_index, mfct_1f_index, whole>> /\ Unparsed

Building ==
    UNCHANGED <<dv_entries, synthetic, mfct_0f_index, mfct_1f_index, telegramVars, data_bytes>>

ReadDif ==
    /\ RecordFollows
    /\ Next1 # \h2F /\ difLenBytes(Next1) # -2
    /\ rec' = [NoRecord EXCEPT !.id = <<Next1>>, !.storage = StorageLsb(Next1)]
    /\ Collect(<<Next1>>)
    /\ at' = IF HasMore(Next1) THEN "dife" ELSE "vif"
    /\ MoveTo(pos + 1)
    /\ UNCHANGED whole /\ Building

\* Fault: the lowest bit, which is in the dif, is forgotten.
ReadDifeFromZero ==
    /\ at = "dife"
    /\ rec.difes < MaxDifes /\ ~AtFormatEnd
    /\ \E storage \in ShiftLeft(StorageBits(Next1), 4 * rec.difes),
          tariff \in ShiftLeft(TariffBits(Next1), 2 * rec.difes),
          subunit \in ShiftLeft(SubunitBits(Next1), rec.difes) :
           rec' = [rec EXCEPT !.id = Append(@, Next1), !.difes = @ + 1,
                              !.storage = @ \cup storage,
                              !.tariff = @ \cup tariff,
                              !.subunit = @ \cup subunit]
    /\ Collect(<<Next1>>)
    /\ at' = IF HasMore(Next1) THEN "dife" ELSE "vif"
    /\ MoveTo(pos + 1)
    /\ UNCHANGED whole /\ Building

\* A further dife adds higher bits to the numbers.
ReadDife ==
    /\ at = "dife"
    /\ rec.difes < MaxDifes /\ ~AtFormatEnd
    /\ \E storage \in ShiftLeft(StorageBits(Next1), 1 + 4 * rec.difes),
          tariff \in ShiftLeft(TariffBits(Next1), 2 * rec.difes),
          subunit \in ShiftLeft(SubunitBits(Next1), rec.difes) :
           rec' = [rec EXCEPT !.id = Append(@, Next1), !.difes = @ + 1,
                              !.storage = @ \cup storage,
                              !.tariff = @ \cup tariff,
                              !.subunit = @ \cup subunit]
    /\ Collect(<<Next1>>)
    /\ at' = IF HasMore(Next1) THEN "dife" ELSE "vif"
    /\ MoveTo(pos + 1)
    /\ UNCHANGED whole /\ Building
NoMoreDifes ==
    /\ at = "dife"
    /\ rec.difes = MaxDifes \/ AtFormatEnd
    /\ at' = "vif"
    /\ UNCHANGED <<data, format, rec, format_bytes, whole>> /\ Building

-----------------------------------------------------------------------------
(* The vif and the vifes.                                                   *)

ExtensionMarks == {\hFB, \hFD, \hEF, \hFF}
LengthMarks == {\h7C, \hFC}

\* The name of a quantity may follow, with its length; it belongs to the key
\* and not to the format.
ReadVif ==
    /\ at = "vif"
    /\ ~AtFormatEnd
    /\ LET named == Next1 \in LengthMarks
           left == Len(difvifs) - pos
           name == IF named THEN Min({difvifs[pos + 1], left - 1}) + 1 ELSE 0
       IN IF named /\ left = 0
          THEN /\ at' = "end" /\ whole' = FALSE
               /\ MoveTo(pos + 1)
               /\ UNCHANGED rec
          ELSE /\ rec' = [rec EXCEPT
                             !.id = @ \o SubSeq(difvifs, pos, pos + name),
                             !.full_vif = IF Next1 \in ExtensionMarks THEN 256 * Low7(Next1)
                                          ELSE Low7(Next1),
                             !.extension = Next1 \in ExtensionMarks]
               /\ at' = IF HasMore(Next1) THEN "vife" ELSE "value"
               /\ whole' = (whole /\ ~named)
               /\ MoveTo(pos + name + 1)
    /\ Collect(<<Next1>>)
    /\ Building
NoVif ==
    /\ at = "vif" /\ AtFormatEnd
    /\ at' = "end" /\ whole' = FALSE
    /\ UNCHANGED <<data, format, rec, format_bytes>> /\ Building

\* The vife after an extension mark is the vif itself, the others are
\* combinable vifs, which have extensions of their own.
WithVife(r, vife) ==
    LET c == Low7(vife)
        found(raw) == [r EXCEPT !.combinable = raw, !.extended = FALSE,
                                !.combs = @ \cup {toVIFCombinable(raw)},
                                !.raws = @ \cup {raw}]
    IN IF r.extension THEN [r EXCEPT !.full_vif = @ + c, !.extension = FALSE]
       ELSE IF r.extended THEN found(r.combinable + c)
       ELSE IF c \in {\h7C, \h7F} THEN [r EXCEPT !.combinable = 256 * c, !.extended = TRUE]
       ELSE found(c)
\* Fault: a vife is not part of the format.
ReadVifeUncollected ==
    /\ at = "vife"
    /\ rec.vifes < MaxDifes /\ ~AtFormatEnd
    /\ rec' = [WithVife(rec, Next1) EXCEPT !.id = Append(@, Next1), !.vifes = @ + 1]
    /\ Collect(<<>>)
    /\ at' = IF HasMore(Next1) THEN "vife" ELSE "value"
    /\ MoveTo(pos + 1)
    /\ UNCHANGED whole /\ Building

ReadVife ==
    /\ at = "vife"
    /\ rec.vifes < MaxDifes /\ ~AtFormatEnd
    /\ rec' = [WithVife(rec, Next1) EXCEPT !.id = Append(@, Next1), !.vifes = @ + 1]
    /\ Collect(<<Next1>>)
    /\ at' = IF HasMore(Next1) THEN "vife" ELSE "value"
    /\ MoveTo(pos + 1)
    /\ UNCHANGED whole /\ Building
NoMoreVifes ==
    /\ at = "vife"
    /\ rec.vifes = MaxDifes \/ AtFormatEnd
    /\ at' = "value"
    /\ UNCHANGED <<data, format, rec, format_bytes, whole>> /\ Building

-----------------------------------------------------------------------------
(* The data of the record.                                                  *)

\* The key of the record: the next number after the one given to the same
\* bytes before, past the keys of synthetic entries.
NextKey(id) ==
    LET keys == {e.key : e \in dv_entries \cup synthetic}
        dv_count == Max({0} \cup {e.key.nr : e \in {d \in dv_entries : d.key.id = id}})
    IN [id |-> id,
        nr |-> Min({n \in (dv_count + 1)..(dv_count + 1 + Cardinality(keys)) :
                        [id |-> id, nr |-> n] \notin keys})]

NoData ==
    /\ at = "value" /\ data >= DataEnd
    /\ at' = "end"
    /\ UNCHANGED <<data, format, rec, format_bytes, whole>> /\ Building

\* A record is added, and the entries made from it if it is a profile.
\* Finding the present value of the profile reads it.
Store(entry) ==
    IF ~IsProfile(entry)
    THEN dv_entries' = dv_entries \cup {entry} /\ UNCHANGED synthetic
    ELSE LET entries == dv_entries \cup {entry}
             all == entries \cup synthetic
             AtMostOne(s) == IF s = {} THEN {{}} ELSE {{e} : e \in s}
         IN \E base \in AtMostOne(BaseValues(all, entry)),
               date \in AtMostOne(BaseDates(all, entry)) :
                /\ dv_entries' = {IF e \in base THEN AfterExtract(e) ELSE e : e \in entries}
                /\ synthetic' = {IF e \in base THEN AfterExtract(e) ELSE e : e \in synthetic}
                                \cup SyntheticEntries(all, entry, base, date)

\* Data that is cut short loses its last byte, which is then taken as the
\* next dif.
Datalen(wanted, remaining) == IF remaining < wanted THEN remaining - 1 ELSE wanted

AfterData(start, datalen, value) == IF value # <<>> THEN start + datalen ELSE start

StoreValue ==
    /\ at = "value" /\ data < DataEnd
    /\ LET dif == rec.id[1]
           variable_length == difLenBytes(dif) = -1
           start == IF variable_length THEN data + 1 ELSE data
           wanted == IF variable_length THEN content.bytes[data] ELSE difLenBytes(dif)
           remaining == DataEnd - start
           datalen == Datalen(wanted, remaining)
           value == SubSeq(content.bytes, start, Min({start + datalen, DataEnd}) - 1)
           entry == Entry(NextKey(rec.id), difMeasurementType(dif), rec.full_vif,
                          rec.combs, rec.raws, rec.storage, rec.tariff, rec.subunit, start, value)
       IN /\ data' = AfterData(start, datalen, value)
          /\ at' = IF remaining = datalen \/ data' = DataEnd THEN "end" ELSE "dif"
          /\ whole' = (whole /\ wanted = datalen)
          /\ data_bytes' = data_bytes \o SubSeq(content.bytes, data, start - 1) \o value
          /\ Store(entry)
    /\ rec' = NoRecord
    /\ UNCHANGED <<format, format_bytes, mfct_0f_index, mfct_1f_index, telegramVars>>

-----------------------------------------------------------------------------
(* After the last record.                                                   *)

\* The format of a telegram is remembered under its checksum, once.
Finish ==
    /\ at = "end"
    /\ at' = "done"
    /\ LET hash == crc16_EN13757(format_bytes)
       IN hash_to_format_' =
              IF data_has_difvifs /\ format_bytes # <<>> /\ hash \notin DOMAIN hash_to_format_
              THEN hash_to_format_ @@ (hash :> format_bytes)
              ELSE hash_to_format_
    /\ full' = IF data_has_difvifs
               THEN [known |-> whole /\ content.force_mfct_index = -1, entries |-> dv_entries]
               ELSE full
    /\ UNCHANGED <<content, data, format, rec, dv_entries, synthetic, format_bytes,
                   mfct_0f_index, mfct_1f_index, whole, data_bytes>>

NewParse ==
    /\ data' = 1 /\ format' = 1 /\ at' = "dif" /\ rec' = NoRecord
    /\ dv_entries' = {} /\ synthetic' = {} /\ format_bytes' = <<>>
    /\ mfct_0f_index' = -1 /\ mfct_1f_index' = -1 /\ whole' = TRUE /\ data_bytes' = <<>>
    /\ UNCHANGED <<hash_to_format_, full>>

\* The meter sends the same data again, compact, or another full telegram.
NextTelegram ==
    /\ at = "done" /\ full.known /\ ~content.compact
    /\ crc16_EN13757(format_bytes) \in DOMAIN hash_to_format_
    /\ content' = [content EXCEPT !.bytes = data_bytes, !.compact = TRUE,
                                  !.sig = crc16_EN13757(format_bytes)]
    /\ NewParse
NextFull(c) ==
    /\ at = "done"
    /\ content' = Full(c)
    /\ NewParse

ParseStep ==
    \/ StopBeforeRecord \/ Special \/ Skip \/ ReadDif
    \/ ReadDife \/ NoMoreDifes
    \/ ReadVif \/ NoVif \/ ReadVife \/ NoMoreVifes
    \/ NoData \/ StoreValue \/ Finish
Next == ParseStep \/ NextTelegram
Spec == Init /\ [][Next]_vars

-----------------------------------------------------------------------------
TypeOK ==
    /\ content.bytes \in Seq(Byte) /\ content.compact \in BOOLEAN
    /\ data \in 1..DataEnd /\ format \in Nat
    /\ at \in Steps
    /\ rec.id \in Seq(Byte) /\ rec.difes \in 0..MaxDifes /\ rec.vifes \in 0..MaxDifes
    /\ mfct_0f_index \in -1..DataEnd /\ mfct_1f_index \in -1..DataEnd
    /\ whole \in BOOLEAN

\* No byte of the data is used twice: the data of an entry lies behind the
\* parser and apart from the data of the other entries.
Bytes(e) == e.offset..(e.offset + Len(e.value) - 1)
DataReadOnce ==
    /\ \A e \in dv_entries : Bytes(e) \subseteq 1..(data - 1)
    /\ \A e, d \in dv_entries : e # d => Bytes(e) \cap Bytes(d) = {}

\* The key of an entry, from which its scale is taken later (extractDV), says
\* the same as the entry itself, from which its unit is taken.  Numbers with
\* more bits than an int has, and synthetic entries of an extension vif,
\* whose keys have no room for it, are the exceptions.
KeyTellsEntry ==
    \A e \in dv_entries \cup synthetic :
        (Cardinality(KeyDifes(e)) <= 7 /\ e.key.id # <<\h0F>> /\ (e \in synthetic => e.vif < 256))
            => /\ VifOfKey(e) = e.vif
               /\ StorageOfKey(e) = e.storage_nr
               /\ e \in dv_entries => TariffOfKey(e) = e.tariff_nr /\ SubunitOfKey(e) = e.subunit_nr

\* Two entries never have the same key, nor the same number of a record that
\* is repeated.
KeysDiffer ==
    \A e, d \in dv_entries \cup synthetic : e.key = d.key => e = d

\* What later stages take for granted of the entries: the parser stayed within
\* the data and used no byte twice, and every entry has a key of its own that
\* says what the entry says.
EntriesConsistent == TypeOK /\ DataReadOnce /\ KeyTellsEntry /\ KeysDiffer

\* A compact telegram gives what the full telegram with the same data gave.
\* Records without data at the end, and manufacturer data, are not repeated.
Given(entries) ==
    {<<e.key, e.measurement_type, e.vif, e.combinable_vifs, e.value>> :
        e \in {d \in entries : d.value # <<>> /\ d.key.id # <<\h0F>>}}
CompactGivesTheSame ==
    (at = "done" /\ content.compact) => Given(dv_entries) = Given(full.entries)

=============================================================================
