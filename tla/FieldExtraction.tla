--------------------------- MODULE FieldExtraction ---------------------------
(* How the fields of a meter get their numbers from the entries of a        *)
(* telegram (processFieldExtractors).  The fields are those of a driver; a  *)
(* field keeps its number until a later telegram has another one.           *)
EXTENDS DVParser, VIF, Numbers

CONSTANTS
    Fields,       \* the fields of the driver, a sequence
    LaterContents \* contents of a second full telegram

VARIABLES
    extracting,      \* are the fields of this telegram processed?
    later,           \* is this the second full telegram?
    pending,         \* keys of the entries that are still to be taken for the field
    field,           \* index of the field
    current_match_nr,
    numeric_values_, \* name and unit -> the number shown
    before           \* numeric_values_ before the telegram

fieldVars == <<extracting, later, pending, field, current_match_nr, numeric_values_, before>>
contentVars == <<vars, fieldVars>>

ContentInit ==
    /\ Init
    /\ extracting = "no" /\ later = FALSE /\ pending = {} /\ field = 1 /\ current_match_nr = 0
    /\ numeric_values_ = <<>> /\ before = <<>>

-----------------------------------------------------------------------------
(* Which entries a field takes.  <<>> stands for a test that is not made.   *)

AnyCombinable == -2
Inside(bits, range) == range = <<>> \/ IntValue(bits) \in range[1]..range[2]
matches(f, e) ==
    IF f.key # <<>> THEN e.key = f.key
    ELSE /\ f.vif_range = "Any" \/ isInsideVIFRange(e.vif, f.vif_range)
         /\ f.vif_raw \in {None, e.vif}
         /\ f.measurement_type \in {"Any", e.measurement_type}
         /\ Inside(e.storage_nr, f.storage_nr)
         /\ Inside(e.tariff_nr, f.tariff_nr)
         /\ Inside(e.subunit_nr, f.subunit_nr)
         /\ IF f.combinables = {} /\ f.combinables_raw = {}
            THEN e.combinable_vifs = {} /\ e.combinable_vifs_raw = {}
            ELSE /\ f.combinables_raw \subseteq e.combinable_vifs_raw
                 /\ f.combinables \ {AnyCombinable} \subseteq e.combinable_vifs
                 /\ \/ AnyCombinable \in f.combinables
                    \/ f.combinables # {} /\ e.combinable_vifs \subseteq f.combinables
                    \/ f.combinables = {} /\ e.combinable_vifs_raw \subseteq f.combinables_raw
expectedToMatchAgainstMultipleEntries(f) ==
    \E r \in {f.storage_nr, f.tariff_nr, f.subunit_nr} : r # <<>> /\ r[1] # r[2]

\* The name of a field may tell the storage number of the entry.
generateFieldName(f, e) ==
    [vname |-> f.vname, unit |-> f.display_unit,
     counter |-> IF f.counted THEN IntValue(e.storage_nr) - f.storage_nr[1] ELSE 0]

\* A point in time: days since the year 2000 and seconds.
mktime(date) == <<DayNr(date), date.second>>

\* Fault: the unit of the entry is not looked at.
extractNumericUnit(f, e) ==
    LET decoded_unit == IF f.vif_range \in DOMAIN AnyRanges THEN f.display_unit
                        ELSE IF f.vif_range = "Any" THEN f.display_unit
                        ELSE VIFRange[f.vif_range].unit
        final == Number(extractDouble(e, f.force_unsigned),
                        Times(convert(decoded_unit, f.display_unit),
                              Over(One, vifScale(KeyVif(e)))))
    IN IF f.vif_range = "Date"
       THEN IF IsDate(e.value) THEN Number(mktime(Date(e.value)), One) ELSE NaN
       ELSE IF f.null_value # NaN /\ SameNumber(final, f.null_value) THEN NaN ELSE final

\* The unit is the one of the range of the field, the scale is taken from
\* the vif in the key.
extractNumeric(f, e) ==
    LET decoded_unit == IF f.vif_range \in DOMAIN AnyRanges THEN toDefaultUnit(e.vif)
                        ELSE IF f.vif_range = "Any" THEN f.display_unit
                        ELSE VIFRange[f.vif_range].unit
        final == Number(extractDouble(e, f.force_unsigned),
                        Times(convert(decoded_unit, f.display_unit),
                              Over(One, vifScale(KeyVif(e)))))
    IN IF f.vif_range = "Date"
       THEN IF IsDate(e.value) THEN Number(mktime(Date(e.value)), One) ELSE NaN
       ELSE IF f.null_value # NaN /\ SameNumber(final, f.null_value) THEN NaN ELSE final
setNumericValue(name, value) == [n \in {name} |-> value] @@ numeric_values_

-----------------------------------------------------------------------------
(* The fields are processed one by one, and for each the entries that it    *)
(* matches in the order of the telegram.  Entries with the same offset, the *)
(* synthetic ones, are in no certain order.                                 *)

Entries == dv_entries \cup synthetic
Matching(f) == {e.key : e \in {d \in Entries : matches(Fields[f], d)}}
InTurn(e) ==
    /\ e.key \in pending
    /\ \A d \in Entries : d.key \in pending => e.offset <= d.offset

\* The first field from the i-th on that matches an entry of the telegram.
FieldFrom(i) ==
    Min({j \in i..Len(Fields) : Matching(j) # {}} \cup {Len(Fields) + 1})
ProcessField(i) ==
    /\ field' = i /\ current_match_nr' = 0
    /\ IF i > Len(Fields) THEN extracting' = "done" /\ pending' = {}
       ELSE extracting' = "yes" /\ pending' = Matching(i)

StartFields ==
    /\ at = "done" /\ extracting = "no"
    /\ ProcessField(FieldFrom(1))
    /\ before' = numeric_values_
    /\ UNCHANGED <<vars, later, numeric_values_>>

\* performExtraction; reading a BCD number takes its sign away.
TakeEntry ==
    /\ extracting = "yes"
    /\ \E e \in Entries :
           LET f == Fields[field]
               taken == /\ \/ f.index_nr = current_match_nr'
                           \/ expectedToMatchAgainstMultipleEntries(f)
                        /\ Extractable(e)
               read(entries) == {IF d = e THEN AfterExtract(d) ELSE d : d \in entries}
           IN /\ InTurn(e)
              /\ current_match_nr' = current_match_nr + 1
              /\ pending' = pending \ {e.key}
              /\ IF taken
                 THEN /\ numeric_values_' = setNumericValue(generateFieldName(f, e), extractNumeric(f, e))
                      /\ dv_entries' = read(dv_entries)
                      /\ synthetic' = read(synthetic)
                 ELSE UNCHANGED <<numeric_values_, dv_entries, synthetic>>
    /\ UNCHANGED <<content, data, format, at, rec, format_bytes, hash_to_format_,
                   mfct_0f_index, mfct_1f_index, whole, data_bytes, full>>
    /\ UNCHANGED <<extracting, later, field, before>>

NextField ==
    /\ extracting = "yes" /\ pending = {}
    /\ ProcessField(FieldFrom(field + 1))
    /\ UNCHANGED <<vars, later, numeric_values_, before>>

\* The next telegram: the same one, compact, or another full one.
NextContent ==
    /\ extracting = "done"
    /\ extracting' = "no"
    /\ \/ NextTelegram /\ UNCHANGED later
       \/ \E c \in LaterContents : ~later /\ later' = TRUE /\ NextFull(c)
    /\ UNCHANGED <<pending, field, current_match_nr, numeric_values_, before>>

Parse == ParseStep /\ UNCHANGED fieldVars

-----------------------------------------------------------------------------
\* What the meter said with an entry, in the unit that its vif names.
Sent(f, e) ==
    Number(extractDouble([e EXCEPT !.cleared = FALSE], f.force_unsigned),
           Times(vifType(e.vif).factor, SIUnit[vifType(e.vif).unit].size))
Shown(f, v) == Scaled(v, SIUnit[f.display_unit].size)

\* The entry that a field is to show: the index_nr-th of the telegram.
Wanted(f) ==
    {e \in Entries : /\ matches(f, e)
                     /\ Cardinality({d \in Entries : matches(f, d) /\ d.offset <= e.offset}) = f.index_nr}
Measured(f) == f.vif_range # "Date" /\ ~expectedToMatchAgainstMultipleEntries(f) /\ f.null_value = NaN

\* A field shows what the meter sent: the number in the record that the
\* field asks for, in the unit that the vif describes, whatever the unit of
\* the field; and it shows what it showed before when the telegram has no
\* such record or one without a number.  The key, the entry, vifScale,
\* the ranges and the conversions take part in it.  Only the first reader
\* of a negative BCD number gets the sign.
FirstReader(i, e) ==
    /\ \A j \in 1..(i - 1) : ~matches(Fields[j], e)
    /\ ~\E p \in dv_entries : IsProfile(p) /\ e \in BaseValues(Entries, p)
NegativeBCD(e) == IsBCD(e) /\ HasSign(e)
ShowsWhatWasSent ==
    extracting = "done" =>
        \A i \in {j \in DOMAIN Fields : Measured(Fields[j])} :
            LET f == Fields[i]
                name == generateFieldName(f, [storage_nr |-> {}])
                readable == {e \in Wanted(f) : Extractable([e EXCEPT !.cleared = FALSE])}
            IN IF readable = {}
               THEN /\ (name \in DOMAIN numeric_values_) = (name \in DOMAIN before)
                    /\ name \in DOMAIN before => numeric_values_[name] = before[name]
               ELSE \E e \in readable :
                        \/ NegativeBCD(e) /\ ~FirstReader(i, e)
                        \/ SameNumber(Shown(f, numeric_values_[name]), Sent(f, e))

\* The history of a meter comes out of a compact profile as it went in: each
\* slot under the next storage number, with its value and its date.
HistoryShown ==
    extracting = "done" =>
        \A i \in {j \in DOMAIN Fields : Fields[j].counted}, k \in DOMAIN content.history :
            LET f == Fields[i]
                name == [vname |-> f.vname, unit |-> f.display_unit, counter |-> k]
                past == content.history[k]
            IN /\ name \in DOMAIN numeric_values_
               /\ numeric_values_[name].raw = IF f.vif_range = "Date" THEN mktime(past.date) ELSE past.value
=============================================================================
