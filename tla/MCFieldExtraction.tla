-------------------------- MODULE MCFieldExtraction --------------------------
(* Telegram contents for FieldExtraction: all short strings of the bytes    *)
(* that steer the parser, one record for every vif that is described, pairs *)
(* of records that compete for a field, and meters with a history.          *)
EXTENDS CalculatedFields

Content(bytes) == [bytes |-> bytes, force_mfct_index |-> -1, history |-> <<>>]
Low(n) == n % 256
Upper(n) == (n \div 256) % 256
VifBytes(vif) == IF vif < 256 THEN <<vif>> ELSE <<128 + (vif \div 256), vif % 256>>

-----------------------------------------------------------------------------
\* dif, long dif, vif, skip, manufacturer data, variable length, extensions.
SteeringBytes == {\h00, \h01, \h0D, \h81, \h13, \hFD, \h2F, \h0F}
Words ==
    {Content(w) : w \in UNION {[1..n -> SteeringBytes] : n \in 0..4}}
\* Other special difs, names, chains of difes and vifes, manufacturer data
\* from a given place.
Oddities ==
    {Content(b) : b \in
        {<<\h01, \h13, 5, \h1F, 1, 2>>, <<\h01, \h13, 5, \h3F, 1, 2>>,
         <<\h01, \h7C, 2, \h41, \h42, 7>>, <<\h01, \h7C>>, <<\h01, \hFC, 1, \h41, \h13, 7, \h01, \h13, 8>>,
         <<\h01, \h7C, 9, \h41>>,
         <<\h81>> \o [i \in 1..11 |-> \hB1] \o <<\h13, 9>>,
         <<\h81>> \o [i \in 1..8 |-> \hB1] \o <<\h31, \h13, 9>>,
         <<\h81, \hC5, \h2A, \h13, 9>>,
         <<\h01>> \o [i \in 1..11 |-> \h93] \o <<\h13, 9>>,
         <<\h01, \h93, \hFC, \h01, 9>>, <<\h01, \hFD, \h93, \hFF, \h77, 9>>,
         <<\h01, \h13, 1, \h01, \h13, 2, \h01, \h13, 3>>,
         <<\h01, \h13, 1, \h41, \h13, 7, \h42, \h13, 4, 0>>,
         <<\h0D, \h93, \h1F, 4, \h31, \hFE, 1, 2, \h01, \h13, \h7F, \h77, 3>>,
         <<\h0D, \h93, \h1F, 4, \h31, \hFE, 1, 2, \h41, \h93, \h7F, \h77, 3>>}}
    \cup {[bytes |-> <<\h01, \h13, 1, \h01, \h13, 2>>, force_mfct_index |-> n, history |-> <<>>] :
            n \in {0, 2, 3}}

\* One record for every vif, binary and BCD, of either sign.
Numbers ==
    {<<\h02, <<\hD2, \h04>> >>, <<\h02, <<\hFE, \hFF>> >>, <<\h0A, <<\h34, \h12>> >>,
     <<\h0A, <<\h34, \hF2>> >>, <<\h0A, <<\hFF, \hFF>> >>}
OfEveryVif ==
    {Content(<<n[1]>> \o VifBytes(v) \o n[2]) : n \in Numbers, v \in Described}

\* Records that compete for the fields of the volume.
Volumes ==
    {<<\h02, \h13, \hE8, \h03>>, <<\h0A, \h13, \h34, \hF2>>, <<\h0A, \h13, \hFF, \hFF>>,
     <<\h42, \h13, 5, 0>>, <<\h12, \h13, 6, 0>>, <<\h01, \h93, \h3C, 7>>, <<\h82, \h40, \h14, 8, 0>>}
Competing == {Content(v \o w \o x) : v, w, x \in Volumes}
MCLaterContents == {Content(<<\h0A, \h13, \hFF, \hFF>>), Content(<<\h01, \h16, 3>>)}

-----------------------------------------------------------------------------
(* Meters with a history: the value now and before, every period one value. *)

Spacings ==
    {[control |-> 48, value |-> 254, name |-> "month"],
     [control |-> 32, value |-> 254, name |-> "quarter"],
     [control |-> 48, value |-> 253, name |-> "half month"],
     [control |-> 48, value |-> 2, name |-> "two days"],
     [control |-> 32, value |-> 24, name |-> "day"],
     [control |-> 32, value |-> 9, name |-> "nine hours"]}
\* The date k periods from a date, in the direction of sign.
MonthsFrom(d, n) ==
    LET m == 12 * d.year + d.month - 1 + n
        last == get_days_in_month(m \div 12, (m % 12) + 1)
    IN [year |-> m \div 12, month |-> (m % 12) + 1,
        day |-> IF d.day > 28 THEN last ELSE d.day, second |-> d.second]
HalfMonthsFrom(d, n) ==
    LET h == 24 * d.year + 2 * (d.month - 1) + (IF d.day = 16 THEN 1 ELSE 0) + n
    IN [year |-> h \div 24, month |-> ((h % 24) \div 2) + 1,
        day |-> IF h % 2 = 1 THEN 16 ELSE 1, second |-> d.second]
PeriodsFrom(d, n, name) ==
    CASE name = "month" -> MonthsFrom(d, n)
      [] name = "quarter" -> MonthsFrom(d, 3 * n)
      [] name = "half month" -> HalfMonthsFrom(d, n)
      [] name = "two days" -> DateOf(DayNr(d) + 2 * n, d.second)
      [] name = "day" -> DateOf(DayNr(d) + n, d.second)
      [] name = "nine hours" ->
             LET hours == 24 * DayNr(d) + (d.second \div 3600) + 9 * n
             IN DateOf(hours \div 24, 3600 * (hours % 24) + (d.second % 3600))

Day(y, m, d) == [year |-> y, month |-> m, day |-> d, second |-> 0]
AtSixThirty(date) == [date EXCEPT !.second = 6 * 3600 + 30 * 60]
BaseDates2 ==
    {Day(2024, 1, 16), Day(2024, 3, 31), Day(2024, 3, 1), Day(2023, 2, 28), Day(2023, 12, 16),
     AtSixThirty(Day(2024, 1, 16)), AtSixThirty(Day(2024, 3, 1))}
DateLen(date) == IF date.second = 0 THEN 2 ELSE 4
PastValues == {<<1000, 995, 700>>, <<1000, 1000, 1200>>, <<5, 0, 5>>, <<0, 300, 299>>}
\* How a value is told from the one of the next younger period.
Slot(mode, younger, older) ==
    <<older, younger - older, older - younger, younger - older>>[mode + 1]
Fits(mode, v) == mode \in {1, 2} => \A k \in 1..2 : Slot(mode, v[k], v[k + 1]) >= 0
Histories ==
    {[mode |-> m, values |-> v, date |-> d, spacing |-> s, inverse |-> i] :
        m \in 0..3, v \in PastValues, d \in BaseDates2, s \in Spacings, i \in BOOLEAN}
Possible ==
    {h \in Histories :
        /\ Fits(h.mode, h.values)
        /\ ~h.inverse => h.mode = 0
        /\ h.spacing.name = "half month" => h.date.day \in {1, 16}
        /\ h.spacing.name \in {"month", "quarter"} => h.date.day # 28
        /\ h.spacing.name = "nine hours" => h.date.second # 0}
Telegram(h) ==
    LET two(n) == <<Low(n), Upper(n)>>
        slots == two(Slot(h.mode, h.values[1], h.values[2]))
                 \o two(Slot(h.mode, h.values[2], h.values[3]))
    IN [bytes |-> <<\h02, \h13>> \o two(h.values[1])
                  \o <<DateLen(h.date), \h6C>> \o encodeDateBytes(h.date, DateLen(h.date))
                  \o <<\h0D, \h93, IF h.inverse THEN \h13 ELSE \h1E, 6,
                       2 + 64 * h.mode + h.spacing.control, h.spacing.value>> \o slots,
        force_mfct_index |-> -1,
        history |-> [k \in 1..2 |->
            [value |-> h.values[k + 1],
             date |-> PeriodsFrom(h.date, IF h.inverse THEN -k ELSE k, h.spacing.name)]]]

\* Volume, energy and temperature; energy only.
Measurements ==
    {<<\h02, \h13, \hE8, \h03, \h02, \h0E, 50, 0, \h01, \h67, 20>>, <<\h02, \h0E, 7, 0>>}

MCContents ==
    {Content(m) : m \in Measurements} \cup Words \cup Oddities \cup OfEveryVif \cup Competing \cup {Telegram(h) : h \in Possible}

-----------------------------------------------------------------------------
(* The fields of the driver.                                                *)

Field(vname, range, unit) ==
    [vname |-> vname, key |-> <<>>, vif_range |-> range, display_unit |-> unit,
     measurement_type |-> "Instantaneous", storage_nr |-> <<0, 0>>, tariff_nr |-> <<>>,
     subunit_nr |-> <<>>, vif_raw |-> None, combinables |-> {}, combinables_raw |-> {}, index_nr |-> 1, counted |-> FALSE,
     force_unsigned |-> FALSE, null_value |-> NaN]
MCFields ==
    <<Field("total", "AnyVolumeVIF", "M3"),
      [Field("total2", "Volume", "L") EXCEPT !.index_nr = 2],
      [Field("total", "Volume", "L") EXCEPT !.measurement_type = "Any", !.combinables = {AnyCombinable}],
      [Field("backward", "Volume", "M3") EXCEPT !.vif_raw = \h13, !.combinables_raw = {\h3C}],
      Field("energy", "AnyEnergyVIF", "KWH"), Field("energy", "AnyEnergyVIF", "GJ"),
      Field("power", "AnyPowerVIF", "KW"), Field("flow", "VolumeFlow", "LH"),
      Field("flow_temperature", "FlowTemperature", "C"),
      Field("return_temperature", "ReturnTemperature", "C"),
      Field("difference", "TemperatureDifference", "C"),
      Field("outside", "ExternalTemperature", "C"),
      Field("pressure", "Pressure", "PA"), Field("on_time", "OnTime", "Day"),
      Field("operating_time", "OperatingTime", "Minute"), Field("age", "ActualityDuration", "Second"),
      Field("hca", "HeatCostAllocation", "HCA"), Field("humidity", "RelativeHumidity", "RH"),
      [Field("history", "AnyVolumeVIF", "M3") EXCEPT
          !.storage_nr = <<0, 9>>, !.combinables = {Synthetic}, !.counted = TRUE],
      [Field("history", "Date", "DateLT") EXCEPT
          !.storage_nr = <<0, 9>>, !.combinables = {Synthetic}, !.counted = TRUE]>>

-----------------------------------------------------------------------------
(* Calculated fields: all short sequences of some tokens, and formulas.     *)

MCToken ==
    [t \in Binary \cup Unary \cup {"(", ")", ",", "mkdate"} |-> [type |-> t]]
    @@ [n \in {"2", "3", "5"} |->
            [type |-> "NUMBER", val |-> CASE n = "2" -> 2 [] n = "3" -> 3 [] n = "5" -> 5]]
    @@ "2024" :> [type |-> "NUMBER", val |-> 2024]
    @@ "'00:01:30'" :> [type |-> "TIME", val |-> 90]
    @@ "'1970-01-02'" :> [type |-> "DATETIME", val |-> 86400]
    @@ ("l" :> [type |-> "UNIT", unit |-> "L"] @@ "m3" :> [type |-> "UNIT", unit |-> "M3"]
        @@ "h" :> [type |-> "UNIT", unit |-> "Hour"] @@ "min" :> [type |-> "UNIT", unit |-> "Minute"]
        @@ "kwh" :> [type |-> "UNIT", unit |-> "KWH"] @@ "gj" :> [type |-> "UNIT", unit |-> "GJ"]
        @@ "kw" :> [type |-> "UNIT", unit |-> "KW"] @@ "c" :> [type |-> "UNIT", unit |-> "C"]
        @@ "k" :> [type |-> "UNIT", unit |-> "K"] @@ "f" :> [type |-> "UNIT", unit |-> "F"]
        @@ "counter" :> [type |-> "UNIT", unit |-> "COUNTER"])
    @@ ("total_m3" :> [type |-> "FIELD", vname |-> "total", unit |-> "M3"]
        @@ "total_l" :> [type |-> "FIELD", vname |-> "total", unit |-> "L"]
        @@ "energy_gj" :> [type |-> "FIELD", vname |-> "energy", unit |-> "GJ"]
        @@ "energy_m3c" :> [type |-> "FIELD", vname |-> "energy", unit |-> "M3C"]
        @@ "outside_c" :> [type |-> "FIELD", vname |-> "outside", unit |-> "C"]
        @@ "flow_m3h" :> [type |-> "FIELD", vname |-> "flow", unit |-> "M3H"]
        @@ "sum_l" :> [type |-> "FIELD", vname |-> "sum", unit |-> "L"]
        @@ "storage_counter" :> [type |-> "FIELD", vname |-> "storage", unit |-> "COUNTER"]
        @@ "total" :> [type |-> "FIELD", vname |-> "", unit |-> ""])

Calculation(vname, unit, tokens) == [vname |-> vname, display_unit |-> unit, tokens |-> tokens]
Sentences ==
    {<<"2", "kwh", "+", "3", "gj", "+", "(", "5", "kw", "*", "3", "h", ")">>,
     <<"2", "kwh", "+", "3", "kw">>, <<"2", "kwh", "*", "energy_gj", "-", "(", "3", "gj", "*", "5", "kwh", ")">>,
     <<"sqrt", "(", "energy_gj", "*", "energy_gj", ")">>, <<"sqrt", "(", "2", "kwh", "*", "2", "kwh", ")", "/", "3", "counter">>,
     <<"energy_gj", "/", "(", "2", "h", "-", "3", "min", ")">>, <<"2", "gj", "/", "(", "3", "l", "-", "3", "l", ")">>,
     <<"energy_gj", "/", "total_l", "*", "5", "m3">>, <<"flow_m3h", "*", "3", "counter">>,
     <<"2", "m3", "+", "'00:01:30'">>, <<"'1970-01-02'", "-", "2", "h">>, <<"2", "h", "-", "'1970-01-02'">>,
     <<"'1970-01-02'", "+", "'1970-01-02'">>, <<"'00:01:30'", "*", "5", "kw">>,
     <<"outside_c", "+", "2", "k">>, <<"2", "f", "-", "outside_c">>, <<"energy_m3c", "+", "2", "kwh">>,
     <<"mkdate", "(", "2024", "counter", ",", "2", "counter", ",", "3", "counter", ")">>,
     <<"mkdate", "(", "2024", "counter", ",", "2", "counter", ")">>, <<"mkdate", "2", "counter">>,
     <<"storage_counter", "-", "2", "counter">>, <<"total", "+", "2", "m3">>, <<"2", "l", "total_l", "+">>,
     <<"round", "(", "energy_gj", ")">>, <<"floor", "energy_gj", "+", "ceil", "energy_gj">>}
    \cup {<<"5", "counter", op, "3", "counter">> : op \in Binary}
    \cup {<<"total_m3", op, "3", "counter">> : op \in Relations \cup {"%", "**"}}
Words5 == UNION {[1..n -> {"2", "l", "total_m3", "+", "-", "(", ")"}] : n \in 1..5}
\* A second field is calculated from the first.
MCCalculations(bytes) ==
    CASE bytes = <<>> -> {<<Calculation("sum", "L", w)>> : w \in Words5}
      [] bytes \in Measurements ->
             {<<Calculation("sum", u, s), Calculation("more", "L", <<"sum_l", "+", "2", "m3">>)>> :
                  s \in Sentences, u \in {"KWH", "L", "C", "COUNTER"}}
      [] OTHER -> {}
\* The meters with one calculated field are made and receive nothing.
OnlyMade == calculations # <<>> \/ Len(considered) # 1 \/ content.bytes # <<>>
=============================================================================
