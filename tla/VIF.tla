--------------------------------- MODULE VIF ---------------------------------
(* What a vif says of the number in a data record: its quantity, how the    *)
(* number is scaled to the unit of the program.                             *)
EXTENDS Units

\* The -1 for a vif without a scale.
NoScale == <<>>

\* Parts of an hour: seconds, minutes, hours, days.
TimeScale(vif) == <<Times(Sixty, Sixty), Sixty, One, PerDay>>[(vif % 4) + 1]

\* The number in the telegram is divided by this factor.
vifScale(key_vif) ==
    LET vif == 256 * ((key_vif \div 256) % 128) + (key_vif % 128)
        in8 == vif % 8
    IN CASE vif \in (\h00..\h17) \cup (\h28..\h3F) -> Ten(6 - in8)
         [] vif \in (\h18..\h1F) \cup (\h50..\h57) -> Ten(3 - in8)
         [] vif \in (\h20..\h27) \cup (\h70..\h77) \cup (\h7D2C..\h7D2F) \cup (\h7D31..\h7D33) ->
                TimeScale(vif)
         [] vif \in \h40..\h47 -> Times(Sixty, Ten(7 - in8))
         [] vif \in \h48..\h4F -> Times(Times(Sixty, Sixty), Ten(9 - in8))
         [] vif \in \h58..\h6B -> Ten(3 - (vif % 4))
         [] vif \in {\h7B00, \h7B01, \h7B08, \h7B09} -> Ten(-((vif % 2) + 2))
         [] vif \in {\h7B1A, \h7B1B} -> Ten(\h7B1B - vif)
         [] vif \in \h7D40..\h7D4F -> Ten(9 - (vif % 16))
         [] vif \in \h7D50..\h7D5F -> Ten(12 - (vif % 16))
         [] vif \in {\h6C, \h6D, \h6E, \h7C, \h7D08, \h7D3A, \h7D61, \h7D74} -> One
         [] OTHER -> NoScale

\* The unit that the description of a vif names: a factor and a unit.
vifType(vif) ==
    LET in8 == vif % 8
        u(f, unit) == [factor |-> f, unit |-> unit]
        time == Over(One, TimeScale(vif))
    IN CASE vif \in \h00..\h07 -> u(Ten(in8 - 3), "WH")
         [] vif \in \h08..\h0F -> u(Ten(in8 - 6), "MJ")
         [] vif \in \h10..\h17 -> u(Ten(in8 - 6), "M3")
         [] vif \in \h20..\h27 -> u(time, "Hour")
         [] vif \in \h28..\h2F -> u(Ten(in8 - 3), "W")
         [] vif \in \h30..\h37 -> u(Ten(in8), "JH")
         [] vif \in \h38..\h3F -> u(Ten(in8 - 6), "M3H")
         [] vif \in \h58..\h67 -> u(Ten((vif % 4) - 3), "C")
         [] vif \in \h68..\h6B -> u(Ten((vif % 4) - 3), "BAR")
         [] vif = \h6E -> u(One, "HCA")
         [] vif \in \h74..\h77 -> u(time, "Hour")
         [] vif \in {\h7B00, \h7B01} -> u(Ten(5 + (vif % 2)), "WH")
         [] vif \in {\h7B1A, \h7B1B} -> u(Ten(vif - \h7B1B), "RH")
Described ==
    (\h00..\h17) \cup (\h20..\h3F) \cup (\h58..\h6B) \cup {\h6E} \cup (\h74..\h77)
    \cup {\h7B00, \h7B01, \h7B1A, \h7B1B}

-----------------------------------------------------------------------------
(* The ranges of vifs with a number, and the unit of each.                  *)

VIFRange ==
    [Volume |-> [vifs |-> \h10..\h17, unit |-> "M3"],
     OnTime |-> [vifs |-> \h20..\h23, unit |-> "Hour"],
     OperatingTime |-> [vifs |-> \h24..\h27, unit |-> "Hour"],
     VolumeFlow |-> [vifs |-> \h38..\h3F, unit |-> "M3H"],
     FlowTemperature |-> [vifs |-> \h58..\h5B, unit |-> "C"],
     ReturnTemperature |-> [vifs |-> \h5C..\h5F, unit |-> "C"],
     TemperatureDifference |-> [vifs |-> \h60..\h63, unit |-> "C"],
     ExternalTemperature |-> [vifs |-> \h64..\h67, unit |-> "C"],
     Pressure |-> [vifs |-> \h68..\h6B, unit |-> "BAR"],
     HeatCostAllocation |-> [vifs |-> {\h6E}, unit |-> "HCA"],
     Date |-> [vifs |-> {\h6C}, unit |-> "DateLT"],
     EnergyMJ |-> [vifs |-> \h08..\h0F, unit |-> "MJ"],
     EnergyWh |-> [vifs |-> \h00..\h07, unit |-> "KWH"],
     PowerW |-> [vifs |-> \h28..\h2F, unit |-> "KW"],
     PowerJh |-> [vifs |-> \h30..\h37, unit |-> "MJH"],
     ActualityDuration |-> [vifs |-> \h74..\h77, unit |-> "Hour"],
     EnergyMWh |-> [vifs |-> {\h7B00, \h7B01}, unit |-> "KWH"],
     EnergyGJ |-> [vifs |-> {\h7B08, \h7B09}, unit |-> "MJ"],
     RelativeHumidity |-> [vifs |-> {\h7B1A, \h7B1B}, unit |-> "RH"]]

AnyRanges ==
    [AnyVolumeVIF |-> {"Volume"},
     AnyEnergyVIF |-> {"EnergyWh", "EnergyMJ", "EnergyMWh", "EnergyGJ"},
     AnyPowerVIF |-> {"PowerW", "PowerJh"}]
isInsideVIFRange(vif, range) ==
    IF range \in DOMAIN AnyRanges
    THEN \E r \in AnyRanges[range] : vif \in VIFRange[r].vifs
    ELSE vif \in VIFRange[range].vifs
toDefaultUnit(vif) ==
    VIFRange[CHOOSE r \in DOMAIN VIFRange : vif \in VIFRange[r].vifs].unit
=============================================================================
