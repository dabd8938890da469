-------------------------------- MODULE Units --------------------------------
(* The units of the program: the table of conversions, and the sizes of the *)
(* units in SI.  Left out are months and years and units with a logarithm.   *)
(*                                                                          *)
(* Every factor here is 2^a * 3^b * 5^c and written <<a, b, c>>.            *)
EXTENDS Integers, Sequences, TLC

One == <<0, 0, 0>>
Times(f, g) == [i \in 1..3 |-> f[i] + g[i]]
Over(f, g) == [i \in 1..3 |-> f[i] - g[i]]
Ten(k) == <<k, 0, k>>
Sixty == <<2, 1, 1>>
ThreeSix == Times(<<2, 2, 0>>, Ten(-1)) \* 3.6
PerDay == <<-3, -1, 0>>                      \* 1/24

\* What a number is multiplied with to go from one unit to another.
Conversions ==
    ("KWH" :> ("MJ" :> ThreeSix @@ "GJ" :> Times(ThreeSix, Ten(-3))))
    @@ ("MJ" :> ("KWH" :> Over(Ten(-3), Times(ThreeSix, Ten(-3))) @@ "GJ" :> Ten(-3)))
    @@ ("GJ" :> ("KWH" :> Over(One, Times(ThreeSix, Ten(-3))) @@ "MJ" :> Ten(3)))
    @@ ("MJH" :> ("KW" :> Over(Ten(-3), Times(ThreeSix, Ten(-3)))))
    @@ ("KW" :> ("MJH" :> ThreeSix))
    @@ ("WH" :> ("KWH" :> Ten(-3)))
    @@ ("W" :> ("KW" :> Ten(-3) @@ "JH" :> Times(Sixty, Sixty)))
    @@ ("JH" :> ("W" :> Over(One, Times(Sixty, Sixty))))
    @@ ("M3" :> ("L" :> Ten(3))) @@ ("L" :> ("M3" :> Ten(-3)))
    @@ ("M3H" :> ("LH" :> Ten(3))) @@ ("LH" :> ("M3H" :> Ten(-3)))
    @@ ("Hour" :> ("Minute" :> Sixty @@ "Second" :> Times(Sixty, Sixty) @@ "Day" :> PerDay))
    @@ ("Minute" :> ("Hour" :> Over(One, Sixty) @@ "Second" :> Sixty))
    @@ ("Second" :> ("Hour" :> Over(One, Times(Sixty, Sixty)) @@ "Minute" :> Over(One, Sixty)))
    @@ ("Day" :> ("Hour" :> Over(One, PerDay)))
    @@ ("BAR" :> ("PA" :> Ten(5))) @@ ("PA" :> ("BAR" :> Ten(-5)))
convert(from, to) == IF from = to THEN One ELSE Conversions[from][to]

\* A unit in SI: its size and the exponents of s, m, kg, K, C, F and of the
\* point in time.
SIUnit ==
    LET exp(s, m, kg) == <<s, m, kg, 0, 0, 0, 0>>
        energy(f) == [size |-> f, exp |-> exp(-2, 2, 1)]
        power(f) == [size |-> f, exp |-> exp(-3, 2, 1)]
        flow(f) == [size |-> f, exp |-> exp(-1, 3, 0)]
        volume(f) == [size |-> f, exp |-> exp(0, 3, 0)]
        time(f) == [size |-> f, exp |-> exp(1, 0, 0)]
        pressure(f) == [size |-> f, exp |-> exp(-2, -1, 1)]
        plain(f) == [size |-> f, exp |-> exp(0, 0, 0)]
        base(i) == [size |-> One, exp |-> [exp(0, 0, 0) EXCEPT ![i] = 1]]
        volumeC(f, s) == [size |-> f, exp |-> <<s, 3, 0, 0, 1, 0, 0>>]
    IN [WH |-> energy(Times(ThreeSix, Ten(3))), KWH |-> energy(Times(ThreeSix, Ten(6))),
        MJ |-> energy(Ten(6)), GJ |-> energy(Ten(9)),
        W |-> power(One), KW |-> power(Ten(3)),
        JH |-> power(Over(One, Times(Sixty, Sixty))),
        MJH |-> power(Over(Ten(6), Times(Sixty, Sixty))),
        M3 |-> volume(One), L |-> volume(Ten(-3)),
        M3H |-> flow(Times(Sixty, Sixty)), LH |-> flow(ThreeSix),
        M3C |-> volumeC(One, 0), M3CH |-> volumeC(Times(Sixty, Sixty), -1),
        PA |-> pressure(One), BAR |-> pressure(Ten(5)),
        Second |-> time(One), Minute |-> time(Sixty), Hour |-> time(Times(Sixty, Sixty)),
        Day |-> time(Over(Times(Sixty, Sixty), PerDay)),
        M |-> base(2), K |-> base(4), C |-> base(5), F |-> base(6), UnixTimestamp |-> base(7),
        DateLT |-> base(7),
        RH |-> plain(One), HCA |-> plain(One), COUNTER |-> plain(One), PERCENTAGE |-> plain(Ten(-2))]
=============================================================================
