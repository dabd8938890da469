-------------------------- MODULE MCRegularCheckup --------------------------
(* Small instances of RegularCheckup for TLC.                               *)
EXTENDS RegularCheckup, TLC

Meter(slave, address, bus, interval) ==
    [slave |-> slave, address |-> address, bus |-> bus, interval |-> interval]

\* A meter with a reading of three telegrams, one whose reading never ends, and one
\* with a primary address.
Water == Meter("water", "secondary", "MAIN", 60)
Heat == Meter("heat", "secondary", "MAIN", 60)
Gas == Meter("gas", "primary", "MAIN", 60)

Contents ==
    <<[bus |-> "MAIN", content |-> "hex"], [bus |-> "MAIN", content |-> "bad hex"],
      [bus |-> "MAIN", content |-> "hex"]>>

Setup(ms, d, cs) == [meters |-> ms, delay |-> d, contents |-> cs]
AllSetups ==
    {Setup(<<Heat, Water>>, "timely", <<>>),
     Setup(<<Gas, Water>>, "timely", <<>>),
     Setup(<<Water>>, "late", <<>>),
     Setup(<<Meter("heat", "wildcard", "MAIN", 60), Meter("heat", "bad", "MAIN", 60)>>,
           "timely", Contents)}

ReadingParts ==
    [s \in {"water", "gas", "heat"} |-> IF s = "water" THEN 3 ELSE IF s = "gas" THEN 1 ELSE 0]
=============================================================================
