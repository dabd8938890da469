------------------------------- MODULE Numbers -------------------------------
(* The doubles of the program as exact numbers: (raw / over) * factor, with *)
(* NaN and the infinities (over = 0).                                       *)
EXTENDS Units, FiniteSetsExt

NaN == [raw |-> 0, over |-> 1, factor |-> <<>>]
Number(raw, factor) == [raw |-> raw, over |-> 1, factor |-> factor]
Quotient(raw, over, factor) ==
    CASE over > 0 -> [raw |-> raw, over |-> over, factor |-> factor]
      [] over < 0 -> [raw |-> -raw, over |-> -over, factor |-> factor]
      [] over = 0 /\ raw = 0 -> NaN
      [] OTHER -> [raw |-> IF raw > 0 THEN 1 ELSE -1, over |-> 0, factor |-> One]

\* Two numbers as whole multiples of the same number.
Common(f, g) == [i \in 1..3 |-> Min({f[i], g[i]})]
Whole(f) == 2^f[1] * 3^f[2] * 5^f[3]
Multiple(v, w) ==
    IF v.over = 0 /\ w.over = 0 THEN v.raw
    ELSE v.raw * w.over * Whole(Over(v.factor, Common(v.factor, w.factor)))

SameNumber(v, w) ==
    /\ (v = NaN) = (w = NaN)
    /\ v # NaN => Multiple(v, w) = Multiple(w, v)
Less(v, w) == v # NaN /\ w # NaN /\ Multiple(v, w) < Multiple(w, v)

Add(v, w) ==
    CASE v = NaN \/ w = NaN -> NaN
      [] v.over = 0 /\ w.over = 0 -> IF v.raw = w.raw THEN v ELSE NaN
      [] OTHER -> Quotient(Multiple(v, w) + Multiple(w, v), v.over * w.over,
                           Common(v.factor, w.factor))
Mul(v, w) ==
    IF v = NaN \/ w = NaN THEN NaN
    ELSE Quotient(v.raw * w.raw, v.over * w.over, Times(v.factor, w.factor))
Neg(v) == IF v = NaN THEN NaN ELSE [v EXCEPT !.raw = -v.raw]
Reciprocal(v) == IF v = NaN THEN NaN ELSE Quotient(v.over, v.raw, Over(One, v.factor))
Scaled(v, factor) == Mul(v, Number(1, factor))

\* Of numbers that are a whole number, or a square.
Floor(v) ==
    LET f == Common(v.factor, One)
    IN Number((v.raw * Whole(Over(v.factor, f))) \div (v.over * Whole(Over(One, f))), One)
Root(v) ==
    LET root == [n \in {v.raw, v.over} |-> CHOOSE r \in 0..n : r * r = n]
    IN Quotient(root[v.raw], root[v.over], [i \in 1..3 |-> v.factor[i] \div 2])
=============================================================================
