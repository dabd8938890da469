------------------------------- MODULE Formula -------------------------------
(* The formulas of calculated fields: how a sequence of tokens becomes a    *)
(* tree on the stack of operands, and how the tree is calculated with the   *)
(* units of its parts.  A token is a string that Token describes.  An       *)
(* assertion that fails ends the program.                                   *)
EXTENDS Numbers, CompactProfile, Bitwise

CONSTANT Token  \* token -> [type, and val of a number or time, unit, vname]

-----------------------------------------------------------------------------
(* Units in formulas.                                                       *)

Exp(unit) == SIUnit[unit].exp
isKCF(exp) == exp \in {Exp("K"), Exp("C"), Exp("F")}
getScaleOffset(exp) ==
    CASE exp = Exp("K") -> [scale |-> One, offset |-> Number(0, One)]
      [] exp = Exp("C") -> [scale |-> One, offset |-> Number(27315, Ten(-2))]
      [] exp = Exp("F") -> [scale |-> <<0, -2, 1>>, offset |-> Number(45967, Ten(-2))]

canConvertSI(from, to) == from.exp = to.exp \/ (isKCF(from.exp) /\ isKCF(to.exp))
\* Fault: units of the same dimension are taken for the same unit.
convertToUnscaled(v, from, to) == IF canConvertSI(from, to) THEN v ELSE NaN
convertTo(v, from, to) ==
    IF from.exp = to.exp THEN Scaled(v, Over(from.size, to.size))
    ELSE IF ~canConvertSI(from, to) THEN NaN
    ELSE LET f == getScaleOffset(from.exp)
             t == getScaleOffset(to.exp)
         IN Add(Scaled(Add(v, f.offset),
                       Over(Times(f.scale, from.size), Times(t.scale, to.size))),
                Neg(t.offset))

do_op(op, v, w) == Add(v, IF op = "+" THEN w ELSE Neg(w))
Refused == [ok |-> FALSE, unit |-> SIUnit.COUNTER, value |-> NaN]
\* The sum or difference, in the unit on the right or as a point in time.  A
\* point in time on the right is moved to the left.
mathOpTo(op, l, lu, r, ru) ==
    LET Done(unit, value) == [ok |-> TRUE, unit |-> unit, value |-> value]
        ut == SIUnit.UnixTimestamp
        Shifted(t, d, du) == Done(ut, do_op(op, t, convertTo(d, du, SIUnit.Second)))
    IN CASE lu.exp = ru.exp /\ op = "+" /\ lu.exp = ut.exp -> Refused
         [] canConvertSI(lu, ru) -> Done(ru, do_op(op, convertTo(l, lu, ru), r))
         [] lu.exp = ut.exp /\ ru.exp = Exp("Second") -> Shifted(l, r, ru)
         [] ru.exp = ut.exp /\ lu.exp = Exp("Second") -> Shifted(r, l, lu)
         [] OTHER -> Refused

\* Exponents have eight bits.
int8(n) == ((n + 128) % 256) - 128
mulUnit(u, w) ==
    [size |-> Times(u.size, w.size), exp |-> [i \in DOMAIN u.exp |-> int8(u.exp[i] + w.exp[i])]]
divUnit(u, w) ==
    [size |-> Over(u.size, w.size), exp |-> [i \in DOMAIN u.exp |-> int8(u.exp[i] - w.exp[i])]]
Half(n) == IF n < 0 THEN -((-n) \div 2) ELSE n \div 2
sqrtUnit(u) ==
    [size |-> [i \in 1..3 |-> u.size[i] \div 2], exp |-> [i \in DOMAIN u.exp |-> Half(u.exp[i])]]

-----------------------------------------------------------------------------
(* Parsing.  The parser is at token i, op_stack_ holds the trees so far.    *)

Relations == {"==", "!=", "<", ">", "<=", ">=", "&&", "||"}
BitOps == {"&", "|", "^", "<<", ">>"}
Binary == {"+", "-", "*", "/", "%", "**"} \cup Relations \cup BitOps
Unary == {"sqrt", "round", "floor", "ceil"}

Start == [i |-> 1, op_stack_ |-> <<>>, valid_ |-> TRUE, aborted |-> FALSE]
Invalid(p) == [p EXCEPT !.valid_ = FALSE]
Abort(p) == [p EXCEPT !.valid_ = FALSE, !.aborted = TRUE]
At(p, i) == [p EXCEPT !.i = i]
Type(tokens, i) == IF i \in DOMAIN tokens THEN Token[tokens[i]].type ELSE "end"

Node(op, unit, args) == [op |-> op, unit |-> unit, args |-> args]
Push(p, node) == [p EXCEPT !.op_stack_ = Append(@, node)]
\* Fault: the operands are taken from the stack in the wrong order.
CombineSwapped(p, op, n, unit) ==
    LET rest == Len(p.op_stack_) - n
    IN [p EXCEPT !.op_stack_ =
            Append(SubSeq(@, 1, rest), Node(op, unit, Reverse(SubSeq(@, rest + 1, rest + n))))]
\* The n trees on top become the parts of one.
Combine(p, op, n, unit) ==
    LET rest == Len(p.op_stack_) - n
    IN [p EXCEPT !.op_stack_ =
            Append(SubSeq(@, 1, rest), Node(op, unit, SubSeq(@, rest + 1, rest + n)))]

handleBinary(p, op) ==
    IF Len(p.op_stack_) < 2 THEN Abort(p)
    ELSE LET right == p.op_stack_[Len(p.op_stack_)].unit
             left == p.op_stack_[Len(p.op_stack_) - 1].unit
             sum == mathOpTo(op, Number(0, One), left, Number(0, One), right)
         IN CASE op \in {"+", "-"} -> IF sum.ok THEN Combine(p, op, 2, sum.unit) ELSE Invalid(p)
              [] op = "*" -> Combine(p, op, 2, mulUnit(left, right))
              [] op = "/" -> Combine(p, op, 2, divUnit(left, right))
              [] op = "**" -> Combine(p, op, 2, left)
              [] op \in {"%", "<<", ">>"} ->
                     IF left.exp = Exp("COUNTER") /\ right.exp = Exp("COUNTER")
                     THEN Combine(p, op, 2, SIUnit.COUNTER)
                     ELSE Invalid(p)
              [] OTHER -> Combine(p, op, 2, SIUnit.COUNTER)
handleUnary(p, op) ==
    IF p.op_stack_ = <<>> THEN Abort(p)
    ELSE LET unit == p.op_stack_[Len(p.op_stack_)].unit
         IN Combine(p, op, 1, IF op = "sqrt" THEN sqrtUnit(unit) ELSE unit)

\* A name without a unit is an error that leaves the formula valid.  known
\* are the fields of the meter, in order.
Quantity(unit) ==
    CASE unit \in {"Second", "Minute", "Hour", "Day"} -> "Time"
      [] unit \in {"WH", "KWH", "MJ", "GJ", "M3C"} -> "Energy"
      [] unit \in {"W", "KW", "JH", "MJH", "M3CH"} -> "Power"
      [] unit \in {"M3", "L"} -> "Volume"
      [] unit \in {"M3H", "LH"} -> "Flow"
      [] unit \in {"K", "C", "F"} -> "Temperature"
      [] unit \in {"PA", "BAR"} -> "Pressure"
      [] unit \in {"UnixTimestamp", "DateLT"} -> "PointInTime"
      [] unit \in {"COUNTER", "PERCENTAGE"} -> "Dimensionless"
      [] unit = "M" -> "Length"
      [] unit = "RH" -> "RelativeHumidity"
      [] unit = "HCA" -> "HCA"
findFieldInfo(known, vname, quantity) ==
    LET found == {i \in DOMAIN known : known[i].vname = vname /\ Quantity(known[i].display_unit) = quantity}
    IN IF found = {} THEN 0 ELSE Min(found)
DVEntryCounters == {"storage_counter", "tariff_counter", "subunit_counter"}
handleField(p, token, known) ==
    LET t == Token[token]
        f == findFieldInfo(known, t.vname, Quantity(t.unit))
    IN CASE t.unit = "" -> p
         [] token \in DVEntryCounters -> Push(p, Node(token, SIUnit.COUNTER, <<>>))
         [] token \notin DVEntryCounters /\ t.unit # "" ->
                IF f = 0 THEN Invalid(p)
                ELSE IF ~canConvertSI(SIUnit[known[f].display_unit], SIUnit[t.unit]) THEN Abort(p)
                ELSE Push(p, Node(token, SIUnit[t.unit], <<>>))

RECURSIVE parseOps(_, _, _), ParseUntil(_, _, _, _)
\* parse one operand after the other, up to a token of the types in stops.
ParseOn(tokens, p, next, stops, known) ==
    IF ~next.valid_ \/ next.i = p.i THEN At(next, p.i) ELSE ParseUntil(tokens, next, stops, known)
ParseUntil(tokens, p, stops, known) ==
    IF Type(tokens, p.i) \in stops THEN p
    ELSE ParseOn(tokens, p, parseOps(tokens, p, known), stops, known)
\* The token after what was parsed has to be the one given.
Closed(tokens, p, type) ==
    IF p.valid_ /\ Type(tokens, p.i) # type THEN Invalid(p) ELSE At(p, p.i + 1)
parsePar(tokens, p, known) ==
    Closed(tokens, ParseUntil(tokens, At(p, p.i + 1), {"end", ")"}, known), ")")
ArgumentEnd(tokens, p, type) == IF p.valid_ THEN Closed(tokens, p, type) ELSE p
ParseArguments(tokens, p, types, known) ==
    FoldLeft(LAMBDA q, type :
                 IF ~q.valid_ THEN q
                 ELSE ArgumentEnd(tokens, ParseUntil(tokens, q, {"end", ",", ")"}, known), type),
             p, types)
MakeDate(p) ==
    IF ~p.valid_ THEN p
    ELSE IF Len(p.op_stack_) < 3 THEN Abort(p)
    ELSE Combine(p, "mkdate", 3, SIUnit.UnixTimestamp)
parseMkDate(tokens, p, known) ==
    IF Type(tokens, p.i + 1) # "(" THEN Invalid(p)
    ELSE MakeDate(ParseArguments(tokens, At(p, p.i + 2), <<",", ",", ")">>, known))
HandleOperator(p, type) ==
    IF ~p.valid_ THEN p ELSE IF type \in Binary THEN handleBinary(p, type) ELSE handleUnary(p, type)
parseOps(tokens, p, known) ==
    LET type == Type(tokens, p.i)
    IN CASE type = "FIELD" -> At(handleField(p, tokens[p.i], known), p.i + 1)
         [] type = "DATETIME" -> At(Push(p, Node(tokens[p.i], SIUnit.UnixTimestamp, <<>>)), p.i + 1)
         [] type = "TIME" -> At(Push(p, Node(tokens[p.i], SIUnit.Second, <<>>)), p.i + 1)
         [] type \in Binary \cup Unary -> HandleOperator(parseOps(tokens, At(p, p.i + 1), known), type)
         [] type = "mkdate" -> parseMkDate(tokens, p, known)
         [] type = "(" -> parsePar(tokens, p, known)
         [] type = "NUMBER" ->
                IF Type(tokens, p.i + 1) # "UNIT" THEN Invalid(p)
                ELSE At(Push(p, Node(tokens[p.i], SIUnit[Token[tokens[p.i + 1]].unit], <<>>)), p.i + 2)
         [] type \in {"end", ",", ")", "UNIT"} -> p

\* What parse and go leave.
AllParsed(tokens, p) == IF p.i = Len(tokens) + 1 THEN p ELSE Invalid(p)
parse(tokens, known) == AllParsed(tokens, ParseUntil(tokens, Start, {"end"}, known))

-----------------------------------------------------------------------------
(* Calculating.  value[i] is the number of the i-th field of known.  No     *)
(* record of a telegram belongs to a calculated field, so that the counters *)
(* of a record have no number.                                              *)

Truth(b) == Number(IF b THEN 1 ELSE 0, One)
IsZero(v) == v # NaN /\ v.raw = 0
Related(op, v, w) ==
    CASE op = "==" -> v # NaN /\ SameNumber(v, w)
      [] op = "!=" -> v = NaN \/ ~SameNumber(v, w)
      [] op = "<" -> Less(v, w)
      [] op = ">" -> Less(w, v)
      [] op = "<=" -> Less(v, w) \/ (v # NaN /\ SameNumber(v, w))
      [] op = ">=" -> Less(w, v) \/ (v # NaN /\ SameNumber(v, w))
      [] op = "&&" -> ~IsZero(v) /\ ~IsZero(w)
      [] op = "||" -> ~IsZero(v) \/ ~IsZero(w)
\* std::round and llround: halves away from zero.
Round(v) ==
    IF v = NaN \/ v.over = 0 THEN v
    ELSE IF v.raw < 0 THEN Neg(Floor(Add(Neg(v), Number(5, Ten(-1)))))
    ELSE Floor(Add(v, Number(5, Ten(-1))))
\* Bits of whole numbers that are not negative.
BitOp(op, v, w) ==
    LET a == Round(v).raw
        b == Round(w).raw
    IN CASE op = "&" -> Number(a & b, One)
         [] op = "|" -> Number(a | b, One)
         [] op = "^" -> Number(a ^^ b, One)
         [] op \in {"<<", ">>"} /\ (Less(w, Number(0, One)) \/ Less(Number(63, One), w)) -> NaN
         [] op = "<<" /\ b \in 0..63 -> Number(a * 2^b, One)
         [] op = ">>" /\ b \in 0..63 -> Number(a \div 2^b, One)
\* fmod has the sign of the number on the left.
Fmod(v, w) ==
    LET q == Mul(v, Reciprocal(w))
    IN IF v = NaN \/ w = NaN \/ IsZero(w) THEN NaN
       ELSE Add(v, Neg(Mul(w, IF q.raw < 0 THEN Neg(Floor(Neg(q))) ELSE Floor(q))))
\* For a whole exponent.
Pow(v, w) == IF v = NaN \/ w = NaN THEN NaN ELSE FoldLeft(Mul, Number(1, One), [i \in 1..w.raw |-> v])
\* The days of a date that exists, in seconds.
MkDate(year, month, day) ==
    LET date == [year |-> Round(year).raw, month |-> Round(month).raw, day |-> Round(day).raw, second |-> 0]
    IN IF date.month <= 0 \/ date.day <= 0 THEN NaN ELSE Number(DayNr(date), <<7, 3, 2>>)

RECURSIVE calculateNode(_, _, _, _)
calculateNode(node, to, known, value) ==
    LET Part(i, unit) == calculateNode(node.args[i], unit, known, value)
        Own(i) == Part(i, node.args[i].unit)
        Counter(i) == Part(i, SIUnit.COUNTER)
        sum == mathOpTo(node.op, Own(1), node.args[1].unit, Own(2), node.args[2].unit)
        field == findFieldInfo(known, Token[node.op].vname, Quantity(Token[node.op].unit))
    IN CASE node.op \in {"+", "-"} -> convertTo(sum.value, sum.unit, to)
         [] node.op = "*" -> convertTo(Mul(Own(1), Own(2)), node.unit, to)
         [] node.op = "/" -> convertTo(Mul(Own(1), Reciprocal(Own(2))), node.unit, to)
         [] node.op = "**" -> convertTo(Pow(Part(1, to), Part(2, to)), node.unit, to)
         [] node.op = "%" -> Fmod(Counter(1), Counter(2))
         [] node.op \in Relations -> Truth(Related(node.op, Counter(1), Counter(2)))
         [] node.op \in BitOps -> BitOp(node.op, Counter(1), Counter(2))
         [] node.op = "sqrt" -> IF Own(1) = NaN THEN NaN ELSE convertTo(Root(Own(1)), node.unit, to)
         [] node.op = "round" -> Round(Own(1))
         [] node.op = "floor" -> IF Own(1) = NaN THEN NaN ELSE Floor(Own(1))
         [] node.op = "ceil" -> IF Own(1) = NaN THEN NaN ELSE Neg(Floor(Neg(Own(1))))
         [] node.op = "mkdate" -> MkDate(Counter(1), Counter(2), Counter(3))
         [] node.op \in DVEntryCounters -> NaN
         [] OTHER ->
                IF Token[node.op].type = "FIELD"
                THEN convertTo(value[field], SIUnit[known[field].display_unit], to)
                ELSE convertTo(Number(Token[node.op].val, One), node.unit, to)

\* A formula that is not one tree gives no number.
calculate(op_stack_, unit, known, value) ==
    IF Len(op_stack_) # 1 THEN NaN ELSE calculateNode(op_stack_[1], SIUnit[unit], known, value)
=============================================================================
