-------------------------- MODULE CalculatedFields --------------------------
(* Calculated fields: they are added to the fields of the driver when the   *)
(* meter is made, and each telegram calculates them, in order and twice,    *)
(* when its own fields have been taken.                                     *)
EXTENDS FieldExtraction, Formula

CONSTANT
    Calculations(_)  \* the calculated fields of the meters that send a content:
                     \* a set of sequences of [vname, display_unit, tokens]

VARIABLES
    calculations,  \* the calculated fields that are still to be added
    considered,    \* those that have been considered, with what parse made of them
    calculated_,   \* the calculated fields of the meter
    round,         \* how often the telegram has calculated them all
    next           \* index of the one to calculate next

calculationVars == <<calculations, considered, calculated_, round, next>>
allVars == <<contentVars, calculationVars>>

\* A meter as the driver describes it, or one with calculated fields too.
MeterInit ==
    /\ ContentInit
    /\ considered = <<>> /\ calculated_ = <<>> /\ round = 0 /\ next = 1
    /\ calculations \in {<<>>} \cup Calculations(content.bytes)

-----------------------------------------------------------------------------
\* The name of a field that tells storage numbers is not the name it is
\* declared with.
field_infos_ == SelectSeq(Fields, LAMBDA f : ~f.counted) \o calculated_
Name(f) == [vname |-> f.vname, unit |-> f.display_unit, counter |-> 0]
getNumericValue(name) == IF name \in DOMAIN numeric_values_ THEN numeric_values_[name] ELSE NaN
Values == [i \in DOMAIN field_infos_ |-> getNumericValue(Name(field_infos_[i]))]

canConvert(from, to) == from = to \/ (from \in DOMAIN Conversions /\ to \in DOMAIN Conversions[from])
aborted == \E i \in DOMAIN considered : considered[i].parsed.aborted

\* addExtraCalculatedField
AddCalculatedField ==
    /\ calculations # <<>> /\ ~aborted
    /\ LET c == Head(calculations)
           existing == findFieldInfo(field_infos_, c.vname, Quantity(c.display_unit))
           conflict == existing # 0 /\ ~canConvert(c.display_unit, field_infos_[existing].display_unit)
           parsed == parse(c.tokens, field_infos_)
       IN /\ considered' = IF conflict THEN considered
                           ELSE Append(considered, [field |-> c, parsed |-> parsed])
          /\ calculated_' = IF conflict \/ ~parsed.valid_ THEN calculated_
                            ELSE Append(calculated_,
                                    [vname |-> c.vname, display_unit |-> c.display_unit,
                                     op_stack_ |-> parsed.op_stack_])
    /\ calculations' = Tail(calculations)
    /\ UNCHANGED <<contentVars, round, next>>

\* performExtraction, and then performCalculation, of a calculated field.
CalculateField ==
    /\ extracting = "done" /\ round < 2 /\ next \in DOMAIN calculated_
    /\ LET f == calculated_[next]
       IN numeric_values_' =
              setNumericValue(Name(f), calculate(f.op_stack_, f.display_unit, field_infos_, Values))
    /\ IF next = Len(calculated_) THEN round' = round + 1 /\ next' = 1
       ELSE round' = round /\ next' = next + 1
    /\ UNCHANGED <<vars, extracting, later, pending, field, current_match_nr, before>>
    /\ UNCHANGED <<calculations, considered, calculated_>>

Calculated == calculated_ = <<>> \/ round = 2
HandleContent ==
    /\ calculations = <<>> /\ ~aborted
    /\ Parse \/ StartFields \/ TakeEntry \/ NextField
    /\ UNCHANGED calculationVars
NextHandled ==
    /\ Calculated /\ NextContent
    /\ round' = 0
    /\ UNCHANGED <<calculations, considered, calculated_, next>>
Rest == aborted \/ (extracting = "done" /\ Calculated)
MeterNext == AddCalculatedField \/ CalculateField \/ HandleContent \/ NextHandled \/ (Rest /\ UNCHANGED allVars)
MeterSpec == MeterInit /\ [][MeterNext]_allVars

-----------------------------------------------------------------------------
(* What a formula means: operators are applied from the left to the right,  *)
(* and parentheses group.                                                   *)

RECURSIVE Trees(_), Operands(_)
Leaf(token, unit) == [leaf |-> token, unit |-> SIUnit[unit]]
Trees(s) ==
    Operands(s) \cup
    UNION {{[op |-> s[i], args |-> <<l, r>>] :
                l \in Trees(SubSeq(s, 1, i - 1)), r \in Operands(SubSeq(s, i + 1, Len(s)))} :
           i \in {j \in 2..(Len(s) - 1) : Type(s, j) \in Binary}}
Operands(s) ==
    CASE Len(s) = 1 /\ Type(s, 1) = "FIELD" /\ Token[s[1]].unit # "" -> {Leaf(s[1], Token[s[1]].unit)}
      [] Len(s) = 1 /\ Type(s, 1) = "TIME" -> {Leaf(s[1], "Second")}
      [] Len(s) = 1 /\ Type(s, 1) = "DATETIME" -> {Leaf(s[1], "UnixTimestamp")}
      [] Len(s) = 2 /\ Type(s, 1) = "NUMBER" /\ Type(s, 2) = "UNIT" -> {Leaf(s[1], Token[s[2]].unit)}
      [] Len(s) > 2 /\ Type(s, 1) = "(" /\ Type(s, Len(s)) = ")" -> Trees(SubSeq(s, 2, Len(s) - 1))
      [] Len(s) > 1 /\ Type(s, 1) \in Unary ->
             {[op |-> s[1], args |-> <<a>>] : a \in Operands(Tail(s))}
      [] OTHER -> {}

RECURSIVE TreeOf(_)
TreeOf(node) ==
    IF node.args = <<>> THEN [leaf |-> node.op, unit |-> node.unit]
    ELSE [op |-> node.op, args |-> [i \in DOMAIN node.args |-> TreeOf(node.args[i])]]

\* The number of a tree in SI and its exponents; NoUnit if the units do not
\* match.  Left out are operators that look at the digits of a number.
Arithmetic == {"+", "-", "*", "/", "sqrt"}
NoUnit == <<>>
RECURSIVE IsPlain(_), Meaning(_, _)
IsPlain(tree) ==
    IF "leaf" \in DOMAIN tree THEN ~isKCF(tree.unit.exp) /\ tree.unit.exp # Exp("UnixTimestamp")
    ELSE tree.op \in Arithmetic /\ \A i \in DOMAIN tree.args : IsPlain(tree.args[i])
Meaning(tree, values) ==
    IF "leaf" \in DOMAIN tree
    THEN [exp |-> tree.unit.exp,
          value |-> IF Token[tree.leaf].type = "FIELD" THEN values[tree.leaf]
                    ELSE Scaled(Number(Token[tree.leaf].val, One), tree.unit.size)]
    ELSE LET a == Meaning(tree.args[1], values)
             b == Meaning(tree.args[2], values)
             exps(E(_)) == [i \in 1..7 |-> E(i)]
         IN CASE tree.op \in {"+", "-"} ->
                     [exp |-> IF a.exp = b.exp THEN a.exp ELSE NoUnit, value |-> do_op(tree.op, a.value, b.value)]
              [] tree.op = "*" ->
                     [exp |-> IF NoUnit \in {a.exp, b.exp} THEN NoUnit ELSE exps(LAMBDA i : a.exp[i] + b.exp[i]),
                      value |-> Mul(a.value, b.value)]
              [] tree.op = "/" ->
                     [exp |-> IF NoUnit \in {a.exp, b.exp} THEN NoUnit ELSE exps(LAMBDA i : a.exp[i] - b.exp[i]),
                      value |-> Mul(a.value, Reciprocal(b.value))]
              [] tree.op = "sqrt" ->
                     [exp |-> IF a.exp = NoUnit THEN NoUnit ELSE exps(LAMBDA i : a.exp[i] \div 2),
                      value |-> IF a.value = NaN THEN NaN ELSE Root(a.value)]

FieldOf(token) == findFieldInfo(field_infos_, Token[token].vname, Quantity(Token[token].unit))
RECURSIVE FieldsOf(_)
FieldsOf(tree) ==
    IF "leaf" \in DOMAIN tree THEN {tree.leaf} \cap {t \in DOMAIN Token : Token[t].type = "FIELD"}
    ELSE UNION {FieldsOf(tree.args[i]) : i \in DOMAIN tree.args}
Readable(tree) ==
    \A t \in FieldsOf(tree) \ DVEntryCounters :
        FieldOf(t) # 0 /\ canConvertSI(SIUnit[field_infos_[FieldOf(t)].display_unit], SIUnit[Token[t].unit])
FieldValues(tree) ==
    [t \in FieldsOf(tree) |->
        IF t \in DVEntryCounters THEN NaN
        ELSE Scaled(Values[FieldOf(t)], SIUnit[field_infos_[FieldOf(t)].display_unit].size)]

\* No byte of a telegram has been read; later steps leave considered alone.
Untouched == extracting = "no" /\ data = 1

\* A formula is read as it is written: a sentence of the language has one
\* reading, from the left to the right, and parse finds it unless it refuses
\* the formula; it refuses no sum or product of measured fields and
\* constants whose units match.
FormulaIsRead ==
    Untouched => \A i \in DOMAIN considered :
        LET c == considered[i]
            trees == Trees(c.field.tokens)
        IN \A tree \in trees : Readable(tree) =>
               /\ trees = {tree}
               /\ ~c.parsed.aborted
               /\ c.parsed.valid_ => Len(c.parsed.op_stack_) = 1 /\ TreeOf(c.parsed.op_stack_[1]) = tree
               /\ IsPlain(tree) => c.parsed.valid_ = (Meaning(tree, [t \in FieldsOf(tree) |-> NaN]).exp # NoUnit)

\* A calculated field tracks the units: it shows the number that its formula
\* means, in its own unit and with the numbers that the fields in it show
\* now; and no number when the units do not match up or one of the fields
\* has none, whatever it has shown before.
CalculatedInUnits ==
    extracting = "done" /\ Calculated =>
        \A i \in DOMAIN considered :
            LET f == considered[i].field
                shown == getNumericValue(Name(f))
            IN \A tree \in Trees(f.tokens) :
                   considered[i].parsed.valid_ /\ IsPlain(tree) =>
                       LET meant == Meaning(tree, FieldValues(tree))
                       IN IF meant.exp = Exp(f.display_unit)
                          THEN SameNumber(Scaled(shown, SIUnit[f.display_unit].size), meant.value)
                          ELSE shown = NaN
=============================================================================
