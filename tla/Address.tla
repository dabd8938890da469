------------------------------- MODULE Address -------------------------------
(* Addresses of meters, the address expressions that select them, and the  *)
(* identity under which a meter keeps its state.                            *)
(*                                                                         *)
(* An id is the sequence of its digits.  As in the code, one value of each *)
(* of mfct, version and type (0xffff, 0xff, 0xff) means "any" in an         *)
(* expression, and an address that carries that value is not set apart.     *)
EXTENDS Naturals, Sequences

CONSTANTS Digits, Mfcts, Versions, Types, AnyMfct, AnyVersion, AnyType

ASSUME AnyAssumption == AnyMfct \in Mfcts /\ AnyVersion \in Versions /\ AnyType \in Types

Addresses == [id : Seq(Digits), mfct : Mfcts, version : Versions, type : Types]

AddressExpressions ==
    [id : Seq(Digits), has_wildcard : BOOLEAN, mfct : Mfcts, version : Versions,
     type : Types, filter_out : BOOLEAN, required : BOOLEAN]

IdentityModes == {"id", "id-mfct", "full", "none"}

Elements(s) == {s[i] : i \in DOMAIN s}
LastOf(s) == s[Len(s)]

\* The digits before the * are the first digits of the id; without a * they
\* are all of them.
doesIdMatchExpression(id, ae) ==
    /\ id # <<>>
    /\ Len(ae.id) <= Len(id)
    /\ \A i \in DOMAIN ae.id : ae.id[i] = id[i]
    /\ ae.has_wildcard \/ Len(ae.id) = Len(id)

match(ae, a) ==
    /\ ae.mfct \in {AnyMfct, a.mfct}
    /\ ae.version \in {AnyVersion, a.version}
    /\ ae.type \in {AnyType, a.type}
    /\ doesIdMatchExpression(a.id, ae)

\* Does some address match some expression of the given kind?
Matches(addresses, es, filter_out, required) ==
    \E a \in Elements(addresses), ae \in Elements(es) :
        ae.filter_out = filter_out /\ ae.required = required /\ match(ae, a)

\* One address matches a positive expression, none matches a negative one, and
\* a required expression, if there is one, is matched by some address.
doesTelegramMatchExpressions(addresses, es) ==
    /\ Matches(addresses, es, FALSE, FALSE)
    /\ ~Matches(addresses, es, TRUE, FALSE)
    /\ (\E ae \in Elements(es) : ae.required) => Matches(addresses, es, FALSE, TRUE)

-----------------------------------------------------------------------------

\* Fault: every identity is an id.
trimToIdentityIdOnly(mode, a) ==
    [id |-> a.id, has_wildcard |-> FALSE, mfct |-> AnyMfct, version |-> AnyVersion,
     type |-> AnyType, filter_out |-> FALSE, required |-> TRUE]

\* The required expression that stands for the identity of address a.
trimToIdentity(mode, a) ==
    [id |-> a.id, has_wildcard |-> FALSE,
     mfct |-> IF mode \in {"id-mfct", "full"} THEN a.mfct ELSE AnyMfct,
     version |-> IF mode = "full" THEN a.version ELSE AnyVersion,
     type |-> IF mode = "full" THEN a.type ELSE AnyType,
     filter_out |-> FALSE, required |-> TRUE]

\* operator== of AddressExpression does not look at required.
SameExpression(x, y) == [x EXCEPT !.required = FALSE] = [y EXCEPT !.required = FALSE]

\* The identity is the last address of a telegram.
appendIdentity(mode, addresses, es) ==
    LET identity == trimToIdentity(mode, LastOf(addresses))
    IN  IF mode = "none" \/ \E ae \in Elements(es) : SameExpression(ae, identity)
          THEN es
          ELSE Append(es, identity)

\* The part of an address under which the content of a telegram is kept.
build_id(a, mode) ==
    CASE mode \in {"id", "none"} -> <<a.id>>
      [] mode = "id-mfct" -> <<a.id, a.mfct>>
      [] mode = "full" -> <<a.id, a.mfct, a.version, a.type>>

=============================================================================
