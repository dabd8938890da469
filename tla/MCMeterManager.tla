--------------------------- MODULE MCMeterManager ---------------------------
(* Configurations and telegrams for the meter manager.                      *)
EXTENDS MeterManager

Expression(id, wildcard, version, negative) ==
    [id |-> id, has_wildcard |-> wildcard, mfct |-> AnyMfct, version |-> version,
     type |-> AnyType, filter_out |-> negative, required |-> FALSE]
Exact(id) == Expression(id, FALSE, AnyVersion, FALSE)
Prefix(id) == Expression(id, TRUE, AnyVersion, FALSE)
Not(id) == Expression(id, FALSE, AnyVersion, TRUE)
NotVersion(v) == Expression(<<>>, TRUE, v, TRUE)

Ids == {<<1, 1>>, <<1, 2>>, <<2, 1>>}
From(id, m, v) == [id |-> id, mfct |-> m, version |-> v, type |-> 1]
Telegram(addresses, undecodable, discarded) ==
    [ok |-> TRUE, addresses |-> addresses, undecodable |-> undecodable, discarded |-> discarded]
Garbage == [ok |-> FALSE, addresses |-> <<>>, undecodable |-> {}, discarded |-> FALSE]

\* Two overlapping templates, id=1*,!12 and id=1*, with meters that are separated
\* by the full address, and id=2*,!*.V=1 with meters that are separated by id and
\* manufacturer.
OverlappingTemplates ==
    << [es |-> <<Prefix(<<1>>), Not(<<1, 2>>)>>, mode |-> "full"],
       [es |-> <<Prefix(<<1>>)>>, mode |-> "full"],
       [es |-> <<Prefix(<<2>>), NotVersion(1)>>, mode |-> "id-mfct"] >>

\* id=11,21: several ids in one meter file.
SeveralIds == << [es |-> <<Exact(<<1, 1>>), Exact(<<2, 1>>)>>, mode |-> "id"] >>

NoMeters == <<>>

\* Every template can decode a telegram, the first one cannot, or none can.
Decodability == {{}, {1}, Sources}

\* Telegrams with one address, with content or discarded, and garbage.
SingleTelegrams ==
    {Garbage} \cup
    {Telegram(<<From(id, 1, v)>>, u, FALSE) : id \in Ids, v \in {1, 2}, u \in Decodability} \cup
    {Telegram(<<From(<<2, 1>>, 2, 2)>>, {}, FALSE)} \cup
    {Telegram(<<From(<<1, 1>>, 1, 2)>>, {}, TRUE)}

\* Telegrams of one manufacturer and version.
PlainTelegrams == {t \in SingleTelegrams : t.ok => t.addresses[1].mfct = 1 /\ t.addresses[1].version = 1}

=============================================================================
