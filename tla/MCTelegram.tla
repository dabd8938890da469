----------------------------- MODULE MCTelegram -----------------------------
(* Six devices and five meters.  Device d1 encrypts the extended link layer *)
(* and sends compact telegrams, d2 uses default keys, d3 has its number in  *)
(* the transport layer, d4 does not encrypt, d5 uses DES, d6 is by Diehl.   *)
EXTENDS DecodeService

MCMeters == <<
    [ids |-> {"d1", "d4", "d6"}, key |-> NoKey, default_keys |-> <<>>],
    [ids |-> {"d1"}, key |-> "k1", default_keys |-> <<"q1">>],
    [ids |-> {"d2"}, key |-> NoKey, default_keys |-> <<"q1", "q2">>],
    [ids |-> {"t3"}, key |-> "k3", default_keys |-> <<>>],
    [ids |-> {"d5", "e5"}, key |-> "k5", default_keys |-> <<>>] >>

MCDrivers == {[name |-> "multi", mts |-> {"A"}, formats |-> {"declared"}, default_keys |-> <<>>],
              [name |-> "fixed", mts |-> {"C"}, formats |-> {}, default_keys |-> <<"q1">>]}

Base == [type |-> "WMBUS", dll |-> "d4", mt |-> "B", cut |-> "", ell |-> "", ell_key |-> Plain, ell_id |-> "none",
         afl |-> "", ci |-> "72", tpl_id |-> "t4", mode |-> "NoSecurity", kdf |-> 0, key |-> Plain,
         diehl |-> "NA", size |-> 32, blocks |-> 0, encrypted |-> 0, days_ago |-> 0, simulated |-> FALSE,
         content |-> [format |-> "f", value |-> 1]]

Format(f) == [format |-> f, value |-> 2]

\* Extended link layer, encrypted from the start.
FromD1 ==
    LET b == [Base EXCEPT !.dll = "d1", !.mt = "A", !.ell = "II", !.ell_key = "k1"]
    IN {[b EXCEPT !.ci = "78", !.content = Format("g")], [b EXCEPT !.ci = "79", !.content = Format("g")],
        [b EXCEPT !.ci = "79", !.content = Format("declared")], [b EXCEPT !.ci = "7A"],
        [b EXCEPT !.ci = "78", !.ell_key = "k9"], [b EXCEPT !.ell = "V"], [b EXCEPT !.cut = "ell"]}

\* Mode 5 with a key of the driver, another key, no encryption, or too short.
FromD2 ==
    LET b == [Base EXCEPT !.dll = "d2", !.ci = "7A", !.mode = "AES_CBC_IV", !.size = 56, !.blocks = 2, !.encrypted = 32]
    IN {[b EXCEPT !.key = k] : k \in {"q1", "q2", "k9"}}
       \union {[b EXCEPT !.encrypted = 0], [b EXCEPT !.key = "q1", !.size = 8, !.blocks = 0, !.encrypted = 8]}

\* Long header with its own number: mode 7 with mac, mode 5, damaged layers.
FromD3 ==
    LET b == [Base EXCEPT !.dll = "d3", !.mt = "A", !.tpl_id = "t3", !.key = "k3", !.encrypted = 32, !.size = 56, !.blocks = 2]
        seven == [b EXCEPT !.mode = "AES_CBC_NO_IV", !.kdf = 1, !.afl = "mac"]
    IN {seven, [seven EXCEPT !.ci = "73"], [seven EXCEPT !.ci = "73", !.content = Format("declared")],
        [seven EXCEPT !.key = "k9"], [seven EXCEPT !.key = Plain, !.encrypted = 0], [seven EXCEPT !.afl = "bad mac"],
        [b EXCEPT !.mode = "AES_CBC_IV"], [b EXCEPT !.mode = "AES_CBC_IV", !.diehl = "OMS"],
        [b EXCEPT !.ci = "7B", !.mode = "AES_CBC_IV"], [b EXCEPT !.key = Plain, !.encrypted = 0],
        [b EXCEPT !.mode = "AES_CBC_IV", !.cut = "cfg"], [b EXCEPT !.mode = "AES_CBC_IV", !.cut = "afl"]}

\* Not encrypted, or in ways that a meter without key meets.
FromD4 ==
    LET seven == [Base EXCEPT !.mode = "AES_CBC_NO_IV", !.key = "k4", !.encrypted = 32, !.afl = "mac"]
    IN {Base, [Base EXCEPT !.ci = "73"], [Base EXCEPT !.ci = "78", !.ell = "I"], [Base EXCEPT !.ci = "79"],
        [Base EXCEPT !.ci = "7B", !.ell = "II"], [Base EXCEPT !.ci = "mfct"], [Base EXCEPT !.ci = "unknown"],
        [Base EXCEPT !.cut = "dll"], [Base EXCEPT !.cut = "nwl"], [Base EXCEPT !.cut = "tpl"], [Base EXCEPT !.type = "HAN"],
        seven, [seven EXCEPT !.kdf = 1], [seven EXCEPT !.kdf = 1, !.simulated = TRUE],
        [Base EXCEPT !.mode = "other", !.key = "k4", !.encrypted = 32]}

\* DES, and wired telegrams.
FromD5 ==
    LET b == [Base EXCEPT !.dll = "d5", !.key = "k5", !.mode = "DES_NO_IV", !.encrypted = 32]
    IN {b, [b EXCEPT !.size = 36], [b EXCEPT !.encrypted = 24], [b EXCEPT !.key = "k9"], [b EXCEPT !.size = 7, !.encrypted = 0]}
       \union {[b EXCEPT !.mode = "DES_IV", !.days_ago = d, !.ell = "III", !.ell_id = "e5", !.dll = "d7"] : d \in {2, 3}}
       \union {[b EXCEPT !.type = "MBUS", !.mode = "AES_CBC_IV", !.key = k] : k \in {"k5", "k9"}}
       \union {[b EXCEPT !.type = "MBUS", !.mode = "NoSecurity", !.key = Plain, !.encrypted = 0],
               [b EXCEPT !.type = "MBUS", !.ci = "78"], [b EXCEPT !.type = "MBUS", !.cut = "dll"]}

\* Diehl: mode 5 with the default key, and scrambled real data.
FromD6 ==
    LET b == [Base EXCEPT !.dll = "d6", !.ci = "7A", !.mode = "AES_CBC_IV", !.encrypted = 32, !.diehl = "OMS"]
        real == [b EXCEPT !.mode = "SPECIFIC_16_31", !.diehl = "REAL_DATA"]
    IN {[b EXCEPT !.key = k] : k \in {PriosAESKey, "k9"}}
       \union {[real EXCEPT !.key = k, !.simulated = s] : k \in {"prios1", "k9", Plain}, s \in BOOLEAN}
       \union {[real EXCEPT !.diehl = "NA", !.key = "k9"]}

MCAir == FromD1 \union FromD2 \union FromD3 \union FromD4 \union FromD5 \union FromD6

\* The decoding service: the same number from two manufacturers, right and wrong
\* keys, a compact telegram whose format a receiver may hear, and bad lines.
Decode(a, key, driver) == [cmd |-> "decode", telegram |-> a, key |-> key, driver |-> driver]
Full == [Base EXCEPT !.dll = "d1", !.mt = "A", !.ell = "II", !.ell_key = "k1", !.ci = "78", !.content = Format("g")]
Compact == [Full EXCEPT !.ci = "79"]
WithDefault == [Base EXCEPT !.dll = "d8", !.mt = "C", !.ci = "7A", !.mode = "AES_CBC_IV", !.key = "q1", !.encrypted = 32]
MCLines == {Decode(Compact, "k1", "auto"), Decode(Full, NoKey, "auto"), Decode([Base EXCEPT !.dll = "d1"], "k1", "auto"),
            Decode(WithDefault, NoKey, "auto"), Decode([WithDefault EXCEPT !.key = "k9"], NoKey, "none"),
            [Garbage EXCEPT !.cmd = "list_drivers"], Garbage}
MCHeard == {Full, Base}

=============================================================================
