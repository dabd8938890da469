---------------------------- MODULE MCFrameReader ----------------------------
(* Wires on which every driver meets the messages it knows, cut anywhere,   *)
(* and noise that looks like the beginning of one.                          *)
EXTENDS FrameReader, SequencesExt

\* The wire with these items.
Wire(dev, its) ==
    LET prefix(k) == FoldLeft(LAMBDA s, i : s \o i.bytes, <<>>, SubSeq(its, 1, k))
    IN [device |-> dev, items |-> its, sent |-> TRUE,
        bytes |-> prefix(Len(its)), ends |-> [k \in DOMAIN its |-> Len(prefix(k))]]

\* The telegram number i, with bytes that mean something to some driver.
Frame(i) == <<10, 68, i, 165, 192, 219, 104, 3, 255, 5, i>>
Telegram(bytes, i) == [kind |-> "telegram", bytes |-> bytes, frame |-> Frame(i)]
Response(bytes, frame) == [kind |-> "response", bytes |-> bytes, frame |-> frame]
Other(bytes) == [kind |-> "other", bytes |-> bytes, frame |-> <<>>]
Noise(bytes) == [kind |-> "noise", bytes |-> bytes, frame |-> <<>>]
HexOf(bytes) == [i \in DOMAIN bytes |-> Hex(bytes[i])]
Nibbles(bytes) == [i \in 1..2 * Len(bytes) |->
                     2000 + (IF i % 2 = 1 THEN bytes[(i + 1) \div 2] \div 16 ELSE bytes[i \div 2] % 16)]

IM(i) == Telegram(<<165, 2, 3>> \o Frame(i), i)
IMSigned(i) == Telegram(<<165, 194, 3>> \o Frame(i) \o <<165, CRC, BADCRC>>, i)
IMPong == Response(<<165, 1, 2, 0>>, <<>>)
IMWires == {
    Wire("im871a", <<IM(1), IMPong, Other(<<1, 2>>), IMSigned(2), IM(1)>>),
    Wire("im871a", <<IM(1), Noise(<<165, 1, 2, 12>>), IM(2), IM(3), IMSigned(4)>>),
    Wire("im871a", <<Noise(<<165, 0, 1>>), IM(1), IM(2), IM(3)>>)}

AMB(i) == Telegram(Frame(i), i)
AMBCommand(i) == Telegram(<<255, 3>> \o Frame(i) \o <<9>>, i)
AMBSet == Response(<<255, 132, 1, 0, 122>>, <<1, 0>>)
AMBWires == {
    Wire("amb8465", <<AMB(1), AMBSet, AMBCommand(2), AMB(3)>>),
    Wire("amb8465", <<AMB(1), Noise(<<1, 2>>), AMB(2), AMBSet>>),
    Wire("amb8465", <<Noise(<<255, 3, 14>>), AMB(1), AMB(2), AMB(3)>>)}

RCWires == {
    Wire("rc1180", <<AMB(1), AMB(2), AMB(1)>>),
    Wire("rc1180", <<Noise(<<16, 68>>), AMB(1), AMB(2), AMB(3)>>),
    Wire("rawtty", <<AMB(1), Noise(<<0, 68>>), AMB(2), AMB(3), AMB(4)>>)}
HexTTY(i) == Telegram(Nibbles(Frame(i)), i)
HexWires == {Wire("hextty", <<HexTTY(1), Other(<<TEXT>>), HexTTY(2)>>)}

MBusBytes(c) == <<104, 3, 3, 104, 8, c, 22, 30 + c, 22>>
MBus(c) == [Telegram(MBusBytes(c), c) EXCEPT !.frame = MBusBytes(c)]
MBusAck == [Telegram(<<229>>, 0) EXCEPT !.frame = <<229>>]
MBusWires == {
    Wire("mbus", <<MBus(1), MBusAck, MBus(2), MBus(2)>>),
    Wire("mbus", <<MBus(1), Noise(<<104, 9, 9, 104>>), MBus(2), MBus(3), MBus(4)>>)}

\* Frame format A and B as a cul sends them: checksums, lqi, rssi, CRLF.
CRCs == <<CRC, CRC>>
CULA(i) == Telegram(<<98>> \o HexOf(<<14>> \o SubSeq(Frame(i), 2, 10) \o CRCs \o <<i>> \o CRCs \o <<7, 7>>) \o <<CR, LF>>, i)
CULB(i) == Telegram(<<98, 89>> \o HexOf(<<12>> \o SubSeq(Frame(i), 2, 11) \o CRCs \o <<7, 7>>) \o <<LF>>, i)
CULBad == Noise(<<98>> \o HexOf(<<14>> \o SubSeq(Frame(1), 2, 10) \o <<BADCRC, CRC>> \o <<1>> \o CRCs \o <<7, 7>>) \o <<CR, LF>>)
CULWires == {
    Wire("cul", <<CULA(1), CULB(2), CULA(3), CULA(1)>>),
    Wire("cul", <<CULA(1), Noise(<<CMODE, LF>>), CULB(2), CULBad, CULA(3), CULB(4)>>),
    Wire("cul", <<Noise(<<98, BADHEX>>), CULA(1), CULB(2), CULA(3)>>)}

RTLHead == <<T1, SEMICOLON, ONE, SEMICOLON, ONE, SEMICOLON, TIME, SEMICOLON, TEXT, SEMICOLON, ZEROX>>
RTL(i) == Telegram(RTLHead \o HexOf(Frame(i)) \o <<LF>>, i)
RTLTwo(i) == Telegram(RTLHead \o HexOf(Frame(i)) \o <<SEMICOLON, ZEROX>> \o HexOf(Frame(9)) \o <<LF>>, i)
RTLWires == {
    Wire("rtlwmbus", <<RTL(1), Other(<<TEXT, LF>>), RTLTwo(2), Other(<<EXITING, LF>>), RTL(3)>>),
    Wire("rtlwmbus", <<Other(<<T1, SEMICOLON, TEXT, LF>>), RTL(1), Noise(<<T1, SEMICOLON, ONE>>), RTL(2), RTL(3), RTL(4)>>)}
R433(i) == Telegram(<<TEXT, COMMA, WMBUS, COMMA>> \o HexOf(Frame(i)) \o <<COMMA, TEXT, LF>>, i)
RTL433Wires == {
    Wire("rtl433", <<R433(1), Other(<<TEXT, COMMA, LF>>), R433(2), Noise(<<WMBUS, COMMA, Hex(1), COMMA, LF>>), R433(3)>>),
    Wire("rtl433", <<R433(1), Noise(<<WMBUS, COMMA>> \o HexOf(Frame(2)) \o <<LF>>), R433(3), R433(4), R433(5)>>)}

Escaped(bytes) == FoldLeft(LAMBDA s, b : s \o (CASE b = END -> <<ESC, 220>> [] b = ESC -> <<ESC, 221>> [] OTHER -> <<b>>), <<>>, bytes)
Slip(bytes) == <<END>> \o Escaped(bytes \o CRCs) \o <<END>>
IU(i) == Telegram(Slip(<<9, 32, 1, 1, 1, 1, 0, 0, 2, 231>> \o Frame(i)), i)
IUPong(id) == Response(Slip(<<id, 2, 0, END>>), <<END>>)
IUWires == {
    Wire("iu891a", <<IU(1), IUPong(1), Other(<<END, END>>), IU(2), IUPong(9)>>),
    Wire("iu891a", <<Noise(<<END, 7, 7>>), IU(1), IU(2), IU(3)>>),
    Wire("iu891a", <<IU(1), Noise(<<END, 9, 32, END>>), IU(2), IUPong(1)>>),
    Wire("iu880b", <<IUPong(1), Other(<<END, END>>), IUPong(1), Other(Slip(<<3, 1, 0>>)), IUPong(1)>>)}

AllWires == IMWires \cup AMBWires \cup RCWires \cup HexWires \cup MBusWires \cup CULWires \cup RTLWires
                \cup RTL433Wires \cup IUWires

=============================================================================
