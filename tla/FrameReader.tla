----------------------------- MODULE FrameReader -----------------------------
(* How a bus device finds the frames in what its dongle sends.  Each driver *)
(* appends what a read returned to its buffer and examines the front of the *)
(* buffer until no complete frame is left (processSerialData); telegrams go *)
(* through the duplicate filter to the listeners (handleTelegram).          *)
(*                                                                          *)
(* A wire is a device and the items its dongle sends: telegrams, responses, *)
(* other messages a driver must step over, and noise.  The operating system *)
(* cuts the bytes into reads as it pleases.  A byte is a number below 256.  *)
(* Elements from 256 on stand for several characters, or for a checksum     *)
(* that does or does not match: their spelling plays no role.               *)
EXTENDS Integers, Sequences, FiniteSetsExt, Functions, Folds

CONSTANTS
    Wires,      \* records [device, items, sent, bytes, ends]: the items are [kind, bytes, frame],
                \* and a command is being answered if sent
    SeenLimit,  \* telegrams the duplicate filter remembers (10)
    Whole       \* items read whole after which a device is in step again

ASSUME SeenAssumption == SeenLimit \in Nat \ {0}
VARIABLES
    wire,
    received,           \* bytes read so far
    read_buffer_,       \* of a rawtty and a hextty: data_buffer_
    odd_char,           \* of a hextty: what copy leaves in read_buffer_
    reading,            \* is processSerialData running?
    assigned,           \* has this call of it assigned payload_len?
    stamped,            \* timestamp_last_rx_ is set
    quiet,              \* two seconds have passed since timestamp_last_rx_
    delivered,          \* messages handed on by the driver
    seen_telegrams,
    heard,              \* telegrams handed to the listeners
    resets,             \* calls of reset()
    protocol_error_count_,
    aborted,            \* assert(frame.size() > 0) failed
    sync,               \* where the driver was last in step, and why
    whole               \* items in a row that came in a read of their own

inputVars == <<wire, received, odd_char, whole>>
amberVars == <<stamped, quiet, protocol_error_count_>>
outVars == <<delivered, seen_telegrams, heard, aborted>>
vars == <<inputVars, read_buffer_, reading, assigned, amberVars, outVars, resets, sync>>

device == wire.device
items == wire.items
Stream == wire.bytes
\* The number of bytes of the first k items.
Ends(k) == IF k = 0 THEN 0 ELSE wire.ends[k]
Complete == Max({k \in 0..Len(items) : Ends(k) <= received})
AtBoundary == received = Ends(Complete)

TTYs == {"rawtty", "hextty"}
Devices == TTYs \cup {"im871a", "amb8465", "rc1180", "mbus", "cul", "rtlwmbus", "rtl433",
                      "iu880b", "iu891a"}
ASSUME WiresAssumption == \A w \in Wires : w.device \in Devices /\ w.bytes \in Seq(Nat)

-----------------------------------------------------------------------------
(* Elements that stand for more than one character.                         *)
LF == 10
CR == 13
COMMA == 44
SEMICOLON == 59
CRC == 256         \* one of the two bytes of a checksum that matches
BADCRC == 257
ZEROX == 258       \* 0x
T1 == 259          \* T1, C1 or S1
TIME == 260        \* a timestamp strptime accepts
TEXT == 261        \* any other text
EXITING == 262     \* rtl_wmbus: exiting
CMODE == 263       \* CMODE, TMODE or SMODE
WMBUS == 264       \* Wireless-MBus
ONE == 49          \* the character 1
BADHEX == 265      \* two characters one of which is no hexadecimal digit
Hex(b) == 1000 + b \* the two hexadecimal digits of b

\* How many characters that is.
size(data) ==
    LET long == {i \in DOMAIN data : data[i] \in {TEXT, EXITING, TIME, WMBUS}}
        double == {i \in DOMAIN data : data[i] >= 1000 \/ data[i] \in {ZEROX, T1, BADHEX}}
    IN Len(data) + 11 * Cardinality(long) + Cardinality(double)
hex2bin(hex) == [i \in DOMAIN hex |-> hex[i] - 1000]
Positions(s, c) == {i \in DOMAIN s : s[i] = c}
From(s, i) == SubSeq(s, i, Len(s))
Nth(S, k) == CHOOSE i \in S : Cardinality({j \in S : j <= i}) = k

PartialFrame(data) == [status |-> "partial", data |-> data, length |-> 0, kind |-> "", payload |-> <<>>, unset |-> FALSE]
ErrorInFrame(data, n) == [PartialFrame(data) EXCEPT !.status = "error", !.length = n]
\* Fault: the length of a line of text is not exported.
TextWithoutLength(data, n) == [PartialFrame(data) EXCEPT !.status = "text"]
TextAndNotFrame(data, n) == [PartialFrame(data) EXCEPT !.status = "text", !.length = n]
FullFrame(data, n, kind, payload) ==
    [PartialFrame(data) EXCEPT !.status = "full", !.length = n, !.kind = kind, !.payload = payload]

isValidWMBusCField(c) == c \in {68, 70}

-----------------------------------------------------------------------------
(* What each driver makes of the front of its buffer.                       *)

\* The message id ranges of the four endpoints of an im871a.
MsgIds(endpoint) == CASE endpoint = 1 -> 1..39 [] endpoint = 2 -> 1..5 [] endpoint = 3 -> 1..7 [] endpoint = 4 -> 1..2

\* A checksum that does not match is only warned about.
checkIM871AFrame(data) ==
    LET starts == Positions(data, 165)
        d == From(data, Min(starts))
        ctrlbits == d[2] \div 16
        endpoint == d[2] % 16
        bit(b) == (ctrlbits \div b) % 2
        payload_len == d[4]
        frame_length == 4 + payload_len + 4 * bit(2) + bit(4) + 2 * bit(8)
        telegram == endpoint = 2 /\ d[3] = 3
        kind == CASE telegram -> "telegram"
                  [] endpoint = 1 /\ d[3] \in {2, 4, 6, 16} -> "response"
                  [] endpoint = 2 /\ d[3] \in {2, 5} -> "response"
                  [] OTHER -> "unhandled"
        payload == IF payload_len = 0 THEN <<>>
                   ELSE (IF telegram THEN <<payload_len>> ELSE <<>>) \o SubSeq(d, 5, 4 + payload_len)
    IN CASE data = <<>> -> PartialFrame(data)
         [] data # <<>> /\ starts = {} -> ErrorInFrame(data, 0)
         [] starts # {} /\ Len(d) < 4 -> PartialFrame(d)
         [] OTHER -> IF bit(1) = 1 \/ endpoint \notin 1..4 \/ d[3] \notin MsgIds(endpoint) THEN ErrorInFrame(d, 0)
                     ELSE IF Len(d) < frame_length THEN PartialFrame(d)
                     ELSE FullFrame(d, frame_length, kind, payload)

\* Fault: a telegram is expected at the front of the buffer only.
TelegramAtFront(data) == {o \in {0} : data[o + 1] >= 10 /\ isValidWMBusCField(data[o + 2])}
\* The scan for a telegram does not look at the last two bytes, unless they
\* are all there is.
TelegramOffsets(data) ==
    {o \in {0} \cup 1..(Len(data) - 3) : data[o + 1] >= 10 /\ isValidWMBusCField(data[o + 2])}

checkAMB8465Frame(data) ==
    LET offset == Min(TelegramOffsets(data))
        command == data[1] = 255
        payload_offset == IF command THEN 3 ELSE offset + 1
        payload_len == data[payload_offset]
        frame_length == payload_offset + payload_len + (IF command THEN 1 ELSE 0)
        kind == CASE ~command \/ data[2] = 3 -> "telegram"
                  [] command /\ data[2] \in {128, 132, 138, 139} -> "response"
                  [] OTHER -> "unhandled"
        payload == IF payload_len = 0 THEN <<>>
                   ELSE <<payload_len>> \o SubSeq(data, payload_offset + 1, payload_offset + payload_len)
    IN IF Len(data) < 2 \/ (command /\ Len(data) < 3) THEN PartialFrame(data)
       ELSE IF ~command /\ TelegramOffsets(data) = {} THEN PartialFrame(<<data[Len(data)]>>)
       ELSE IF Len(data) < frame_length THEN PartialFrame(data)
       ELSE FullFrame(data, frame_length, kind, payload)

\* A rawtty, a hextty and an rc1180.  Out of step, a telegram is found only if
\* it ends where the buffer ends.
checkWMBusFrame(data) ==
    LET inStep == isValidWMBusCField(data[2])
        found == {i \in 1..(Len(data) - 2) : data[i + 1] = 68 /\ data[i] + 1 = (Len(data) - i + 1) % 256}
        offset == IF inStep THEN 1 ELSE Min(found)
        payload_len == data[offset]
        frame_length == payload_len + offset
        payload == IF payload_len = 0 THEN <<>> ELSE SubSeq(data, offset, frame_length)
    IN IF Len(data) < 11 \/ (data[1] = 104 /\ data[4] = 104 /\ data[2] = data[3])
         THEN [PartialFrame(data) EXCEPT !.unset = TRUE]
       ELSE IF ~inStep /\ found = {} THEN ErrorInFrame(data, 0)
       ELSE IF Len(data) < frame_length THEN PartialFrame(data)
       ELSE FullFrame(data, frame_length, "telegram", payload)

checkMBusFrame(data) ==
    LET frame_length == data[2] + 6
        csc == MapThenSumSet(LAMBDA k : data[k], 5..(frame_length - 2)) % 256
    IN IF data # <<>> /\ data[1] = 229 THEN FullFrame(data, 1, "telegram", <<229>>)
       ELSE IF Len(data) < 6 THEN PartialFrame(data)
       ELSE IF (data[1] # 104 /\ data[4] # 104) \/ data[2] # data[3] THEN ErrorInFrame(data, 0)
       ELSE IF Len(data) < frame_length THEN PartialFrame(data)
       ELSE IF data[frame_length] # 22 \/ data[frame_length - 1] # csc THEN ErrorInFrame(data, 0)
       ELSE FullFrame(data, frame_length, "telegram", SubSeq(data, 1, frame_length))

\* The checksums of a telegram in frame format A: after ten bytes, after every
\* further sixteen and after the rest.  A suffix too short for one is ignored.
trimCRCsFrameFormatA(payload) ==
    LET len == Len(payload)
        blocks == (len - 12) \div 18
        rest == (len - 12) % 18
        checks == {11} \cup {11 + 18 * k : k \in 1..blocks} \cup (IF rest > 2 THEN {len - 1} ELSE {})
        kept == {i \in 1..len : /\ \E c \in checks : i < c
                                /\ \A c \in checks : i \notin {c, c + 1}}
        out == [k \in 1..Cardinality(kept) |-> payload[Nth(kept, k)]]
    IN IF len >= 12 /\ \A c \in checks : payload[c] = CRC /\ payload[c + 1] = CRC
       THEN [out EXCEPT ![1] = Len(out) - 1]
       ELSE <<>>

\* Frame format B has one checksum at the end, of at most 128 bytes, and then
\* one of the rest.
trimCRCsFrameFormatB(payload) ==
    LET len == Len(payload)
        crc1_pos == IF len <= 128 THEN len - 1 ELSE 127
        checks == {crc1_pos, len - 1}
        out == SubSeq(payload, 1, crc1_pos - 1) \o SubSeq(payload, crc1_pos + 2, len - 2)
    IN IF len >= 12 /\ \A c \in checks : payload[c] = CRC /\ payload[c + 1] = CRC
       THEN [out EXCEPT ![1] = Len(out) - 1]
       ELSE <<>>

checkCULFrame(data) ==
    LET eol == Min(Positions(data, LF))
        last == IF data[eol - 1] = CR THEN eol - 2 ELSE eol - 1
        hex == SubSeq(data, IF data[2] = 89 THEN 3 ELSE 2, last)
        payload == hex2bin(SubSeq(hex, 1, Len(hex) - 2))
        trimmed == IF data[2] = 89 THEN trimCRCsFrameFormatB(payload) ELSE trimCRCsFrameFormatA(payload)
    IN IF Positions(data, LF) = {} THEN PartialFrame(data)
       ELSE IF data[1] # 98 THEN TextAndNotFrame(data, eol)
       ELSE IF (\E c \in Range(hex) : c < 1000) \/ trimmed = <<>> THEN ErrorInFrame(data, eol)
       ELSE FullFrame(data, eol, "telegram", trimmed)

\* What the hexadecimal digits up to the first other character say, with the
\* length byte adjusted.
Decoded(hex) ==
    LET bad == {i \in DOMAIN hex : hex[i] < 1000}
        payload == hex2bin(SubSeq(hex, 1, IF bad = {} THEN Len(hex) ELSE Min(bad) - 1))
    IN IF payload = <<>> THEN <<>> ELSE [payload EXCEPT ![1] = Len(payload) - 1]

\* Only the beginning and the end of the line are looked for in the line: the
\* fields are looked for in the whole buffer.
checkRTLWMBUSFrame(data) ==
    LET eol == Min(Positions(data, LF))
        seps == {i \in Positions(data, SEMICOLON) : i < Len(data)}
        rssiEnds == {i \in Nth(seps, 4) + 1..Len(data) : data[i] = SEMICOLON}
        starts == {i \in Positions(data, ZEROX) : Cardinality(seps) >= 4 /\ rssiEnds # {} /\ i > Min(rssiEnds)}
        from == Min(starts)
        ends == {i \in from + 1..Len(data) :
                   \/ data[i] = LF
                   \/ data[i] = SEMICOLON /\ i < Len(data) /\ data[i + 1] = ZEROX}
    IN IF Positions(data, LF) = {} THEN PartialFrame(data)
       ELSE IF size(data) < 10 THEN ErrorInFrame(data, eol)
       ELSE IF data[1] \notin {ZEROX, T1} THEN TextAndNotFrame(data, eol)
       ELSE IF \/ data[1] = T1 /\ SubSeq(data, 2, 3) # <<SEMICOLON, ONE>>
               \/ Cardinality(seps) >= 3 /\ data[Nth(seps, 3) + 1] # TIME
               \/ starts = {}
         THEN ErrorInFrame(data, eol)
       ELSE IF ends = {} THEN PartialFrame(data)
       ELSE FullFrame(data, eol, "telegram", Decoded(SubSeq(data, from + 1, Min(ends) - 1)))

\* The end of the line is overwritten with a zero, even if more is waited for.
checkRTL433Frame(data) ==
    LET eol == Min(Positions(data, LF))
        d == [data EXCEPT ![eol] = 0]
        nextcomma(i) == {j \in Positions(d, COMMA) : j > i}
        field(i) == SubSeq(d, i, IF nextcomma(i) = {} THEN Len(d) ELSE Min(nextcomma(i)) - 1)
        starts == {i \in Positions(d, COMMA) : i + 2 <= Len(d) /\ d[i + 2] = Hex(68) /\ size(field(i)) >= 20}
        from == Min(starts)
    IN IF Positions(data, LF) = {} THEN PartialFrame(data)
       ELSE IF \A i \in Positions(d, WMBUS) : \E z \in Positions(d, 0) : z < i THEN TextAndNotFrame(d, eol)
       ELSE IF starts = {} THEN ErrorInFrame(d, eol)
       ELSE IF nextcomma(from) = {} THEN PartialFrame(d)
       ELSE FullFrame(d, eol, "telegram", Decoded(Tail(field(from))))

END == 192
ESC == 219
\* The message of the first frame of the buffer, and the bytes it takes: none
\* when its end has not come yet.
removeSlipFraming(from) ==
    LET starts == {i \in DOMAIN from : from[i] # END}
        first == Min(starts)
        ends == {i \in Positions(from, END) : i > first}
        step(m, c) == IF c = ESC THEN [m EXCEPT !.esc = TRUE]
                      ELSE [esc |-> FALSE,
                            to |-> Append(m.to, IF m.esc THEN CASE c = 220 -> END [] c = 221 -> ESC [] OTHER -> c ELSE c)]
    IN IF starts = {} \/ ends = {} THEN [length |-> 0, to |-> <<>>]
       ELSE [length |-> Min(ends),
             to |-> MapThenFoldSet(LAMBDA c, m : step(m, c), [esc |-> FALSE, to |-> <<>>],
                                   LAMBDA k : from[k], LAMBDA S : Max(S), first..(Min(ends) - 1)).to]

slipAllEND(msg) == \A c \in Range(msg) : c = END
HasCRC(msg) == SubSeq(msg, Len(msg) - 1, Len(msg)) = <<CRC, CRC>>

checkIU880BFrame(data) ==
    LET slip == removeSlipFraming(data)
        msg == slip.to
    IN IF Len(msg) < 5 THEN PartialFrame(data)
       ELSE IF ~HasCRC(msg) THEN ErrorInFrame(data, slip.length)
       ELSE FullFrame(data, slip.length, IF msg[1] = 1 THEN "response" ELSE "unhandled",
                      SubSeq(msg, 4, Len(msg) - 2))

\* A received telegram follows ten bytes, the last of which is the rssi.
checkIU891AFrame(data) ==
    LET slip == removeSlipFraming(data)
        msg == slip.to
        telegram == msg[1] = 9 /\ msg[2] = 32
        payload == SubSeq(msg, IF telegram THEN 3 ELSE 4, Len(msg) - 2)
    IN IF slipAllEND(data) THEN ErrorInFrame(data, 0)
       ELSE IF slip.length = 0 THEN PartialFrame(data)
       ELSE IF Len(msg) < 5 \/ ~HasCRC(msg) THEN ErrorInFrame(data, slip.length)
       ELSE FullFrame(data, slip.length,
                      IF telegram THEN "telegram" ELSE IF msg[1] \in {1, 9} THEN "response" ELSE "unhandled",
                      IF ~telegram THEN payload ELSE IF Len(payload) < 10 THEN <<>> ELSE From(payload, 9))

Check(data) ==
    CASE device = "im871a" -> checkIM871AFrame(data)
      [] device = "amb8465" -> checkAMB8465Frame(data)
      [] device \in TTYs \cup {"rc1180"} -> checkWMBusFrame(data)
      [] device = "mbus" -> checkMBusFrame(data)
      [] device = "cul" -> checkCULFrame(data)
      [] device = "rtlwmbus" -> checkRTLWMBUSFrame(data)
      [] device = "rtl433" -> checkRTL433Frame(data)
      [] device = "iu880b" -> checkIU880BFrame(data)
      [] device = "iu891a" -> checkIU891AFrame(data)

-----------------------------------------------------------------------------
(* The handler.                                                             *)

InStep(k, why) == [item |-> k, count |-> Len(delivered), why |-> why]
OutOfStep == [item |-> -1, count |-> 0, why |-> "none"]

Init ==
    /\ wire \in Wires
    /\ received = 0
    /\ read_buffer_ = <<>>
    /\ odd_char = <<>>
    /\ reading = FALSE
    /\ assigned = FALSE
    /\ stamped = FALSE
    /\ quiet = FALSE
    /\ delivered = <<>>
    /\ seen_telegrams = <<>>
    /\ heard = <<>>
    /\ resets = 0
    /\ protocol_error_count_ = 0
    /\ aborted = FALSE
    /\ sync = [item |-> 0, count |-> 0, why |-> "empty"]
    /\ whole = 0

\* A hextty passes on pairs of hexadecimal digits, and keeps an odd one for the
\* next read.
HexDigits == 2000..2015
Digits(chars) ==
    LET kept[n \in 0..Len(chars)] ==
            IF n = 0 THEN <<>>
            ELSE IF chars[n] \in HexDigits THEN Append(kept[n - 1], chars[n]) ELSE kept[n - 1]
    IN kept[Len(chars)]
copy(chars) ==
    LET digits == Digits(chars)
        pairs == Len(digits) \div 2
    IN [to |-> [k \in 1..pairs |-> 16 * (digits[2 * k - 1] - 2000) + digits[2 * k] - 2000],
        from |-> SubSeq(digits, 2 * pairs + 1, Len(digits))]

\* An amb8465 drops an incomplete telegram when the next read comes late.
Late == device = "amb8465" /\ read_buffer_ # <<>> /\ stamped /\ quiet

\* A read returns the next n bytes.
Receive(n) ==
    LET data == SubSeq(Stream, received + 1, received + n)
        hex == copy(odd_char \o data)
    IN /\ ~reading
       /\ ~aborted
       /\ received' = received + n
       /\ read_buffer_' = (IF Late THEN <<>> ELSE read_buffer_) \o (IF device = "hextty" THEN hex.to ELSE data)
       /\ odd_char' = IF device = "hextty" THEN hex.from ELSE <<>>
       /\ protocol_error_count_' = protocol_error_count_ + (IF Late /\ read_buffer_[1] = 255 THEN 1 ELSE 0)
       /\ reading' = TRUE
       /\ assigned' = FALSE
       /\ quiet' = FALSE
       /\ sync' = IF quiet THEN (IF AtBoundary THEN InStep(Complete, "gap") ELSE OutOfStep) ELSE sync
       /\ whole' = IF AtBoundary /\ received + n = Ends(Complete + 1) THEN whole + 1 ELSE 0
       /\ UNCHANGED <<wire, stamped, outVars, resets>>

Gap ==
    /\ device = "amb8465"
    /\ ~reading
    /\ stamped /\ ~quiet
    /\ quiet' = TRUE
    /\ UNCHANGED <<inputVars, read_buffer_, reading, assigned, stamped, protocol_error_count_, outVars, resets, sync>>

\* Fault: only the last telegram is compared.
seen_last(frame) == seen_telegrams # <<>> /\ frame = seen_telegrams[Len(seen_telegrams)]
seen_this_telegram_before(frame) == frame \in Range(seen_telegrams)
Remember(frame) ==
    Append(IF Len(seen_telegrams) >= SeenLimit THEN Tail(seen_telegrams) ELSE seen_telegrams, frame)

\* Duplicates are ignored (ignoreduplicates=true, the default).
handleTelegram(frame) ==
    /\ aborted' = (frame = <<>>)
    /\ IF frame = <<>> \/ (device = "mbus" /\ Len(frame) = 1)
         THEN UNCHANGED <<seen_telegrams, heard>>
         ELSE IF device = "mbus" THEN heard' = Append(heard, frame) /\ UNCHANGED seen_telegrams
         ELSE IF seen_this_telegram_before(frame) THEN UNCHANGED <<seen_telegrams, heard>>
         ELSE seen_telegrams' = Remember(frame) /\ heard' = Append(heard, frame)

\* processSerialData returns with this buffer, having delivered these messages.
Return(buffer, messages) ==
    /\ reading' = FALSE
    /\ read_buffer_' = buffer
    /\ sync' = IF buffer = <<>> /\ AtBoundary
                 THEN [item |-> Complete, count |-> Len(messages), why |-> "empty"] ELSE sync

\* A rawtty and a hextty look at payload_len before they look at the status.
ZeroLength(r) == device \in TTYs /\ r.status = "full" /\ r.payload = <<>>
\* Fault: an error clears the buffer of every driver.
NeverLineBased == FALSE
LineBased == device \in {"rtlwmbus", "rtl433"}

Partial ==
    LET r == Check(read_buffer_) IN
    /\ reading
    /\ r.status = "partial"
    /\ Return(r.data, delivered)
    /\ stamped' = (device = "amb8465" /\ r.data # <<>>)
    /\ UNCHANGED <<inputVars, assigned, quiet, protocol_error_count_, outVars, resets>>

\* payload_len has not been assigned yet, and happens to be zero.
PartialUnassigned ==
    LET r == Check(read_buffer_) IN
    /\ reading
    /\ r.status = "partial" /\ r.unset
    /\ device \in TTYs /\ ~assigned
    /\ Return(<<>>, delivered)
    /\ UNCHANGED <<inputVars, assigned, amberVars, outVars, resets>>

Error ==
    LET r == Check(read_buffer_) IN
    /\ reading
    /\ r.status = "error" \/ ZeroLength(r)
    /\ IF LineBased
         THEN read_buffer_' = From(r.data, r.length + 1) /\ UNCHANGED <<reading, sync>>
         ELSE Return(<<>>, delivered)
    /\ UNCHANGED <<inputVars, assigned, amberVars, outVars, resets>>

Text ==
    LET r == Check(read_buffer_) IN
    /\ reading
    /\ r.status = "text"
    /\ IF LineBased
         THEN read_buffer_' = From(r.data, r.length + 1) /\ UNCHANGED <<reading, sync, delivered>>
         ELSE /\ delivered' = IF wire.sent /\ CMODE \in Range(read_buffer_)
                                THEN Append(delivered, <<"response", <<CMODE>>>>) ELSE delivered
              /\ Return(<<>>, delivered')
    /\ resets' = resets + (IF device = "rtlwmbus" /\ EXITING \in Range(SubSeq(r.data, 1, r.length)) THEN 1 ELSE 0)
    /\ UNCHANGED <<inputVars, assigned, amberVars, seen_telegrams, heard, aborted>>

Full ==
    LET r == Check(read_buffer_) IN
    /\ reading
    /\ r.status = "full" /\ ~ZeroLength(r)
    /\ read_buffer_' = From(r.data, r.length + 1)
    /\ assigned' = TRUE
    /\ IF r.kind = "telegram"
         THEN handleTelegram(r.payload)
         ELSE UNCHANGED <<seen_telegrams, heard, aborted>>
    /\ delivered' = IF r.kind = "unhandled" THEN delivered ELSE Append(delivered, <<r.kind, r.payload>>)
    /\ reading' = ~aborted'
    /\ UNCHANGED <<inputVars, amberVars, resets, sync>>

Next ==
    \/ \E n \in 1..(Len(Stream) - received) : Receive(n)
    \/ Gap
    \/ Partial
    \/ PartialUnassigned
    \/ Error
    \/ Text
    \/ Full

Spec == Init /\ [][Next]_vars

-----------------------------------------------------------------------------
(* Properties.                                                              *)

\* The variables have their types, the duplicate filter keeps its limit, and an
\* amb8465 remembers a time of arrival only while its buffer holds something.
TypeOK ==
    /\ wire \in Wires
    /\ received \in 0..Len(Stream)
    /\ reading \in BOOLEAN /\ assigned \in BOOLEAN /\ aborted \in BOOLEAN
    /\ stamped \in BOOLEAN /\ quiet \in BOOLEAN
    /\ stamped => device = "amb8465" /\ (reading \/ read_buffer_ # <<>>)
    /\ Len(odd_char) <= 1
    /\ Len(seen_telegrams) <= SeenLimit
    /\ sync.item \in -1..Complete /\ sync.count \in 0..Len(delivered)

\* The item whose bytes are being received, or were received last.
Current == IF AtBoundary THEN Complete ELSE Complete + 1
\* What the items k + 1 to Complete should have delivered.
Expected(k) ==
    LET good == SelectSeq(SubSeq(items, k + 1, Complete), LAMBDA i : i.kind \in {"telegram", "response"})
    IN [j \in DOMAIN good |-> <<good[j].kind, good[j].frame>>]
CleanSince(k) == \A j \in k + 1..Current : items[j].kind # "noise"
DeliveredSince(why) ==
    ~reading /\ ~aborted /\ sync.item >= 0 /\ sync.why = why /\ CleanSince(sync.item)
        => From(delivered, sync.count + 1) = Expected(sync.item)

\* Once a driver's buffer was empty at the beginning of a message, it hands on
\* exactly the messages whose last byte has been read, each at once and in
\* order, however the bytes are cut into reads, until noise comes.
PromptDelivery == device \notin TTYs => DeliveredSince("empty")

\* After two silent seconds an amb8465 is in step whatever it had received: the
\* messages that begin after the silence are handed on.
GapResync == DeliveredSince("gap")

\* However much a driver is out of step after noise, the last of several
\* messages that were each read whole is handed on.  An iu880b is excepted: it
\* waits forever after a frame of less than five bytes.
Recovers ==
    LET last == items[Complete] IN
    /\ device # "iu880b"
    /\ ~reading /\ ~aborted /\ AtBoundary /\ whole >= Whole
    /\ \A j \in Complete - Whole + 1..Complete : items[j].kind = "telegram"
    => delivered # <<>> /\ delivered[Len(delivered)] = <<last.kind, last.frame>>

\* A driver gets back in step, after a silence or by the messages that follow,
\* and its bookkeeping of buffers, times and telegrams seen stays in bounds.
BackInStep == TypeOK /\ GapResync /\ Recovers

\* The listeners do not hear a telegram again while it is among the SeenLimit
\* telegrams they heard last, and miss no telegram they have not heard.
DuplicateFilter ==
    device # "mbus" =>
        /\ \A i, j \in DOMAIN heard : i < j /\ heard[i] = heard[j] => j - i > SeenLimit
        /\ \A m \in Range(delivered) : m[1] = "telegram" /\ m[2] # <<>> => m[2] \in Range(heard)

\* As long as processSerialData goes on it takes something from the buffer, so
\* it returns, and the event loop with it.
LoopShrinks == [][reading /\ reading' => Len(read_buffer_') < Len(read_buffer_)]_vars

=============================================================================
