------------------------------ MODULE Telegram ------------------------------
(* How a meter reads a telegram: the layers of the frame, from the data    *)
(* link layer (dll) to the transport layer (tpl), the decryption with the   *)
(* key of the meter or a default key of its driver, and the formats that    *)
(* full telegrams teach and compact telegrams use.                          *)
(*                                                                          *)
(* A telegram is abstracted to what its layers say.  Encryption is perfect: *)
(* with another key than the sender's the check bytes, the payload crc or   *)
(* the mac do not match.                                                    *)
EXTENDS Naturals, Sequences, FiniteSets, Functions

CONSTANTS
    Meters,     \* sequence of [ids, key, default_keys]: configuration and driver
    Air,        \* the telegrams that may arrive
    Drivers,    \* set of [name, mts, formats, default_keys]: what a driver detects,
                \* the compact formats it declares and the keys it knows
    MaxWarned   \* 100: size of warning_printed_for_telegrams

NoKey == "no key"
\* The sender did not encrypt, whatever the security mode says.
Plain == "plain"
\* PRIOS_DEFAULT_KEY1, PRIOS_DEFAULT_KEY2, and the latter twice as an aes key.
PriosKeys == {"prios1", "prios2"}
PriosAESKey == "prios2prios2"
\* The manufacturer and type before any header has been read.
NoMT == "no mt"

CIs == {"72", "73", "78", "79", "7A", "7B", "mfct", "unknown"}
TPLSecurityModes ==
    {"NoSecurity", "DES_NO_IV", "DES_IV", "AES_CBC_IV", "AES_CBC_NO_IV", "SPECIFIC_16_31", "other"}
NoContent == [format |-> "", value |-> 0]
\* What is read when bytes were decrypted that were not encrypted, or the reverse.
Garbled == [format |-> "?", value |-> 0]

IsTelegram(a) ==
    /\ a.type \in {"WMBUS", "MBUS", "HAN"}
    /\ a.cut \in {"", "dll", "ell", "nwl", "afl", "tpl", "cfg"}
    /\ a.ell \in {"", "I", "II", "III", "IV", "V"}
    /\ a.afl \in {"", "no mac", "mac", "bad mac"}
    /\ a.ci \in CIs /\ a.mode \in TPLSecurityModes /\ a.kdf \in 0..3
    /\ a.diehl \in {"NA", "OMS", "REAL_DATA"}
    /\ a.size \in Nat /\ a.size > 1 /\ a.blocks \in 0..15 /\ a.encrypted \in 0..a.size
    /\ a.content.format # "" /\ a.content.format # "?"
    /\ NoKey \notin {a.key, a.ell_key}

\* A sender announces what it does: without a security mode it does not encrypt, and
\* with aes it encrypts as many blocks as it says, or all there are.
IsAnnounced(a) ==
    /\ a.mode = "NoSecurity" => a.key = Plain
    /\ a.mode \in {"AES_CBC_IV", "AES_CBC_NO_IV"} /\ a.key # Plain /\ a.size >= 16 =>
          a.encrypted = IF a.blocks > 0 THEN 16 * a.blocks ELSE a.size - (a.size % 16)

ASSUME MetersAssumption ==
    Meters \in Seq([ids : SUBSET STRING, key : STRING, default_keys : Seq(STRING)])

ASSUME AirAssumption == \A a \in Air : IsTelegram(a) /\ IsAnnounced(a)

ASSUME MaxWarnedAssumption == MaxWarned \in Nat \ {0}

\* registerCompactFormatForMVT of every driver, for every mvt it detects.
mt_to_compact_formats_(mt) == UNION {d.formats : d \in {d \in Drivers : mt \in d.mts}}

VARIABLES
    meter_keys_,     \* of each meter: [confidentiality_key, default_keys]
    hash_to_format_, \* the formats learned from full telegrams
    warning_printed_for_telegrams,
    telegram,        \* the telegram that is being handled
    i,               \* the meter it is offered to next
    outcome,         \* what the meter it was offered to last did with it
    spoiled          \* history: meters whose default keys met a telegram they do not fit

vars == <<meter_keys_, hash_to_format_, warning_printed_for_telegrams, telegram, i, outcome, spoiled>>

-----------------------------------------------------------------------------
(* The state of a parse, a Telegram object with the globals it works on.    *)

NewTelegram ==
    [ok |-> TRUE, decryption_failed |-> FALSE, parser_warns_ |-> FALSE, simulated |-> FALSE, analyzed |-> FALSE,
     addresses |-> {}, has_meter_keys |-> FALSE, key |-> NoKey, default_keys |-> <<>>,
     tpl_sec_mode |-> "NoSecurity", tpl_mt |-> NoMT, generated |-> NoKey, afl_mac |-> FALSE,
     payload |-> NoContent, dv_entries |-> NoContent,
     triggered_warning |-> FALSE, printed |-> FALSE,
     formats |-> hash_to_format_, warned |-> warning_printed_for_telegrams]

Fail(t) == [t EXCEPT !.ok = FALSE]

hasConfidentialityKey(t) == t.has_meter_keys /\ t.key # NoKey

\* The dll address warnings are remembered by; a wired telegram has none.
dll_a(a) == IF a.type = "WMBUS" THEN a.dll ELSE ""

\* Warnings about keys are printed for the first telegram of a device only.
warned_for_telegram_before(a, t) == dll_a(a) \in Range(t.warned) /\ ~t.triggered_warning

RememberWarnedOneLess(warned, dll) ==
    IF dll \in Range(warned) THEN warned
    ELSE Append(IF Len(warned) + 1 >= MaxWarned THEN Tail(warned) ELSE warned, dll)

RememberWarned(warned, dll) ==
    IF dll \in Range(warned) THEN warned
    ELSE Append(IF Len(warned) >= MaxWarned THEN Tail(warned) ELSE warned, dll)

Warn(a, t) ==
    IF ~t.parser_warns_ \/ t.analyzed \/ warned_for_telegram_before(a, t) THEN t
    ELSE [t EXCEPT !.triggered_warning = TRUE, !.printed = TRUE,
                   !.warned = RememberWarned(@, dll_a(a))]

-----------------------------------------------------------------------------
(* The layers below the transport layer.  A layer is only looked at when    *)
(* the ones before it were read and nothing failed to be decrypted.         *)

Stopped(t) == ~t.ok \/ t.decryption_failed

parseDLLPermanently(a, t) ==
    IF a.cut = "dll" \/ (t.parser_warns_ /\ a.dll \in Range(t.warned)) THEN Fail(t)
    ELSE [t EXCEPT !.addresses = @ \union {a.dll}]

parseDLL(a, t) ==
    IF a.cut = "dll" THEN Fail(t) ELSE [t EXCEPT !.addresses = @ \union {a.dll}]

\* decrypt_ELL_AES_CTR: without a key the bytes stay as they are.
EllDecrypted(a, t) == a.ell_key = Plain \/ (hasConfidentialityKey(t) /\ t.key = a.ell_key)

parseELL(a, t) ==
    IF Stopped(t) \/ (a.ell = "" /\ a.cut # "ell") THEN t
    ELSE IF a.cut = "ell" \/ a.ell = "V" THEN Fail(t)
    ELSE LET t1 == IF a.ell \in {"III", "IV"}
                   THEN [t EXCEPT !.addresses = @ \union {a.ell_id}] ELSE t
         IN IF a.ell \in {"II", "IV"} /\ ~EllDecrypted(a, t1)
            THEN [Warn(a, t1) EXCEPT !.decryption_failed = TRUE]
            ELSE t1

parseNWL(a, t) == IF ~Stopped(t) /\ a.cut = "nwl" THEN Fail(t) ELSE t

parseAFL(a, t) ==
    IF Stopped(t) THEN t
    ELSE IF a.cut = "afl" \/ a.afl = "bad mac" THEN Fail(t)
    ELSE [t EXCEPT !.afl_mac = @ \/ a.afl = "mac"]

-----------------------------------------------------------------------------
(* The transport layer header.                                              *)

\* The security mode of the object stays when the telegram announces none.
parseTPLConfig(a, t) ==
    LET t1 == [t EXCEPT !.tpl_sec_mode = IF a.mode = "NoSecurity" THEN @ ELSE a.mode]
    IN IF a.cut = "cfg" THEN Fail(t)
       ELSE IF t1.tpl_sec_mode # "AES_CBC_NO_IV" \/ a.kdf # 1 THEN t1
       ELSE IF hasConfidentialityKey(t) THEN [t1 EXCEPT !.generated = t.key]
       ELSE IF t.simulated THEN t1 ELSE Fail(t1)

parseShortTPL(a, t) == parseTPLConfig(a, t)

parseLongTPL(a, t) ==
    parseShortTPL(a, [t EXCEPT !.addresses = @ \union {a.tpl_id}, !.tpl_mt = a.mt])

-----------------------------------------------------------------------------
(* Decryption.                                                              *)

\* The check bytes 2f2f are already there.
alreadyDecryptedCBC(a) == a.key = Plain

AESBytesAll(a) == a.size - (a.size % 16)

\* How many bytes are decrypted: the announced blocks, or all there are.
AESBytes(a) ==
    LET n == IF a.blocks > 0 /\ 16 * a.blocks < a.size THEN 16 * a.blocks ELSE a.size
    IN n - (n % 16)

\* tpl_num_encr_blocks is only set for the aes modes.
DESBytes(a) == a.size - (a.size % 8)

\* With the right key the content is readable if exactly the encrypted bytes
\* were decrypted; the check bytes at its start are right in any case.
Decrypted(a, n) == IF n = a.encrypted THEN a.content ELSE Garbled

\* The check bytes are found.
decrypt_TPL_AES_CBC_IV(a, key) == key = a.key /\ AESBytes(a) > 0

decrypt_TPL_AES_CBC_NO_IV(a, key) == key = a.key /\ AESBytes(a) > 0

checkMAC(a, t) == t.generated # NoKey /\ t.afl_mac /\ t.generated = a.key

addDefaultManufacturerKeyAlways(a, t) ==
    IF a.diehl = "OMS" THEN [t EXCEPT !.key = PriosAESKey] ELSE t

addDefaultManufacturerKeyIfAny(a, t) ==
    IF t.key = NoKey /\ a.diehl = "OMS" THEN [t EXCEPT !.key = PriosAESKey] ELSE t

\* The default keys are tried in order, the one that fits becomes the key of
\* the meter, and no default key is tried ever again.
TryDefaultKeys(a, t) ==
    LET fits == {k \in Range(t.default_keys) : decrypt_TPL_AES_CBC_IV(a, k)}
    IN IF t.key # NoKey THEN t
       ELSE [t EXCEPT !.key = IF fits = {} THEN NoKey ELSE CHOOSE k \in fits : TRUE,
                      !.default_keys = <<>>]

\* Bytes that are read as they came.
AsReceived(a, t) == [t EXCEPT !.payload = IF a.key = Plain THEN a.content ELSE Garbled]

TakePlainAlways(a, t) == AsReceived(a, t)

\* A content that is not encrypted is taken if the meter has no key.
TakePlain(a, t) == IF hasConfidentialityKey(t) THEN Fail(t) ELSE AsReceived(a, t)

DecryptMode5(a, t) ==
    IF alreadyDecryptedCBC(a) THEN TakePlain(a, t)
    ELSE IF ~t.has_meter_keys THEN Fail(t)
    ELSE LET t1 == TryDefaultKeys(a, addDefaultManufacturerKeyIfAny(a, t))
         IN IF decrypt_TPL_AES_CBC_IV(a, t1.key)
            THEN [t1 EXCEPT !.payload = Decrypted(a, AESBytes(a))]
            ELSE Fail(Warn(a, t1))

\* A mac that fails without a key is only an error for the telegram that
\* prints the warning about it; later ones are taken, without any content.
MACFailed(a, t) ==
    LET t1 == Warn(a, t)
        silent == t.parser_warns_ /\ (t.analyzed \/ warned_for_telegram_before(a, t))
    IN IF silent /\ t.key = NoKey THEN [t1 EXCEPT !.payload = NoContent] ELSE Fail(t1)

DecryptMode7(a, t) ==
    IF alreadyDecryptedCBC(a) THEN TakePlain(a, t)
    ELSE IF ~checkMAC(a, t) THEN MACFailed(a, t)
    ELSE IF decrypt_TPL_AES_CBC_NO_IV(a, t.generated)
         THEN [t EXCEPT !.payload = Decrypted(a, AESBytes(a))]
         ELSE Fail(Warn(a, t))

\* decrypt_TPL_DES_CBC gives up when there is not even one block.
DecryptMode2(a, t) ==
    IF ~hasConfidentialityKey(t) THEN Fail(Warn(a, t))
    ELSE IF DESBytes(a) = 0 THEN Fail(t)
    ELSE IF t.key = a.key THEN [t EXCEPT !.payload = Decrypted(a, DESBytes(a))]
    ELSE Fail(Warn(a, t))

\* Mode 3 has the dll address and the day of sending in its initial vector:
\* today and the two days before are tried.
IVFound(a) == a.type = "WMBUS" /\ a.days_ago \in 0..2

DecryptMode3(a, t) ==
    IF hasConfidentialityKey(t) /\ DESBytes(a) > 0 /\ t.key = a.key /\ IVFound(a)
    THEN [t EXCEPT !.payload = Decrypted(a, DESBytes(a))]
    ELSE Fail(Warn(a, t))

\* Diehl's own scrambling, with the key of the meter or the two default keys.
decryptDielhRealData(a, t) == a.key \in IF t.key = NoKey THEN PriosKeys ELSE {t.key}

\* What other manufacturers do in these modes is not decrypted, and a simulated
\* telegram is expected to be decrypted already.
DecryptDiehl(a, t) ==
    IF a.diehl # "REAL_DATA" THEN AsReceived(a, t)
    ELSE IF ~t.has_meter_keys THEN Fail(t)
    ELSE IF decryptDielhRealData(a, t) THEN [t EXCEPT !.payload = a.content]
    ELSE IF t.simulated THEN AsReceived(a, t)
    ELSE Fail(t)

potentiallyDecrypt(a, t) ==
    CASE t.tpl_sec_mode = "AES_CBC_IV"     -> DecryptMode5(a, t)
      [] t.tpl_sec_mode = "AES_CBC_NO_IV"  -> DecryptMode7(a, t)
      [] t.tpl_sec_mode = "DES_NO_IV"      -> DecryptMode2(a, t)
      [] t.tpl_sec_mode = "DES_IV"         -> DecryptMode3(a, t)
      [] t.tpl_sec_mode = "SPECIFIC_16_31" -> DecryptDiehl(a, t)
      [] OTHER -> TakePlain(a, t)

-----------------------------------------------------------------------------
(* The content.                                                             *)

parseDVForgetting(t) == [t EXCEPT !.dv_entries = t.payload]

\* parseDV of a telegram with its own difs and vifs remembers their sequence.
parseDV(t) ==
    [t EXCEPT !.dv_entries = t.payload,
              !.formats = @ \union ({t.payload.format} \ {"", "?"})]

lookupCompactFormat(mt, format, t) ==
    format \in mt_to_compact_formats_(mt) \union t.formats

parseCompactDV(mt, t) ==
    IF t.payload.format # "" /\ lookupCompactFormat(mt, t.payload.format, t)
    THEN [t EXCEPT !.dv_entries = t.payload] ELSE Fail(t)

DecryptionFailed(t) == [t EXCEPT !.ok = TRUE, !.decryption_failed = TRUE]

\* The telegrams with a header: 72 and 7A, and 73 and 7B which are compact.
\* The declared formats are looked up for the tpl manufacturer and type the
\* object had before this header was read.
AfterDecryption(a, mt, t) ==
    IF ~t.ok THEN DecryptionFailed(t)
    ELSE IF a.ci \in {"73", "7B"} THEN parseCompactDV(mt, t)
    ELSE parseDV(t)

AfterHeader(a, mt, t) == IF t.ok THEN AfterDecryption(a, mt, potentiallyDecrypt(a, t)) ELSE t

parse_TPL_72(a, t) == AfterHeader(a, t.tpl_mt, parseLongTPL(a, t))
parse_TPL_73(a, t) == AfterHeader(a, t.tpl_mt, parseLongTPL(a, t))
parse_TPL_7A(a, t) == AfterHeader(a, t.tpl_mt, parseShortTPL(a, t))
parse_TPL_7B(a, t) == AfterHeader(a, t.tpl_mt, parseShortTPL(a, t))
parse_TPL_78(a, t) == parseDV([t EXCEPT !.payload = a.content])
parse_TPL_79(a, t) == parseCompactDV(a.mt, [t EXCEPT !.payload = a.content])

parseTPL(a, t) ==
    IF Stopped(t) THEN t
    ELSE IF a.cut = "tpl" THEN Fail(t)
    ELSE CASE a.ci = "72" -> parse_TPL_72(a, t)
           [] a.ci = "73" -> parse_TPL_73(a, t)
           [] a.ci = "78" -> parse_TPL_78(a, t)
           [] a.ci = "79" -> parse_TPL_79(a, t)
           [] a.ci = "7A" -> parse_TPL_7A(a, t)
           [] a.ci = "7B" -> parse_TPL_7B(a, t)
           [] a.ci = "mfct" -> t
           [] a.ci = "unknown" -> Fail(t)

Layers(a, t) == parseTPL(a, parseAFL(a, parseNWL(a, parseELL(a, parseDLL(a, t)))))

\* At the worst only the dll is read, and that is fine for a header.
parseWMBUSHeader(a, t) == [Layers(a, t) EXCEPT !.ok = parseDLL(a, t).ok]

OnlyDecrypted(t) == [t EXCEPT !.ok = @ /\ ~t.decryption_failed]

parseWMBUS(a, t) == OnlyDecrypted(Layers(a, t))

\* A wired telegram has a primary address and a long header.
parseMBusDLLandTPL(a, t) ==
    IF a.cut = "dll" THEN Fail(t)
    ELSE LET t1 == [t EXCEPT !.addresses = @ \union {a.dll}]
         IN IF a.ci = "72" THEN parse_TPL_72(a, t1) ELSE Fail(t1)

parseMBUSHeader(a, t) == parseMBusDLLandTPL(a, t)

\* That it could not be decrypted does not make the parse fail.
parseMBUS(a, t) == parseMBusDLLandTPL(a, t)

parseHeader(a, t) ==
    CASE a.type = "WMBUS" -> parseWMBUSHeader(a, t)
      [] a.type = "MBUS"  -> parseMBUSHeader(a, t)
      [] a.type = "HAN"   -> Fail(t)

parse(a, t) ==
    CASE a.type = "WMBUS" -> parseWMBUS(a, t)
      [] a.type = "MBUS"  -> parseMBUS(a, t)
      [] a.type = "HAN"   -> Fail(t)

-----------------------------------------------------------------------------
(* The meters.                                                              *)

NoOutcome == [match |-> FALSE, ok |-> FALSE, dv_entries |-> NoContent, printed |-> FALSE]

\* The default keys of a driver are for meters without a key.
NewKeys(key, default_keys) ==
    [confidentiality_key |-> key, default_keys |-> IF key = NoKey THEN default_keys ELSE <<>>]

Init ==
    /\ meter_keys_ = [m \in DOMAIN Meters |-> NewKeys(Meters[m].key, Meters[m].default_keys)]
    /\ hash_to_format_ = {}
    /\ warning_printed_for_telegrams = <<>>
    /\ telegram \in Air
    /\ i = 1
    /\ outcome = NoOutcome
    /\ spoiled = {}

\* The object that read the header reads the telegram again, now with the keys
\* of the meter and with warnings.  Only what parse resets is as new.
SecondParse(h, keys, simulated, analyzed) ==
    [h EXCEPT !.ok = TRUE, !.decryption_failed = FALSE, !.parser_warns_ = TRUE,
              !.simulated = simulated, !.analyzed = analyzed, !.has_meter_keys = TRUE,
              !.key = keys.confidentiality_key, !.default_keys = keys.default_keys]

Keys(t) == [confidentiality_key |-> t.key, default_keys |-> t.default_keys]

Spoils(p, m) ==
    /\ meter_keys_[m].default_keys # <<>>
    /\ p.default_keys = <<>>
    /\ \A k \in Range(Meters[m].default_keys) : ~decrypt_TPL_AES_CBC_IV(telegram, k)

\* The telegram is for meter m, and p is what became of it.
TakeParsed(m, p) ==
    /\ meter_keys_' = [meter_keys_ EXCEPT ![m] = Keys(p)]
    /\ hash_to_format_' = p.formats
    /\ warning_printed_for_telegrams' = p.warned
    /\ outcome' = [match |-> TRUE, ok |-> p.ok, dv_entries |-> p.dv_entries, printed |-> p.printed]
    /\ spoiled' = IF Spoils(p, m) THEN spoiled \union {m} ELSE spoiled

NotForMeter(h) ==
    /\ hash_to_format_' = h.formats
    /\ outcome' = NoOutcome
    /\ UNCHANGED <<meter_keys_, warning_printed_for_telegrams, spoiled>>

Matches(m, h) == h.ok /\ h.addresses \intersect Meters[m].ids # {}

HandleHeader(m, h) ==
    \/ /\ Matches(m, h)
       /\ TakeParsed(m, parse(telegram, SecondParse(h, meter_keys_[m], telegram.simulated, FALSE)))
    \/ ~Matches(m, h) /\ NotForMeter(h)

handleTelegram(m) == HandleHeader(m, parseHeader(telegram, NewTelegram))

\* The meter manager offers the telegram to one meter after the other.
OfferToMeter ==
    /\ i <= Len(Meters)
    /\ handleTelegram(i)
    /\ i' = i + 1
    /\ UNCHANGED telegram

Receive ==
    /\ i > Len(Meters)
    /\ telegram' \in Air
    /\ i' = 1
    /\ outcome' = NoOutcome
    /\ UNCHANGED <<meter_keys_, hash_to_format_, warning_printed_for_telegrams, spoiled>>

Next == OfferToMeter \/ Receive

Spec == Init /\ [][Next]_vars

-----------------------------------------------------------------------------
(* Properties.                                                              *)

\* The meter the outcome is about.
Asked == i - 1

\* The variables hold what the code can hold.
TypeOK ==
    /\ \A m \in DOMAIN Meters :
         \/ meter_keys_[m].confidentiality_key \in {Meters[m].key, PriosAESKey}
         \/ meter_keys_[m].confidentiality_key \in Range(Meters[m].default_keys)
    /\ "" \notin hash_to_format_ /\ "?" \notin hash_to_format_
    /\ Len(warning_printed_for_telegrams) <= MaxWarned
    /\ i \in 1..(Len(Meters) + 1)
    /\ outcome.ok => outcome.match
    /\ spoiled \subseteq DOMAIN Meters

WithHeader == {"72", "73", "7A", "7B"}
Ciphered(a) == a.ell \in {"II", "IV"} /\ a.ell_key # Plain

\* DES is decrypted to the last block, whatever was encrypted.
DecryptedPast(a) == a.mode \in {"DES_NO_IV", "DES_IV"} /\ a.encrypted # DESBytes(a)

\* Telegrams the code reads as they came although they are encrypted (modes it
\* does not know), decrypts past the encrypted bytes (DES), or takes without
\* entries (wired telegrams that were not decrypted, manufacturer specific
\* content).
ReadOtherwise(a) ==
    \/ a.type = "MBUS" \/ a.ci = "mfct"
    \/ a.mode \in {"SPECIFIC_16_31", "other"} /\ a.key # Plain
    \/ DecryptedPast(a)

\* A failed mac that a meter without key passes over, see MACFailed.
Unverified(a) == a.mode = "AES_CBC_NO_IV" /\ outcome.dv_entries = NoContent

\* parse, decrypt_TPL_AES_CBC_IV: a wireless telegram that is taken shows
\* exactly the content that was sent, with the bytes after the encrypted blocks
\* left as they are; wrong keys never give an update.
ShowsTheContent ==
    outcome.ok => \/ outcome.dv_entries = telegram.content
                  \/ ReadOtherwise(telegram)
                  \/ Meters[Asked].key = NoKey /\ Unverified(telegram)

\* potentiallyDecrypt: a meter with a key takes no wireless telegram with a
\* security header that is not encrypted with this key, whatever other
\* telegrams it has met and although the same object read it without key first.
KeyHolds ==
    /\ outcome.ok
    /\ Meters[Asked].key # NoKey
    /\ telegram.type = "WMBUS"
    /\ telegram.ci \in WithHeader
    /\ telegram.mode # "SPECIFIC_16_31"
    => telegram.key = Meters[Asked].key

\* The addresses a telegram shows before it is decrypted.
Visible(a) ==
    {a.dll} \union (IF a.ell \in {"III", "IV"} THEN {a.ell_id} ELSE {})
            \union (IF a.ci \in {"72", "73"} /\ ~Ciphered(a) THEN {a.tpl_id} ELSE {})

\* Encrypted with this key in a way the code knows.
EncryptedWith(a, key) ==
    /\ ~Ciphered(a)
    /\ a.key = key /\ key # Plain
    /\ CASE a.mode = "AES_CBC_IV" -> AESBytes(a) > 0
         [] a.mode = "AES_CBC_NO_IV" -> AESBytes(a) > 0 /\ a.kdf = 1 /\ a.afl = "mac"
         [] a.mode = "DES_NO_IV" -> DESBytes(a) > 0
         [] a.mode = "DES_IV" -> DESBytes(a) > 0 /\ IVFound(a)
         [] OTHER -> FALSE

Whole(a) == a.type = "WMBUS" /\ a.cut = "" /\ a.ell # "V" /\ a.afl # "bad mac"

\* A telegram that meter m is configured to read.
Readable(a, m) ==
    /\ Whole(a)
    /\ Visible(a) \intersect Meters[m].ids # {}
    /\ \/ a.ci \in {"78", "79"} /\ (Ciphered(a) => a.ell_key = Meters[m].key)
       \/ a.ci \in WithHeader /\ EncryptedWith(a, Meters[m].key)

IsCompact(a) == a.ci \in {"73", "79", "7B"}

FormatKnown(a) ==
    \/ ~IsCompact(a)
    \/ a.ci = "79" /\ a.content.format \in mt_to_compact_formats_(a.mt) \union hash_to_format_
    \/ /\ a.ci \in {"73", "7B"} /\ ~DecryptedPast(a)
       /\ \/ a.content.format \in hash_to_format_
          \/ a.content.format \in mt_to_compact_formats_(a.mt) /\ a.ci = "73" /\ ~Ciphered(a)

\* The telegram has just been offered to meter i.
Offered == i' = i + 1

\* handleTelegram: a telegram encrypted with the key of the meter is always
\* taken, once its format is known.  Telegrams that could not be decrypted,
\* which the warnings say are "permanently" ignored, do not change that.
KeyDecodes == Offered /\ Readable(telegram, i) /\ FormatKnown(telegram) => outcome'.ok

\* potentiallyDecrypt: a meter without a key reads what is encrypted with any of
\* the default keys of its driver, unless the first encrypted telegram it met
\* fits none of them, or has made another one the key of the meter.
DefaultKeysTried ==
    /\ Offered
    /\ Meters[i].key = NoKey
    /\ i \notin spoiled
    /\ Whole(telegram) /\ telegram.diehl = "NA"
    /\ telegram.ci \in {"72", "7A"} /\ telegram.mode = "AES_CBC_IV"
    /\ Visible(telegram) \intersect Meters[i].ids # {}
    /\ telegram.key \in Range(Meters[i].default_keys)
    /\ EncryptedWith(telegram, telegram.key)
    => outcome'.ok \/ meter_keys_'[i].confidentiality_key \notin {NoKey, telegram.key}

\* What the keys of a meter can read is taken, whatever came before, and the
\* state that telegrams leave behind stays well formed and in bounds.
ReadableIsTaken == [][KeyDecodes /\ DefaultKeysTried /\ TypeOK']_vars

\* potentiallyDecrypt: the key of a meter never changes once it has one, and a
\* key it gets is a default key of its driver that has just decrypted a telegram,
\* or the default key of the manufacturer.
KeysOnlyPromoted ==
    [][\A m \in DOMAIN Meters :
         LET old == meter_keys_[m].confidentiality_key
             new == meter_keys_'[m].confidentiality_key
         IN new # old =>
              /\ old = NoKey
              /\ \/ new = PriosAESKey
                 \/ /\ new = telegram.key /\ new \in Range(Meters[m].default_keys)
                    /\ IsCompact(telegram) \/ outcome'.ok]_vars

\* warned_for_telegram_before: a device that a warning is printed for was not in
\* the list and is in it afterwards, and one is forgotten only when the list holds
\* MaxWarned different devices: the telegrams of a few devices do not make the
\* warnings about another one come again.
WarnedOnce ==
    [][LET warned == warning_printed_for_telegrams
           old == Range(warned)
           new == Range(warned')
       IN /\ Offered /\ outcome'.printed => dll_a(telegram) \in new \ old
          /\ old \ new # {} => Len(warned) = MaxWarned /\ IsInjective(warned)]_vars

\* parse_TPL_79: "you only need wait ... until an full length telegram arrives":
\* if a device that encrypts in the extended link layer keeps sending a full and
\* a compact telegram of the same format, the meter that can read both shows the
\* compact one again and again.  That both keep arriving is the only assumption.
CompactWaitEnds ==
    \A m \in DOMAIN Meters : \A f, c \in {a \in Air : Ciphered(a) /\ Readable(a, m)} :
        f.ci = "78" /\ c.ci = "79" /\ f.content.format = c.content.format =>
            ([]<>(telegram = f /\ i = 1) /\ []<>(telegram = c /\ i = 1)
                => []<>(telegram = c /\ i = m + 1 /\ outcome.ok))

=============================================================================
