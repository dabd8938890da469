--------------------------- MODULE TelegramProofs ---------------------------
(* What the keys of the meters promise, which telegrams the meters take and *)
(* what they show, for every set of telegrams that may arrive, every list   *)
(* of meters and drivers, and with a decoding service beside the receivers; *)
(* and which answers the clients of this service get.  The lemmas about     *)
(* keys and contents follow a parse from layer to layer.                    *)
EXTENDS DecodeService, TLAPS

Fields ==
    {"ok", "decryption_failed", "parser_warns_", "simulated", "analyzed", "addresses",
     "has_meter_keys", "key", "default_keys", "tpl_sec_mode", "tpl_mt", "generated", "afl_mac",
     "payload", "dv_entries", "triggered_warning", "printed", "formats", "warned"}

IsParse(t) == DOMAIN t = Fields

\* u is what became of t, with the same keys and the same header.
SameKeys(t, u) ==
    /\ IsParse(u)
    /\ u.key = t.key /\ u.default_keys = t.default_keys
    /\ u.has_meter_keys = t.has_meter_keys
SameHeader(t, u) ==
    /\ SameKeys(t, u)
    /\ u.tpl_sec_mode = t.tpl_sec_mode /\ u.generated = t.generated

LEMMA Failing ==
  ASSUME NEW t, IsParse(t)
  PROVE  /\ SameHeader(t, Fail(t)) /\ Fail(t).ok = FALSE
         /\ Fail(t).decryption_failed = t.decryption_failed
  BY DEF IsParse, Fields, SameKeys, SameHeader, Fail

LEMMA Warning ==
  ASSUME NEW a, NEW t, IsParse(t)
  PROVE  /\ SameHeader(t, Warn(a, t)) /\ Warn(a, t).ok = t.ok
         /\ Warn(a, t).decryption_failed = t.decryption_failed
  BY Zenon DEF IsParse, Fields, SameKeys, SameHeader, Warn

LEMMA WarnedFailing ==
  ASSUME NEW a, NEW t, IsParse(t)
  PROVE  /\ SameHeader(t, Fail(Warn(a, t))) /\ Fail(Warn(a, t)).ok = FALSE
         /\ Fail(Warn(a, t)).decryption_failed = t.decryption_failed
<1> DEFINE w == Warn(a, t)
<1>1. SameHeader(t, w) /\ IsParse(w) /\ w.decryption_failed = t.decryption_failed
  BY Warning DEF SameHeader, SameKeys
<1> HIDE DEF w
<1>2. SameHeader(w, Fail(w)) /\ Fail(w).ok = FALSE /\ Fail(w).decryption_failed = w.decryption_failed
  BY <1>1, Failing, Zenon
<1>3. SameHeader(t, Fail(w))
  BY <1>1, <1>2, Zenon DEF SameHeader, SameKeys
<1> QED
  BY <1>1, <1>2, <1>3, Zenon DEF w

\* The layers below the transport layer touch neither keys nor header.
Lower(a, t) == parseAFL(a, parseNWL(a, parseELL(a, parseDLL(a, t))))

LEMMA LowerLayers ==
  ASSUME NEW a, NEW t, IsParse(t)
  PROVE  SameHeader(t, Lower(a, t))
<1> DEFINE t1 == parseDLL(a, t)
           t2 == parseELL(a, t1)
           t3 == parseNWL(a, t2)
<1>1. SameHeader(t, t1)
  BY Failing, Zenon DEF IsParse, Fields, SameKeys, SameHeader, parseDLL
<1>2. IsParse(t1)
  BY <1>1, Zenon DEF SameHeader, SameKeys
<1>3. SameHeader(t1, t2)
  <2> HIDE DEF t1
  <2> DEFINE u == IF a.ell \in {"III", "IV"} THEN [t1 EXCEPT !.addresses = @ \union {a.ell_id}] ELSE t1
  <2>1. SameHeader(t1, u) /\ IsParse(u)
    BY <1>2 DEF IsParse, Fields, SameKeys, SameHeader
  <2> HIDE DEF u
  <2>2. SameHeader(u, Warn(a, u)) /\ IsParse(Warn(a, u))
    BY <2>1, Warning DEF SameHeader, SameKeys
  <2>3. t2 \in {t1, Fail(t1), u, [Warn(a, u) EXCEPT !.decryption_failed = TRUE]}
    BY Zenon DEF parseELL, u
  <2>4. SameHeader(Warn(a, u), [Warn(a, u) EXCEPT !.decryption_failed = TRUE])
    BY <2>2, Zenon DEF IsParse, Fields, SameKeys, SameHeader
  <2>5. SameHeader(t1, Fail(t1)) /\ SameHeader(t1, t1)
    BY <1>2, Failing, Zenon DEF SameHeader, SameKeys
  <2> QED
    BY <2>1, <2>2, <2>3, <2>4, <2>5, Zenon DEF SameHeader, SameKeys
<1>4. SameHeader(t2, t3) /\ IsParse(t2) /\ IsParse(t3)
  <2> HIDE DEF t1, t2
  <2>1. IsParse(t2)
    BY <1>3, Zenon DEF SameHeader, SameKeys
  <2>2. SameHeader(t2, t3)
    BY <2>1, Failing, Zenon DEF SameHeader, SameKeys, parseNWL
  <2> QED
    BY <2>1, <2>2, Zenon DEF SameHeader, SameKeys
<1>5. SameHeader(t3, parseAFL(a, t3))
  <2> HIDE DEF t1, t2, t3
  <2>1. parseAFL(a, t3) \in {t3, Fail(t3), [t3 EXCEPT !.afl_mac = @ \/ a.afl = "mac"]}
    BY DEF parseAFL
  <2>2. SameHeader(t3, [t3 EXCEPT !.afl_mac = @ \/ a.afl = "mac"])
    BY <1>4, Zenon DEF IsParse, Fields, SameKeys, SameHeader
  <2> QED
    BY <1>4, <2>1, <2>2, Failing, ZenonT(40) DEF SameHeader, SameKeys
<1> HIDE DEF t1, t2, t3
<1>6. Lower(a, t) = parseAFL(a, t3)
  BY Zenon DEF Lower, t1, t2, t3
<1> QED
  BY <1>1, <1>3, <1>4, <1>5, <1>6, Zenon DEF SameHeader, SameKeys

\* The header announces a security mode, or leaves the one that was read before,
\* and may derive a key from the one of the meter.
HeaderOf(a, t, u) ==
    /\ SameKeys(t, u)
    /\ u.decryption_failed = t.decryption_failed
    /\ u.tpl_sec_mode \in {t.tpl_sec_mode, a.mode}
    /\ u.ok => u.tpl_sec_mode = IF a.mode = "NoSecurity" THEN t.tpl_sec_mode ELSE a.mode
    /\ u.generated \in {t.generated} \/ (hasConfidentialityKey(t) /\ u.generated = t.key)

LEMMA Config ==
  ASSUME NEW a, NEW t, IsParse(t)
  PROVE  HeaderOf(a, t, parseTPLConfig(a, t))
<1> DEFINE t1 == [t EXCEPT !.tpl_sec_mode = IF a.mode = "NoSecurity" THEN @ ELSE a.mode]
           g == [t1 EXCEPT !.generated = t.key]
<1>1. /\ IsParse(t1) /\ SameKeys(t, t1) /\ t1.ok = t.ok /\ t1.generated = t.generated
      /\ t1.decryption_failed = t.decryption_failed
      /\ t1.tpl_sec_mode = IF a.mode = "NoSecurity" THEN t.tpl_sec_mode ELSE a.mode
  BY DEF IsParse, Fields, SameKeys
<1> HIDE DEF t1
<1>2. /\ SameKeys(t1, g) /\ g.ok = t1.ok /\ g.generated = t.key
      /\ g.decryption_failed = t1.decryption_failed /\ g.tpl_sec_mode = t1.tpl_sec_mode
  BY <1>1, Zenon DEF IsParse, Fields, SameKeys
<1> HIDE DEF g
<1>3. \/ parseTPLConfig(a, t) \in {Fail(t), t1, Fail(t1)}
      \/ parseTPLConfig(a, t) = g /\ hasConfidentialityKey(t)
  BY Zenon DEF parseTPLConfig, t1, g
<1>4. HeaderOf(a, t, Fail(t)) /\ HeaderOf(a, t, t1) /\ HeaderOf(a, t, Fail(t1))
  BY <1>1, Failing, Zenon DEF HeaderOf, SameHeader, SameKeys
<1>5. hasConfidentialityKey(t) => HeaderOf(a, t, g)
  BY <1>1, <1>2, Zenon DEF HeaderOf, SameKeys
<1> QED
  BY <1>3, <1>4, <1>5, Zenon

LEMMA Header ==
  ASSUME NEW a, NEW t, IsParse(t)
  PROVE  /\ HeaderOf(a, t, parseShortTPL(a, t))
         /\ HeaderOf(a, t, parseLongTPL(a, t))
<1> DEFINE u == [t EXCEPT !.addresses = @ \union {a.tpl_id}, !.tpl_mt = a.mt]
<1>1. SameHeader(t, u) /\ u.decryption_failed = t.decryption_failed
  BY DEF IsParse, Fields, SameKeys, SameHeader
<1>2. hasConfidentialityKey(u) = hasConfidentialityKey(t)
  BY <1>1 DEF SameHeader, SameKeys, hasConfidentialityKey
<1> HIDE DEF u
<1>3. HeaderOf(a, u, parseTPLConfig(a, u))
  BY <1>1, Config, Zenon DEF SameHeader, SameKeys
<1>4. HeaderOf(a, t, parseTPLConfig(a, u))
  BY <1>1, <1>2, <1>3, Zenon DEF HeaderOf, SameHeader, SameKeys
<1> QED
  BY <1>4, Config DEF parseShortTPL, parseLongTPL, u

-----------------------------------------------------------------------------
ReadHeader(t) == <<t.tpl_sec_mode, t.generated>>

\* A meter that has lost its default keys and got no key has met a telegram none of
\* them fits.
Untried(a, t, u) ==
    a.key # NoKey /\ t.key = NoKey /\ u.key = NoKey /\ u.default_keys # t.default_keys =>
        \A k \in Range(t.default_keys) : ~decrypt_TPL_AES_CBC_IV(a, k)

\* What decryption may do to the keys: a default key that fits becomes the key of
\* a meter that has none, or the key of the manufacturer does.
Decryption(a, t, d) ==
    /\ IsParse(d) /\ ReadHeader(d) = ReadHeader(t)
    /\ d.decryption_failed = t.decryption_failed
    /\ t.key # NoKey => d.key = t.key
    /\ d.default_keys \in {t.default_keys, <<>>}
    /\ Untried(a, t, d)
    /\ t.key = NoKey => \/ d.key \in {NoKey, PriosAESKey}
                        \/ d.key = a.key /\ d.key \in Range(t.default_keys) /\ d.ok = t.ok

\* With a key, nothing is decrypted but what was encrypted with it.
Guarded(a, t, d) ==
    hasConfidentialityKey(t) /\ t.generated \in {NoKey, t.key} /\ d.ok => t.key = a.key

LEMMA Plainly ==
  ASSUME NEW a, NEW t, IsParse(t)
  PROVE  /\ Decryption(a, t, TakePlain(a, t)) /\ Guarded(a, t, TakePlain(a, t))
         /\ Decryption(a, t, AsReceived(a, t))
         /\ Decryption(a, t, Fail(t)) /\ Guarded(a, t, Fail(t))
         /\ Decryption(a, t, Fail(Warn(a, t))) /\ Guarded(a, t, Fail(Warn(a, t)))
         /\ \A c : /\ Decryption(a, t, [t EXCEPT !.payload = c])
                   /\ t.key = a.key => Guarded(a, t, [t EXCEPT !.payload = c])
<1>1. /\ SameHeader(t, AsReceived(a, t)) /\ AsReceived(a, t).decryption_failed = t.decryption_failed
      /\ \A c : /\ SameHeader(t, [t EXCEPT !.payload = c])
                /\ [t EXCEPT !.payload = c].decryption_failed = t.decryption_failed
  BY DEF IsParse, Fields, SameKeys, SameHeader, AsReceived
<1>2. /\ SameHeader(t, Fail(Warn(a, t))) /\ Fail(Warn(a, t)).ok = FALSE
      /\ Fail(Warn(a, t)).decryption_failed = t.decryption_failed
  BY WarnedFailing, Zenon
<1>3. TakePlain(a, t) = Fail(t) \/ (~hasConfidentialityKey(t) /\ TakePlain(a, t) = AsReceived(a, t))
  BY Zenon DEF TakePlain
<1> QED
  BY <1>1, <1>2, <1>3, Failing, ZenonT(40) DEF Decryption, Untried, Guarded, SameHeader, SameKeys, ReadHeader

LEMMA Mode5 ==
  ASSUME NEW a, NEW t, IsParse(t)
  PROVE  Decryption(a, t, DecryptMode5(a, t)) /\ Guarded(a, t, DecryptMode5(a, t))
<1> DEFINE t0 == addDefaultManufacturerKeyIfAny(a, t)
           t1 == TryDefaultKeys(a, t0)
           fits == {k \in Range(t0.default_keys) : decrypt_TPL_AES_CBC_IV(a, k)}
           d == [t1 EXCEPT !.payload = Decrypted(a, AESBytes(a))]
<1>1. /\ IsParse(t0) /\ ReadHeader(t0) = ReadHeader(t)
      /\ t0.ok = t.ok /\ t0.decryption_failed = t.decryption_failed
      /\ t0.default_keys = t.default_keys
      /\ t0.key = t.key \/ (t.key = NoKey /\ t0.key = PriosAESKey)
  BY Zenon DEF addDefaultManufacturerKeyIfAny, IsParse, Fields, ReadHeader
<1> HIDE DEF t0
<1>2. /\ IsParse(t1) /\ ReadHeader(t1) = ReadHeader(t0)
      /\ t1.ok = t0.ok /\ t1.decryption_failed = t0.decryption_failed
      /\ t1.default_keys \in {t0.default_keys, <<>>}
      /\ \/ t0.key # NoKey /\ t1.key = t0.key /\ t1.default_keys = t0.default_keys
         \/ t0.key = NoKey /\ fits = {} /\ t1.key = NoKey
         \/ t0.key = NoKey /\ fits # {} /\ t1.key = CHOOSE k \in fits : TRUE
  BY <1>1, Zenon DEF TryDefaultKeys, IsParse, Fields, ReadHeader
<1>3. Untried(a, t0, t1)
  BY <1>2, Zenon DEF Untried, decrypt_TPL_AES_CBC_IV
<1>4. \/ t1.key = t0.key
      \/ t0.key = NoKey /\ t1.key = NoKey
      \/ /\ t0.key = NoKey /\ t1.key \in Range(t0.default_keys)
         /\ decrypt_TPL_AES_CBC_IV(a, t1.key)
  BY <1>2, Zenon
<1> HIDE DEF t1, fits
<1>5. ASSUME NEW u, u.key = t1.key, u.default_keys = t1.default_keys PROVE Untried(a, t, u)
  BY <1>1, <1>4, <1>3, <1>5, Zenon DEF Untried, NoKey, PriosAESKey
<1>6. /\ IsParse(d) /\ ReadHeader(d) = ReadHeader(t1)
      /\ d.ok = t1.ok /\ d.decryption_failed = t1.decryption_failed
      /\ d.key = t1.key /\ d.default_keys = t1.default_keys
  BY <1>2, Zenon DEF IsParse, Fields, ReadHeader
<1> HIDE DEF d
<1>7. LET w == Fail(Warn(a, t1)) IN
        /\ IsParse(w) /\ ReadHeader(w) = ReadHeader(t1)
        /\ w.ok = FALSE /\ w.decryption_failed = t1.decryption_failed
        /\ w.key = t1.key /\ w.default_keys = t1.default_keys
  <2>1. /\ SameHeader(t1, Fail(Warn(a, t1))) /\ Fail(Warn(a, t1)).ok = FALSE
        /\ Fail(Warn(a, t1)).decryption_failed = t1.decryption_failed
    BY <1>2, WarnedFailing, Zenon
  <2> QED
    BY <2>1, Zenon DEF SameHeader, SameKeys, ReadHeader
<1>8. \/ DecryptMode5(a, t) \in {TakePlain(a, t), Fail(t)}
      \/ DecryptMode5(a, t) = d /\ decrypt_TPL_AES_CBC_IV(a, t1.key)
      \/ DecryptMode5(a, t) = Fail(Warn(a, t1)) /\ ~decrypt_TPL_AES_CBC_IV(a, t1.key)
  BY Zenon DEF DecryptMode5, d, t0, t1
<1>9. CASE DecryptMode5(a, t) \in {TakePlain(a, t), Fail(t)}
  BY <1>9, Plainly, Zenon
<1>10. CASE DecryptMode5(a, t) = d /\ decrypt_TPL_AES_CBC_IV(a, t1.key)
  BY <1>10, <1>1, <1>2, <1>4, <1>6, <1>5, Zenon
  DEF Decryption, Guarded, hasConfidentialityKey, decrypt_TPL_AES_CBC_IV, NoKey, PriosAESKey
<1>11. CASE DecryptMode5(a, t) = Fail(Warn(a, t1)) /\ ~decrypt_TPL_AES_CBC_IV(a, t1.key)
  BY <1>11, <1>1, <1>2, <1>4, <1>7, <1>5, Zenon DEF Decryption, Guarded, hasConfidentialityKey, NoKey,
     PriosAESKey
<1> QED
  BY <1>8, <1>9, <1>10, <1>11, Zenon

LEMMA Mode7 ==
  ASSUME NEW a, NEW t, IsParse(t)
  PROVE  Decryption(a, t, DecryptMode7(a, t)) /\ Guarded(a, t, DecryptMode7(a, t))
<1> DEFINE w == Warn(a, t)
           none == [w EXCEPT !.payload = NoContent]
           d == [t EXCEPT !.payload = Decrypted(a, AESBytes(a))]
<1>1. \/ DecryptMode7(a, t) \in {TakePlain(a, t), Fail(w)}
      \/ DecryptMode7(a, t) = none /\ t.key = NoKey
      \/ DecryptMode7(a, t) = d /\ t.generated # NoKey /\ t.generated = a.key
  BY Zenon DEF DecryptMode7, MACFailed, checkMAC
<1>2. SameHeader(t, w) /\ w.decryption_failed = t.decryption_failed
  BY Warning, Zenon
<1>3. Decryption(a, t, none)
  <2> HIDE DEF w
  <2>1. SameHeader(w, none) /\ none.decryption_failed = w.decryption_failed
    BY <1>2, Zenon DEF IsParse, Fields, SameKeys, SameHeader
  <2> QED
    BY <1>2, <2>1, Zenon DEF Untried, Decryption, SameKeys, SameHeader, ReadHeader
<1>4. t.key = NoKey => Guarded(a, t, none)
  BY Zenon DEF Guarded, hasConfidentialityKey
<1>5. Decryption(a, t, d) /\ (t.generated # NoKey /\ t.generated = a.key => Guarded(a, t, d))
  <2>1. Decryption(a, t, d)
    BY Plainly, Zenon
  <2> HIDE DEF d
  <2> QED
    BY <2>1, Zenon DEF Guarded
<1> HIDE DEF w, none, d
<1> QED
  BY <1>1, <1>3, <1>4, <1>5, Plainly, Zenon DEF w

LEMMA DES ==
  ASSUME NEW a, NEW t, IsParse(t)
  PROVE  /\ Decryption(a, t, DecryptMode2(a, t)) /\ Guarded(a, t, DecryptMode2(a, t))
         /\ Decryption(a, t, DecryptMode3(a, t)) /\ Guarded(a, t, DecryptMode3(a, t))
<1>1. \/ DecryptMode2(a, t) \in {Fail(t), Fail(Warn(a, t))}
      \/ DecryptMode2(a, t) = [t EXCEPT !.payload = Decrypted(a, DESBytes(a))] /\ t.key = a.key
  BY Zenon DEF DecryptMode2
<1>2. \/ DecryptMode3(a, t) = Fail(Warn(a, t))
      \/ DecryptMode3(a, t) = [t EXCEPT !.payload = Decrypted(a, DESBytes(a))] /\ t.key = a.key
  BY Zenon DEF DecryptMode3
<1>3. t.key = a.key => LET d == [t EXCEPT !.payload = Decrypted(a, DESBytes(a))] IN
                          Decryption(a, t, d) /\ Guarded(a, t, d)
  BY Plainly, Zenon
<1>4. LET e == Fail(t)  w == Fail(Warn(a, t)) IN
        Decryption(a, t, e) /\ Guarded(a, t, e) /\ Decryption(a, t, w) /\ Guarded(a, t, w)
  BY Plainly, Zenon
<1> QED
  BY <1>1, <1>2, <1>3, <1>4, Zenon

LEMMA Diehl ==
  ASSUME NEW a, NEW t, IsParse(t)
  PROVE  Decryption(a, t, DecryptDiehl(a, t))
  BY Plainly, Zenon DEF DecryptDiehl

LEMMA Decrypting ==
  ASSUME NEW a, NEW t, IsParse(t)
  PROVE  /\ Decryption(a, t, potentiallyDecrypt(a, t))
         /\ t.tpl_sec_mode # "SPECIFIC_16_31" => Guarded(a, t, potentiallyDecrypt(a, t))
<1>1. \/ potentiallyDecrypt(a, t) \in {DecryptMode5(a, t), DecryptMode7(a, t), DecryptMode2(a, t),
                                      DecryptMode3(a, t), TakePlain(a, t)}
      \/ t.tpl_sec_mode = "SPECIFIC_16_31" /\ potentiallyDecrypt(a, t) = DecryptDiehl(a, t)
  BY Zenon DEF potentiallyDecrypt
<1> QED
  BY <1>1, Mode5, Mode7, DES, Diehl, Plainly, Zenon

-----------------------------------------------------------------------------
\* What became of the keys when the telegram has been read: a default key that
\* was promoted has decrypted it.
KeysAfter(a, t, u) ==
    /\ t.key # NoKey => u.key = t.key
    /\ u.default_keys \in {t.default_keys, <<>>}
    /\ Untried(a, t, u)
    /\ t.key = NoKey => \/ u.key \in {NoKey, PriosAESKey}
                        \/ /\ u.key = a.key /\ u.key \in Range(t.default_keys)
                           /\ IsCompact(a) \/ (u.ok /\ u.decryption_failed = t.decryption_failed)

Taken(u) == u.ok /\ ~u.decryption_failed

LEMMA Content ==
  ASSUME NEW a, NEW mt, NEW t, IsParse(t)
  PROVE  LET u == AfterHeader(a, mt, t) IN
           /\ IsParse(u) /\ ReadHeader(u) = ReadHeader(t)
           /\ KeysAfter(a, t, u) /\ (u.ok => t.ok)
           /\ /\ t.tpl_sec_mode # "SPECIFIC_16_31" /\ hasConfidentialityKey(t)
              /\ t.generated \in {NoKey, t.key} /\ Taken(u)
              => t.key = a.key
<1> DEFINE d == potentiallyDecrypt(a, t)
           u == AfterHeader(a, mt, t)
           Goal == /\ IsParse(u) /\ ReadHeader(u) = ReadHeader(t)
                   /\ KeysAfter(a, t, u) /\ (u.ok => t.ok)
                   /\ /\ t.tpl_sec_mode # "SPECIFIC_16_31" /\ hasConfidentialityKey(t)
                      /\ t.generated \in {NoKey, t.key} /\ Taken(u)
                      => t.key = a.key
<1>1. Decryption(a, t, d) /\ IsParse(d) /\ (t.tpl_sec_mode # "SPECIFIC_16_31" => Guarded(a, t, d))
  BY Decrypting DEF Decryption
<1>2. \/ u = t /\ ~t.ok
      \/ u = DecryptionFailed(d) /\ t.ok /\ ~d.ok
      \/ u = parseCompactDV(mt, d) /\ t.ok /\ d.ok /\ a.ci \in {"73", "7B"}
      \/ u = parseDV(d) /\ t.ok /\ d.ok
  BY Zenon DEF AfterHeader, AfterDecryption
<1> HIDE DEF d, u
<1>3. ASSUME u = t /\ ~t.ok PROVE Goal
  BY <1>3, Zenon DEF Untried, KeysAfter, Taken
<1>4. ASSUME u = DecryptionFailed(d) /\ t.ok /\ ~d.ok PROVE Goal
  <2>1. /\ IsParse(u) /\ ReadHeader(u) = ReadHeader(d) /\ u.decryption_failed = TRUE
        /\ u.key = d.key /\ u.default_keys = d.default_keys
    BY <1>1, <1>4 DEF DecryptionFailed, IsParse, Fields, ReadHeader
  <2> QED
    BY <1>1, <1>4, <2>1, Zenon DEF Untried, KeysAfter, Taken, Decryption
<1>5. ASSUME u = parseCompactDV(mt, d) /\ t.ok /\ d.ok /\ a.ci \in {"73", "7B"} PROVE Goal
  <2>1. u \in {Fail(d), [d EXCEPT !.dv_entries = d.payload]}
    BY <1>5, Zenon DEF parseCompactDV
  <2>2. /\ IsParse(u) /\ ReadHeader(u) = ReadHeader(d)
        /\ u.key = d.key /\ u.default_keys = d.default_keys
    BY <1>1, <2>1 DEF Fail, IsParse, Fields, ReadHeader
  <2> QED
    BY <1>1, <1>5, <2>2, Zenon DEF Untried, KeysAfter, Decryption, Guarded, IsCompact
<1>6. ASSUME u = parseDV(d) /\ t.ok /\ d.ok PROVE Goal
  <2>1. /\ IsParse(u) /\ ReadHeader(u) = ReadHeader(d) /\ u.ok = d.ok
        /\ u.key = d.key /\ u.default_keys = d.default_keys
        /\ u.decryption_failed = d.decryption_failed
    BY <1>1, <1>6, Zenon DEF parseDV, IsParse, Fields, ReadHeader
  <2> QED
    BY <1>1, <1>6, <2>1, Zenon DEF Untried, KeysAfter, Decryption, Guarded
<1> QED
  BY <1>2, <1>3, <1>4, <1>5, <1>6, Zenon DEF u

\* What a parse does that begins with t and ends with u.
Reads(a, t, u) ==
    /\ IsParse(u)
    /\ u.tpl_sec_mode \in {t.tpl_sec_mode, a.mode}
    /\ u.generated = t.generated \/ (hasConfidentialityKey(t) /\ u.generated = t.key)
    /\ KeysAfter(a, t, u)
    /\ /\ a.ci \in WithHeader /\ a.mode # "SPECIFIC_16_31" /\ hasConfidentialityKey(t)
       /\ t.tpl_sec_mode \in {"NoSecurity", a.mode}
       /\ t.generated \in {NoKey, t.key} /\ Taken(u)
       => t.key = a.key

LEMMA HeaderAndContent ==
  ASSUME NEW a, NEW mt, NEW t, NEW x, IsParse(t), HeaderOf(a, t, x)
  PROVE  Reads(a, t, AfterHeader(a, mt, x))
<1> DEFINE u == AfterHeader(a, mt, x)
<1>1. IsParse(x)
  BY Zenon DEF HeaderOf, SameKeys
<1>2. /\ IsParse(u) /\ ReadHeader(u) = ReadHeader(x)
      /\ KeysAfter(a, x, u) /\ (u.ok => x.ok)
      /\ /\ x.tpl_sec_mode # "SPECIFIC_16_31" /\ hasConfidentialityKey(x)
         /\ x.generated \in {NoKey, x.key} /\ Taken(u)
         => x.key = a.key
  BY <1>1, Content, Zenon
<1> HIDE DEF u
<1>3. u.tpl_sec_mode = x.tpl_sec_mode /\ u.generated = x.generated
  BY <1>2, Zenon DEF ReadHeader
<1>4. KeysAfter(a, t, u)
  BY <1>2, Zenon DEF Untried, KeysAfter, HeaderOf, SameKeys
<1>5. ASSUME a.mode # "SPECIFIC_16_31", hasConfidentialityKey(t), Taken(u),
             t.tpl_sec_mode \in {"NoSecurity", a.mode}, t.generated \in {NoKey, t.key}
      PROVE  t.key = a.key
  BY <1>2, <1>5, Zenon DEF HeaderOf, SameKeys, Taken, hasConfidentialityKey
<1>6. Reads(a, t, u)
  BY <1>2, <1>3, <1>4, <1>5, Zenon DEF Reads, HeaderOf
<1> QED
  BY <1>6, Zenon DEF u

LEMMA Transport ==
  ASSUME NEW a, NEW t, IsParse(t), a.ci \in CIs
  PROVE  Reads(a, t, parseTPL(a, t))
<1>1. /\ HeaderOf(a, t, parseShortTPL(a, t)) /\ HeaderOf(a, t, parseLongTPL(a, t))
  BY Header, Zenon
<1>2. /\ Reads(a, t, parse_TPL_72(a, t)) /\ Reads(a, t, parse_TPL_73(a, t))
      /\ Reads(a, t, parse_TPL_7A(a, t)) /\ Reads(a, t, parse_TPL_7B(a, t))
  BY <1>1, HeaderAndContent, Zenon DEF parse_TPL_72, parse_TPL_73, parse_TPL_7A, parse_TPL_7B
<1>3. ASSUME NEW u, SameHeader(t, u), a.ci \notin WithHeader \/ ~Taken(u) PROVE Reads(a, t, u)
  BY <1>3, Zenon DEF Untried, Reads, KeysAfter, SameHeader, SameKeys
<1> DEFINE c == [t EXCEPT !.payload = a.content]
<1>4. SameHeader(t, c)
  BY DEF IsParse, Fields, SameKeys, SameHeader
<1>5. IsParse(c)
  BY <1>4 DEF SameHeader, SameKeys
<1>6. SameHeader(t, parse_TPL_78(a, t))
  <2> HIDE DEF c
  <2>1. SameHeader(c, parseDV(c))
    BY <1>5 DEF parseDV, IsParse, Fields, SameKeys, SameHeader
  <2> QED
    BY <1>4, <2>1, Zenon DEF parse_TPL_78, SameHeader, SameKeys, c
<1>7. SameHeader(t, parse_TPL_79(a, t))
  <2> HIDE DEF c
  <2>1. parseCompactDV(a.mt, c) \in {Fail(c), [c EXCEPT !.dv_entries = c.payload]}
    BY Zenon DEF parseCompactDV
  <2>2. SameHeader(c, parseCompactDV(a.mt, c))
    BY <1>5, <2>1 DEF Fail, IsParse, Fields, SameKeys, SameHeader
  <2> QED
    BY <1>4, <2>2, Zenon DEF parse_TPL_79, SameHeader, SameKeys, c
<1>8. SameHeader(t, t) /\ SameHeader(t, Fail(t)) /\ ~Taken(Fail(t))
  BY Failing, Zenon DEF SameHeader, SameKeys, Taken
<1>9. CASE Stopped(t) \/ a.cut = "tpl"
  BY <1>3, <1>8, <1>9, Zenon DEF parseTPL, Stopped, Taken
<1>10. CASE ~(Stopped(t) \/ a.cut = "tpl")
  <2>1. \/ parseTPL(a, t) \in {parse_TPL_72(a, t), parse_TPL_73(a, t), parse_TPL_7A(a, t),
                                parse_TPL_7B(a, t), Fail(t)}
        \/ a.ci = "78" /\ parseTPL(a, t) = parse_TPL_78(a, t)
        \/ a.ci = "79" /\ parseTPL(a, t) = parse_TPL_79(a, t)
        \/ a.ci = "mfct" /\ parseTPL(a, t) = t
    BY <1>10, Zenon DEF parseTPL, CIs
  <2> QED
    BY <2>1, <1>2, <1>3, <1>6, <1>7, <1>8, Zenon DEF WithHeader
<1> QED
  BY <1>9, <1>10, Zenon

-----------------------------------------------------------------------------
\* The layers together.
LEMMA AllLayers ==
  ASSUME NEW a, NEW t, IsParse(t), a.ci \in CIs
  PROVE  /\ Reads(a, Lower(a, t), Layers(a, t))
         /\ SameHeader(t, Lower(a, t))
         /\ Stopped(Lower(a, t)) => Layers(a, t) = Lower(a, t)
<1> DEFINE x == Lower(a, t)
<1>1. SameHeader(t, x) /\ IsParse(x)
  BY LowerLayers DEF SameHeader, SameKeys
<1>2. Layers(a, t) = parseTPL(a, x)
  BY Zenon DEF Layers, Lower
<1> HIDE DEF x
<1>3. Reads(a, x, parseTPL(a, x)) /\ (Stopped(x) => parseTPL(a, x) = x)
  BY <1>1, Transport, Zenon DEF parseTPL
<1> QED
  BY <1>1, <1>2, <1>3, Zenon DEF x

\* A wired telegram has a long header or is rejected.
LEMMA Wired ==
  ASSUME NEW a, NEW t, IsParse(t)
  PROVE  LET u == parseMBusDLLandTPL(a, t) IN
           \/ SameHeader(t, u)
           \/ a.ci = "72" /\ \E x : SameHeader(t, x) /\ Reads(a, x, u)
<1> DEFINE t1 == [t EXCEPT !.addresses = @ \union {a.dll}]
<1>1. SameHeader(t, t1) /\ IsParse(t1)
  BY DEF IsParse, Fields, SameKeys, SameHeader
<1>2. \/ parseMBusDLLandTPL(a, t) \in {Fail(t), Fail(t1)}
      \/ a.ci = "72" /\ parseMBusDLLandTPL(a, t) = parse_TPL_72(a, t1)
  BY Zenon DEF parseMBusDLLandTPL
<1> HIDE DEF t1
<1>3. Reads(a, t1, parse_TPL_72(a, t1))
  BY <1>1, Header, HeaderAndContent, Zenon DEF parse_TPL_72
<1>4. SameHeader(t, Fail(t)) /\ SameHeader(t1, Fail(t1))
  BY <1>1, Failing, Zenon
<1>5. SameHeader(t, Fail(t1))
  BY <1>1, <1>4, Zenon DEF SameHeader, SameKeys
<1> QED
  BY <1>1, <1>2, <1>3, <1>4, <1>5, Zenon

\* The header is read without keys.
LEMMA FirstParse ==
  ASSUME NEW a, IsTelegram(a)
  PROVE  LET h == parseHeader(a, NewTelegram) IN
           IsParse(h) /\ h.tpl_sec_mode \in {"NoSecurity", a.mode} /\ h.generated = NoKey
<1> DEFINE t == NewTelegram
           h == parseHeader(a, t)
           Goal(u) == IsParse(u) /\ u.tpl_sec_mode \in {"NoSecurity", a.mode} /\ u.generated = NoKey
<1>1. /\ IsParse(t) /\ t.has_meter_keys = FALSE
      /\ t.tpl_sec_mode = "NoSecurity" /\ t.generated = NoKey
  BY Zenon DEF NewTelegram, IsParse, Fields
<1> HIDE DEF t
<1>2. a.ci \in CIs /\ a.type \in {"WMBUS", "MBUS", "HAN"}
  BY Zenon DEF IsTelegram
<1>3. ASSUME NEW u, SameHeader(t, u) PROVE Goal(u)
  BY <1>1, <1>3, Zenon DEF SameHeader, SameKeys
<1>4. ASSUME NEW x, NEW u, SameHeader(t, x), Reads(a, x, u) PROVE Goal(u)
  BY <1>1, <1>4, Zenon DEF SameHeader, SameKeys, Reads, hasConfidentialityKey
<1>5. CASE a.type = "WMBUS"
  <2> DEFINE l == Layers(a, t)
  <2>1. Goal(l)
    BY <1>1, <1>2, <1>4, AllLayers, Zenon
  <2>2. h = [l EXCEPT !.ok = parseDLL(a, t).ok]
    BY <1>5 DEF parseHeader, parseWMBUSHeader
  <2> HIDE DEF l, h
  <2>3. Goal(h)
    BY <2>1, <2>2, Zenon DEF IsParse, Fields
  <2> QED
    BY <2>3, Zenon DEF h, t
<1>6. CASE a.type = "MBUS"
  <2>1. h = parseMBusDLLandTPL(a, t)
    BY <1>6 DEF parseHeader, parseMBUSHeader
  <2>2. Goal(h)
    BY <1>1, <1>3, <1>4, <2>1, Wired
  <2> QED
    BY <2>2, Zenon DEF t
<1>7. CASE a.type = "HAN"
  <2>1. h = Fail(t)
    BY <1>7 DEF parseHeader
  <2>2. Goal(h)
    BY <1>1, <1>3, <2>1, Failing, Zenon
  <2> QED
    BY <2>2, Zenon DEF t
<1> QED
  BY <1>2, <1>5, <1>6, <1>7, Zenon

-----------------------------------------------------------------------------
\* What a meter with these keys makes of a telegram.
Result(a, keys, p) ==
    /\ IsParse(p)
    /\ keys.confidentiality_key # NoKey => p.key = keys.confidentiality_key
    /\ p.default_keys \in {keys.default_keys, <<>>}
    /\ /\ keys.confidentiality_key = NoKey /\ p.key = NoKey
       /\ a.key # NoKey /\ p.default_keys # keys.default_keys
       => \A k \in Range(keys.default_keys) : ~decrypt_TPL_AES_CBC_IV(a, k)
    /\ keys.confidentiality_key = NoKey =>
         \/ p.key \in {NoKey, PriosAESKey}
         \/ /\ p.key = a.key /\ p.key \in Range(keys.default_keys)
            /\ IsCompact(a) \/ p.ok
    /\ /\ a.type = "WMBUS" /\ a.ci \in WithHeader /\ a.mode # "SPECIFIC_16_31"
       /\ keys.confidentiality_key # NoKey /\ p.ok
       => a.key = keys.confidentiality_key

LEMMA WholeParse ==
  ASSUME NEW a, IsTelegram(a), NEW keys, NEW simulated, NEW analyzed
  PROVE  Result(a, keys, parse(a, SecondParse(parseHeader(a, NewTelegram), keys, simulated, analyzed)))
<1> DEFINE h == parseHeader(a, NewTelegram)
           t == SecondParse(h, keys, simulated, analyzed)
           p == parse(a, t)
<1>1. IsParse(h) /\ h.tpl_sec_mode \in {"NoSecurity", a.mode} /\ h.generated = NoKey
  BY FirstParse, Zenon
<1> HIDE DEF h
<1>2. /\ IsParse(t) /\ t.has_meter_keys = TRUE
      /\ t.key = keys.confidentiality_key /\ t.default_keys = keys.default_keys
      /\ t.tpl_sec_mode \in {"NoSecurity", a.mode} /\ t.generated = NoKey
  BY <1>1, Zenon DEF SecondParse, IsParse, Fields
<1> HIDE DEF t
<1>3. a.ci \in CIs /\ a.type \in {"WMBUS", "MBUS", "HAN"}
  BY Zenon DEF IsTelegram
<1>4. CASE a.type = "WMBUS"
  <2> DEFINE x == Lower(a, t)
             u == Layers(a, t)
  <2>1. SameHeader(t, x) /\ Reads(a, x, u) /\ (Stopped(x) => u = x)
    BY <1>2, <1>3, AllLayers, Zenon
  <2>2. p = [u EXCEPT !.ok = @ /\ ~u.decryption_failed]
    BY <1>4 DEF parse, parseWMBUS, OnlyDecrypted
  <2> HIDE DEF x, u, p
  <2>3. IsParse(p) /\ p.key = u.key /\ p.default_keys = u.default_keys /\ (p.ok <=> Taken(u))
    BY <2>1, <2>2, Zenon DEF Reads, Taken, IsParse, Fields
  <2>4. Result(a, keys, p)
    <3>1. /\ x.key = keys.confidentiality_key /\ x.default_keys = keys.default_keys
          /\ hasConfidentialityKey(x) <=> keys.confidentiality_key # NoKey
          /\ x.tpl_sec_mode \in {"NoSecurity", a.mode} /\ x.generated = NoKey
      BY <1>2, <2>1, Zenon DEF SameHeader, SameKeys, hasConfidentialityKey
    <3>2. KeysAfter(a, x, u)
      BY <2>1, Zenon DEF Reads
    <3>3. ~Stopped(x) => (u.ok /\ u.decryption_failed = x.decryption_failed => Taken(u))
      BY Zenon DEF Stopped, Taken
    <3>4. p.key \in {NoKey, PriosAESKey} \/ keys.confidentiality_key # NoKey
             \/ /\ p.key = a.key /\ p.key \in Range(keys.default_keys)
                /\ IsCompact(a) \/ p.ok
      BY <2>1, <2>3, <3>1, <3>2, <3>3, Zenon DEF KeysAfter
    <3>5. /\ keys.confidentiality_key # NoKey => p.key = keys.confidentiality_key
          /\ p.default_keys \in {keys.default_keys, <<>>}
      BY <2>3, <3>1, <3>2, Zenon DEF KeysAfter
    <3>6. /\ a.ci \in WithHeader /\ a.mode # "SPECIFIC_16_31"
          /\ keys.confidentiality_key # NoKey /\ p.ok
          => a.key = keys.confidentiality_key
      BY <2>1, <2>3, <3>1, Zenon DEF Reads
    <3>7. /\ keys.confidentiality_key = NoKey /\ p.key = NoKey
          /\ a.key # NoKey /\ p.default_keys # keys.default_keys
          => \A k \in Range(keys.default_keys) : ~decrypt_TPL_AES_CBC_IV(a, k)
      BY <2>3, <3>1, <3>2, Zenon DEF KeysAfter, Untried
    <3> QED
      BY <2>3, <3>4, <3>5, <3>6, <3>7, Zenon DEF Result
  <2> QED
    BY <2>4, Zenon DEF p, t, h
<1>5. CASE a.type = "MBUS"
  <2>1. p = parseMBusDLLandTPL(a, t)
    BY <1>5 DEF parse, parseMBUS
  <2>2. \/ SameHeader(t, p)
        \/ a.ci = "72" /\ \E x : SameHeader(t, x) /\ Reads(a, x, p)
    BY <1>2, <2>1, Wired, Zenon
  <2> HIDE DEF p
  <2>3. Result(a, keys, p)
    <3>1. CASE SameHeader(t, p)
      BY <1>2, <1>5, <3>1, Zenon DEF SameHeader, SameKeys, Result
    <3>2. CASE \E x : SameHeader(t, x) /\ Reads(a, x, p)
      BY <1>2, <1>5, <3>2, Zenon DEF Untried, SameHeader, SameKeys, Reads, KeysAfter, Result
    <3> QED
      BY <2>2, <3>1, <3>2, Zenon
  <2> QED
    BY <2>3, Zenon DEF p, t, h
<1>6. CASE a.type = "HAN"
  <2>1. p = Fail(t)
    BY <1>6 DEF parse
  <2>2. Result(a, keys, p)
    BY <1>2, <1>6, <2>1, Failing, Zenon DEF SameHeader, SameKeys, Result
  <2> QED
    BY <2>2, Zenon DEF p, t, h
<1> QED
  BY <1>3, <1>4, <1>5, <1>6, Zenon

-----------------------------------------------------------------------------
\* The key a meter was configured with stays, and a meter has no other default
\* keys than those of its driver.
KeysKept ==
    /\ DOMAIN meter_keys_ = DOMAIN Meters
    /\ \A m \in DOMAIN Meters :
         /\ Meters[m].key # NoKey => meter_keys_[m].confidentiality_key = Meters[m].key
         /\ meter_keys_[m].default_keys \in {Meters[m].default_keys, <<>>}

KeyInv ==
    /\ telegram \in Air
    /\ i \in Nat \ {0}
    /\ KeysKept
    /\ KeyHolds

LEMMA KeyInitially == Init => KeyInv
<1> SUFFICES ASSUME Init PROVE KeyInv
  OBVIOUS
<1>1. KeysKept
  BY Zenon DEF Init, NewKeys, KeysKept
<1>2. ~outcome.ok
  BY Zenon DEF Init, NoOutcome
<1> QED
  BY <1>1, <1>2 DEF Init, KeyInv, KeyHolds

\* The keys of meter m when the telegram has been offered to it.
KeysStep(m) ==
    LET old == meter_keys_[m].confidentiality_key
        new == meter_keys_'[m].confidentiality_key
    IN new # old =>
         /\ old = NoKey
         /\ \/ new = PriosAESKey
            \/ /\ new = telegram.key /\ new \in Range(Meters[m].default_keys)
               /\ IsCompact(telegram) \/ outcome'.ok

LEMMA NoDefaultKeys == Range(<<>>) = {}
  BY DEF Range

LEMMA Offering ==
  ASSUME KeyInv, OfferToMeter
  PROVE  KeyInv' /\ \A m \in DOMAIN Meters : KeysStep(m)
<1> DEFINE h == parseHeader(telegram, NewTelegram)
           p == parse(telegram, SecondParse(h, meter_keys_[i], telegram.simulated, FALSE))
           match == h.ok /\ h.addresses \intersect Meters[i].ids # {}
<1>1. /\ IsTelegram(telegram) /\ i \in DOMAIN Meters /\ i' = i + 1
      /\ telegram' \in Air /\ telegram' = telegram /\ i \in Nat
  BY AirAssumption, MetersAssumption DEF KeyInv, OfferToMeter
<1>2. Result(telegram, meter_keys_[i], p)
  BY <1>1, WholeParse, Zenon
<1>3. \/ /\ meter_keys_' = [meter_keys_ EXCEPT ![i] = Keys(p)]
         /\ outcome' = [match |-> TRUE, ok |-> p.ok, dv_entries |-> p.dv_entries, printed |-> p.printed]
      \/ outcome' = NoOutcome /\ meter_keys_' = meter_keys_
  BY Zenon DEF OfferToMeter, handleTelegram, HandleHeader, TakeParsed, NotForMeter
<1> HIDE DEF h, p, match
<1>4. CASE outcome' = NoOutcome /\ meter_keys_' = meter_keys_
  <2>1. ~outcome'.ok
    BY <1>4, Zenon DEF NoOutcome
  <2> QED
    BY <1>1, <1>4, <2>1 DEF KeyInv, KeysKept, KeyHolds, KeysStep
<1>5. CASE /\ meter_keys_' = [meter_keys_ EXCEPT ![i] = Keys(p)]
           /\ outcome' = [match |-> TRUE, ok |-> p.ok, dv_entries |-> p.dv_entries, printed |-> p.printed]
  <2>1. outcome'.ok = p.ok
    BY <1>5, Zenon
  <2>2. /\ DOMAIN meter_keys_' = DOMAIN Meters
        /\ \A m \in DOMAIN Meters : m # i => meter_keys_'[m] = meter_keys_[m]
        /\ meter_keys_'[i].confidentiality_key = p.key
        /\ meter_keys_'[i].default_keys = p.default_keys
    BY <1>1, <1>5, Zenon DEF KeyInv, KeysKept, Keys
  <2>3. KeysKept'
    BY <1>1, <1>2, <2>2 DEF KeyInv, KeysKept, Result
  <2>4. KeyHolds'
    BY <1>1, <1>2, <2>1 DEF KeyInv, KeysKept, KeyHolds, Result, Asked
  <2>5. KeysStep(i)
    BY <1>1, <1>2, <2>1, <2>2, NoDefaultKeys, Zenon DEF KeyInv, KeysKept, KeysStep, Result
  <2>6. \A m \in DOMAIN Meters : m # i => KeysStep(m)
    BY <2>2, Zenon DEF KeysStep
  <2> QED
    BY <1>1, <2>3, <2>4, <2>5, <2>6 DEF KeyInv
<1> QED
  BY <1>3, <1>4, <1>5, Zenon

\* The clients of the service and its cache do not touch the meters.
LEMMA ServiceKeepsKeys ==
  ASSUME KeyInv, [ServiceNext]_allVars
  PROVE  KeyInv' /\ \A m \in DOMAIN Meters : KeysStep(m)
<1>1. CASE OfferToMeter
  BY <1>1, Offering
<1>2. CASE Receive
  <2>1. /\ telegram' \in Air /\ i' = 1 /\ meter_keys_' = meter_keys_ /\ ~outcome'.ok
    BY <1>2, Zenon DEF Receive, NoOutcome
  <2> QED
    BY <2>1 DEF KeyInv, KeysKept, KeyHolds, KeysStep
<1>3. CASE UNCHANGED <<meter_keys_, telegram, i, outcome>>
  BY <1>3, Zenon DEF KeyInv, KeysKept, KeyHolds, KeysStep, Asked
<1>4. OfferToMeter \/ Receive \/ UNCHANGED <<meter_keys_, telegram, i, outcome>>
  BY Zenon DEF ServiceNext, Connect, BeginLine, EndLine, ReadAnswer, CloseClient, ClientStep,
         processSerialData, acceptClient, receive, disconnectClient, AddToLine, ProcessLine,
         ReceiveTelegram, HandleTelegram, allVars, vars
<1> QED
  BY <1>1, <1>2, <1>3, <1>4, Zenon

\* A meter with a key takes no wireless telegram with a security header that is
\* not encrypted with this key (Telegram::parse, potentiallyDecrypt), whichever
\* telegrams came before and whatever the decoding service was asked.
THEOREM KeyProtects == ServiceSpec => []KeyHolds
<1>1. ServiceInit => KeyInv
  BY KeyInitially, Zenon DEF ServiceInit
<1>2. KeyInv /\ [ServiceNext]_allVars => KeyInv'
  BY ServiceKeepsKeys
<1>3. KeyInv => KeyHolds
  BY DEF KeyInv
<1> QED
  BY <1>1, <1>2, <1>3, PTL DEF ServiceSpec

\* The key of a meter never changes once it has one, and a meter without one gets
\* a default key only from a telegram that this key decrypts, or the default
\* key of the manufacturer (addDefaultManufacturerKeyIfAny, potentiallyDecrypt).
THEOREM KeysStay == ServiceSpec => KeysOnlyPromoted
<1>1. ServiceInit => KeyInv
  BY KeyInitially, Zenon DEF ServiceInit
<1>2. KeyInv /\ [ServiceNext]_allVars => KeyInv'
  BY ServiceKeepsKeys
<1>3. KeyInv /\ [ServiceNext]_allVars =>
        [\A m \in DOMAIN Meters :
           LET old == meter_keys_[m].confidentiality_key
               new == meter_keys_'[m].confidentiality_key
           IN new # old =>
                /\ old = NoKey
                /\ \/ new = PriosAESKey
                   \/ /\ new = telegram.key /\ new \in Range(Meters[m].default_keys)
                      /\ IsCompact(telegram) \/ outcome'.ok]_vars
  BY ServiceKeepsKeys, Zenon DEF KeysStep
<1> QED
  BY <1>1, <1>2, <1>3, PTL DEF ServiceSpec, KeysOnlyPromoted

-----------------------------------------------------------------------------
(* The list of the devices that were warned about.                          *)

\* A list without duplicates that has not grown too long.
IsWarned(S, w) == w \in Seq(S) /\ IsInjective(w) /\ Len(w) <= MaxWarned

LEMMA Remembered ==
  ASSUME NEW S, NEW w, IsWarned(S, w), NEW d \in S, d \notin Range(w)
  PROVE  /\ IsWarned(S, RememberWarned(w, d)) /\ d \in Range(RememberWarned(w, d))
         /\ Range(w) \ Range(RememberWarned(w, d)) # {} => Len(w) = MaxWarned
<1> DEFINE b == IF Len(w) >= MaxWarned THEN Tail(w) ELSE w
           r == Append(b, d)
<1>1. RememberWarned(w, d) = r
  BY Zenon DEF RememberWarned
<1>2. /\ w \in Seq(S) /\ Len(w) \in Nat /\ DOMAIN w = 1..Len(w) /\ Len(w) <= MaxWarned
      /\ MaxWarned \in Nat /\ MaxWarned # 0
  BY MaxWarnedAssumption DEF IsWarned
<1>3. \A m, n \in Nat : m >= n /\ m <= n => m = n
  OBVIOUS
<1>4. Len(w) >= MaxWarned => Len(w) = MaxWarned
  BY <1>2, <1>3, Zenon
<1>5. /\ b \in Seq(S) /\ Len(b) \in Nat /\ DOMAIN b = 1..Len(b) /\ Len(b) < MaxWarned
      /\ \A j, k \in DOMAIN b : b[j] = b[k] => j = k
      /\ \A k \in DOMAIN b : b[k] # d
  <2>1. \A k \in DOMAIN w : w[k] # d
    BY Zenon DEF Range
  <2>2. CASE Len(w) >= MaxWarned
    <3>1. b = Tail(w)
      BY <2>2, Zenon
    <3>2. Len(w) = MaxWarned
      BY <1>4, <2>2, Zenon
    <3>3. /\ b \in Seq(S) /\ Len(b) = Len(w) - 1 /\ DOMAIN b = 1..Len(w) - 1
          /\ \A k \in DOMAIN b : b[k] = w[k + 1] /\ k + 1 \in DOMAIN w /\ k \in Nat
      BY <1>2, <3>2, <3>1
    <3> HIDE DEF b
    <3>4. \A j, k \in DOMAIN b : b[j] = b[k] => j + 1 = k + 1
      BY <3>3, Zenon DEF IsWarned, IsInjective
    <3> QED
      BY <1>2, <2>1, <3>2, <3>3, <3>4
  <2>3. CASE ~(Len(w) >= MaxWarned)
    BY <1>2, <2>1, <2>3 DEF IsWarned, IsInjective
  <2> QED
    BY <2>2, <2>3, Zenon
<1>6. Range(w) \ Range(r) # {} => Len(w) >= MaxWarned
  <2>1. CASE ~(Len(w) >= MaxWarned)
    <3>1. r = Append(w, d)
      BY <2>1, Zenon
    <3> HIDE DEF b, r
    <3>2. \A k \in DOMAIN w : k \in DOMAIN r /\ r[k] = w[k]
      BY <1>2, <3>1
    <3> QED
      BY <3>2, Zenon DEF Range
  <2> QED
    BY <2>1, Zenon
<1> HIDE DEF b
<1>7. /\ r \in Seq(S) /\ Len(r) = Len(b) + 1 /\ DOMAIN r = 1..Len(b) + 1
      /\ r[Len(b) + 1] = d /\ \A k \in DOMAIN b : r[k] = b[k]
  BY <1>5
<1> HIDE DEF r
<1>8. \A k \in DOMAIN r : k \in DOMAIN b \/ k = Len(b) + 1
  BY <1>5, <1>7
<1>9. \A j, k \in DOMAIN r : r[j] = r[k] => j = k
  BY <1>5, <1>7, <1>8, Zenon
<1>10. Len(b) + 1 \in DOMAIN r /\ Len(r) <= MaxWarned
  BY <1>2, <1>5, <1>7
<1>11. d \in Range(r)
  BY <1>7, <1>10, Zenon DEF Range
<1> QED
  BY <1>1, <1>6, <1>7, <1>9, <1>10, <1>11, <1>4, Zenon DEF IsWarned, IsInjective

\* What a parse of telegram a has made of the object s it began with: addresses and
\* formats were added, and either nothing was printed, or the warning for a device
\* that was not in the list.
Leaves(a, s, u) ==
    /\ IsParse(u) /\ u.parser_warns_ = s.parser_warns_
    /\ s.addresses \subseteq u.addresses /\ u.tpl_mt \in {s.tpl_mt, a.mt}
    /\ s.formats \subseteq u.formats /\ u.formats \intersect {"", "?"} \subseteq s.formats
    /\ dll_a(a) \notin Range(s.warned) => dll_a(a) \in Range(RememberWarned(s.warned, dll_a(a)))
    /\ \/ u.warned = s.warned /\ u.printed = FALSE /\ u.triggered_warning = FALSE
       \/ /\ s.parser_warns_ /\ dll_a(a) \notin Range(s.warned)
          /\ u.warned = RememberWarned(s.warned, dll_a(a)) /\ u.printed = TRUE /\ u.triggered_warning = TRUE

LEMMA WarningWarns ==
  ASSUME NEW a, NEW s, NEW t, Leaves(a, s, t)
  PROVE  Leaves(a, s, Warn(a, t))
<1> DEFINE d == dll_a(a)
           u == [t EXCEPT !.triggered_warning = TRUE, !.printed = TRUE, !.warned = RememberWarned(@, d)]
<1>1. CASE Warn(a, t) = t
  BY <1>1, Zenon
<1>2. CASE Warn(a, t) # t
  <2>1. Warn(a, t) = u /\ t.parser_warns_ /\ ~warned_for_telegram_before(a, t)
    BY <1>2, Zenon DEF Warn
  <2>2. /\ IsParse(u) /\ u.parser_warns_ = t.parser_warns_ /\ u.addresses = t.addresses
        /\ u.tpl_mt = t.tpl_mt /\ u.formats = t.formats
        /\ u.warned = RememberWarned(t.warned, d) /\ u.printed = TRUE /\ u.triggered_warning = TRUE
    BY Zenon DEF Leaves, IsParse, Fields
  <2> HIDE DEF u
  <2>3. CASE t.warned = s.warned /\ t.printed = FALSE /\ t.triggered_warning = FALSE
    <3>1. d \notin Range(s.warned)
      BY <2>1, <2>3, Zenon DEF warned_for_telegram_before
    <3> QED
      BY <2>1, <2>2, <2>3, <3>1, Zenon DEF Leaves
  <2>4. CASE /\ s.parser_warns_ /\ d \notin Range(s.warned)
             /\ t.warned = RememberWarned(s.warned, d) /\ t.printed = TRUE /\ t.triggered_warning = TRUE
    <3>1. d \in Range(t.warned)
      BY <2>4, Zenon DEF Leaves
    <3>2. RememberWarned(t.warned, d) = t.warned
      BY <3>1, Zenon DEF RememberWarned
    <3> QED
      BY <2>1, <2>2, <2>4, <3>2, Zenon DEF Leaves
  <2> QED
    BY <2>3, <2>4, Zenon DEF Leaves
<1> QED
  BY <1>1, <1>2, Zenon

\* The other fields of the parse have nothing to do with the list.
LEMMA Elsewhere ==
  ASSUME NEW a, NEW s, NEW t, Leaves(a, s, t), NEW x, NEW y
  PROVE  /\ Leaves(a, s, [t EXCEPT !.ok = x])
         /\ Leaves(a, s, [t EXCEPT !.decryption_failed = x])
         /\ Leaves(a, s, [t EXCEPT !.ok = x, !.decryption_failed = y])
         /\ Leaves(a, s, [t EXCEPT !.addresses = @ \union x])
         /\ Leaves(a, s, [t EXCEPT !.addresses = @ \union x, !.tpl_mt = a.mt])
         /\ Leaves(a, s, [t EXCEPT !.tpl_sec_mode = x])
         /\ Leaves(a, s, [t EXCEPT !.generated = x])
         /\ Leaves(a, s, [t EXCEPT !.afl_mac = x])
         /\ Leaves(a, s, [t EXCEPT !.key = x])
         /\ Leaves(a, s, [t EXCEPT !.key = x, !.default_keys = y])
         /\ Leaves(a, s, [t EXCEPT !.payload = x])
         /\ Leaves(a, s, [t EXCEPT !.dv_entries = x])
         /\ Leaves(a, s, [t EXCEPT !.dv_entries = x, !.formats = @ \union (y \ {"", "?"})])
  BY Zenon DEF Leaves, IsParse, Fields

LEMMA FailingLeaves ==
  ASSUME NEW a, NEW s, NEW t, Leaves(a, s, t)
  PROVE  Leaves(a, s, Fail(t)) /\ Leaves(a, s, Fail(Warn(a, t)))
  BY Elsewhere, WarningWarns, Zenon DEF Fail

\* parseDLL, parseELL, parseNWL and parseAFL.
LEMMA LowerLeaves ==
  ASSUME NEW a, NEW s, NEW t, Leaves(a, s, t)
  PROVE  /\ Leaves(a, s, parseDLL(a, t)) /\ Leaves(a, s, parseELL(a, t))
         /\ Leaves(a, s, parseNWL(a, t)) /\ Leaves(a, s, parseAFL(a, t))
<1> DEFINE t1 == IF a.ell \in {"III", "IV"} THEN [t EXCEPT !.addresses = @ \union {a.ell_id}] ELSE t
<1>1. Leaves(a, s, t1)
  BY Elsewhere, Zenon
<1> HIDE DEF t1
<1> DEFINE t2 == [Warn(a, t1) EXCEPT !.decryption_failed = TRUE]
<1>2. Leaves(a, s, t2)
  BY <1>1, WarningWarns, Elsewhere, Zenon
<1>3. parseELL(a, t) \in {t, Fail(t), t1, t2}
  BY Zenon DEF parseELL, t1
<1> HIDE DEF t2
<1>4. Leaves(a, s, parseELL(a, t))
  BY <1>1, <1>2, <1>3, FailingLeaves, Zenon
<1>5. Leaves(a, s, parseDLL(a, t))
  BY Elsewhere, FailingLeaves, Zenon DEF parseDLL
<1>6. Leaves(a, s, parseNWL(a, t)) /\ Leaves(a, s, parseAFL(a, t))
  BY Elsewhere, FailingLeaves, Zenon DEF parseNWL, parseAFL
<1> QED
  BY <1>4, <1>5, <1>6, Zenon

LEMMA HeaderLeaves ==
  ASSUME NEW a, NEW s, NEW t, Leaves(a, s, t)
  PROVE  Leaves(a, s, parseShortTPL(a, t)) /\ Leaves(a, s, parseLongTPL(a, t))
<1>1. ASSUME NEW u, Leaves(a, s, u)
      PROVE  Leaves(a, s, parseTPLConfig(a, u))
  <2> DEFINE u1 == [u EXCEPT !.tpl_sec_mode = IF a.mode = "NoSecurity" THEN @ ELSE a.mode]
             u2 == [u1 EXCEPT !.generated = u.key]
  <2>1. Leaves(a, s, u1)
    BY <1>1, Elsewhere, Zenon
  <2> HIDE DEF u1
  <2>2. Leaves(a, s, u2)
    BY <2>1, Elsewhere, Zenon
  <2>3. parseTPLConfig(a, u) \in {Fail(u), u1, u2, Fail(u1)}
    BY Zenon DEF parseTPLConfig, u1
  <2> QED
    BY <1>1, <2>1, <2>2, <2>3, FailingLeaves, Zenon
<1>2. Leaves(a, s, [t EXCEPT !.addresses = @ \union {a.tpl_id}, !.tpl_mt = a.mt])
  BY Elsewhere, Zenon
<1> QED
  BY <1>1, <1>2, Zenon DEF parseShortTPL, parseLongTPL

\* potentiallyDecrypt: the warnings about keys.
LEMMA DecryptingLeaves ==
  ASSUME NEW a, NEW s, NEW t, Leaves(a, s, t)
  PROVE  Leaves(a, s, potentiallyDecrypt(a, t))
<1>1. Leaves(a, s, AsReceived(a, t)) /\ Leaves(a, s, TakePlain(a, t))
  BY Elsewhere, FailingLeaves, Zenon DEF AsReceived, TakePlain
<1>2. Leaves(a, s, DecryptMode5(a, t))
  <2> DEFINE k == addDefaultManufacturerKeyIfAny(a, t)
             t1 == TryDefaultKeys(a, k)
  <2>1. Leaves(a, s, k)
    BY Elsewhere, Zenon DEF addDefaultManufacturerKeyIfAny
  <2> HIDE DEF k
  <2>2. Leaves(a, s, t1)
    BY <2>1, Elsewhere, Zenon DEF TryDefaultKeys
  <2> HIDE DEF t1
  <2> DEFINE t2 == [t1 EXCEPT !.payload = Decrypted(a, AESBytes(a))]
  <2>3. Leaves(a, s, t2)
    BY <2>2, Elsewhere, Zenon
  <2>4. DecryptMode5(a, t) \in {TakePlain(a, t), Fail(t), Fail(Warn(a, t1)), t2}
    BY Zenon DEF DecryptMode5, t1, k
  <2> HIDE DEF t2
  <2> QED
    BY <1>1, <2>2, <2>3, <2>4, FailingLeaves, Zenon
<1>3. Leaves(a, s, MACFailed(a, t))
  <2> DEFINE t1 == [Warn(a, t) EXCEPT !.payload = NoContent]
  <2>1. Leaves(a, s, t1)
    BY WarningWarns, Elsewhere, Zenon
  <2>2. MACFailed(a, t) \in {t1, Fail(Warn(a, t))}
    BY Zenon DEF MACFailed
  <2> HIDE DEF t1
  <2> QED
    BY <2>1, <2>2, FailingLeaves, Zenon
<1>4. Leaves(a, s, DecryptMode7(a, t))
  BY <1>1, <1>3, Elsewhere, FailingLeaves, Zenon DEF DecryptMode7
<1>5. Leaves(a, s, DecryptMode2(a, t)) /\ Leaves(a, s, DecryptMode3(a, t))
  BY Elsewhere, FailingLeaves, Zenon DEF DecryptMode2, DecryptMode3
<1>6. Leaves(a, s, DecryptDiehl(a, t))
  BY <1>1, Elsewhere, FailingLeaves, Zenon DEF DecryptDiehl
<1> QED
  BY <1>1, <1>2, <1>4, <1>5, <1>6, Zenon DEF potentiallyDecrypt

\* The content, after the header.
LEMMA ContentLeaves ==
  ASSUME NEW a, NEW s, NEW t, Leaves(a, s, t), NEW mt
  PROVE  /\ Leaves(a, s, parseDV(t)) /\ Leaves(a, s, parseCompactDV(mt, t))
         /\ Leaves(a, s, AfterHeader(a, mt, t))
<1>1. ASSUME NEW u, Leaves(a, s, u)
      PROVE  Leaves(a, s, parseDV(u)) /\ Leaves(a, s, parseCompactDV(mt, u))
  BY <1>1, Elsewhere, FailingLeaves, Zenon DEF parseDV, parseCompactDV
<1> DEFINE d == potentiallyDecrypt(a, t)
<1>2. Leaves(a, s, d)
  BY DecryptingLeaves, Zenon
<1> HIDE DEF d
<1>3. Leaves(a, s, DecryptionFailed(d))
  BY <1>2, Elsewhere, Zenon DEF DecryptionFailed
<1>4. Leaves(a, s, AfterDecryption(a, mt, d))
  BY <1>1, <1>2, <1>3, Zenon DEF AfterDecryption
<1> QED
  BY <1>1, <1>4, Zenon DEF AfterHeader, d

LEMMA TransportLeaves ==
  ASSUME NEW a, NEW s, NEW t, Leaves(a, s, t), a.ci \in CIs
  PROVE  Leaves(a, s, parseTPL(a, t)) /\ Leaves(a, s, parse_TPL_72(a, t))
<1>1. /\ Leaves(a, s, parse_TPL_72(a, t)) /\ Leaves(a, s, parse_TPL_73(a, t))
      /\ Leaves(a, s, parse_TPL_7A(a, t)) /\ Leaves(a, s, parse_TPL_7B(a, t))
  BY HeaderLeaves, ContentLeaves, Zenon DEF parse_TPL_72, parse_TPL_73, parse_TPL_7A, parse_TPL_7B
<1>2. Leaves(a, s, parse_TPL_78(a, t)) /\ Leaves(a, s, parse_TPL_79(a, t))
  BY Elsewhere, ContentLeaves, Zenon DEF parse_TPL_78, parse_TPL_79
<1>3. parseTPL(a, t) \in {t, Fail(t), parse_TPL_72(a, t), parse_TPL_73(a, t), parse_TPL_78(a, t),
                          parse_TPL_79(a, t), parse_TPL_7A(a, t), parse_TPL_7B(a, t)}
  BY Zenon DEF parseTPL, CIs
<1> QED
  BY <1>1, <1>2, <1>3, FailingLeaves, Zenon

\* parseHeader and parse, of a telegram that came by radio or by wire.
LEMMA ParsesLeave ==
  ASSUME NEW a, IsTelegram(a), NEW s, NEW t, Leaves(a, s, t)
  PROVE  Leaves(a, s, parseHeader(a, t)) /\ Leaves(a, s, parse(a, t))
<1>1. a.ci \in CIs /\ a.type \in {"WMBUS", "MBUS", "HAN"}
  BY Zenon DEF IsTelegram
<1>2. Leaves(a, s, Layers(a, t))
  BY <1>1, LowerLeaves, TransportLeaves, Zenon DEF Layers
<1>3. Leaves(a, s, parseWMBUSHeader(a, t)) /\ Leaves(a, s, parseWMBUS(a, t))
  BY <1>2, Elsewhere, Zenon DEF parseWMBUSHeader, parseWMBUS, OnlyDecrypted
<1>4. Leaves(a, s, parseMBusDLLandTPL(a, t))
  <2> DEFINE t1 == [t EXCEPT !.addresses = @ \union {a.dll}]
  <2>1. Leaves(a, s, t1)
    BY Elsewhere, Zenon
  <2>2. parseMBusDLLandTPL(a, t) \in {Fail(t), parse_TPL_72(a, t1), Fail(t1)}
    BY Zenon DEF parseMBusDLLandTPL
  <2> HIDE DEF t1
  <2> QED
    BY <1>1, <2>1, <2>2, TransportLeaves, FailingLeaves, Zenon
<1>5. /\ parseHeader(a, t) \in {parseWMBUSHeader(a, t), parseMBusDLLandTPL(a, t), Fail(t)}
      /\ parse(a, t) \in {parseWMBUS(a, t), parseMBusDLLandTPL(a, t), Fail(t)}
  BY <1>1, Zenon DEF parseHeader, parse, parseMBUSHeader, parseMBUS
<1> QED
  BY <1>3, <1>4, <1>5, FailingLeaves, Zenon

\* The object that has read the header, before it reads the telegram.
Reread(a, keys, simulated, analyzed) ==
    SecondParse(parseHeader(a, NewTelegram), keys, simulated, analyzed)

\* The header is read without warnings, the telegram with them.
ReadTwice(a, h, t, p) ==
    /\ Leaves(a, NewTelegram, h) /\ Leaves(a, t, p)
    /\ t.parser_warns_ = TRUE /\ t.warned = warning_printed_for_telegrams
    /\ t.formats = h.formats /\ t.addresses = h.addresses /\ t.tpl_mt = h.tpl_mt

LEMMA TelegramLeaves ==
  ASSUME NEW a, IsTelegram(a), NEW keys, NEW simulated, NEW analyzed,
         NEW S, IsWarned(S, warning_printed_for_telegrams)
  PROVE  LET t == Reread(a, keys, simulated, analyzed)
         IN ReadTwice(a, parseHeader(a, NewTelegram), t, parse(a, t))
<1> DEFINE w == warning_printed_for_telegrams
           d == dll_a(a)
           n == NewTelegram
           h == parseHeader(a, n)
           t == Reread(a, keys, simulated, analyzed)
           D == S \union {d}
<1>1. IsWarned(D, w) /\ d \in D
  BY DEF IsWarned
<1> HIDE DEF D
<1>2. d \notin Range(w) => d \in Range(RememberWarned(w, d))
  BY <1>1, Remembered, Zenon
<1>3. /\ IsParse(n) /\ n.parser_warns_ = FALSE /\ n.warned = w
      /\ n.printed = FALSE /\ n.triggered_warning = FALSE
  BY Zenon DEF NewTelegram, IsParse, Fields
<1> HIDE DEF n
<1>4. Leaves(a, n, n)
  BY <1>2, <1>3, Zenon DEF Leaves
<1>5. Leaves(a, n, h)
  BY <1>4, ParsesLeave, Zenon
<1> HIDE DEF h
<1> DEFINE r == SecondParse(h, keys, simulated, analyzed)
<1>6. t = r
  BY Zenon DEF Reread, h, n
<1>7. /\ IsParse(t) /\ t.parser_warns_ = TRUE /\ t.warned = h.warned
      /\ t.printed = h.printed /\ t.triggered_warning = h.triggered_warning
      /\ t.formats = h.formats /\ t.addresses = h.addresses /\ t.tpl_mt = h.tpl_mt
  BY <1>5, <1>6, Zenon DEF Leaves, SecondParse, IsParse, Fields
<1> HIDE DEF t
<1>8. t.warned = w /\ Leaves(a, t, t)
  BY <1>2, <1>3, <1>5, <1>7, Zenon DEF Leaves
<1>9. Leaves(a, t, parse(a, t))
  BY <1>8, ParsesLeave, Zenon
<1>10. ReadTwice(a, h, t, parse(a, t))
  BY <1>5, <1>7, <1>8, <1>9, Zenon DEF ReadTwice, n
<1> QED
  BY <1>10, Zenon DEF t, h, n

Devices == {dll_a(a) : a \in Air}

WarnInv ==
    /\ telegram \in Air
    /\ i \in Nat
    /\ IsWarned(Devices, warning_printed_for_telegrams)

\* One step of WarnedOnce.
WarnedStep ==
    LET warned == warning_printed_for_telegrams
        old == Range(warned)
        new == Range(warned')
    IN /\ Offered /\ outcome'.printed => dll_a(telegram) \in new \ old
       /\ old \ new # {} => Len(warned) = MaxWarned /\ IsInjective(warned)

LEMMA OfferingWarns ==
  ASSUME WarnInv, OfferToMeter
  PROVE  WarnInv' /\ WarnedStep
<1> DEFINE w == warning_printed_for_telegrams
           d == dll_a(telegram)
           t == Reread(telegram, meter_keys_[i], telegram.simulated, FALSE)
           p == parse(telegram, t)
<1>1. IsTelegram(telegram) /\ telegram' \in Air /\ i' = i + 1 /\ i' \in Nat /\ d \in Devices
  BY AirAssumption DEF WarnInv, OfferToMeter, Devices
<1>2. \/ p.warned = w /\ p.printed = FALSE
      \/ d \notin Range(w) /\ p.warned = RememberWarned(w, d)
  <2> DEFINE h == parseHeader(telegram, NewTelegram)
  <2>1. ReadTwice(telegram, h, t, p)
    BY <1>1, TelegramLeaves, Zenon DEF WarnInv
  <2> HIDE DEF h, t, p
  <2> QED
    BY <2>1, Zenon DEF ReadTwice, Leaves
<1>3. \/ /\ w' = p.warned
         /\ outcome' = [match |-> TRUE, ok |-> p.ok, dv_entries |-> p.dv_entries, printed |-> p.printed]
      \/ outcome' = NoOutcome /\ w' = w
  BY Zenon DEF OfferToMeter, handleTelegram, HandleHeader, TakeParsed, NotForMeter, Reread
<1> HIDE DEF t, p
<1>4. \/ w' = p.warned /\ outcome'.printed = p.printed
      \/ w' = w /\ outcome'.printed = FALSE
  BY <1>3 DEF NoOutcome
<1>5. CASE w' = w /\ outcome'.printed = FALSE
  BY <1>1, <1>5, Zenon DEF WarnInv, WarnedStep, Devices
<1>6. CASE d \notin Range(w) /\ w' = RememberWarned(w, d)
  <2>1. /\ IsWarned(Devices, w') /\ d \in Range(w')
        /\ Range(w) \ Range(w') # {} => Len(w) = MaxWarned
    BY <1>1, <1>6, Remembered, Zenon DEF WarnInv
  <2>2. WarnInv'
    BY <1>1, <2>1, Zenon DEF WarnInv, IsWarned, Devices
  <2> QED
    BY <1>6, <2>1, <2>2, Zenon DEF WarnInv, WarnedStep, IsWarned
<1> QED
  BY <1>2, <1>4, <1>5, <1>6, Zenon

LEMMA ServiceWarns ==
  ASSUME WarnInv, [ServiceNext]_allVars
  PROVE  WarnInv' /\ WarnedStep
<1>1. CASE OfferToMeter
  BY <1>1, OfferingWarns
<1>2. CASE Receive
  <2>1. /\ telegram' \in Air /\ i' = 1 /\ ~outcome'.printed
        /\ warning_printed_for_telegrams' = warning_printed_for_telegrams
    BY <1>2, Zenon DEF Receive, NoOutcome
  <2>2. i' \in Nat
    BY <2>1
  <2> QED
    BY <2>1, <2>2, Zenon DEF WarnInv, WarnedStep, Devices, IsWarned
<1>3. CASE UNCHANGED <<warning_printed_for_telegrams, telegram, i>>
  <2>1. i' # i + 1
    BY <1>3 DEF WarnInv
  <2> QED
    BY <1>3, <2>1, Zenon DEF WarnInv, WarnedStep, Offered, Devices, IsWarned
<1>4. OfferToMeter \/ Receive \/ UNCHANGED <<warning_printed_for_telegrams, telegram, i>>
  BY Zenon DEF ServiceNext, Connect, BeginLine, EndLine, ReadAnswer, CloseClient, ClientStep,
         processSerialData, acceptClient, receive, disconnectClient, AddToLine, ProcessLine,
         ReceiveTelegram, HandleTelegram, allVars, vars
<1> QED
  BY <1>1, <1>2, <1>3, <1>4, Zenon

LEMMA WarnedInitially == ServiceInit => WarnInv
<1> SUFFICES ASSUME ServiceInit PROVE WarnInv
  OBVIOUS
<1>1. telegram \in Air /\ i = 1 /\ warning_printed_for_telegrams = <<>>
  BY Zenon DEF ServiceInit, Init
<1>2. <<>> \in Seq(Devices) /\ Len(<<>>) = 0 /\ \A k \in DOMAIN <<>> : FALSE
  OBVIOUS
<1>3. i \in Nat /\ 0 <= MaxWarned
  BY <1>1, MaxWarnedAssumption
<1> QED
  BY <1>1, <1>2, <1>3, Zenon DEF WarnInv, IsWarned, IsInjective

\* The warning about the key of a device is printed once (warned_for_telegram_before):
\* it is remembered with the warning, and the device is forgotten only when
\* MaxWarned different ones were warned about, whatever telegrams and requests
\* come in which order.
THEOREM WarningsOnce == ServiceSpec => WarnedOnce
<1>1. WarnInv /\ [ServiceNext]_allVars => WarnInv'
  BY ServiceWarns
<1>2. WarnInv /\ [ServiceNext]_allVars =>
        [LET warned == warning_printed_for_telegrams
             old == Range(warned)
             new == Range(warned')
         IN /\ Offered /\ outcome'.printed => dll_a(telegram) \in new \ old
            /\ old \ new # {} => Len(warned) = MaxWarned /\ IsInjective(warned)]_vars
  BY ServiceWarns, Zenon DEF WarnedStep
<1> QED
  BY WarnedInitially, <1>1, <1>2, PTL DEF ServiceSpec, WarnedOnce

-----------------------------------------------------------------------------
(* What a telegram that is taken shows.                                     *)

\* The number of bytes that are decrypted is the number that is encrypted.
LEMMA AllBlocks ==
  ASSUME NEW a, IsTelegram(a), IsAnnounced(a), AESBytes(a) > 0, a.key # Plain,
         a.mode \in {"AES_CBC_IV", "AES_CBC_NO_IV"}
  PROVE  AESBytes(a) = a.encrypted
<1> DEFINE size == a.size
           blocks == a.blocks
           encrypted == a.encrypted
           n == IF blocks > 0 /\ 16 * blocks < size THEN 16 * blocks ELSE size
<1>1. size \in Nat /\ blocks \in Nat /\ encrypted \in Nat /\ encrypted <= size
  <2>1. size \in Nat /\ blocks \in 0..15 /\ encrypted \in 0..size
    BY Zenon DEF IsTelegram
  <2> HIDE DEF size, blocks, encrypted
  <2> QED
    BY <2>1
<1>2. AESBytes(a) = n - (n % 16) /\ n - (n % 16) > 0
  BY Zenon DEF AESBytes
<1>3. size >= 16 => encrypted = IF blocks > 0 THEN 16 * blocks ELSE size - (size % 16)
  BY Zenon DEF IsAnnounced
<1> HIDE DEF size, blocks, encrypted
<1>4. n \in Nat /\ n <= size
  BY <1>1
<1>5. size >= 16
  BY <1>1, <1>2, <1>4
<1>6. CASE blocks > 0
  <2>1. encrypted = 16 * blocks /\ n = 16 * blocks
    BY <1>1, <1>3, <1>5, <1>6
  <2>2. (16 * blocks) % 16 = 0
    BY <1>1
  <2> QED
    BY <1>1, <1>2, <2>1, <2>2 DEF encrypted
<1>7. CASE ~(blocks > 0)
  BY <1>2, <1>3, <1>5, <1>7, Zenon DEF encrypted
<1> QED
  BY <1>6, <1>7, Zenon

\* The content is open: it is what was sent, or a way of sending that is excepted.
Open(a, key, content) ==
    \/ content = a.content
    \/ ReadOtherwise(a)
    \/ key = NoKey /\ a.mode = "AES_CBC_NO_IV" /\ content = NoContent

LEMMA Payloads ==
  ASSUME NEW a, NEW t, IsParse(t)
  PROVE  /\ Fail(t).ok = FALSE /\ Fail(Warn(a, t)).ok = FALSE
         /\ \A c : [t EXCEPT !.payload = c].payload = c
         /\ AsReceived(a, t).payload = IF a.key = Plain THEN a.content ELSE Garbled
<1>1. Fail(Warn(a, t)).ok = FALSE
  BY WarnedFailing, Zenon
<1> QED
  BY <1>1, Failing, Zenon DEF IsParse, Fields, AsReceived

LEMMA OpenPlain ==
  ASSUME NEW a, NEW t, IsParse(t), a.key = Plain
  PROVE  Open(a, t.key, AsReceived(a, t).payload) /\ (TakePlain(a, t).ok => Open(a, t.key, TakePlain(a, t).payload))
  BY Payloads, Zenon DEF TakePlain, Open

\* The aes modes: what was encrypted, all of it and nothing else, is decrypted.
LEMMA OpenAES ==
  ASSUME NEW a, NEW t, IsParse(t), IsTelegram(a), IsAnnounced(a)
  PROVE  /\ a.mode = "AES_CBC_IV" /\ DecryptMode5(a, t).ok => Open(a, t.key, DecryptMode5(a, t).payload)
         /\ a.mode = "AES_CBC_NO_IV" /\ DecryptMode7(a, t).ok => Open(a, t.key, DecryptMode7(a, t).payload)
<1>1. CASE a.key = Plain
  <2>1. DecryptMode5(a, t) = TakePlain(a, t) /\ DecryptMode7(a, t) = TakePlain(a, t)
    BY <1>1 DEF DecryptMode5, DecryptMode7, alreadyDecryptedCBC
  <2> QED
    BY <1>1, <2>1, OpenPlain, Zenon
<1>2. CASE a.key # Plain
  <2> DEFINE c == Decrypted(a, AESBytes(a))
             t1 == TryDefaultKeys(a, addDefaultManufacturerKeyIfAny(a, t))
             w == Warn(a, t)
  <2>1. a.mode \in {"AES_CBC_IV", "AES_CBC_NO_IV"} /\ AESBytes(a) > 0 => c = a.content
    BY <1>2, AllBlocks, Zenon DEF Decrypted
  <2>2. IsParse(t1)
    <3> DEFINE t0 == addDefaultManufacturerKeyIfAny(a, t)
    <3>1. IsParse(t0)
      BY DEF addDefaultManufacturerKeyIfAny, IsParse, Fields
    <3> HIDE DEF t0
    <3> QED
      BY <3>1 DEF TryDefaultKeys, IsParse, Fields, t0
  <2>3. IsParse(w)
    BY Warning, Zenon DEF SameHeader, SameKeys
  <2> HIDE DEF c, t1, w
  <2>4. \/ DecryptMode5(a, t) \in {Fail(t), Fail(Warn(a, t1))}
        \/ DecryptMode5(a, t) = [t1 EXCEPT !.payload = c] /\ AESBytes(a) > 0
    BY <1>2, Zenon DEF DecryptMode5, alreadyDecryptedCBC, decrypt_TPL_AES_CBC_IV, c, t1
  <2>5. \/ DecryptMode7(a, t) = Fail(w)
        \/ DecryptMode7(a, t) = [w EXCEPT !.payload = NoContent] /\ t.key = NoKey
        \/ DecryptMode7(a, t) = [t EXCEPT !.payload = c] /\ AESBytes(a) > 0
    BY <1>2, Zenon DEF DecryptMode7, alreadyDecryptedCBC, decrypt_TPL_AES_CBC_NO_IV, MACFailed, c,
       w
  <2>6. /\ Fail(t).ok = FALSE /\ Fail(Warn(a, t1)).ok = FALSE /\ Fail(w).ok = FALSE
        /\ [t1 EXCEPT !.payload = c].payload = c /\ [t EXCEPT !.payload = c].payload = c
        /\ [w EXCEPT !.payload = NoContent].payload = NoContent
    BY <2>2, <2>3, Payloads, Zenon
  <2>7. ASSUME a.mode = "AES_CBC_IV", DecryptMode5(a, t).ok
        PROVE  Open(a, t.key, DecryptMode5(a, t).payload)
    BY <2>1, <2>4, <2>6, <2>7, Zenon DEF Open
  <2>8. ASSUME a.mode = "AES_CBC_NO_IV", DecryptMode7(a, t).ok
        PROVE  Open(a, t.key, DecryptMode7(a, t).payload)
    BY <2>1, <2>5, <2>6, <2>8, Zenon DEF Open
  <2> QED
    BY <2>7, <2>8, Zenon
<1> QED
  BY <1>1, <1>2, Zenon

LEMMA OpenOthers ==
  ASSUME NEW a, NEW t, IsParse(t), IsTelegram(a), IsAnnounced(a)
  PROVE  /\ a.mode = "DES_NO_IV" /\ DecryptMode2(a, t).ok => Open(a, t.key, DecryptMode2(a, t).payload)
         /\ a.mode = "DES_IV" /\ DecryptMode3(a, t).ok => Open(a, t.key, DecryptMode3(a, t).payload)
         /\ a.mode = "SPECIFIC_16_31" /\ DecryptDiehl(a, t).ok => Open(a, t.key, DecryptDiehl(a, t).payload)
         /\ a.mode \in {"NoSecurity", "other"} /\ TakePlain(a, t).ok => Open(a, t.key, TakePlain(a, t).payload)
<1> DEFINE c == Decrypted(a, DESBytes(a))
<1>1. a.mode \in {"DES_NO_IV", "DES_IV"} => Open(a, t.key, c)
  BY Zenon DEF Open, ReadOtherwise, DecryptedPast, Decrypted
<1> HIDE DEF c
<1>2. DecryptMode2(a, t) \in {Fail(t), Fail(Warn(a, t)), [t EXCEPT !.payload = c]}
  BY Zenon DEF DecryptMode2, c
<1>3. DecryptMode3(a, t) \in {Fail(Warn(a, t)), [t EXCEPT !.payload = c]}
  BY DEF DecryptMode3, c
<1>4. DecryptDiehl(a, t) \in {Fail(t), AsReceived(a, t), [t EXCEPT !.payload = a.content]}
  BY DEF DecryptDiehl
<1>5. TakePlain(a, t) \in {Fail(t), AsReceived(a, t)}
  BY Zenon DEF TakePlain
<1>6. a.mode \in {"SPECIFIC_16_31", "other", "NoSecurity"} => Open(a, t.key, AsReceived(a, t).payload)
  BY Payloads, Zenon DEF Open, ReadOtherwise, IsAnnounced
<1>7. Open(a, t.key, a.content)
  BY Zenon DEF Open
<1>8. a.mode = "DES_NO_IV" /\ DecryptMode2(a, t).ok => Open(a, t.key, DecryptMode2(a, t).payload)
  BY <1>1, <1>2, Payloads, ZenonT(40)
<1>9. a.mode = "DES_IV" /\ DecryptMode3(a, t).ok => Open(a, t.key, DecryptMode3(a, t).payload)
  BY <1>1, <1>3, Payloads, ZenonT(40)
<1>10. a.mode = "SPECIFIC_16_31" /\ DecryptDiehl(a, t).ok => Open(a, t.key, DecryptDiehl(a, t).payload)
  BY <1>4, <1>6, <1>7, Payloads, ZenonT(40)
<1>11. a.mode \in {"NoSecurity", "other"} /\ TakePlain(a, t).ok => Open(a, t.key, TakePlain(a, t).payload)
  BY <1>5, <1>6, Payloads, Zenon
<1> QED
  BY <1>8, <1>9, <1>10, <1>11, Zenon

LEMMA Opening ==
  ASSUME NEW a, NEW t, IsParse(t), IsTelegram(a), IsAnnounced(a), t.tpl_sec_mode = a.mode,
         potentiallyDecrypt(a, t).ok
  PROVE  Open(a, t.key, potentiallyDecrypt(a, t).payload)
<1>1. a.mode \in TPLSecurityModes
  BY Zenon DEF IsTelegram
<1>2. \/ a.mode = "AES_CBC_IV" /\ potentiallyDecrypt(a, t) = DecryptMode5(a, t)
      \/ a.mode = "AES_CBC_NO_IV" /\ potentiallyDecrypt(a, t) = DecryptMode7(a, t)
      \/ a.mode = "DES_NO_IV" /\ potentiallyDecrypt(a, t) = DecryptMode2(a, t)
      \/ a.mode = "DES_IV" /\ potentiallyDecrypt(a, t) = DecryptMode3(a, t)
      \/ a.mode = "SPECIFIC_16_31" /\ potentiallyDecrypt(a, t) = DecryptDiehl(a, t)
      \/ a.mode \in {"NoSecurity", "other"} /\ potentiallyDecrypt(a, t) = TakePlain(a, t)
  BY <1>1, Zenon DEF potentiallyDecrypt, TPLSecurityModes
<1> QED
  BY <1>2, OpenAES, OpenOthers, Zenon

\* What is shown when the object began with t and ended with u.
Shows(a, t, u) == Taken(u) => Open(a, t.key, u.dv_entries)

LEMMA HeaderShows ==
  ASSUME NEW a, NEW mt, NEW t, NEW x, IsParse(t), IsTelegram(a), IsAnnounced(a), HeaderOf(a, t, x),
         t.tpl_sec_mode \in {"NoSecurity", a.mode}
  PROVE  Shows(a, t, AfterHeader(a, mt, x))
<1> DEFINE d == potentiallyDecrypt(a, x)
           u == AfterHeader(a, mt, x)
<1>1. IsParse(x) /\ x.key = t.key /\ (x.ok => x.tpl_sec_mode = a.mode)
  BY Zenon DEF HeaderOf, SameKeys
<1>2. IsParse(d)
  BY <1>1, Decrypting, Zenon DEF Decryption
<1>3. x.ok /\ d.ok => Open(a, t.key, d.payload)
  BY <1>1, Opening, Zenon
<1>4. \/ u = x /\ ~x.ok
      \/ u = DecryptionFailed(d)
      \/ u = parseCompactDV(mt, d) /\ x.ok /\ d.ok
      \/ u = parseDV(d) /\ x.ok /\ d.ok
  BY Zenon DEF AfterHeader, AfterDecryption
<1> HIDE DEF d, u
<1>5. DecryptionFailed(d).decryption_failed = TRUE /\ parseDV(d).dv_entries = d.payload
  BY <1>2 DEF DecryptionFailed, parseDV, IsParse, Fields
<1>6. parseCompactDV(mt, d).ok => parseCompactDV(mt, d).dv_entries = d.payload
  BY <1>2, Failing, Zenon DEF parseCompactDV, IsParse, Fields
<1>7. Shows(a, t, u)
  BY <1>3, <1>4, <1>5, <1>6, Zenon DEF Shows, Taken
<1> QED
  BY <1>7, Zenon DEF u

LEMMA TransportShows ==
  ASSUME NEW a, NEW t, IsParse(t), IsTelegram(a), IsAnnounced(a),
         t.tpl_sec_mode \in {"NoSecurity", a.mode}
  PROVE  Shows(a, t, parseTPL(a, t))
<1>1. HeaderOf(a, t, parseShortTPL(a, t)) /\ HeaderOf(a, t, parseLongTPL(a, t)) /\ a.ci \in CIs
  BY Header, Zenon DEF IsTelegram
<1>2. /\ Shows(a, t, parse_TPL_72(a, t)) /\ Shows(a, t, parse_TPL_73(a, t))
      /\ Shows(a, t, parse_TPL_7A(a, t)) /\ Shows(a, t, parse_TPL_7B(a, t))
  BY <1>1, HeaderShows, Zenon DEF parse_TPL_72, parse_TPL_73, parse_TPL_7A, parse_TPL_7B
<1> DEFINE c == [t EXCEPT !.payload = a.content]
<1>3. IsParse(c) /\ c.payload = a.content
  BY DEF IsParse, Fields
<1> HIDE DEF c
<1>4. parseDV(c).dv_entries = a.content
  BY <1>3 DEF parseDV, IsParse, Fields
<1>5. parseCompactDV(a.mt, c).ok => parseCompactDV(a.mt, c).dv_entries = a.content
  BY <1>3, Failing, Zenon DEF parseCompactDV, IsParse, Fields
<1>6. Shows(a, t, parse_TPL_78(a, t)) /\ Shows(a, t, parse_TPL_79(a, t))
  BY <1>4, <1>5, Zenon DEF parse_TPL_78, parse_TPL_79, Shows, Taken, Open, c
<1>7. Shows(a, t, Fail(t)) /\ (Stopped(t) => Shows(a, t, t)) /\ (a.ci = "mfct" => Shows(a, t, t))
  BY Failing, Zenon DEF Shows, Taken, Stopped, Open, ReadOtherwise
<1>8. \/ parseTPL(a, t) \in {parse_TPL_72(a, t), parse_TPL_73(a, t), parse_TPL_7A(a, t), parse_TPL_7B(a, t),
                             parse_TPL_78(a, t), parse_TPL_79(a, t), Fail(t)}
      \/ parseTPL(a, t) = t /\ (Stopped(t) \/ a.ci = "mfct")
  BY <1>1, Zenon DEF parseTPL, CIs
<1> QED
  BY <1>2, <1>6, <1>7, <1>8, Zenon

LEMMA WholeParseShows ==
  ASSUME NEW a, IsTelegram(a), IsAnnounced(a), NEW keys, NEW simulated, NEW analyzed
  PROVE  LET p == parse(a, SecondParse(parseHeader(a, NewTelegram), keys, simulated, analyzed)) IN
           p.ok => Open(a, keys.confidentiality_key, p.dv_entries)
<1> DEFINE h == parseHeader(a, NewTelegram)
           t == SecondParse(h, keys, simulated, analyzed)
           p == parse(a, t)
<1>1. IsParse(h) /\ h.tpl_sec_mode \in {"NoSecurity", a.mode}
  BY FirstParse, Zenon
<1> HIDE DEF h
<1>2. /\ IsParse(t) /\ t.key = keys.confidentiality_key
      /\ t.tpl_sec_mode \in {"NoSecurity", a.mode}
  BY <1>1 DEF SecondParse, IsParse, Fields
<1> HIDE DEF t
<1>3. CASE a.type = "WMBUS"
  <2> DEFINE x == Lower(a, t)
             u == Layers(a, t)
  <2>1. IsParse(x) /\ x.key = t.key /\ x.tpl_sec_mode = t.tpl_sec_mode
    BY <1>2, LowerLayers DEF SameHeader, SameKeys
  <2>2. u = parseTPL(a, x)
    BY Zenon DEF Layers, Lower
  <2>3. p = [u EXCEPT !.ok = @ /\ ~u.decryption_failed]
    BY <1>3 DEF parse, parseWMBUS, OnlyDecrypted
  <2>4. IsParse(u)
    BY <1>2, AllLayers, Zenon DEF Reads, IsTelegram
  <2> HIDE DEF x, u, p
  <2>5. Shows(a, x, u)
    BY <1>2, <2>1, <2>2, TransportShows, Zenon
  <2>6. p.dv_entries = u.dv_entries /\ (p.ok => Taken(u))
    BY <2>3, <2>4, Zenon DEF IsParse, Fields, Taken
  <2>7. p.ok => Open(a, keys.confidentiality_key, p.dv_entries)
    BY <1>2, <2>1, <2>5, <2>6, Zenon DEF Shows
  <2> QED
    BY <2>7, Zenon DEF p, t, h
<1>4. CASE a.type = "MBUS"
  BY <1>4, Zenon DEF Open, ReadOtherwise
<1>5. CASE a.type = "HAN"
  <2>1. p = Fail(t)
    BY <1>5 DEF parse
  <2>2. ~p.ok
    BY <1>2, <2>1, Failing, Zenon
  <2> QED
    BY <2>2, Zenon DEF p, t, h
<1> QED
  BY <1>3, <1>4, <1>5, Zenon DEF IsTelegram

ShownInv == KeyInv /\ ShowsTheContent

LEMMA OfferingShows ==
  ASSUME ShownInv, OfferToMeter
  PROVE  ShowsTheContent'
<1> DEFINE h == parseHeader(telegram, NewTelegram)
           p == parse(telegram, SecondParse(h, meter_keys_[i], telegram.simulated, FALSE))
<1>1. /\ IsTelegram(telegram) /\ IsAnnounced(telegram) /\ i \in DOMAIN Meters /\ i \in Nat
      /\ i' = i + 1 /\ telegram' = telegram
  BY AirAssumption, MetersAssumption DEF ShownInv, KeyInv, OfferToMeter
<1>2. p.ok => Open(telegram, meter_keys_[i].confidentiality_key, p.dv_entries)
  BY <1>1, WholeParseShows, Zenon
<1>3. \/ outcome' = [match |-> TRUE, ok |-> p.ok, dv_entries |-> p.dv_entries, printed |-> p.printed]
      \/ outcome' = NoOutcome
  BY Zenon DEF OfferToMeter, handleTelegram, HandleHeader, TakeParsed, NotForMeter
<1> HIDE DEF h, p
<1>4. outcome'.ok => p.ok /\ outcome'.dv_entries = p.dv_entries
  BY <1>3 DEF NoOutcome
<1>5. meter_keys_[i].confidentiality_key = NoKey => Meters[i].key = NoKey
  BY <1>1, Zenon DEF ShownInv, KeyInv, KeysKept
<1>6. Asked' = i
  BY <1>1 DEF Asked
<1>7. ASSUME outcome'.ok
      PROVE  \/ outcome'.dv_entries = telegram.content
             \/ ReadOtherwise(telegram)
             \/ /\ Meters[i].key = NoKey /\ telegram.mode = "AES_CBC_NO_IV"
                /\ outcome'.dv_entries = NoContent
  BY <1>2, <1>4, <1>5, <1>7, Zenon DEF Open
<1> QED
  BY <1>1, <1>6, <1>7, Zenon DEF ShowsTheContent, Unverified

\* Telegram::parse, decrypt_TPL_AES_CBC_IV: a wireless telegram that a meter takes shows
\* exactly the content that was sent, whichever keys, security modes and layers it
\* has, for every telegram whose sender announces what it encrypts; the ways of
\* sending that the code reads otherwise are named in the property.
THEOREM ContentIsShown == ServiceSpec => []ShowsTheContent
<1>1. ServiceInit => ShownInv
  <2>1. Init => ~outcome.ok
    BY DEF Init, NoOutcome
  <2> QED
    BY <2>1, KeyInitially, Zenon DEF ServiceInit, ShownInv, ShowsTheContent
<1>2. ShownInv /\ [ServiceNext]_allVars => ShownInv'
  <2> SUFFICES ASSUME ShownInv, [ServiceNext]_allVars PROVE ShowsTheContent'
    BY ServiceKeepsKeys DEF ShownInv
  <2>1. CASE OfferToMeter
    BY <2>1, OfferingShows
  <2>2. CASE Receive
    <3>1. ~outcome'.ok
      BY <2>2, Zenon DEF Receive, NoOutcome
    <3> QED
      BY <3>1 DEF ShowsTheContent
  <2>3. CASE UNCHANGED <<telegram, i, outcome>>
    BY <2>3, Zenon DEF ShownInv, ShowsTheContent, Unverified, Asked
  <2>4. OfferToMeter \/ Receive \/ UNCHANGED <<telegram, i, outcome>>
    BY Zenon DEF ServiceNext, Connect, BeginLine, EndLine, ReadAnswer, CloseClient, ClientStep,
           processSerialData, acceptClient, receive, disconnectClient, AddToLine, ProcessLine,
           ReceiveTelegram, HandleTelegram, allVars, vars
  <2> QED
    BY <2>1, <2>2, <2>3, <2>4, Zenon
<1>3. ShownInv => ShowsTheContent
  BY DEF ShownInv
<1> QED
  BY <1>1, <1>2, <1>3, PTL DEF ServiceSpec

-----------------------------------------------------------------------------
(* The answers of the decoding service.                                      *)

Sequence(s) == s \in Seq(Range(s))

First(l) == [line |-> l, newline |-> FALSE]
Second(l) == [line |-> l, newline |-> TRUE]

\* The pieces w are those of the lines of a client that have no reply yet.
Carries(w, k) ==
    /\ Sequence(w)
    /\ Len(w) = 2 * (Len(k.lines) - Len(k.replies)) + Len(k.begun)
    /\ \A j \in 1 .. Len(k.lines) - Len(k.replies) :
           /\ w[2 * j - 1] = First(k.lines[Len(k.replies) + j])
           /\ w[2 * j] = Second(k.lines[Len(k.replies) + j])
    /\ k.begun # <<>> => w[Len(w)] = First(k.begun[1])

IsLink(k) ==
    /\ k = [state |-> k.state, lines |-> k.lines, begun |-> k.begun, inbox |-> k.inbox,
            replies |-> k.replies, read |-> k.read]
    /\ Sequence(k.lines) /\ Sequence(k.begun) /\ Sequence(k.inbox) /\ Sequence(k.replies)
    /\ Len(k.begun) <= 1

\* Each reply is the one to the line with the same number.
Replied(k) ==
    /\ Len(k.replies) <= Len(k.lines)
    /\ \A n \in DOMAIN k.replies :
           [m \in DOMAIN k.replies[n] |-> k.replies[n][m].line] = Answers(k.lines[n], k.lines[n])

\* A client that was not yet accepted.
Waits(c) == link[c].state = "off" \/ c \in Range(backlog)

Unprocessed(c) ==
    IF client_fd_ = c THEN (line_buffer_ \o data) \o link[c].inbox ELSE link[c].inbox

Linked(c) ==
    /\ IsLink(link[c]) /\ Replied(link[c])
    /\ Waits(c) => client_fd_ # c /\ link[c].replies = <<>>
    /\ link[c].state = "off" => c \notin Range(backlog)
    /\ ~killed /\ (client_fd_ = c \/ Waits(c)) => Carries(Unprocessed(c), link[c])

AnswerInv ==
    /\ link = [c \in Clients |-> link[c]]
    /\ client_fd_ \in Clients \cup {NoClient} /\ Range(backlog) \subseteq Clients
    /\ Sequence(backlog) /\ Sequence(data) /\ Sequence(line_buffer_)
    /\ \A m \in DOMAIN line_buffer_ : ~line_buffer_[m].newline
    /\ \A p, q \in DOMAIN backlog : backlog[p] = backlog[q] => p = q
    /\ \A c \in Clients : Linked(c)

LEMMA Appended ==
  ASSUME NEW s, Sequence(s), NEW e
  PROVE  /\ Sequence(Append(s, e))
         /\ Len(s) \in Nat /\ DOMAIN s = 1 .. Len(s)
         /\ Len(Append(s, e)) = Len(s) + 1 /\ DOMAIN Append(s, e) = 1 .. Len(s) + 1
         /\ \A m \in 1 .. Len(s) : Append(s, e)[m] = s[m]
         /\ Append(s, e)[Len(s) + 1] = e
         /\ Range(Append(s, e)) = Range(s) \cup {e}
<1> DEFINE S == Range(s) \cup {e}
           r == Append(s, e)
<1>1. s \in Seq(S) /\ e \in S
  BY DEF Sequence
<1> HIDE DEF S
<1>2. /\ r \in Seq(S)
      /\ Len(s) \in Nat /\ DOMAIN s = 1 .. Len(s)
      /\ Len(r) = Len(s) + 1 /\ DOMAIN r = 1 .. Len(s) + 1
      /\ \A m \in 1 .. Len(s) : r[m] = s[m]
      /\ r[Len(s) + 1] = e
  BY <1>1
<1> HIDE DEF r
<1>3. Range(r) = Range(s) \cup {e}
  <2>1. Range(r) \subseteq Range(s) \cup {e}
    <3> SUFFICES ASSUME NEW m \in DOMAIN r PROVE r[m] \in Range(s) \cup {e}
      BY Zenon DEF Range
    <3>1. m \in 1 .. Len(s) \/ m = Len(s) + 1
      BY <1>2
    <3> QED
      BY <1>2, <3>1, Zenon DEF Range
  <2>2. Range(s) \cup {e} \subseteq Range(r)
    <3>1. e \in Range(r)
      <4>1. Len(s) + 1 \in DOMAIN r
        BY <1>2
      <4> QED
        BY <1>2, <4>1, Zenon DEF Range
    <3>2. ASSUME NEW m \in DOMAIN s PROVE s[m] \in Range(r)
      <4>1. m \in DOMAIN r /\ r[m] = s[m]
        BY <1>2
      <4> QED
        BY <4>1 DEF Range
    <3> QED
      BY <3>1, <3>2 DEF Range
  <2> QED
    BY <2>1, <2>2
<1>4. Sequence(r)
  BY <1>2, <1>3, Zenon DEF Sequence, S
<1> QED
  BY <1>2, <1>3, <1>4, Zenon DEF r

\* The tail of a sequence, with what is appended to it.
LEMMA Shifted ==
  ASSUME NEW s, Sequence(s), s # <<>>
  PROVE  /\ Sequence(Tail(s)) /\ Len(s) > 0 /\ Len(Tail(s)) = Len(s) - 1
         /\ \A m \in 1 .. Len(s) - 1 : Tail(s)[m] = s[m + 1]
<1> DEFINE S == Range(s)
           r == Tail(s)
<1>1. s \in Seq(S)
  BY DEF Sequence
<1> HIDE DEF S
<1>2. /\ r \in Seq(S) /\ Len(s) \in Nat /\ Len(s) > 0 /\ Len(r) = Len(s) - 1
      /\ \A m \in 1 .. Len(s) - 1 : r[m] = s[m + 1]
  BY <1>1
<1> HIDE DEF r
<1>3. r \in Seq(Range(r))
  <2>1. r \in [1 .. Len(r) -> Range(r)] /\ Len(r) \in Nat
    BY <1>2 DEF Range
  <2> QED
    BY <2>1
<1> QED
  BY <1>2, <1>3, Zenon DEF Sequence, r

LEMMA Joined ==
  ASSUME NEW s, Sequence(s), NEW t, Sequence(t)
  PROVE  /\ Sequence(s \o t) /\ Len(s) \in Nat /\ Len(t) \in Nat /\ Len(s \o t) = Len(s) + Len(t)
         /\ \A m \in 1 .. Len(s) : (s \o t)[m] = s[m]
         /\ \A m \in 1 .. Len(t) : (s \o t)[Len(s) + m] = t[m]
<1> DEFINE S == Range(s) \cup Range(t)
           r == s \o t
<1>1. s \in Seq(S) /\ t \in Seq(S)
  BY DEF Sequence
<1> HIDE DEF S
<1>2. /\ r \in Seq(S) /\ Len(s) \in Nat /\ Len(t) \in Nat /\ Len(r) = Len(s) + Len(t)
      /\ \A m \in 1 .. Len(s) : r[m] = s[m]
      /\ \A m \in 1 .. Len(t) : r[Len(s) + m] = t[m]
  BY <1>1
<1> HIDE DEF r
<1>3. r \in Seq(Range(r))
  <2>1. r \in [1 .. Len(r) -> Range(r)] /\ Len(r) \in Nat
    BY <1>2 DEF Range
  <2> QED
    BY <2>1
<1> QED
  BY <1>2, <1>3, Zenon DEF Sequence, r

\* Reading on in what was received.
LEMMA Moved ==
  ASSUME NEW s, Sequence(s), NEW t, Sequence(t), t # <<>>
  PROVE  Append(s, Head(t)) \o Tail(t) = s \o t
<1> DEFINE S == Range(s) \cup Range(t)
<1>1. s \in Seq(S) /\ t \in Seq(S)
  BY DEF Sequence
<1> HIDE DEF S
<1> QED
  BY <1>1

LEMMA Empties ==
  ASSUME NEW s, Sequence(s)
  PROVE  /\ Sequence(<<>>) /\ s \o <<>> = s /\ <<>> \o s = s
         /\ (s = <<>>) = (Len(s) = 0) /\ Len(s) \in Nat /\ DOMAIN s = 1 .. Len(s)
<1> DEFINE S == Range(s)
<1>1. s \in Seq(S)
  BY DEF Sequence
<1> HIDE DEF S
<1>2. Sequence(<<>>)
  BY DEF Sequence
<1> QED
  BY <1>1, <1>2

\* processLine: the answer names the line.
LEMMA AnswersLine ==
  ASSUME NEW l
  PROVE  LET a == processLine(l).answer
         IN a = [line |-> l, status |-> a.status, shown |-> a.shown]
<1> DEFINE Named(r) == r.answer = [line |-> l, status |-> r.answer.status, shown |-> r.answer.shown]
<1>1. Named(Unchanged(l)) /\ Named([Unchanged(l) EXCEPT !.answer.status = "drivers"])
  BY Zenon DEF Unchanged, Error
<1>2. \A h : Named([Unchanged(l) EXCEPT !.formats = h])
  BY Zenon DEF Unchanged, Error
<1>3. \A id, status, meter, formats : Named(Decoded(l, id, status, meter, formats))
  BY DEF Decoded
<1> HIDE DEF Named
<1>4. \A id, h, meter : Named(DecodeWith(l, id, h, meter))
  BY <1>3, Zenon DEF DecodeWith, DecodedFrom
<1>5. \A cache : Named(handleDecode(cache, l))
  BY <1>2, <1>4, Zenon DEF handleDecode, DecodeParsed, DecodeHeader
<1>6. Named(processLine(l))
  BY <1>1, <1>5 DEF processLine
<1> QED
  BY <1>6, Zenon DEF Named

LEMMA Kept ==
  ASSUME NEW d, Linked(d), IsLink(link'[d]),
         link'[d].lines = link[d].lines, link'[d].begun = link[d].begun,
         link'[d].replies = link[d].replies,
         service' = service, ~killed' => ~killed,
         Waits(d)' => Waits(d) /\ client_fd_' # d,
         link'[d].state = "off" => d \notin Range(backlog'),
         client_fd_' = d => client_fd_ = d \/ Waits(d),
         ~killed' /\ (client_fd_' = d \/ Waits(d)') => Unprocessed(d)' = Unprocessed(d)
  PROVE  Linked(d)'
<1>1. Replied(link[d])'
  BY Zenon DEF Linked, Replied, Answers
<1>2. ASSUME ~killed', client_fd_' = d \/ Waits(d)' PROVE Carries(Unprocessed(d), link[d])'
  <2>1. Carries(Unprocessed(d), link[d])
    BY <1>2, Zenon DEF Linked
  <2>2. Unprocessed(d)' = Unprocessed(d)
    BY <1>2, Zenon
  <2> QED
    BY <2>1, <2>2, Zenon DEF Carries
<1>3. Waits(d)' => link'[d].replies = <<>>
  BY Zenon DEF Linked
<1> QED
  BY <1>1, <1>2, <1>3, ZenonT(40) DEF Linked

LEMMA AppendedTo ==
  ASSUME NEW s, Sequence(s), NEW t, Sequence(t), NEW e
  PROVE  s \o Append(t, e) = Append(s \o t, e)
<1> DEFINE S == (Range(s) \cup Range(t)) \cup {e}
<1>1. s \in Seq(S) /\ t \in Seq(S) /\ e \in S
  BY DEF Sequence
<1> HIDE DEF S
<1> QED
  BY <1>1

\* The lengths of the sequences of a client.
LEMMA Lengths ==
  ASSUME NEW k, IsLink(k), Replied(k)
  PROVE  /\ Len(k.lines) \in Nat /\ Len(k.replies) \in Nat /\ Len(k.begun) \in Nat
         /\ (k.begun = <<>>) = (Len(k.begun) = 0)
         /\ Len(k.replies) <= Len(k.lines) /\ Len(k.begun) <= 1
  BY Empties, Zenon DEF IsLink, Replied

LEMMA Begins ==
  ASSUME NEW k, IsLink(k), Replied(k), k.begun = <<>>, NEW w, Carries(w, k), NEW l, NEW x,
         x.lines = k.lines, x.replies = k.replies, x.begun = <<l>>
  PROVE  Carries(Append(w, First(l)), x)
<1> DEFINE v == Append(w, First(l))
           n == Len(k.replies)
           z == Len(k.lines)
<1>1. n \in Nat /\ z \in Nat /\ n <= z /\ Len(k.begun) = 0
  BY Lengths, Zenon
<1>2. Sequence(w) /\ Len(w) = 2 * (z - n)
  BY <1>1 DEF Carries
<1> HIDE DEF n, z
<1>3. /\ Sequence(v) /\ Len(v) = Len(w) + 1 /\ \A m \in 1 .. Len(w) : v[m] = w[m]
      /\ v[Len(w) + 1] = First(l)
  <2>1. Sequence(v) /\ Len(v) = Len(w) + 1 /\ v[Len(w) + 1] = First(l)
    BY <1>2, Appended, Zenon
  <2>2. \A m \in 1 .. Len(w) : v[m] = w[m]
    BY <1>2, Appended
  <2> QED
    BY <2>1, <2>2, Zenon
<1> HIDE DEF v
<1>4. ASSUME NEW j \in 1 .. z - n
      PROVE  v[2 * j - 1] = First(k.lines[n + j]) /\ v[2 * j] = Second(k.lines[n + j])
  <2>1. w[2 * j - 1] = First(k.lines[n + j]) /\ w[2 * j] = Second(k.lines[n + j])
    BY Zenon DEF Carries, n, z
  <2>2. 2 * j - 1 \in 1 .. Len(w) /\ 2 * j \in 1 .. Len(w)
    BY <1>1, <1>2
  <2> QED
    BY <1>3, <2>1, <2>2, Zenon
<1>5. Len(x.begun) = 1 /\ x.begun[1] = l /\ Len(v) = 2 * (z - n) + 1
  BY <1>1, <1>2, <1>3
<1>6. v[Len(v)] = First(l)
  BY <1>3, Zenon
<1>7. Carries(v, x)
  BY <1>3, <1>4, <1>5, <1>6, Zenon DEF Carries, n, z
<1> QED
  BY <1>7, Zenon DEF v

LEMMA Ends ==
  ASSUME NEW k, IsLink(k), Replied(k), k.begun # <<>>, NEW w, Carries(w, k), NEW x,
         x.lines = Append(k.lines, Head(k.begun)), x.replies = k.replies, x.begun = <<>>
  PROVE  Carries(Append(w, Second(Head(k.begun))), x)
<1> DEFINE l == Head(k.begun)
           v == Append(w, Second(l))
           n == Len(k.replies)
           z == Len(k.lines)
<1>1. n \in Nat /\ z \in Nat /\ n <= z /\ Len(k.begun) = 1
  <2> DEFINE b == Len(k.begun)
  <2>1. n \in Nat /\ z \in Nat /\ n <= z /\ b \in Nat /\ b # 0 /\ b <= 1
    BY Lengths, Zenon
  <2> HIDE DEF b
  <2>2. b = 1
    BY <2>1
  <2> QED
    BY <2>1, <2>2, Zenon DEF b
<1>2. Sequence(w) /\ Len(w) = 2 * (z - n) + 1 /\ w[Len(w)] = First(k.begun[1])
  BY <1>1, Zenon DEF Carries
<1>3. k.begun[1] = l
  BY <1>1 DEF IsLink, Sequence
<1>4. /\ Len(x.lines) = z + 1 /\ x.lines[z + 1] = l /\ \A m \in 1 .. z : x.lines[m] = k.lines[m]
  <2>1. Sequence(k.lines)
    BY Zenon DEF IsLink
  <2> DEFINE a == Append(k.lines, l)
  <2>2. Len(a) = z + 1 /\ a[z + 1] = l
    BY <2>1, Appended, Zenon
  <2>3. \A m \in 1 .. z : a[m] = k.lines[m]
    BY <2>1, Appended
  <2>4. x.lines = a
    BY Zenon
  <2> HIDE DEF a, l, z
  <2> QED
    BY <2>2, <2>3, <2>4, Zenon
<1> HIDE DEF l, n, z
<1>5. /\ Sequence(v) /\ Len(v) = Len(w) + 1 /\ \A m \in 1 .. Len(w) : v[m] = w[m]
      /\ v[Len(w) + 1] = Second(l)
  <2>1. Sequence(v) /\ Len(v) = Len(w) + 1 /\ v[Len(w) + 1] = Second(l)
    BY <1>2, Appended, Zenon
  <2>2. \A m \in 1 .. Len(w) : v[m] = w[m]
    BY <1>2, Appended
  <2> QED
    BY <2>1, <2>2, Zenon
<1> HIDE DEF v
<1>6. ASSUME NEW j \in 1 .. z - n
      PROVE  v[2 * j - 1] = First(x.lines[n + j]) /\ v[2 * j] = Second(x.lines[n + j])
  <2>1. w[2 * j - 1] = First(k.lines[n + j]) /\ w[2 * j] = Second(k.lines[n + j])
    BY Zenon DEF Carries, n, z
  <2>2. 2 * j - 1 \in 1 .. Len(w) /\ 2 * j \in 1 .. Len(w) /\ n + j \in 1 .. z
    BY <1>1, <1>2
  <2> QED
    BY <1>4, <1>5, <2>1, <2>2, Zenon
<1>7. v[2 * (z + 1 - n) - 1] = First(x.lines[z + 1]) /\ v[2 * (z + 1 - n)] = Second(x.lines[z + 1])
  <2>1. 2 * (z + 1 - n) - 1 = Len(w) /\ 2 * (z + 1 - n) = Len(w) + 1 /\ Len(w) \in 1 .. Len(w)
    BY <1>1, <1>2
  <2> QED
    BY <1>2, <1>3, <1>4, <1>5, <2>1, Zenon
<1>8. ASSUME NEW j \in 1 .. z + 1 - n
      PROVE  v[2 * j - 1] = First(x.lines[n + j]) /\ v[2 * j] = Second(x.lines[n + j])
  <2>1. CASE j \in 1 .. z - n
    BY <1>6, <2>1, Zenon
  <2>2. CASE j = z + 1 - n
    <3>1. n + j = z + 1
      BY <1>1, <2>2
    <3> QED
      BY <1>7, <2>2, <3>1, Zenon
  <2>3. j \in 1 .. z - n \/ j = z + 1 - n
    BY <1>1
  <2> QED
    BY <2>1, <2>2, <2>3, Zenon
<1>9. Len(x.begun) = 0 /\ Len(v) = 2 * (z + 1 - n)
  BY <1>1, <1>2, <1>5
<1>10. /\ Sequence(v) /\ Len(v) = 2 * (Len(x.lines) - Len(x.replies)) + Len(x.begun)
       /\ Len(x.lines) - Len(x.replies) = z + 1 - n /\ Len(x.replies) = n
  <2> DEFINE a == Len(x.lines)
             b == Len(x.replies)
             e == Len(x.begun)
             f == Len(v)
  <2>1. b = n /\ a = z + 1 /\ e = 0 /\ f = 2 * (z + 1 - n)
    BY <1>4, <1>9, Zenon DEF n
  <2> HIDE DEF a, b, e, f
  <2>2. f = 2 * (a - b) + e /\ a - b = z + 1 - n
    BY <1>1, <2>1
  <2> QED
    BY <1>5, <2>1, <2>2, Zenon DEF a, b, e, f
<1>11. Carries(v, x)
  BY <1>8, <1>10, Zenon DEF Carries
<1> QED
  BY <1>11, Zenon DEF v, l

\* The pieces in the buffer, in what was received and on the way.
LEMMA Pieces ==
  ASSUME NEW b, Sequence(b), NEW d, Sequence(d), d # <<>>, NEW r, Sequence(r)
  PROVE  LET w == (b \o d) \o r
         IN /\ Len(b) \in Nat /\ Len(d) \in Nat /\ Len(r) \in Nat /\ Len(d) # 0
            /\ Len(w) = Len(b) + Len(d) + Len(r)
            /\ \A m \in 1 .. Len(b) : w[m] = b[m]
            /\ \A m \in 1 .. Len(d) : w[Len(b) + m] = d[m]
            /\ \A m \in 1 .. Len(r) : w[Len(b) + Len(d) + m] = r[m]
            /\ Head(d) = d[1]
<1> DEFINE S == (Range(b) \cup Range(d)) \cup Range(r)
<1>1. b \in Seq(S) /\ d \in Seq(S) /\ r \in Seq(S)
  BY DEF Sequence
<1> HIDE DEF S
<1> QED
  BY <1>1

\* Handling a line: the buffer and the piece with the newline are the first
\* line of the client that has no reply.
LEMMA Complete ==
  ASSUME NEW k, IsLink(k), Replied(k),
         NEW b, Sequence(b), \A m \in DOMAIN b : ~b[m].newline,
         NEW d, Sequence(d), d # <<>>, Head(d).newline,
         NEW r, Sequence(r), Carries((b \o d) \o r, k)
  PROVE  /\ Len(k.replies) < Len(k.lines)
         /\ b = <<First(k.lines[Len(k.replies) + 1])>>
         /\ Head(d) = Second(k.lines[Len(k.replies) + 1])
<1> DEFINE w == (b \o d) \o r
           n == Len(k.replies)
           z == Len(k.lines)
           y == Len(k.begun)
           l == k.lines[n + 1]
           B == Len(b)
           D == Len(d)
           R == Len(r)
<1>1. n \in Nat /\ z \in Nat /\ n <= z /\ y \in Nat /\ y <= 1 /\ (k.begun = <<>>) = (y = 0)
  BY Lengths, Zenon
<1>2. /\ B \in Nat /\ D \in Nat /\ R \in Nat /\ D # 0 /\ Len(w) = B + D + R
      /\ \A m \in 1 .. B : w[m] = b[m]
      /\ \A m \in 1 .. D : w[B + m] = d[m]
      /\ d[1] = Head(d)
  BY Pieces
<1>3. DOMAIN b = 1 .. B
  BY Empties, Zenon
<1>4. /\ Len(w) = 2 * (z - n) + y
      /\ \A j \in 1 .. z - n : w[2 * j - 1] = First(k.lines[n + j]) /\ w[2 * j] = Second(k.lines[n + j])
      /\ k.begun # <<>> => w[Len(w)] = First(k.begun[1])
  BY Zenon DEF Carries
<1> HIDE DEF w, n, z, y, B, D, R
<1>5. w[B + 1] = Head(d)
  <2>1. 1 \in 1 .. D
    BY <1>2
  <2> QED
    BY <1>2, <2>1, Zenon
<1>6. \A e : ~First(e).newline /\ Second(e).newline
  BY Zenon DEF First, Second
<1>7. n < z
  <2> SUFFICES ASSUME z = n PROVE FALSE
    BY <1>1
  <2>1. B = 0 /\ Len(w) = 1 /\ y = 1
    BY <1>1, <1>2, <1>4, SMTT(30)
  <2>2. w[1] = First(k.begun[1])
    BY <1>1, <1>4, <2>1
  <2>3. w[1] = Head(d)
    BY <1>5, <2>1, SMTT(30)
  <2> QED
    BY <1>6, <2>2, <2>3, Zenon
<1>8. w[1] = First(l) /\ w[2] = Second(l)
  <2>1. 1 \in 1 .. z - n /\ 2 * 1 - 1 = 1 /\ 2 * 1 = 2
    BY <1>1, <1>7
  <2> QED
    BY <1>4, <2>1, Zenon
<1> HIDE DEF l
<1>9. B = 1
  <2>1. B # 0
    <3> SUFFICES ASSUME B = 0 PROVE FALSE
      BY Zenon
    <3>1. w[1] = Head(d)
      BY <1>5
    <3> QED
      BY <1>6, <1>8, <3>1, Zenon
  <2>2. ~(B >= 2)
    <3> SUFFICES ASSUME B >= 2 PROVE FALSE
      BY Zenon
    <3>1. 2 \in 1 .. B
      BY <1>2
    <3>2. w[2] = b[2] /\ ~b[2].newline
      BY <1>2, <1>3, <3>1, Zenon
    <3> QED
      BY <1>6, <1>8, <3>2, Zenon
  <2> QED
    BY <1>2, <2>1, <2>2
<1>10. Head(d) = Second(l)
  BY <1>5, <1>8, <1>9
<1>11. b[1] = First(l)
  <2>1. 1 \in 1 .. B
    BY <1>9
  <2> QED
    BY <1>2, <1>8, <2>1, Zenon
<1>12. b = <<First(l)>>
  BY <1>9, <1>11 DEF Sequence, B
<1> QED
  BY <1>7, <1>10, <1>12, Zenon DEF n, z, l

LEMMA AfterOne ==
  ASSUME NEW p, NEW d, Sequence(d), d # <<>>, NEW r, Sequence(r)
  PROVE  LET w == (<<p>> \o d) \o r
         IN /\ Len(d) \in Nat /\ Len(r) \in Nat /\ Len(d) # 0 /\ Len(w) = 1 + Len(d) + Len(r)
            /\ \A m \in 1 .. Len(d) : w[1 + m] = d[m]
            /\ \A m \in 1 .. Len(r) : w[1 + Len(d) + m] = r[m]
<1> DEFINE b == <<p>>
           w == (b \o d) \o r
           B == Len(b)
<1>1. Sequence(b)
  BY DEF Sequence, Range
<1>2. B = 1
  OBVIOUS
<1> HIDE DEF b
<1>3. /\ Len(d) \in Nat /\ Len(r) \in Nat /\ Len(d) # 0 /\ Len(w) = B + Len(d) + Len(r)
      /\ \A m \in 1 .. Len(d) : w[B + m] = d[m]
      /\ \A m \in 1 .. Len(r) : w[B + Len(d) + m] = r[m]
  BY <1>1, Pieces
<1> HIDE DEF w, B
<1>4. /\ Len(d) \in Nat /\ Len(r) \in Nat /\ Len(d) # 0 /\ Len(w) = 1 + Len(d) + Len(r)
      /\ \A m \in 1 .. Len(d) : w[1 + m] = d[m]
      /\ \A m \in 1 .. Len(r) : w[1 + Len(d) + m] = r[m]
  BY <1>2, <1>3, Zenon
<1> QED
  BY <1>4, Zenon DEF w, b

LEMMA Consumed ==
  ASSUME NEW k, IsLink(k), Replied(k),
         NEW p, NEW d, Sequence(d), d # <<>>,
         NEW r, Sequence(r), Carries((<<p>> \o d) \o r, k), Len(k.replies) < Len(k.lines),
         NEW x, x.lines = k.lines, x.begun = k.begun, Len(x.replies) = Len(k.replies) + 1
  PROVE  Carries((<<>> \o Tail(d)) \o r, x)
<1> DEFINE w == (<<p>> \o d) \o r
           v == (<<>> \o Tail(d)) \o r
           n == Len(k.replies)
           z == Len(k.lines)
           y == Len(k.begun)
           D == Len(d)
           R == Len(r)
<1>1. /\ n \in Nat /\ z \in Nat /\ n < z /\ y \in Nat /\ y <= 1
      /\ (k.begun = <<>>) = (y = 0)
  BY Lengths, Zenon
<1>2. /\ D \in Nat /\ R \in Nat /\ D # 0 /\ Len(w) = 1 + D + R
      /\ \A m \in 1 .. D : w[1 + m] = d[m]
      /\ \A m \in 1 .. R : w[1 + D + m] = r[m]
  BY AfterOne
<1>3. /\ Len(w) = 2 * (z - n) + y
      /\ \A j \in 1 .. z - n : w[2 * j - 1] = First(k.lines[n + j]) /\ w[2 * j] = Second(k.lines[n + j])
      /\ k.begun # <<>> => w[Len(w)] = First(k.begun[1])
  BY Zenon DEF Carries
<1>4. /\ Sequence(v) /\ Len(v) = D - 1 + R
      /\ \A m \in 1 .. D - 1 : v[m] = d[m + 1]
      /\ \A m \in 1 .. R : v[D - 1 + m] = r[m]
  <2>1. Sequence(Tail(d)) /\ Len(Tail(d)) = D - 1 /\ \A m \in 1 .. D - 1 : Tail(d)[m] = d[m + 1]
    BY Shifted, Zenon
  <2>2. v = Tail(d) \o r
    BY <2>1, Empties, Zenon
  <2> HIDE DEF v, D, R
  <2>3. /\ Sequence(v) /\ Len(v) = Len(Tail(d)) + Len(r)
        /\ \A m \in 1 .. Len(Tail(d)) : v[m] = Tail(d)[m]
        /\ \A m \in 1 .. Len(r) : v[Len(Tail(d)) + m] = r[m]
    BY <2>1, <2>2, Joined
  <2> QED
    BY <2>1, <2>3, Zenon DEF R
<1> HIDE DEF w, v, n, z, y, D, R
<1>5. Len(v) = Len(w) - 2 /\ \A m \in 1 .. Len(v) : v[m] = w[m + 2]
  <2>1. Len(v) = Len(w) - 2
    BY <1>2, <1>4, SMTT(30)
  <2>2. ASSUME NEW m \in 1 .. Len(v) PROVE v[m] = w[m + 2]
    <3>1. CASE m \in 1 .. D - 1
      <4>1. m + 1 \in 1 .. D /\ 1 + (m + 1) = m + 2
        BY <1>2, <3>1, SMTT(30)
      <4>2. v[m] = d[m + 1] /\ w[1 + (m + 1)] = d[m + 1]
        BY <1>2, <1>4, <3>1, <4>1, Zenon
      <4> QED
        BY <4>1, <4>2, Zenon
    <3>2. CASE m \notin 1 .. D - 1
      <4> DEFINE h == m - (D - 1)
      <4>1. h \in 1 .. R /\ D - 1 + h = m /\ 1 + D + h = m + 2
        BY <1>2, <1>4, <3>2, SMTT(30)
      <4> HIDE DEF h
      <4>2. v[D - 1 + h] = r[h] /\ w[1 + D + h] = r[h]
        BY <1>2, <1>4, <4>1, Zenon
      <4> QED
        BY <4>1, <4>2, Zenon
    <3> QED
      BY <3>1, <3>2, Zenon
  <2> QED
    BY <2>1, <2>2, Zenon
<1>6. ASSUME NEW j \in 1 .. z - (n + 1)
      PROVE  v[2 * j - 1] = First(x.lines[(n + 1) + j]) /\ v[2 * j] = Second(x.lines[(n + 1) + j])
  <2> DEFINE f == Len(v)
             g == Len(w)
  <2>1. /\ 2 * j - 1 \in 1 .. f /\ 2 * j \in 1 .. f /\ j + 1 \in 1 .. z - n
        /\ (2 * j - 1) + 2 = 2 * (j + 1) - 1 /\ 2 * j + 2 = 2 * (j + 1) /\ n + (j + 1) = (n + 1) + j
    <3>1. f = g - 2 /\ g = 2 * (z - n) + y
      BY <1>3, <1>5, Zenon
    <3> HIDE DEF f, g
    <3> QED
      BY <1>1, <3>1
  <2>2. /\ w[2 * (j + 1) - 1] = First(k.lines[n + (j + 1)])
        /\ w[2 * (j + 1)] = Second(k.lines[n + (j + 1)])
    BY <1>3, <2>1, Zenon
  <2>3. v[2 * j - 1] = w[(2 * j - 1) + 2] /\ v[2 * j] = w[2 * j + 2]
    BY <1>5, <2>1, ZenonT(40)
  <2> QED
    BY <2>1, <2>2, <2>3, Zenon
<1>7. ASSUME k.begun # <<>> PROVE v[Len(v)] = First(k.begun[1])
  <2>1. Len(v) \in 1 .. Len(v) /\ Len(v) + 2 = Len(w)
    BY <1>1, <1>3, <1>5, <1>7, SMTT(30)
  <2> QED
    BY <1>3, <1>5, <1>7, <2>1, Zenon
<1>8. Len(v) = 2 * (z - (n + 1)) + y
  BY <1>1, <1>3, <1>5
<1>9. Len(x.lines) = z /\ Len(x.begun) = y /\ Len(x.replies) = n + 1
  BY Zenon DEF z, y, n
<1>10. Carries(v, x)
  BY <1>4, <1>6, <1>7, <1>8, <1>9, Zenon DEF Carries
<1> QED
  BY <1>10, Zenon DEF v

\* The lines and the replies stay when a client connects, reads or leaves.
LEMMA Relinked ==
  ASSUME NEW k, IsLink(k), NEW x,
         \/ \E a : x = [k EXCEPT !.state = a]
         \/ \E a : x = [k EXCEPT !.read = a]
         \/ x = [k EXCEPT !.inbox = <<>>]
  PROVE  /\ IsLink(x) /\ x.lines = k.lines /\ x.begun = k.begun /\ x.replies = k.replies
         /\ x.state = k.state \/ x = [k EXCEPT !.state = x.state]
         /\ x.inbox = k.inbox \/ x = [k EXCEPT !.inbox = <<>>]
<1>1. k = [state |-> k.state, lines |-> k.lines, begun |-> k.begun, inbox |-> k.inbox,
           replies |-> k.replies, read |-> k.read]
  BY Zenon DEF IsLink
<1>2. Sequence(<<>>)
  BY DEF Sequence
<1>3. PICK a, b, e :
          /\ x = [state |-> a, lines |-> k.lines, begun |-> k.begun, inbox |-> b,
                  replies |-> k.replies, read |-> e]
          /\ b = k.inbox \/ b = <<>>
  BY <1>1
<1>4. IsLink(x) /\ x.lines = k.lines /\ x.begun = k.begun /\ x.replies = k.replies
  BY <1>2, <1>3, Zenon DEF IsLink
<1> QED
  BY <1>1, <1>4, Zenon

LEMMA ClientFrame ==
  ASSUME AnswerInv, NEW c \in Clients, NEW x, ClientStep(c, x)
  PROVE  /\ link' = [d \in Clients |-> link'[d]] /\ link'[c] = x
         /\ \A d \in Clients \ {c} : link'[d] = link[d]
         /\ service' = service /\ client_fd_' = client_fd_ /\ data' = data
         /\ line_buffer_' = line_buffer_ /\ killed' = killed /\ ~killed
<1>1. link = [d \in Clients |-> link[d]] /\ link' = [link EXCEPT ![c] = x]
  BY Zenon DEF AnswerInv, ClientStep
<1>2. /\ service' = service /\ client_fd_' = client_fd_ /\ data' = data
      /\ line_buffer_' = line_buffer_ /\ killed' = killed /\ ~killed
  BY Zenon DEF ClientStep
<1> QED
  BY <1>1, <1>2, Zenon

LEMMA ConnectKeeps ==
  ASSUME AnswerInv, NEW c \in Clients, Connect(c)
  PROVE  AnswerInv'
<1> DEFINE x == [link[c] EXCEPT !.state = "open"]
<1>1. /\ link[c].state = "off" /\ backlog' = Append(backlog, c) /\ ClientStep(c, x)
  BY Zenon DEF Connect
<1>2. Linked(c) /\ c \notin Range(backlog) /\ Waits(c) /\ client_fd_ # c
  BY <1>1, Zenon DEF AnswerInv, Linked, Waits
<1>3. /\ link' = [d \in Clients |-> link'[d]] /\ link'[c] = x
      /\ \A d \in Clients \ {c} : link'[d] = link[d]
      /\ service' = service /\ client_fd_' = client_fd_ /\ data' = data
      /\ line_buffer_' = line_buffer_ /\ killed' = killed /\ ~killed
  BY <1>1, ClientFrame, Zenon
<1>4. /\ Sequence(backlog) /\ Sequence(backlog') /\ Range(backlog') = Range(backlog) \cup {c}
      /\ Len(backlog) \in Nat /\ DOMAIN backlog = 1 .. Len(backlog)
      /\ DOMAIN backlog' = 1 .. Len(backlog) + 1
      /\ \A m \in 1 .. Len(backlog) : backlog'[m] = backlog[m]
      /\ backlog'[Len(backlog) + 1] = c
  BY <1>1, Appended DEF AnswerInv
<1>5. \A p, q \in DOMAIN backlog' : backlog'[p] = backlog'[q] => p = q
  <2>1. \A p, q \in DOMAIN backlog : backlog[p] = backlog[q] => p = q
    BY Zenon DEF AnswerInv
  <2>2. \A p \in DOMAIN backlog : backlog[p] # c
    BY <1>2 DEF Range
  <2> QED
    BY <1>4, <2>1, <2>2
<1>6. ASSUME NEW d \in Clients, d # c PROVE Linked(d)'
  <2>1. Linked(d) /\ IsLink(link[d]) /\ link'[d] = link[d]
    BY <1>3, <1>6, Zenon DEF AnswerInv, Linked
  <2>2. (d \in Range(backlog')) = (d \in Range(backlog))
    BY <1>4, <1>6
  <2>3. Unprocessed(d)' = Unprocessed(d)
    BY <1>3, <2>1, Zenon DEF Unprocessed
  <2>4. (Waits(d)' => Waits(d)) /\ (Waits(d) => client_fd_ # d)
    BY <2>1, <2>2, Zenon DEF Waits, Linked
  <2>5. link[d].state = "off" => d \notin Range(backlog)
    BY <2>1, Zenon DEF Linked
  <2> QED
    BY <1>3, <2>1, <2>2, <2>3, <2>4, <2>5, Kept, Zenon
<1>7. Linked(c)'
  <2>1. IsLink(link[c])
    BY <1>2, Zenon DEF Linked
  <2>2. /\ IsLink(x) /\ x.lines = link[c].lines /\ x.begun = link[c].begun
        /\ x.replies = link[c].replies
    BY <2>1, Relinked, Zenon
  <2>3. x.state = "open" /\ x.inbox = link[c].inbox
    BY <2>1, Zenon DEF IsLink
  <2> HIDE DEF x
  <2>4. Unprocessed(c)' = Unprocessed(c)
    BY <1>2, <1>3, <2>3, Zenon DEF Unprocessed
  <2>5. link'[c].state # "off"
    BY <1>3, <2>3, Zenon
  <2> QED
    BY <1>2, <1>3, <2>2, <2>4, <2>5, Kept, Zenon
<1>8. client_fd_' \in Clients \cup {NoClient} /\ Range(backlog') \subseteq Clients
  BY <1>3, <1>4, Zenon DEF AnswerInv
<1> QED
  BY <1>3, <1>4, <1>5, <1>6, <1>7, <1>8, Zenon DEF AnswerInv

\* A client that a step does not touch.
LEMMA Untouched ==
  ASSUME NEW d, Linked(d), link'[d] = link[d], service' = service, ~killed' => ~killed,
         d \in Range(backlog') => d \in Range(backlog),
         client_fd_' = d => client_fd_ = d /\ line_buffer_' \o data' = line_buffer_ \o data
  PROVE  Linked(d)'
<1>1. IsLink(link'[d]) /\ IsLink(link[d])
  BY Zenon DEF Linked
<1>2. Waits(d)' => Waits(d)
  BY Zenon DEF Waits
<1>3. Waits(d) => client_fd_ # d
  BY Zenon DEF Linked
<1>4. link'[d].state = "off" => d \notin Range(backlog')
  BY Zenon DEF Linked
<1>5. ASSUME client_fd_' = d \/ Waits(d)' PROVE Unprocessed(d)' = Unprocessed(d)
  BY <1>2, <1>3, <1>5, Zenon DEF Unprocessed
<1> QED
  BY <1>1, <1>2, <1>3, <1>4, <1>5, Kept, ZenonT(40)

\* What a client sends, and the lines, change only at its own steps.
LEMMA ReadOrLeaveKeeps ==
  ASSUME AnswerInv, NEW c \in Clients, ReadAnswer(c) \/ CloseClient(c)
  PROVE  AnswerInv'
<1>1. PICK x : /\ ClientStep(c, x) /\ backlog' = backlog
               /\ \/ \E a : x = [link[c] EXCEPT !.read = a]
                  \/ x = [link[c] EXCEPT !.state = "closed"]
  BY Zenon DEF ReadAnswer, CloseClient
<1>2. /\ link' = [d \in Clients |-> link'[d]] /\ link'[c] = x
      /\ \A d \in Clients \ {c} : link'[d] = link[d]
      /\ service' = service /\ client_fd_' = client_fd_ /\ data' = data
      /\ line_buffer_' = line_buffer_ /\ killed' = killed /\ ~killed
  BY <1>1, ClientFrame, Zenon
<1>3. ASSUME NEW d \in Clients, d # c PROVE Linked(d)'
  <2>1. Linked(d) /\ link'[d] = link[d]
    BY <1>2, <1>3, Zenon DEF AnswerInv
  <2> QED
    BY <1>1, <1>2, <2>1, Untouched, Zenon
<1>4. Linked(c)'
  <2>1. Linked(c) /\ IsLink(link[c])
    BY Zenon DEF AnswerInv, Linked
  <2>2. /\ IsLink(x) /\ x.lines = link[c].lines /\ x.begun = link[c].begun
        /\ x.replies = link[c].replies
    <3>1. CASE \E a : x = [link[c] EXCEPT !.read = a]
      BY <2>1, <3>1, Relinked, Zenon
    <3>2. CASE x = [link[c] EXCEPT !.state = "closed"]
      BY <2>1, <3>2, Relinked, Zenon
    <3> QED
      BY <1>1, <3>1, <3>2, Zenon
  <2>3. x.inbox = link[c].inbox /\ (x.state = "off" => link[c].state = "off")
    BY <1>1, <2>1, Zenon DEF IsLink
  <2>4. Unprocessed(c)' = Unprocessed(c)
    BY <1>2, <2>3, Zenon DEF Unprocessed
  <2>5. Waits(c)' => Waits(c)
    BY <1>1, <1>2, <2>3, Zenon DEF Waits
  <2>6. Waits(c) => client_fd_ # c
    BY <2>1, Zenon DEF Linked
  <2>7. link'[c].state = "off" => c \notin Range(backlog')
    BY <1>1, <1>2, <2>1, <2>3, Zenon DEF Linked
  <2> QED
    BY <1>2, <2>1, <2>2, <2>4, <2>5, <2>6, <2>7, Kept, ZenonT(40)
<1> QED
  BY <1>1, <1>2, <1>3, <1>4, Zenon DEF AnswerInv

LEMMA SendKeeps ==
  ASSUME AnswerInv, NEW c \in Clients, BeginLine(c) \/ EndLine(c)
  PROVE  AnswerInv'
<1> DEFINE k == link[c]
<1>1. Linked(c) /\ IsLink(k) /\ Replied(k)
  BY Zenon DEF AnswerInv, Linked
<1>2. k = [state |-> k.state, lines |-> k.lines, begun |-> k.begun, inbox |-> k.inbox,
           replies |-> k.replies, read |-> k.read]
  BY <1>1, Zenon DEF IsLink
<1>3. PICK x, e :
         /\ ClientStep(c, x) /\ backlog' = backlog /\ k.state = "open"
         /\ x = [k EXCEPT !.lines = x.lines, !.begun = x.begun, !.inbox = Append(k.inbox, e)]
         /\ \/ k.begun = <<>> /\ x.lines = k.lines /\ \E l : x.begun = <<l>> /\ e = First(l)
            \/ /\ k.begun # <<>> /\ x.begun = <<>>
               /\ x.lines = Append(k.lines, Head(k.begun)) /\ e = Second(Head(k.begun))
  <2>1. CASE BeginLine(c)
    <3>1. PICK l \in Lines :
              ClientStep(c, [k EXCEPT !.begun = <<l>>, !.inbox = Append(k.inbox, First(l))])
      BY <2>1, Zenon DEF BeginLine, First
    <3> DEFINE x == [k EXCEPT !.begun = <<l>>, !.inbox = Append(k.inbox, First(l))]
    <3>2. x = [k EXCEPT !.lines = x.lines, !.begun = x.begun, !.inbox = Append(k.inbox, First(l))]
      BY <1>2, Zenon
    <3>3. x.lines = k.lines /\ x.begun = <<l>>
      BY <1>2, Zenon
    <3>4. ClientStep(c, x) /\ backlog' = backlog /\ k.state = "open" /\ k.begun = <<>>
      BY <2>1, <3>1, Zenon DEF BeginLine
    <3> HIDE DEF x
    <3>5. \E y : x.begun = <<y>> /\ First(l) = First(y)
      BY <3>3, Zenon
    <3> QED
      BY <3>2, <3>3, <3>4, <3>5, Zenon
  <2>2. CASE EndLine(c)
    <3> DEFINE l == Head(k.begun)
               x == [k EXCEPT !.begun = <<>>, !.lines = Append(k.lines, l),
                              !.inbox = Append(k.inbox, Second(l))]
    <3>1. ClientStep(c, x) /\ backlog' = backlog /\ k.state = "open" /\ k.begun # <<>>
      BY <2>2, Zenon DEF EndLine, Second
    <3>2. x = [k EXCEPT !.lines = x.lines, !.begun = x.begun, !.inbox = Append(k.inbox, Second(l))]
      BY <1>2, Zenon
    <3>3. x.lines = Append(k.lines, l) /\ x.begun = <<>>
      BY <1>2, Zenon
    <3> HIDE DEF x
    <3> QED
      BY <3>1, <3>2, <3>3, Zenon
  <2> QED
    BY <2>1, <2>2, Zenon
<1>4. /\ link' = [d \in Clients |-> link'[d]] /\ link'[c] = x
      /\ \A d \in Clients \ {c} : link'[d] = link[d]
      /\ service' = service /\ client_fd_' = client_fd_ /\ data' = data
      /\ line_buffer_' = line_buffer_ /\ killed' = killed /\ ~killed
  BY <1>3, ClientFrame, Zenon
<1>5. ASSUME NEW d \in Clients, d # c PROVE Linked(d)'
  <2>1. Linked(d) /\ link'[d] = link[d]
    BY <1>4, <1>5, Zenon DEF AnswerInv
  <2> QED
    BY <1>3, <1>4, <2>1, Untouched, Zenon
<1>6. x = [state |-> k.state, lines |-> x.lines, begun |-> x.begun, inbox |-> Append(k.inbox, e),
           replies |-> k.replies, read |-> k.read]
  BY <1>2, <1>3, Zenon
<1>7. /\ Sequence(k.lines) /\ Sequence(k.inbox) /\ Sequence(k.replies) /\ Sequence(x.lines)
      /\ Sequence(x.begun) /\ Sequence(x.inbox) /\ Len(x.begun) <= 1
  <2>1. Sequence(k.lines) /\ Sequence(k.inbox) /\ Sequence(k.replies)
    BY <1>1, Zenon DEF IsLink
  <2>2. Sequence(Append(k.inbox, e)) /\ \A l : Sequence(Append(k.lines, l))
    BY <2>1, Appended, Zenon
  <2>3. x.inbox = Append(k.inbox, e)
    BY <1>6
  <2>4. Sequence(x.lines)
    BY <1>3, <2>1, <2>2, Zenon
  <2>5. (\E l : x.begun = <<l>>) \/ x.begun = <<>>
    BY <1>3, Zenon
  <2>6. Sequence(x.begun) /\ Len(x.begun) <= 1
    <3>1. \A l : Sequence(<<l>>) /\ Len(<<l>>) <= 1
      BY DEF Sequence, Range
    <3>2. Sequence(<<>>) /\ Len(<<>>) <= 1
      BY DEF Sequence
    <3> QED
      BY <2>5, <3>1, <3>2, Zenon
  <2> QED
    BY <2>1, <2>2, <2>3, <2>4, <2>6, Zenon
<1>8. x.replies = k.replies /\ x.state = k.state /\ x.inbox = Append(k.inbox, e) /\ IsLink(x)
  BY <1>6, <1>7 DEF IsLink
<1>9. Replied(x)'
  <2>1. /\ Len(k.replies) \in Nat /\ Len(k.lines) \in Nat /\ DOMAIN k.replies = 1 .. Len(k.replies)
        /\ Len(k.replies) <= Len(k.lines)
    BY <1>1, <1>7, Empties, Zenon DEF Replied
  <2>2. Len(k.lines) <= Len(x.lines) /\ \A m \in 1 .. Len(k.lines) : x.lines[m] = k.lines[m]
    <3>1. CASE x.lines = k.lines
      BY <2>1, <3>1, SMTT(30)
    <3>2. CASE x.lines = Append(k.lines, Head(k.begun))
      BY <1>7, <2>1, <3>2, Appended, SMTT(30)
    <3> QED
      BY <1>3, <3>1, <3>2, Zenon
  <2>3. Len(x.replies) <= Len(x.lines)
    BY <1>8, <2>1, <2>2, Len(x.lines) \in Nat, <1>7, Empties, SMTT(30), SMTT(30)
  <2>4. ASSUME NEW n \in DOMAIN x.replies
        PROVE  [m \in DOMAIN x.replies[n] |-> x.replies[n][m].line] = Answers(x.lines[n], x.lines[n])
    <3>1. x.replies = k.replies /\ n \in DOMAIN k.replies /\ x.lines[n] = k.lines[n]
      BY <1>8, <2>1, <2>2
    <3>2. [m \in DOMAIN k.replies[n] |-> k.replies[n][m].line] = Answers(k.lines[n], k.lines[n])
      BY <1>1, <3>1, ZenonT(40) DEF Replied
    <3> QED
      BY <3>1, <3>2, Zenon
  <2> QED
    BY <1>4, <2>3, <2>4, ZenonT(40) DEF Replied, Answers
<1>10. (Waits(c)' <=> Waits(c)) /\ (Waits(c) => client_fd_ # c /\ k.replies = <<>>)
  BY <1>1, <1>3, <1>4, <1>8, Zenon DEF Waits, Linked
<1>11. ASSUME client_fd_ = c \/ Waits(c) PROVE Carries(Unprocessed(c), k)' 
  <2> DEFINE w == Unprocessed(c)
  <2>1. Carries(w, k)
    BY <1>1, <1>4, <1>11, Zenon DEF Linked
  <2>2. Unprocessed(c)' = Append(w, e)
    <3>1. CASE client_fd_ = c
      <4>1. Sequence(line_buffer_) /\ Sequence(data)
        BY Zenon DEF AnswerInv
      <4> DEFINE u == line_buffer_ \o data
      <4>2. Sequence(u)
        BY <4>1, Joined, Zenon
      <4> HIDE DEF u
      <4>3. u \o Append(k.inbox, e) = Append(u \o k.inbox, e)
        BY <1>7, <4>2, AppendedTo, SMTT(30)
      <4> QED
        BY <1>4, <1>8, <3>1, <4>3, Zenon DEF Unprocessed, u
    <3>2. CASE client_fd_ # c
      BY <1>4, <1>8, <3>2, Zenon DEF Unprocessed
    <3> QED
      BY <3>1, <3>2, Zenon
  <2> HIDE DEF w
  <2>3. Carries(Append(w, e), x)
    BY <1>1, <1>3, <1>8, <2>1, Begins, Ends, ZenonT(40)
  <2> QED
    BY <1>4, <2>2, <2>3, Zenon DEF Carries
<1>12. k.state # "off" /\ x.state # "off"
  BY <1>3, <1>8, Zenon
<1>13. Linked(c)'
  BY <1>4, <1>8, <1>9, <1>10, <1>11, <1>12, ZenonT(40) DEF Linked
<1> QED
  BY <1>3, <1>4, <1>5, <1>13, Zenon DEF AnswerInv

LEMMA AcceptKeeps ==
  ASSUME AnswerInv, acceptClient
  PROVE  AnswerInv'
<1>0. PICK c : c = Head(backlog)
  OBVIOUS
<1>1. /\ client_fd_' = c /\ backlog # <<>> /\ backlog' = Tail(backlog) /\ line_buffer_' = <<>>
      /\ data = <<>> /\ data' = data /\ link' = link /\ service' = service /\ killed' = killed
      /\ client_fd_ = NoClient
  BY <1>0 DEF acceptClient, EventLoopFree, ClearLine
<1>2. /\ Sequence(backlog) /\ DOMAIN backlog = 1 .. Len(backlog) /\ Len(backlog) \in Nat
      /\ \A p, q \in DOMAIN backlog : backlog[p] = backlog[q] => p = q
  BY Empties, Zenon DEF AnswerInv
<1>3. /\ Sequence(backlog') /\ Len(backlog) > 0 /\ DOMAIN backlog' = 1 .. Len(backlog) - 1
      /\ \A m \in 1 .. Len(backlog) - 1 : backlog'[m] = backlog[m + 1]
  <2>1. /\ Sequence(backlog') /\ Len(backlog) > 0 /\ Len(backlog') = Len(backlog) - 1
        /\ \A m \in 1 .. Len(backlog) - 1 : backlog'[m] = backlog[m + 1]
    BY <1>1, <1>2, Shifted, Zenon
  <2>2. DOMAIN backlog' = 1 .. Len(backlog')
    BY <2>1, Empties, Zenon
  <2> QED
    BY <2>1, <2>2, Zenon
<1>4. c = backlog[1] /\ 1 \in DOMAIN backlog
  BY <1>0, <1>1, <1>2, <1>3, SMTT(30) DEF Sequence
<1>5. c \notin Range(backlog') /\ c \in Range(backlog) /\ Range(backlog') \subseteq Range(backlog)
  <2>1. \A m \in DOMAIN backlog' :
            m + 1 \in DOMAIN backlog /\ m + 1 # 1 /\ backlog'[m] = backlog[m + 1]
    BY <1>2, <1>3
  <2>2. \A m \in DOMAIN backlog' : backlog'[m] # c
    BY <1>2, <1>4, <2>1
  <2>3. c \in Range(backlog)
    BY <1>4, Zenon DEF Range
  <2>4. \A m \in DOMAIN backlog' : backlog'[m] \in Range(backlog)
    BY <2>1, Zenon DEF Range
  <2> QED
    BY <2>2, <2>3, <2>4 DEF Range
<1>6. \A p, q \in DOMAIN backlog' : backlog'[p] = backlog'[q] => p = q
  <2> SUFFICES ASSUME NEW p \in DOMAIN backlog', NEW q \in DOMAIN backlog', backlog'[p] = backlog'[q]
               PROVE  p = q
    OBVIOUS
  <2>1. /\ p \in Nat /\ q \in Nat /\ p + 1 \in DOMAIN backlog /\ q + 1 \in DOMAIN backlog
        /\ backlog[p + 1] = backlog[q + 1]
    BY <1>2, <1>3
  <2>2. p + 1 = q + 1
    BY <1>2, <2>1, Zenon
  <2> QED
    BY <2>1, <2>2
<1>7. ASSUME NEW d \in Clients, d # c PROVE Linked(d)'
  <2>1. Linked(d) /\ link'[d] = link[d] /\ client_fd_' # d
    BY <1>1, <1>7, Zenon DEF AnswerInv
  <2>2. d \in Range(backlog') => d \in Range(backlog)
    BY <1>5
  <2> QED
    BY <1>1, <2>1, <2>2, Untouched, Zenon
<1>13. c \in Clients /\ Range(backlog') \subseteq Clients
  BY <1>5, Zenon DEF AnswerInv
<1>8. Linked(c)'
  <2>1. Linked(c) /\ IsLink(link[c]) /\ client_fd_ # c
    BY <1>1, <1>13, ServiceAssumption, Zenon DEF AnswerInv, Linked
  <2>2. link[c].state # "off" /\ Waits(c)
    BY <1>5, <2>1, Zenon DEF Linked, Waits
  <2>3. ~(Waits(c)') /\ link'[c] = link[c]
    BY <1>1, <1>5, <2>2, Zenon DEF Waits
  <2>4. Unprocessed(c) = link[c].inbox /\ Unprocessed(c)' = (<<>> \o <<>>) \o link[c].inbox
    BY <1>1, <2>1, <2>3, Zenon DEF Unprocessed
  <2>5. (<<>> \o <<>>) \o link[c].inbox = link[c].inbox
    <3>1. Sequence(link[c].inbox) /\ <<>> \o <<>> = <<>>
      BY <2>1 DEF IsLink
    <3> QED
      BY <3>1, Empties, Zenon
  <2>6. Unprocessed(c)' = Unprocessed(c)
    BY <2>4, <2>5, Zenon
  <2> QED
    BY <1>1, <2>1, <2>2, <2>3, <2>6, Kept, Zenon
<1>9. Sequence(<<>>)
  BY DEF Sequence
<1>10. \A m \in DOMAIN line_buffer_' : ~line_buffer_'[m].newline
  BY <1>1
<1>11. \A d \in Clients : Linked(d)'
  BY <1>7, <1>8, Zenon
<1>12. /\ link' = [d \in Clients |-> link'[d]] /\ Sequence(data') /\ Sequence(line_buffer_')
  BY <1>1, <1>9, Zenon DEF AnswerInv
<1> QED
  BY <1>1, <1>3, <1>6, <1>10, <1>11, <1>12, <1>13, Zenon DEF AnswerInv

LEMMA ReceiveKeeps ==
  ASSUME AnswerInv, receive
  PROVE  AnswerInv'
<1>0. PICK c : c = client_fd_
  OBVIOUS
<1>1. /\ client_fd_ = c /\ c \in Clients
      /\ data = <<>> /\ data' = link[c].inbox /\ link' = [link EXCEPT ![c].inbox = <<>>]
      /\ service' = service /\ backlog' = backlog /\ client_fd_' = c /\ line_buffer_' = line_buffer_
      /\ killed' = killed
  BY <1>0, Zenon DEF receive, EventLoopFree, AnswerInv
<1>2. Sequence(data) /\ Sequence(line_buffer_) /\ link = [d \in Clients |-> link[d]]
  BY Zenon DEF AnswerInv
<1>3. ASSUME NEW d \in Clients, d # c PROVE Linked(d)'
  <2>1. Linked(d) /\ link'[d] = link[d]
    BY <1>1, <1>2, <1>3, Zenon DEF AnswerInv
  <2> QED
    BY <1>1, <1>3, <2>1, Untouched, Zenon
<1>4. Linked(c)' /\ Sequence(data')
  <2> DEFINE x == [link[c] EXCEPT !.inbox = <<>>]
  <2>1. Linked(c) /\ IsLink(link[c]) /\ Sequence(link[c].inbox)
    BY <1>1, Zenon DEF AnswerInv, Linked, IsLink
  <2>2. link'[c] = x
    BY <1>1, <1>2
  <2>3. IsLink(x) /\ x.lines = link[c].lines /\ x.begun = link[c].begun /\ x.replies = link[c].replies
    BY <2>1, Relinked, Zenon
  <2>4. x.inbox = <<>> /\ x.state = link[c].state
    BY <2>1, Zenon DEF IsLink
  <2> HIDE DEF x
  <2>5. Unprocessed(c)' = (line_buffer_ \o link[c].inbox) \o <<>>
    BY <1>1, <2>2, <2>4, Zenon DEF Unprocessed
  <2>6. Unprocessed(c) = (line_buffer_ \o <<>>) \o link[c].inbox
    BY <1>1 DEF Unprocessed
  <2>7. Unprocessed(c)' = Unprocessed(c)
    <3>1. Sequence(line_buffer_ \o link[c].inbox)
      BY <1>2, <2>1, Joined, Zenon
    <3> DEFINE u == line_buffer_ \o link[c].inbox
    <3> HIDE DEF u
    <3>2. u \o <<>> = u
      BY <3>1, Empties DEF u
    <3>3. line_buffer_ \o <<>> = line_buffer_
      BY <1>2, Empties
    <3> QED
      BY <2>5, <2>6, <3>2, <3>3, Zenon DEF u
  <2>8. ~Waits(c) /\ ~(Waits(c)')
    BY <1>1, <2>1, <2>2, <2>4, Zenon DEF Linked, Waits
  <2>9. link'[c].state # "off"
    BY <2>2, <2>4, <2>8, Zenon DEF Waits
  <2>10. /\ IsLink(link'[c]) /\ link'[c].lines = link[c].lines /\ link'[c].begun = link[c].begun
         /\ link'[c].replies = link[c].replies
    BY <2>2, <2>3, Zenon
  <2>11. Linked(c)'
    BY <1>1, <2>1, <2>7, <2>8, <2>9, <2>10, Kept, Zenon
  <2> QED
    BY <1>1, <2>1, <2>11
<1> QED
  BY <1>1, <1>2, <1>3, <1>4, Zenon DEF AnswerInv

LEMMA DisconnectKeeps ==
  ASSUME AnswerInv, disconnectClient
  PROVE  AnswerInv'
<1>1. /\ client_fd_' = NoClient /\ line_buffer_' = <<>> /\ service' = service /\ backlog' = backlog
      /\ link' = link /\ data' = data /\ killed' = killed
  BY Zenon DEF disconnectClient, ClearLine
<1>2. ASSUME NEW d \in Clients PROVE Linked(d)'
  <2>1. Linked(d) /\ link'[d] = link[d] /\ client_fd_' # d
    BY <1>1, <1>2, ServiceAssumption, Zenon DEF AnswerInv
  <2> QED
    BY <1>1, <2>1, Untouched, Zenon
<1>3. Sequence(<<>>) /\ DOMAIN <<>> = {}
  BY DEF Sequence
<1> QED
  BY <1>1, <1>2, <1>3, Zenon DEF AnswerInv

LEMMA AddKeeps ==
  ASSUME AnswerInv, AddToLine
  PROVE  AnswerInv'
<1>1. /\ data # <<>> /\ ~Head(data).newline /\ line_buffer_' = Append(line_buffer_, Head(data))
      /\ data' = Tail(data) /\ service' = service /\ backlog' = backlog /\ client_fd_' = client_fd_
      /\ link' = link /\ killed' = killed
  BY Zenon DEF AddToLine
<1>2. Sequence(data) /\ Sequence(line_buffer_)
  BY Zenon DEF AnswerInv
<1>3. line_buffer_' \o data' = line_buffer_ \o data
  BY <1>1, <1>2, Moved, Zenon
<1>4. ASSUME NEW d \in Clients PROVE Linked(d)'
  <2>1. Linked(d) /\ link'[d] = link[d]
    BY <1>1, <1>4, Zenon DEF AnswerInv
  <2> QED
    BY <1>1, <1>3, <2>1, Untouched, Zenon
<1>5. Sequence(data')
  BY <1>1, <1>2, Shifted, Zenon
<1>6. Sequence(line_buffer_') /\ \A m \in DOMAIN line_buffer_' : ~line_buffer_'[m].newline
  <2> DEFINE e == Head(data)
             n == Len(line_buffer_)
  <2>1. /\ Sequence(line_buffer_') /\ n \in Nat /\ DOMAIN line_buffer_ = 1 .. n
        /\ DOMAIN line_buffer_' = 1 .. n + 1
        /\ \A m \in 1 .. n : line_buffer_'[m] = line_buffer_[m]
        /\ line_buffer_'[n + 1] = e
    BY <1>1, <1>2, Appended
  <2>2. \A m \in 1 .. n : ~line_buffer_[m].newline
    BY <2>1, Zenon DEF AnswerInv
  <2>3. ~e.newline
    BY <1>1, Zenon
  <2> HIDE DEF e, n
  <2> QED
    BY <2>1, <2>2, <2>3
<1> QED
  BY <1>1, <1>4, <1>5, <1>6, Zenon DEF AnswerInv

\* send: the reply to a line names it, cut off or not.
LEMMA ReplyNames ==
  ASSUME NEW l, NEW a, a = [line |-> l, status |-> a.status, shown |-> a.shown], NEW r,
         LET answers == Answers(l, a)
         IN \/ r = answers
            \/ r = [n \in DOMAIN answers |-> [answers[n] EXCEPT !.status = "cut"]]
  PROVE  [m \in DOMAIN r |-> r[m].line] = Answers(l, l)
<1> DEFINE b == [a EXCEPT !.status = "cut"]
           e == IF r = Answers(l, a) THEN a ELSE b
<1>1. a.line = l /\ b.line = l
  OBVIOUS
<1>2. e.line = l
  BY <1>1, Zenon
<1>3. CASE service = "xmqtty" /\ l.cmd = "garbage"
  <2>1. Answers(l, a) = <<a, a>> /\ Answers(l, l) = <<l, l>>
    BY <1>3, Zenon DEF Answers
  <2>2. r = <<e, e>>
    BY <2>1
  <2> HIDE DEF e
  <2> QED
    BY <1>2, <2>1, <2>2
<1>4. CASE ~(service = "xmqtty" /\ l.cmd = "garbage")
  <2>1. Answers(l, a) = <<a>> /\ Answers(l, l) = <<l>>
    BY <1>4, Zenon DEF Answers
  <2>2. r = <<e>>
    BY <2>1
  <2> HIDE DEF e
  <2> QED
    BY <1>2, <2>1, <2>2
<1> QED
  BY <1>3, <1>4, Zenon

LEMMA TwoPieces ==
  ASSUME NEW p, NEW q
  PROVE  Append(<<p>>, q) = <<p, q>>
<1> DEFINE s == <<p>>
           n == Len(s)
           r == Append(s, q)
<1>1. Sequence(s)
  BY DEF Sequence, Range
<1>2. n = 1 /\ s[1] = p
  OBVIOUS
<1> HIDE DEF s
<1>3. /\ Sequence(r) /\ Len(r) = n + 1 /\ r[n + 1] = q
      /\ \A m \in 1 .. n : r[m] = s[m]
  BY <1>1, Appended
<1> HIDE DEF n, r
<1>4. Sequence(r) /\ Len(r) = 2 /\ r[1] = p /\ r[2] = q
  BY <1>2, <1>3
<1>5. r = <<p, q>>
  BY <1>4 DEF Sequence
<1> QED
  BY <1>5, Zenon DEF r, s

LEMMA ProcessKeeps ==
  ASSUME AnswerInv, ProcessLine
  PROVE  AnswerInv'
<1>1. PICK c : c = client_fd_
  OBVIOUS
<1> DEFINE k == link[c]
           l == k.lines[Len(k.replies) + 1]
           a == processLine(LineOf(Append(line_buffer_, Head(data)))).answer
           answers == Answers(a.line, a)
           reply == IF service = "socket" /\ Unread(c) >= MaxUnread
                    THEN [n \in DOMAIN answers |-> [answers[n] EXCEPT !.status = "cut"]]
                    ELSE answers
<1>2. /\ ~killed /\ data # <<>> /\ Head(data).newline
      /\ link' = IF killed' THEN link ELSE [link EXCEPT ![c].replies = Append(@, reply)]
      /\ data' = IF killed' THEN <<>> ELSE Tail(data)
      /\ line_buffer_' = <<>> /\ service' = service /\ backlog' = backlog
      /\ client_fd_ = c /\ client_fd_' = c
  BY <1>1, Zenon DEF ProcessLine, Finish, send
<1> HIDE DEF reply
<1>3. /\ Sequence(data) /\ Sequence(line_buffer_) /\ \A m \in DOMAIN line_buffer_ : ~line_buffer_[m].newline
      /\ link = [d \in Clients |-> link[d]]
  BY Zenon DEF AnswerInv
<1>4. ASSUME NEW d \in Clients, d # c PROVE Linked(d)'
  <2>1. Linked(d) /\ link'[d] = link[d]
    BY <1>2, <1>3, <1>4, Zenon DEF AnswerInv
  <2> QED
    BY <1>2, <1>4, <2>1, Untouched, Zenon
<1>5. ASSUME killed', c \in Clients PROVE Linked(c)'
  <2>1. Linked(c) /\ IsLink(link[c]) /\ link'[c] = link[c]
    BY <1>2, <1>5, Zenon DEF AnswerInv, Linked
  <2>2. ~Waits(c) /\ ~(Waits(c)')
    BY <1>2, <2>1, Zenon DEF Waits, Linked
  <2>3. link'[c].state # "off"
    BY <2>1, <2>2, Zenon DEF Waits
  <2> QED
    BY <1>2, <1>5, <2>1, <2>2, <2>3, Kept, Zenon
<1>6. ASSUME ~killed', c \in Clients PROVE Linked(c)'
  <2>1. Linked(c) /\ IsLink(k) /\ Replied(k) /\ Sequence(k.inbox) /\ Sequence(k.replies)
    BY <1>6, Zenon DEF AnswerInv, Linked, IsLink
  <2>2. Carries((line_buffer_ \o data) \o k.inbox, k)
    BY <1>2, <2>1, Zenon DEF Linked, Unprocessed
  <2>3. Len(k.replies) < Len(k.lines) /\ line_buffer_ = <<First(l)>> /\ Head(data) = Second(l)
    BY <1>2, <1>3, <2>1, <2>2, Complete, Zenon
  <2>4. PICK x : x = link'[c] /\ x = [k EXCEPT !.replies = Append(k.replies, reply)]
    BY <1>2, <1>3, <1>6, Zenon
  <2>5. x = [state |-> k.state, lines |-> k.lines, begun |-> k.begun, inbox |-> k.inbox,
             replies |-> Append(k.replies, reply), read |-> k.read]
    <3>1. k = [state |-> k.state, lines |-> k.lines, begun |-> k.begun, inbox |-> k.inbox,
               replies |-> k.replies, read |-> k.read]
      BY <2>1, Zenon DEF IsLink
    <3> QED
      BY <2>4, <3>1, Zenon
  <2>6. /\ x.state = k.state /\ x.lines = k.lines /\ x.begun = k.begun /\ x.inbox = k.inbox
        /\ x.replies = Append(k.replies, reply) /\ x.read = k.read
    BY <2>5, Zenon
  <2>7. /\ Sequence(x.replies) /\ Len(k.replies) \in Nat
        /\ DOMAIN k.replies = 1 .. Len(k.replies)
        /\ Len(x.replies) = Len(k.replies) + 1 /\ DOMAIN x.replies = 1 .. Len(k.replies) + 1
        /\ \A m \in 1 .. Len(k.replies) : x.replies[m] = k.replies[m]
        /\ x.replies[Len(k.replies) + 1] = reply
    BY <2>1, <2>6, Appended
  <2>8. IsLink(x)
    BY <2>1, <2>5, <2>6, <2>7, Zenon DEF IsLink
  <2>9. Carries((<<>> \o Tail(data)) \o k.inbox, x)
    <3> DEFINE f == First(l)
    <3>1. Carries((<<f>> \o data) \o k.inbox, k)
      BY <2>2, <2>3, Zenon
    <3> HIDE DEF f, k
    <3> QED
      BY <1>2, <1>3, <2>1, <2>3, <2>6, <2>7, <3>1, Consumed, Zenon
  <2>10. Unprocessed(c)' = (<<>> \o Tail(data)) \o k.inbox
    BY <1>2, <1>6, <2>4, <2>6, Zenon DEF Unprocessed
  <2>11. LineOf(Append(line_buffer_, Head(data))) = l
    <3>1. Append(line_buffer_, Head(data)) = <<First(l), Second(l)>>
      BY <2>3, TwoPieces, Zenon
    <3>2. First(l).line = l
      BY Zenon DEF First
    <3> HIDE DEF l
    <3>3. Head(<<First(l), Second(l)>>) = First(l)
      OBVIOUS
    <3> QED
      BY <3>1, <3>2, <3>3, Zenon DEF LineOf, First, Second
  <2>12. [m \in DOMAIN reply |-> reply[m].line] = Answers(l, l)
    <3>1. a = processLine(l).answer
      BY <2>11, Zenon
    <3>2. a = [line |-> l, status |-> a.status, shown |-> a.shown]
      BY <3>1, AnswersLine, Zenon
    <3>3. a.line = l
      BY <3>2
    <3> HIDE DEF a, l
    <3> QED
      BY <3>2, <3>3, ReplyNames DEF reply
  <2>13. Replied(x)'
    <3>1. Len(x.replies) <= Len(x.lines)
      <4>1. Len(k.lines) \in Nat
        BY <2>1, Lengths, Zenon
      <4> QED
        BY <2>3, <2>6, <2>7, <4>1, SMTT(30)
    <3>2. ASSUME NEW n \in DOMAIN x.replies
          PROVE  [m \in DOMAIN x.replies[n] |-> x.replies[n][m].line] = Answers(x.lines[n], x.lines[n])
      <4>1. CASE n \in DOMAIN k.replies
        <5>1. [m \in DOMAIN k.replies[n] |-> k.replies[n][m].line] = Answers(k.lines[n], k.lines[n])
          BY <2>1, <4>1, Zenon DEF Replied
        <5>2. x.replies[n] = k.replies[n] /\ x.lines = k.lines
          BY <2>6, <2>7, <4>1, Zenon
        <5> QED
          BY <5>1, <5>2, Zenon
      <4>2. CASE n = Len(k.replies) + 1
        <5>1. x.replies[n] = reply /\ x.lines[n] = l
          BY <2>6, <2>7, <4>2, Zenon
        <5> QED
          BY <2>12, <5>1, Zenon
      <4> QED
        BY <2>7, <4>1, <4>2, SMTT(30)
    <3> QED
      BY <1>2, <3>1, <3>2, <2>4, ZenonT(40) DEF Replied, Answers
  <2>14. ~Waits(c) /\ ~(Waits(c)')
    BY <1>2, <2>1, <2>4, <2>6, Zenon DEF Waits, Linked
  <2>15. link'[c].state # "off"
    BY <2>4, <2>6, <2>14, Zenon DEF Waits
  <2> QED
    <3>1. IsLink(link[c])' /\ Replied(link[c])'
      BY <2>4, <2>8, <2>13, Zenon
    <3>2. Carries(Unprocessed(c), link[c])'
      BY <2>4, <2>9, <2>10, Zenon DEF Carries
    <3> QED
      BY <2>14, <2>15, <3>1, <3>2, Zenon DEF Linked
<1>7. Sequence(data') /\ Sequence(line_buffer_') /\ DOMAIN line_buffer_' = {}
  <2>1. Sequence(<<>>) /\ DOMAIN <<>> = {}
    BY DEF Sequence
  <2>2. Sequence(Tail(data))
    BY <1>2, <1>3, Shifted, Zenon
  <2> QED
    BY <1>2, <2>1, <2>2, Zenon
<1>8. link' = [d \in Clients |-> link'[d]]
  BY <1>2, <1>3, Zenon
<1>9. \A d \in Clients : Linked(d)'
  BY <1>4, <1>5, <1>6
<1> QED
  BY <1>2, <1>7, <1>8, <1>9, Zenon DEF AnswerInv

LEMMA AnswersInitially == ServiceInit => AnswerInv
<1> SUFFICES ASSUME ServiceInit PROVE AnswerInv
  OBVIOUS
<1>1. /\ backlog = <<>> /\ data = <<>> /\ line_buffer_ = <<>> /\ killed = FALSE
  BY Zenon DEF ServiceInit
<1>2. Sequence(<<>>) /\ Range(<<>>) = {} /\ DOMAIN <<>> = {}
  BY DEF Sequence, Range
<1>3. client_fd_ \in Clients \cup {NoClient}
  <2>1. (CHOOSE c \in Clients : TRUE) \in Clients
    BY ServiceAssumption, Zenon
  <2> QED
    BY <2>1, Zenon DEF ServiceInit
<1>4. /\ link = [c \in Clients |-> link[c]]
      /\ \A c \in Clients : \/ link[c] = Offline /\ client_fd_ # c
                            \/ link[c] = [Offline EXCEPT !.state = "open"] /\ client_fd_ = c
  BY ServiceAssumption, Zenon DEF ServiceInit
<1>5. ASSUME NEW c \in Clients PROVE Linked(c)
  <2>1. /\ link[c] = [state |-> link[c].state, lines |-> <<>>, begun |-> <<>>, inbox |-> <<>>,
                      replies |-> <<>>, read |-> 0]
        /\ link[c].state = "off" => client_fd_ # c
        /\ client_fd_ = c => link[c].state = "open"
    BY <1>4, SMTT(30) DEF Offline
  <2>2. IsLink(link[c])
    BY <1>2, <2>1, SMTT(30) DEF IsLink
  <2>3. link[c].lines = <<>> /\ link[c].begun = <<>> /\ link[c].replies = <<>> /\ link[c].inbox = <<>>
    BY <2>1
  <2>4. Replied(link[c])
    BY <2>3 DEF Replied
  <2>5. Unprocessed(c) = <<>>
    BY <1>1, <2>3, SMTT(30) DEF Unprocessed
  <2>6. Carries(<<>>, link[c])
    BY <1>2, <2>3, SMTT(30) DEF Carries
  <2>7. Waits(c) => client_fd_ # c
    BY <1>1, <1>2, <2>1, Zenon DEF Waits
  <2>8. c \notin Range(backlog)
    BY <1>1, <1>2
  <2> QED
    BY <2>2, <2>3, <2>4, <2>5, <2>6, <2>7, <2>8, Zenon DEF Linked
<1> QED
  BY <1>1, <1>2, <1>3, <1>4, <1>5 DEF AnswerInv

LEMMA AnswersStep == AnswerInv /\ [ServiceNext]_allVars => AnswerInv'
<1> SUFFICES ASSUME AnswerInv, [ServiceNext]_allVars PROVE AnswerInv'
  OBVIOUS
<1>1. ASSUME NEW c \in Clients, Connect(c) PROVE AnswerInv'
  BY <1>1, ConnectKeeps
<1>2. ASSUME NEW c \in Clients, BeginLine(c) \/ EndLine(c) PROVE AnswerInv'
  BY <1>2, SendKeeps
<1>3. ASSUME NEW c \in Clients, ReadAnswer(c) \/ CloseClient(c) PROVE AnswerInv'
  BY <1>3, ReadOrLeaveKeeps
<1>4. CASE processSerialData
  BY <1>4, AcceptKeeps, ReceiveKeeps, DisconnectKeeps DEF processSerialData
<1>5. CASE AddToLine \/ ProcessLine
  BY <1>5, AddKeeps, ProcessKeeps
<1>6. ASSUME UNCHANGED serviceVars PROVE AnswerInv'
  <2>1. /\ service' = service /\ backlog' = backlog /\ client_fd_' = client_fd_ /\ link' = link
        /\ data' = data /\ line_buffer_' = line_buffer_ /\ killed' = killed
    BY <1>6 DEF serviceVars
  <2>2. ASSUME NEW d \in Clients PROVE Linked(d)'
    <3>1. Linked(d)
      BY <2>2 DEF AnswerInv
    <3> QED
      BY <2>1, <3>1, Untouched, Zenon
  <2> QED
    BY <2>1, <2>2, Zenon DEF AnswerInv
<1>7. \/ \E c \in Clients : Connect(c) \/ BeginLine(c) \/ EndLine(c) \/ ReadAnswer(c) \/ CloseClient(c)
      \/ processSerialData \/ AddToLine \/ ProcessLine
      \/ UNCHANGED serviceVars
  BY Zenon DEF ServiceNext, ReceiveTelegram, HandleTelegram, allVars
<1> QED
  BY <1>1, <1>2, <1>3, <1>4, <1>5, <1>6, <1>7, Zenon

\* The pieces of a line are complete only with the newline: when nothing is
\* left to be processed, every line has its reply.
LEMMA AllReplied == AnswerInv => OneAnswerEach
<1> SUFFICES ASSUME AnswerInv, NEW c \in Clients
             PROVE  /\ Replied(link[c])
                    /\ EventLoopFree /\ client_fd_ = c /\ link[c].inbox = <<>>
                           => Len(link[c].replies) = Len(link[c].lines)
  BY Zenon DEF OneAnswerEach, Replied
<1> DEFINE k == link[c]
           n == Len(k.replies)
           z == Len(k.lines)
<1>1. Linked(c) /\ IsLink(k) /\ Replied(k)
  BY Zenon DEF AnswerInv, Linked
<1>2. ASSUME EventLoopFree, client_fd_ = c, k.inbox = <<>> PROVE n = z
  <2>1. ~killed /\ data = <<>>
    BY <1>2 DEF EventLoopFree
  <2>2. Unprocessed(c) = (line_buffer_ \o <<>>) \o <<>>
    BY <1>2, <2>1, Zenon DEF Unprocessed
  <2>3. Sequence(line_buffer_) /\ \A m \in DOMAIN line_buffer_ : ~line_buffer_[m].newline
    BY Zenon DEF AnswerInv
  <2>4. Unprocessed(c) = line_buffer_ /\ DOMAIN line_buffer_ = 1 .. Len(line_buffer_)
    BY <2>2, <2>3, Empties
  <2>5. Carries(line_buffer_, k)
    BY <1>1, <1>2, <2>1, <2>4, Zenon DEF Linked
  <2>6. n \in Nat /\ z \in Nat /\ n <= z /\ Len(k.begun) \in Nat
    BY <1>1, Lengths, Zenon
  <2> SUFFICES ASSUME n < z PROVE FALSE
    <3> HIDE DEF n, z
    <3> QED
      BY <2>6
  <2> DEFINE y == Len(k.begun)
             f == Len(line_buffer_)
  <2>7. /\ f = 2 * (z - n) + y
        /\ \A j \in 1 .. z - n : line_buffer_[2 * j] = Second(k.lines[n + j])
    BY <2>5, Zenon DEF Carries
  <2> HIDE DEF n, z, y, f
  <2>8. y \in Nat
    BY <2>6 DEF y
  <2>9. 1 \in 1 .. z - n /\ 2 * 1 = 2 /\ 2 \in 1 .. f
    BY <2>6, <2>7, <2>8
  <2>10. line_buffer_[2] = Second(k.lines[n + 1])
    BY <2>7, <2>9, Zenon
  <2>11. ~line_buffer_[2].newline
    BY <2>3, <2>4, <2>9 DEF f
  <2> QED
    BY <2>10, <2>11 DEF Second
<1> QED
  BY <1>1, <1>2, Zenon

\* WMBusSocket::processSerialData and processLine: for any number of clients,
\* lines and cuts of the lines into pieces, a client gets the answers to its own
\* lines, each once and in order, and has them all when nothing is left to read.
THEOREM AnswersMatchLines == ServiceSpec => []OneAnswerEach
<1>1. ServiceInit => AnswerInv
  BY AnswersInitially
<1>2. AnswerInv /\ [ServiceNext]_allVars => AnswerInv'
  BY AnswersStep
<1>3. AnswerInv => OneAnswerEach
  BY AllReplied
<1> QED
  BY <1>1, <1>2, <1>3, PTL DEF ServiceSpec

-----------------------------------------------------------------------------
(* The cache of the decoding service.                                        *)

\* The cached meters have a driver that the program knows.
IsMeter(m) ==
    /\ DOMAIN m = {"mt", "driver", "key", "meter_keys_", "shown"}
    /\ m.driver \in DriverNames

CacheInv == \A id \in DOMAIN meter_cache_ : IsMeter(meter_cache_[id])

LEMMA DecodedMeter ==
  ASSUME NEW l, NEW id, NEW h, NEW m, IsMeter(m), CacheInv
  PROVE  LET cache == DecodeWith(l, id, h, m).cache
         IN \A n \in DOMAIN cache : IsMeter(cache[n])
<1>1. ASSUME NEW status, NEW u, IsMeter(u), NEW formats
      PROVE  LET cache == Decoded(l, id, status, u, formats).cache
             IN \A n \in DOMAIN cache : IsMeter(cache[n])
  <2> DEFINE cache == [n \in DOMAIN meter_cache_ \union {id} |-> IF n = id THEN u ELSE meter_cache_[n]]
  <2>1. Decoded(l, id, status, u, formats).cache = cache
    BY Zenon DEF Decoded
  <2>2. \A n \in DOMAIN cache : IsMeter(cache[n])
    BY <1>1, Zenon DEF CacheInv
  <2> QED
    BY <2>1, <2>2, Zenon
<1>2. ASSUME NEW p
      PROVE  LET cache == DecodedFrom(l, id, m, p).cache
             IN \A n \in DOMAIN cache : IsMeter(cache[n])
  <2> DEFINE u == [m EXCEPT !.meter_keys_ = Keys(p), !.shown = IF p.ok THEN p.dv_entries ELSE @]
  <2>1. IsMeter(u)
    BY Zenon DEF IsMeter
  <2> HIDE DEF u
  <2> QED
    BY <1>1, <2>1, Zenon DEF DecodedFrom, u
<1> QED
  BY <1>1, <1>2, Zenon DEF DecodeWith

LEMMA ProcessedMeters ==
  ASSUME NEW l, CacheInv
  PROVE  LET cache == processLine(l).cache
         IN \A n \in DOMAIN cache : IsMeter(cache[n])
<1> DEFINE h == parseHeader(l.telegram, NewTelegram)
           id == LastId(l.telegram, h)
           Good(r) == \A n \in DOMAIN r.cache : IsMeter(r.cache[n])
<1>1. Good(Unchanged(l)) /\ \A x : Good([Unchanged(l) EXCEPT !.formats = x])
  BY Zenon DEF Unchanged, CacheInv
<1>2. Good([Unchanged(l) EXCEPT !.answer.status = "drivers"])
  BY Zenon DEF Unchanged, CacheInv
<1>3. IsMeter(createMeter(l, driverOf(l))) \/ driverOf(l) \notin DriverNames
  BY Zenon DEF IsMeter, createMeter
<1>4. Reusable(meter_cache_, id, l) => IsMeter(meter_cache_[id])
  BY Zenon DEF Reusable, CacheInv
<1>5. Good(handleDecode(meter_cache_, l))
  <2> HIDE DEF h, id
  <2>1. Good(DecodeHeader(meter_cache_, l, id, h))
    BY <1>1, <1>3, <1>4, DecodedMeter, Zenon DEF DecodeHeader
  <2> QED
    BY <2>1, Zenon DEF handleDecode, DecodeParsed, h, id
<1> HIDE DEF Good
<1>6. Good(processLine(l))
  BY <1>1, <1>2, <1>5, Zenon DEF processLine
<1> QED
  BY <1>6, Zenon DEF Good

\* Only a line that is processed changes the cache.
LEMMA CacheKept ==
  ASSUME CacheInv, [ServiceNext]_allVars
  PROVE  CacheInv'
<1>1. CASE ProcessLine
  <2>1. PICK l : meter_cache_' = processLine(l).cache
    BY <1>1, Zenon DEF ProcessLine, Finish
  <2> QED
    BY <2>1, ProcessedMeters, Zenon DEF CacheInv
<1>2. CASE UNCHANGED meter_cache_
  BY <1>2, Zenon DEF CacheInv
<1>3. ProcessLine \/ UNCHANGED meter_cache_
  BY Zenon DEF ServiceNext, Connect, BeginLine, EndLine, ReadAnswer, CloseClient, ClientStep,
         processSerialData, acceptClient, receive, disconnectClient, AddToLine,
         ReceiveTelegram, HandleTelegram, allVars, serviceVars
<1> QED
  BY <1>1, <1>2, <1>3, Zenon

\* handleDecode: a cached meter that was made for the same manufacturer, with the
\* driver and the keys a new one would have, reads what the new one reads.
LEMMA CachedReadsAsNew ==
  ASSUME NEW l, NEW id, NEW h, NEW m, NEW u, m.mt = l.telegram.mt, u.mt = l.telegram.mt,
         m.meter_keys_ = u.meter_keys_, IsMeter(m), IsMeter(u)
  PROVE  SameAnswer(DecodeWith(l, id, h, m).answer, DecodeWith(l, id, h, u).answer)
<1> DEFINE p == parse(l.telegram, SecondParse(h, u.meter_keys_, FALSE, TRUE))
           status == IF p.ok THEN "ok"
                     ELSE IF p.decryption_failed THEN "decryption failed" ELSE "decoding failed"
           After(x) == [x EXCEPT !.meter_keys_ = Keys(p), !.shown = IF p.ok THEN p.dv_entries ELSE @]
<1>1. DecodeWith(l, id, h, m) = DecodedFrom(l, id, m, p) /\ DecodeWith(l, id, h, u) = DecodedFrom(l, id, u, p)
  BY Zenon DEF DecodeWith
<1> HIDE DEF p
<1>2. ASSUME NEW x, IsMeter(x)
      PROVE  /\ DecodedFrom(l, id, x, p).answer.status = status
             /\ p.ok => DecodedFrom(l, id, x, p).answer.shown = p.dv_entries
  <2>1. DecodedFrom(l, id, x, p).answer = [line |-> l, status |-> status, shown |-> After(x).shown]
    BY Zenon DEF DecodedFrom, Decoded
  <2>2. p.ok => After(x).shown = p.dv_entries
    BY <1>2, Zenon DEF IsMeter
  <2> HIDE DEF status, After
  <2> QED
    BY <2>1, <2>2
<1>3. status = "ok" => p.ok
  OBVIOUS
<1> HIDE DEF status, After
<1> QED
  BY <1>1, <1>2, <1>3, Zenon DEF SameAnswer

LEMMA AnswersAsFresh ==
  ASSUME NEW l, CacheInv, ~KeptOtherwise(l)
  PROVE  SameAnswer(handleDecode(meter_cache_, l).answer, Fresh(l))
<1> DEFINE h == parseHeader(l.telegram, NewTelegram)
           id == LastId(l.telegram, h)
           u == createMeter(l, driverOf(l))
<1>1. /\ handleDecode(meter_cache_, l) = DecodeHeader(meter_cache_, l, id, h)
      /\ Fresh(l) = DecodeHeader(<<>>, l, id, h).answer
      /\ ~KeptOtherwiseAs(l, id)
  BY Zenon DEF handleDecode, DecodeParsed, Fresh, KeptOtherwise
<1> HIDE DEF h, id
<1>2. ~Reusable(<<>>, id, l)
  <2>1. DOMAIN <<>> = {}
    OBVIOUS
  <2> QED
    BY <2>1, Zenon DEF Reusable
<1>3. CASE h.ok /\ Reusable(meter_cache_, id, l)
  <2> DEFINE m == meter_cache_[id]
  <2>1. IsMeter(m) /\ m.driver \in DriverNames
    BY <1>3, Zenon DEF Reusable, CacheInv, IsMeter
  <2>2. /\ m.mt = l.telegram.mt /\ m.driver = driverOf(l)
        /\ m.meter_keys_ = NewKeys(l.key, defaultKeys(driverOf(l)))
    BY <1>1, <1>3, Zenon DEF Reusable, KeptOtherwiseAs
  <2>3. u.mt = l.telegram.mt /\ u.meter_keys_ = m.meter_keys_ /\ IsMeter(u)
    BY <2>1, <2>2, Zenon DEF createMeter, IsMeter
  <2>4. handleDecode(meter_cache_, l) = DecodeWith(l, id, h, m)
    BY <1>1, <1>3, Zenon DEF DecodeHeader
  <2>5. Fresh(l) = DecodeWith(l, id, h, u).answer
    BY <1>1, <1>2, <1>3, <2>1, <2>2, Zenon DEF DecodeHeader
  <2> HIDE DEF m, u
  <2> QED
    BY <2>1, <2>2, <2>3, <2>4, <2>5, CachedReadsAsNew, Zenon
<1>4. CASE ~(h.ok /\ Reusable(meter_cache_, id, l))
  <2>1. Fresh(l) = handleDecode(meter_cache_, l).answer
    BY <1>1, <1>2, <1>4, Zenon DEF DecodeHeader
  <2> QED
    BY <2>1, Zenon DEF SameAnswer
<1> QED
  BY <1>3, <1>4, Zenon

\* The replies to a client change only when a line of it is processed, by one
\* more: the answer, or what is left of it in a full buffer.
LEMMA RepliesFrame ==
  ASSUME AnswerInv, [ServiceNext]_allVars, NEW c \in Clients, link'[c].replies # link[c].replies
  PROVE  \E l, reply :
           LET answers == Answers(processLine(l).answer.line, processLine(l).answer)
           IN /\ link'[c].replies = Append(link[c].replies, reply)
              /\ \/ reply = answers
                 \/ reply = [n \in DOMAIN answers |-> [answers[n] EXCEPT !.status = "cut"]]
<1>1. link = [d \in Clients |-> link[d]] /\ \A d \in Clients : IsLink(link[d])
  BY Zenon DEF AnswerInv, Linked
<1>2. ASSUME NEW d \in Clients, NEW x, x.replies = link[d].replies PROVE ~ClientStep(d, x)
  BY <1>1, <1>2, Zenon DEF ClientStep
<1>3. ASSUME NEW d \in Clients, Connect(d) \/ CloseClient(d) \/ ReadAnswer(d) PROVE FALSE
  <2>1. PICK x : /\ ClientStep(d, x)
                 /\ \/ \E a : x = [link[d] EXCEPT !.state = a]
                    \/ \E a : x = [link[d] EXCEPT !.read = a]
    BY <1>3, Zenon DEF Connect, CloseClient, ReadAnswer
  <2>2. IsLink(link[d])
    BY <1>1, Zenon
  <2>3. x.replies = link[d].replies
    BY <2>1, <2>2, Relinked, Zenon
  <2> QED
    BY <1>2, <2>1, <2>3, Zenon
<1>4. ASSUME NEW d \in Clients, BeginLine(d) \/ EndLine(d) PROVE FALSE
  <2>1. IsLink(link[d])
    BY <1>1, Zenon
  <2>2. CASE BeginLine(d)
    <3>1. PICK l : ClientStep(d, [link[d] EXCEPT !.begun = <<l>>,
                                      !.inbox = Append(@, [line |-> l, newline |-> FALSE])])
      BY <2>2, Zenon DEF BeginLine
    <3> DEFINE f == Append(link[d].inbox, [line |-> l, newline |-> FALSE])
               x == [link[d] EXCEPT !.begun = <<l>>, !.inbox = f]
    <3>2. ClientStep(d, x) /\ x.replies = link[d].replies
      BY <2>1, <3>1, Zenon DEF IsLink
    <3> HIDE DEF x
    <3> QED
      BY <1>2, <3>2, Zenon
  <2>3. CASE EndLine(d)
    <3> DEFINE l == Head(link[d].begun)
               f == Append(link[d].inbox, [line |-> l, newline |-> TRUE])
               x == [link[d] EXCEPT !.begun = <<>>, !.lines = Append(link[d].lines, l), !.inbox = f]
    <3>1. ClientStep(d, x) /\ x.replies = link[d].replies
      BY <2>1, <2>3, Zenon DEF EndLine, IsLink
    <3> HIDE DEF x
    <3> QED
      BY <1>2, <3>1, Zenon
  <2> QED
    BY <1>4, <2>2, <2>3, Zenon
<1>5. CASE receive
  <2> DEFINE x == [link[client_fd_] EXCEPT !.inbox = <<>>]
  <2>1. link' = [link EXCEPT ![client_fd_] = x]
    BY <1>5, Zenon DEF receive
  <2>2. client_fd_ \in Clients => x.replies = link[client_fd_].replies
    BY <1>1, Relinked, Zenon
  <2> HIDE DEF x
  <2> QED
    BY <1>1, <2>1, <2>2, Zenon
<1>6. CASE UNCHANGED link
  BY <1>6, Zenon
<1>7. CASE ProcessLine
  <2>1. PICK l : send(client_fd_, Answers(processLine(l).answer.line, processLine(l).answer))
    BY <1>7, Zenon DEF ProcessLine, Finish
  <2> DEFINE answers == Answers(processLine(l).answer.line, processLine(l).answer)
             k == link[client_fd_]
             WithReply(r) == [k EXCEPT !.replies = Append(k.replies, r)]
  <2>2. PICK reply :
          /\ link' = link \/ link' = [link EXCEPT ![client_fd_] = WithReply(reply)]
          /\ \/ reply = answers
             \/ reply = [n \in DOMAIN answers |-> [answers[n] EXCEPT !.status = "cut"]]
    BY <2>1, Zenon DEF send
  <2> HIDE DEF answers
  <2>3. client_fd_ \in Clients => WithReply(reply).replies = Append(k.replies, reply)
    BY <1>1 DEF IsLink
  <2> HIDE DEF WithReply
  <2>4. link'[c].replies = Append(link[c].replies, reply)
    BY <1>1, <2>2, <2>3, Zenon
  <2> QED
    BY <2>2, <2>4, Zenon DEF answers
<1>8. \/ \E d \in Clients : Connect(d) \/ BeginLine(d) \/ EndLine(d) \/ ReadAnswer(d) \/ CloseClient(d)
      \/ receive \/ ProcessLine \/ UNCHANGED link
  BY Zenon DEF ServiceNext, processSerialData, acceptClient, disconnectClient, AddToLine,
         ReceiveTelegram, HandleTelegram, allVars, serviceVars
<1> QED
  BY <1>3, <1>4, <1>5, <1>6, <1>7, <1>8, Zenon

\* One step of CacheIsTransparent.
Transparent(c) ==
    link'[c].replies # link[c].replies =>
        LET answer == link'[c].replies[Len(link'[c].replies)][1]
        IN \/ answer.status = "cut" \/ answer.line.cmd # "decode"
           \/ KeptOtherwise(answer.line)
           \/ SameAnswer(answer, Fresh(answer.line))

LEMMA ServiceTransparent ==
  ASSUME AnswerInv, CacheInv, [ServiceNext]_allVars, NEW c \in Clients
  PROVE  Transparent(c)
<1> SUFFICES ASSUME link'[c].replies # link[c].replies PROVE Transparent(c)
  BY Zenon DEF Transparent
<1>1. PICK l, reply :
        LET answers == Answers(processLine(l).answer.line, processLine(l).answer)
        IN /\ link'[c].replies = Append(link[c].replies, reply)
           /\ \/ reply = answers
              \/ reply = [n \in DOMAIN answers |-> [answers[n] EXCEPT !.status = "cut"]]
  BY RepliesFrame, Zenon
<1> DEFINE a == processLine(l).answer
           answers == Answers(a.line, a)
           replies == link'[c].replies
<1>2. a = [line |-> l, status |-> a.status, shown |-> a.shown]
  BY AnswersLine, Zenon
<1>3. a.line = l
  BY <1>2
<1>4. replies[Len(replies)] = reply
  <2>1. Sequence(link[c].replies)
    BY Zenon DEF AnswerInv, Linked, IsLink
  <2>2. Len(replies) = Len(link[c].replies) + 1 /\ replies[Len(link[c].replies) + 1] = reply
    BY <1>1, <2>1, Appended
  <2> QED
    BY <2>2, Zenon
<1>5. l.cmd = "decode" => a = handleDecode(meter_cache_, l).answer
  BY Zenon DEF processLine
<1> HIDE DEF a
<1>6. 1 \in DOMAIN answers /\ answers[1] = a
  <2>1. answers \in {<<a>>, <<a, a>>}
    BY Zenon DEF Answers
  <2> QED
    BY <2>1
<1>7. CASE reply = answers
  <2>1. replies[Len(replies)][1] = a
    BY <1>4, <1>6, <1>7, Zenon
  <2>2. l.cmd # "decode" \/ KeptOtherwise(l) \/ SameAnswer(a, Fresh(l))
    BY <1>5, AnswersAsFresh, Zenon
  <2> QED
    BY <1>3, <2>1, <2>2, Zenon DEF Transparent
<1>8. CASE reply = [n \in DOMAIN answers |-> [answers[n] EXCEPT !.status = "cut"]]
  <2> DEFINE e == [a EXCEPT !.status = "cut"]
  <2>1. replies[Len(replies)][1] = e
    BY <1>4, <1>6, <1>8, Zenon
  <2>2. e.status = "cut"
    BY <1>2
  <2> HIDE DEF e
  <2> QED
    BY <2>1, <2>2, Zenon DEF Transparent
<1> QED
  BY <1>1, <1>7, <1>8, Zenon DEF a

\* The cache of meters does not show in the answers (handleDecode): a request is
\* answered as by a service that has just started, whatever lines of whatever
\* clients and telegrams it has processed before, unless the cached meter is of
\* another manufacturer or driver or has used its default keys.
THEOREM CacheDoesNotShow == ServiceSpec => CacheIsTransparent
<1>1. ServiceInit => AnswerInv /\ CacheInv
  <2>1. DOMAIN <<>> = {}
    OBVIOUS
  <2> QED
    BY <2>1, AnswersInitially, Zenon DEF ServiceInit, CacheInv
<1>2. AnswerInv /\ CacheInv /\ [ServiceNext]_allVars => (AnswerInv /\ CacheInv)'
  BY AnswersStep, CacheKept, Zenon
<1>3. AnswerInv /\ CacheInv /\ [ServiceNext]_allVars =>
        [\A c \in Clients :
           link'[c].replies # link[c].replies =>
               LET answer == link'[c].replies[Len(link'[c].replies)][1]
               IN \/ answer.status = "cut" \/ answer.line.cmd # "decode"
                  \/ KeptOtherwise(answer.line)
                  \/ SameAnswer(answer, Fresh(answer.line))]_allVars
  BY ServiceTransparent, Zenon DEF Transparent
<1> QED
  BY <1>1, <1>2, <1>3, PTL DEF ServiceSpec, CacheIsTransparent

-----------------------------------------------------------------------------
(* What a meter can read is taken.                                           *)

\* Nothing has stopped the parse.
Going(t) == IsParse(t) /\ t.ok = TRUE /\ t.decryption_failed = FALSE

\* parseDLL, parseELL, parseNWL and parseAFL show the addresses of a whole
\* telegram, and go on unless the extended link layer is not decrypted.
LEMMA LowerGoing ==
  ASSUME NEW a, Whole(a), NEW t, Going(t)
  PROVE  LET x == Lower(a, t) IN
           /\ a.dll \in x.addresses
           /\ a.ell \in {"III", "IV"} => a.ell_id \in x.addresses
           /\ (Ciphered(a) => EllDecrypted(a, t)) =>
                /\ Going(x) /\ x.afl_mac = (t.afl_mac \/ a.afl = "mac")
                /\ x.formats = t.formats /\ x.tpl_mt = t.tpl_mt
<1> DEFINE t1 == [t EXCEPT !.addresses = @ \union {a.dll}]
           v == [t1 EXCEPT !.addresses = @ \union {a.ell_id}]
           u == IF a.ell \in {"III", "IV"} THEN v ELSE t1
           w == Warn(a, u)
           f == [w EXCEPT !.decryption_failed = TRUE]
           g == [u EXCEPT !.afl_mac = @ \/ a.afl = "mac"]
<1>1. /\ Going(t1) /\ a.dll \in t1.addresses /\ t1.key = t.key /\ t1.has_meter_keys = t.has_meter_keys
      /\ t1.afl_mac = t.afl_mac /\ t1.formats = t.formats /\ t1.tpl_mt = t.tpl_mt
  BY DEF Going, IsParse, Fields
<1>2. parseDLL(a, t) = t1
  BY Zenon DEF parseDLL, Whole
<1> HIDE DEF t1
<1>3. /\ Going(u) /\ a.dll \in u.addresses /\ (a.ell \in {"III", "IV"} => a.ell_id \in u.addresses)
      /\ u.key = t.key /\ u.has_meter_keys = t.has_meter_keys
      /\ u.afl_mac = t.afl_mac /\ u.formats = t.formats /\ u.tpl_mt = t.tpl_mt
  <2>1. /\ Going(v) /\ v.addresses = t1.addresses \union {a.ell_id} /\ v.key = t1.key
        /\ v.has_meter_keys = t1.has_meter_keys
        /\ v.afl_mac = t1.afl_mac /\ v.formats = t1.formats /\ v.tpl_mt = t1.tpl_mt
    BY <1>1, Zenon DEF Going, IsParse, Fields
  <2> HIDE DEF v
  <2> QED
    BY <1>1, <2>1, Zenon
<1>4. \/ parseELL(a, t1) = u
      \/ parseELL(a, t1) = f /\ a.ell \in {"II", "IV"} /\ ~EllDecrypted(a, u)
  <2>1. ~Stopped(t1) /\ a.cut # "ell" /\ a.ell # "V"
    BY <1>1, Zenon DEF Going, Stopped, Whole
  <2> QED
    BY <2>1, Zenon DEF parseELL
<1>5. /\ EllDecrypted(a, u) <=> EllDecrypted(a, t)
      /\ a.ell \in {"II", "IV"} /\ ~EllDecrypted(a, u) => Ciphered(a)
  BY <1>3, Zenon DEF EllDecrypted, hasConfidentialityKey, Ciphered
<1> HIDE DEF u
<1>6. IsParse(w) /\ w.addresses = u.addresses
  BY <1>3, Zenon DEF Warn, Going, IsParse, Fields
<1> HIDE DEF w
<1>7. Stopped(f) /\ f.addresses = u.addresses
  BY <1>6 DEF Stopped, IsParse, Fields
<1>8. /\ Going(g) /\ g.addresses = u.addresses /\ g.afl_mac = (u.afl_mac \/ a.afl = "mac")
      /\ g.formats = u.formats /\ g.tpl_mt = u.tpl_mt /\ ~Stopped(u)
  BY <1>3, Zenon DEF Going, Stopped, IsParse, Fields
<1> HIDE DEF f, g
<1>9. ASSUME NEW y PROVE parseNWL(a, y) = y
  BY Zenon DEF parseNWL, Whole
<1>10. parseAFL(a, f) = f /\ parseAFL(a, u) = g
  BY <1>7, <1>8, Zenon DEF parseAFL, Whole, g
<1>11. \/ Lower(a, t) = g
       \/ Lower(a, t) = f /\ Ciphered(a) /\ ~EllDecrypted(a, t)
  BY <1>2, <1>4, <1>5, <1>9, <1>10, Zenon DEF Lower
<1> QED
  BY <1>3, <1>7, <1>8, <1>11, Zenon

\* parseTPLConfig: the header announces its security mode, and derives a key when
\* the mode needs one.
HeaderGoes(a, t, u) ==
    /\ Going(u) /\ SameKeys(t, u) /\ u.tpl_sec_mode = a.mode
    /\ u.afl_mac = t.afl_mac /\ u.formats = t.formats
    /\ a.mode = "AES_CBC_NO_IV" => u.generated = t.key

LEMMA HeaderGoing ==
  ASSUME NEW a, a.cut = "", a.mode # "NoSecurity", NEW t, Going(t),
         a.mode = "AES_CBC_NO_IV" => a.kdf = 1 /\ hasConfidentialityKey(t)
  PROVE  HeaderGoes(a, t, parseShortTPL(a, t)) /\ HeaderGoes(a, t, parseLongTPL(a, t))
<1>1. ASSUME NEW x, Going(x), a.mode = "AES_CBC_NO_IV" => hasConfidentialityKey(x)
      PROVE  HeaderGoes(a, x, parseTPLConfig(a, x))
  <2> DEFINE t1 == [x EXCEPT !.tpl_sec_mode = IF a.mode = "NoSecurity" THEN @ ELSE a.mode]
             g == [t1 EXCEPT !.generated = x.key]
  <2>1. /\ Going(t1) /\ SameKeys(x, t1) /\ t1.tpl_sec_mode = a.mode
        /\ t1.afl_mac = x.afl_mac /\ t1.formats = x.formats
    BY <1>1, Zenon DEF Going, SameKeys, IsParse, Fields
  <2>2. parseTPLConfig(a, x) = IF a.mode = "AES_CBC_NO_IV" THEN g ELSE t1
    <3>1. parseTPLConfig(a, x) = IF t1.tpl_sec_mode # "AES_CBC_NO_IV" \/ a.kdf # 1 THEN t1
                                 ELSE IF hasConfidentialityKey(x) THEN g
                                 ELSE IF x.simulated THEN t1 ELSE Fail(t1)
      BY Zenon DEF parseTPLConfig
    <3> HIDE DEF t1, g
    <3> QED
      BY <1>1, <2>1, <3>1, Zenon
  <2> HIDE DEF t1
  <2>3. /\ Going(g) /\ SameKeys(t1, g) /\ g.tpl_sec_mode = t1.tpl_sec_mode /\ g.generated = x.key
        /\ g.afl_mac = t1.afl_mac /\ g.formats = t1.formats
    BY <2>1, Zenon DEF Going, SameKeys, IsParse, Fields
  <2> HIDE DEF g
  <2>4. SameKeys(x, g)
    BY <2>1, <2>3, Zenon DEF SameKeys
  <2> QED
    BY <2>1, <2>2, <2>3, <2>4, Zenon DEF HeaderGoes
<1> DEFINE u == [t EXCEPT !.addresses = @ \union {a.tpl_id}, !.tpl_mt = a.mt]
<1>2. Going(u) /\ SameKeys(t, u) /\ u.afl_mac = t.afl_mac /\ u.formats = t.formats
  BY Zenon DEF Going, SameKeys, IsParse, Fields
<1> HIDE DEF u
<1>3. HeaderGoes(a, u, parseTPLConfig(a, u)) /\ HeaderGoes(a, t, parseTPLConfig(a, t))
  <2>1. hasConfidentialityKey(t) => hasConfidentialityKey(u)
    BY <1>2, Zenon DEF SameKeys, hasConfidentialityKey
  <2> QED
    BY <1>1, <1>2, <2>1, Zenon
<1>4. HeaderGoes(a, t, parseTPLConfig(a, u))
  BY <1>2, <1>3, Zenon DEF HeaderGoes, SameKeys
<1> QED
  BY <1>3, <1>4, Zenon DEF parseShortTPL, parseLongTPL, u

\* What the meter needs to read an encrypted telegram: its key, or none and the
\* key among the default keys of its driver.
HasKeyFor(a, t) ==
    \/ t.key = a.key
    \/ /\ t.key = NoKey /\ a.key \in Range(t.default_keys)
       /\ a.mode = "AES_CBC_IV" /\ a.diehl = "NA"

\* potentiallyDecrypt: what was encrypted with the right key is decrypted.
LEMMA Deciphering ==
  ASSUME NEW a, IsTelegram(a), IsAnnounced(a), EncryptedWith(a, a.key),
         NEW t, Going(t), t.has_meter_keys = TRUE, t.tpl_sec_mode = a.mode, HasKeyFor(a, t),
         a.mode = "AES_CBC_NO_IV" => t.generated = t.key /\ t.afl_mac
  PROVE  LET d == potentiallyDecrypt(a, t)
         IN Going(d) /\ d.formats = t.formats /\ (d.payload = a.content \/ DecryptedPast(a))
<1>1. a.key # Plain /\ a.key # NoKey
  BY Zenon DEF EncryptedWith, IsTelegram
<1>2. ASSUME NEW x, Going(x), NEW c
      PROVE  LET d == [x EXCEPT !.payload = c]
             IN Going(d) /\ d.formats = x.formats /\ d.payload = c
  BY <1>2, Zenon DEF Going, IsParse, Fields
<1>3. a.mode \in {"AES_CBC_IV", "AES_CBC_NO_IV", "DES_NO_IV", "DES_IV"}
  BY Zenon DEF EncryptedWith
<1>4. ASSUME a.mode \in {"AES_CBC_IV", "AES_CBC_NO_IV"}
      PROVE  AESBytes(a) > 0 /\ Decrypted(a, AESBytes(a)) = a.content
  <2>1. AESBytes(a) > 0
    BY <1>4, Zenon DEF EncryptedWith
  <2>2. AESBytes(a) = a.encrypted
    BY <1>1, <1>4, <2>1, AllBlocks, Zenon
  <2> QED
    BY <2>1, <2>2, Zenon DEF Decrypted
<1>5. CASE a.mode = "AES_CBC_IV"
  <2> DEFINE t0 == addDefaultManufacturerKeyIfAny(a, t)
             t1 == TryDefaultKeys(a, t0)
             d == [t1 EXCEPT !.payload = Decrypted(a, AESBytes(a))]
  <2>1. t0 = t
    BY <1>1, Zenon DEF HasKeyFor, addDefaultManufacturerKeyIfAny
  <2>2. Going(t1) /\ t1.formats = t.formats /\ t1.key = a.key
    <3> HIDE DEF t0
    <3>1. CASE t.key = a.key
      BY <1>1, <2>1, <3>1, Zenon DEF TryDefaultKeys
    <3>2. CASE t.key = NoKey /\ a.key \in Range(t.default_keys)
      <4> DEFINE fits == {k \in Range(t.default_keys) : decrypt_TPL_AES_CBC_IV(a, k)}
                 k == IF fits = {} THEN NoKey ELSE CHOOSE k \in fits : TRUE
      <4>1. a.key \in fits
        BY <1>4, <1>5, <3>2, Zenon DEF decrypt_TPL_AES_CBC_IV
      <4>2. k = a.key
        BY <4>1, Zenon DEF decrypt_TPL_AES_CBC_IV
      <4>3. t1 = [t EXCEPT !.key = k, !.default_keys = <<>>]
        BY <2>1, <3>2, Zenon DEF TryDefaultKeys
      <4> HIDE DEF k, t1
      <4> QED
        BY <4>2, <4>3, Zenon DEF Going, IsParse, Fields
    <3> QED
      BY <3>1, <3>2, Zenon DEF HasKeyFor
  <2>3. potentiallyDecrypt(a, t) = DecryptMode5(a, t)
    BY <1>5, Zenon DEF potentiallyDecrypt
  <2>4. decrypt_TPL_AES_CBC_IV(a, t1.key)
    BY <1>4, <1>5, <2>2, Zenon DEF decrypt_TPL_AES_CBC_IV
  <2>5. DecryptMode5(a, t) = d
    BY <1>1, <2>4, Zenon DEF DecryptMode5, alreadyDecryptedCBC
  <2> HIDE DEF t1
  <2>6. Going(d) /\ d.formats = t1.formats /\ d.payload = a.content
    BY <1>2, <1>4, <1>5, <2>2, Zenon
  <2> HIDE DEF d
  <2> QED
    BY <2>2, <2>3, <2>5, <2>6, Zenon
<1>6. CASE a.mode = "AES_CBC_NO_IV"
  <2>1. t.key = a.key /\ checkMAC(a, t)
    BY <1>1, <1>6, Zenon DEF HasKeyFor, checkMAC
  <2>2. potentiallyDecrypt(a, t) = [t EXCEPT !.payload = Decrypted(a, AESBytes(a))]
    BY <1>1, <1>4, <1>6, <2>1, Zenon
    DEF potentiallyDecrypt, DecryptMode7, alreadyDecryptedCBC, decrypt_TPL_AES_CBC_NO_IV
  <2> QED
    BY <1>2, <1>4, <1>6, <2>2, Zenon
<1>7. CASE a.mode \in {"DES_NO_IV", "DES_IV"}
  <2> DEFINE c == Decrypted(a, DESBytes(a))
  <2>1. t.key = a.key /\ hasConfidentialityKey(t)
    BY <1>1, <1>7, Zenon DEF HasKeyFor, hasConfidentialityKey
  <2>2. DESBytes(a) > 0 /\ (a.mode = "DES_IV" => IVFound(a))
    BY <1>7, Zenon DEF EncryptedWith
  <2>3. DESBytes(a) # 0
    BY <2>2
  <2>4. potentiallyDecrypt(a, t) = [t EXCEPT !.payload = c]
    BY <1>7, <2>1, <2>2, <2>3, Zenon DEF potentiallyDecrypt, DecryptMode2, DecryptMode3
  <2>5. c = a.content \/ DecryptedPast(a)
    BY <1>7, Zenon DEF Decrypted, DecryptedPast
  <2> HIDE DEF c
  <2> DEFINE d == [t EXCEPT !.payload = c]
  <2>6. Going(d) /\ d.formats = t.formats /\ d.payload = c
    BY <1>2, Zenon
  <2> HIDE DEF d
  <2> QED
    BY <2>4, <2>5, <2>6, Zenon DEF d
<1> QED
  BY <1>3, <1>5, <1>6, <1>7, Zenon

\* parseDV and parseCompactDV: what was decrypted is taken, if its format is known.
LEMMA ContentTaken ==
  ASSUME NEW a, a.content.format # "", NEW mt, NEW d, Going(d)
  PROVE  LET known == a.content.format \in mt_to_compact_formats_(mt) \union d.formats
         IN /\ Taken(parseDV(d))
            /\ d.payload = a.content /\ known => Taken(parseCompactDV(mt, d))
            /\ ~IsCompact(a) \/ (d.payload = a.content /\ known) => Taken(AfterDecryption(a, mt, d))
<1> DEFINE e == [d EXCEPT !.dv_entries = d.payload]
           f == [d EXCEPT !.dv_entries = d.payload,
                          !.formats = @ \union ({d.payload.format} \ {"", "?"})]
<1>1. Taken(e) /\ Taken(f)
  BY Zenon DEF Going, Taken, IsParse, Fields
<1>2. parseDV(d) = f /\ parseCompactDV(mt, d) \in {e, Fail(d)}
  BY Zenon DEF parseDV, parseCompactDV
<1>3. d.payload = a.content /\ a.content.format \in mt_to_compact_formats_(mt) \union d.formats
      => parseCompactDV(mt, d) = e
  <2>1. d.payload = a.content => d.payload.format = a.content.format
    BY Zenon
  <2> HIDE DEF e
  <2> QED
    BY <2>1, Zenon DEF parseCompactDV, lookupCompactFormat, e
<1> HIDE DEF e, f
<1>4. d.ok
  BY Zenon DEF Going
<1> QED
  BY <1>1, <1>2, <1>3, <1>4, Zenon DEF AfterDecryption, IsCompact

\* A telegram whose extended link layer, encryption and format the object t can
\* read.
CanRead(a, t) ==
    /\ Ciphered(a) => EllDecrypted(a, t)
    /\ \/ a.ci = "78"
       \/ a.ci = "79" /\ a.content.format \in mt_to_compact_formats_(a.mt) \union t.formats
       \/ /\ a.ci \in WithHeader /\ EncryptedWith(a, a.key) /\ HasKeyFor(a, t)
          /\ \/ ~IsCompact(a)
             \/ /\ ~DecryptedPast(a)
                /\ a.content.format \in mt_to_compact_formats_(t.tpl_mt) \union t.formats

\* parse: it is taken.
LEMMA ReadableParses ==
  ASSUME NEW a, IsTelegram(a), IsAnnounced(a), Whole(a),
         NEW t, Going(t), t.has_meter_keys = TRUE, CanRead(a, t)
  PROVE  parse(a, t).ok
<1> DEFINE x == Lower(a, t)
           u == parseTPL(a, x)
<1>1. /\ Going(x) /\ x.afl_mac = (t.afl_mac \/ a.afl = "mac")
      /\ x.formats = t.formats /\ x.tpl_mt = t.tpl_mt
  BY LowerGoing, Zenon DEF CanRead
<1>2. SameKeys(t, x)
  BY LowerLayers, Zenon DEF Going, SameHeader
<1>3. a.content.format # "" /\ a.cut = ""
  BY Zenon DEF IsTelegram, Whole
<1> HIDE DEF x
<1>4. Taken(u)
  <2>1. ~Stopped(x) /\ a.cut # "tpl"
    BY <1>1, <1>3, Zenon DEF Going, Stopped
  <2> DEFINE c == [x EXCEPT !.payload = a.content]
  <2>2. Going(c) /\ c.payload = a.content /\ c.formats = x.formats
    BY <1>1, Zenon DEF Going, IsParse, Fields
  <2>3. /\ a.ci = "78" => u = parseDV(c)
        /\ a.ci = "79" => u = parseCompactDV(a.mt, c)
    BY <2>1, Zenon DEF parseTPL, parse_TPL_78, parse_TPL_79
  <2> HIDE DEF c
  <2>4. CASE a.ci = "78"
    BY <1>3, <2>2, <2>3, <2>4, ContentTaken, Zenon
  <2>5. CASE a.ci = "79" /\ a.content.format \in mt_to_compact_formats_(a.mt) \union t.formats
    BY <1>1, <1>3, <2>2, <2>3, <2>5, ContentTaken, Zenon
  <2>6. CASE /\ a.ci \in WithHeader /\ EncryptedWith(a, a.key) /\ HasKeyFor(a, t)
             /\ \/ ~IsCompact(a)
                \/ /\ ~DecryptedPast(a)
                   /\ a.content.format \in mt_to_compact_formats_(t.tpl_mt) \union t.formats
    <3> DEFINE mt == x.tpl_mt
    <3>1. PICK y \in {parseShortTPL(a, x), parseLongTPL(a, x)} : u = AfterHeader(a, mt, y)
      BY <2>1, <2>6, Zenon
      DEF parseTPL, WithHeader, parse_TPL_72, parse_TPL_73, parse_TPL_7A, parse_TPL_7B
    <3>2. /\ a.mode # "NoSecurity"
          /\ a.mode = "AES_CBC_NO_IV" =>
                a.kdf = 1 /\ hasConfidentialityKey(x) /\ x.afl_mac /\ x.key = a.key
      <4>1. /\ a.mode # "NoSecurity" /\ a.key # NoKey
            /\ a.mode = "AES_CBC_NO_IV" => a.kdf = 1 /\ a.afl = "mac"
        BY <2>6, Zenon DEF EncryptedWith, IsTelegram
      <4> QED
        BY <1>1, <1>2, <2>6, <4>1, Zenon DEF HasKeyFor, SameKeys, hasConfidentialityKey
    <3>3. HeaderGoes(a, x, y)
      BY <1>1, <1>3, <3>1, <3>2, HeaderGoing, Zenon
    <3> DEFINE d == potentiallyDecrypt(a, y)
    <3>4. /\ Going(y) /\ y.has_meter_keys = TRUE /\ y.tpl_sec_mode = a.mode /\ HasKeyFor(a, y)
          /\ a.mode = "AES_CBC_NO_IV" => y.generated = y.key /\ y.afl_mac
          /\ y.formats = t.formats
      BY <1>1, <1>2, <2>6, <3>2, <3>3, Zenon DEF HeaderGoes, SameKeys, HasKeyFor
    <3>5. Going(d) /\ d.formats = y.formats /\ (d.payload = a.content \/ DecryptedPast(a))
      BY <2>6, <3>4, Deciphering, Zenon
    <3>6. u = AfterDecryption(a, mt, d)
      BY <3>1, <3>4, Zenon DEF AfterHeader, Going
    <3> HIDE DEF d, u
    <3> QED
      BY <1>1, <1>3, <2>6, <3>4, <3>5, <3>6, ContentTaken, Zenon
  <2> QED
    BY <2>4, <2>5, <2>6, Zenon DEF CanRead
<1>5. parse(a, t) = [u EXCEPT !.ok = @ /\ ~u.decryption_failed]
  BY Zenon DEF parse, parseWMBUS, OnlyDecrypted, Layers, Lower, Whole, x
<1>6. IsParse(u)
  BY <1>1, Transport, Zenon DEF Going, IsTelegram, Reads
<1> HIDE DEF u
<1> QED
  BY <1>4, <1>5, <1>6, Zenon DEF Taken, IsParse, Fields

\* parseHeader: a whole telegram shows its addresses without a key, and a long
\* header the manufacturer and type that a compact format is looked up for.
LEMMA HeaderShown ==
  ASSUME NEW a, IsTelegram(a), Whole(a), NEW S, IsWarned(S, warning_printed_for_telegrams)
  PROVE  LET h == parseHeader(a, NewTelegram) IN
           /\ h.ok = TRUE /\ Visible(a) \subseteq h.addresses
           /\ a.ci = "73" /\ ~Ciphered(a) => h.tpl_mt = a.mt
<1> DEFINE n == NewTelegram
           x == Lower(a, n)
           u == parseTPL(a, x)
           h == parseHeader(a, n)
           d == dll_a(a)
           D == S \union {d}
           w == warning_printed_for_telegrams
<1>1. Going(n) /\ n.parser_warns_ = FALSE /\ n.warned = w /\ n.printed = FALSE /\ n.triggered_warning = FALSE
  BY Zenon DEF NewTelegram, Going, IsParse, Fields
<1>2. d \notin Range(w) => d \in Range(RememberWarned(w, d))
  <2>1. IsWarned(D, w) /\ d \in D
    BY DEF IsWarned
  <2> HIDE DEF D
  <2> QED
    BY <2>1, Remembered, Zenon
<1> HIDE DEF n, w
<1>3. Leaves(a, n, n)
  BY <1>1, <1>2, Zenon DEF Leaves, Going
\* Since nothing is printed, what is left can be read from where it is.
<1>4. ASSUME NEW y, NEW z, Leaves(a, n, y), IsParse(z), z.parser_warns_ = y.parser_warns_,
             z.warned = y.warned, z.printed = y.printed, z.triggered_warning = y.triggered_warning
      PROVE  Leaves(a, z, z)
  BY <1>1, <1>2, <1>4, Zenon DEF Leaves
<1>5. /\ a.dll \in x.addresses /\ (a.ell \in {"III", "IV"} => a.ell_id \in x.addresses)
      /\ ~Ciphered(a) => Going(x)
  BY <1>1, LowerGoing, Zenon
<1>6. Leaves(a, n, x)
  BY <1>3, LowerLeaves, Zenon DEF Lower
<1>7. h = [u EXCEPT !.ok = TRUE]
  <2>1. parseDLL(a, n).ok = TRUE
    <3> DEFINE t1 == [n EXCEPT !.addresses = @ \union {a.dll}]
    <3>1. parseDLL(a, n) = t1
      BY Zenon DEF parseDLL, Whole
    <3>2. t1.ok = TRUE
      BY <1>1, Zenon DEF Going, IsParse, Fields
    <3> QED
      BY <3>1, <3>2, Zenon
  <2> QED
    BY <2>1, Zenon DEF parseHeader, parseWMBUSHeader, Layers, Lower, Whole
<1> HIDE DEF x
<1>8. Leaves(a, x, u)
  <2>1. Leaves(a, x, x)
    BY <1>4, <1>6, Zenon DEF Leaves
  <2>2. a.ci \in CIs
    BY Zenon DEF IsTelegram
  <2> QED
    BY <2>1, <2>2, TransportLeaves, Zenon
<1>9. ASSUME a.ci \in {"72", "73"}, ~Ciphered(a)
      PROVE  a.tpl_id \in u.addresses /\ u.tpl_mt = a.mt
  <2> DEFINE z == [x EXCEPT !.addresses = @ \union {a.tpl_id}, !.tpl_mt = a.mt]
             y == parseShortTPL(a, z)
  <2>1. /\ IsParse(z) /\ z.parser_warns_ = x.parser_warns_
        /\ z.warned = x.warned /\ z.printed = x.printed /\ z.triggered_warning = x.triggered_warning
        /\ a.tpl_id \in z.addresses /\ z.tpl_mt = a.mt
    BY <1>6, Zenon DEF Leaves, IsParse, Fields
  <2>2. u = AfterHeader(a, x.tpl_mt, y)
    BY <1>3, <1>5, <1>9, Zenon
    DEF parseTPL, Whole, Going, Stopped, parse_TPL_72, parse_TPL_73, parseLongTPL
  <2> HIDE DEF z
  <2>3. Leaves(a, z, z)
    BY <1>4, <1>6, <2>1, Zenon
  <2>4. Leaves(a, z, y)
    BY <2>3, HeaderLeaves, Zenon
  <2> HIDE DEF y
  <2>5. Leaves(a, z, u)
    BY <2>2, <2>4, ContentLeaves, Zenon
  <2> QED
    BY <2>1, <2>5, Zenon DEF Leaves
<1> HIDE DEF u
<1>10. h.ok = TRUE /\ h.addresses = u.addresses /\ h.tpl_mt = u.tpl_mt
  <2>1. IsParse(u)
    BY <1>8, Zenon DEF Leaves
  <2> HIDE DEF h
  <2> QED
    BY <1>7, <2>1, Zenon DEF IsParse, Fields
<1>11. x.addresses \subseteq u.addresses
  BY <1>8, Zenon DEF Leaves
<1> HIDE DEF h
<1>12. Visible(a) \subseteq h.addresses
  BY <1>5, <1>9, <1>10, <1>11, Zenon DEF Visible
<1> QED
  BY <1>9, <1>10, <1>12, Zenon DEF h, n

\* The object that reads the telegram has the keys of the meter, and knows the
\* formats that were learned.
RereadsWith(keys, h, t) ==
    /\ Going(t) /\ t.has_meter_keys = TRUE
    /\ t.key = keys.confidentiality_key /\ t.default_keys = keys.default_keys
    /\ hash_to_format_ \subseteq t.formats /\ t.tpl_mt = h.tpl_mt

LEMMA Rereading ==
  ASSUME NEW a, IsTelegram(a), NEW keys, NEW simulated, NEW analyzed,
         NEW S, IsWarned(S, warning_printed_for_telegrams)
  PROVE  RereadsWith(keys, parseHeader(a, NewTelegram), Reread(a, keys, simulated, analyzed))
<1> DEFINE h == parseHeader(a, NewTelegram)
           t == Reread(a, keys, simulated, analyzed)
           p == parse(a, t)
<1>1. ReadTwice(a, h, t, p)
  BY TelegramLeaves, Zenon
<1>2. t = SecondParse(h, keys, simulated, analyzed)
  BY Zenon DEF Reread
<1>3. NewTelegram.formats = hash_to_format_
  BY Zenon DEF NewTelegram
<1> HIDE DEF h, t, p
<1>4. IsParse(h) /\ hash_to_format_ \subseteq t.formats /\ t.tpl_mt = h.tpl_mt
  BY <1>1, <1>3, Zenon DEF ReadTwice, Leaves
<1>5. /\ Going(t) /\ t.has_meter_keys = TRUE
      /\ t.key = keys.confidentiality_key /\ t.default_keys = keys.default_keys
  BY <1>2, <1>4, Zenon DEF SecondParse, Going, IsParse, Fields
<1>6. RereadsWith(keys, h, t)
  BY <1>4, <1>5, Zenon DEF RereadsWith
<1> QED
  BY <1>6, Zenon DEF h, t

\* A meter that has neither a key nor the default keys of its driver any more has
\* met a telegram they do not fit.
SpoilInv ==
    \A m \in DOMAIN Meters :
        /\ meter_keys_[m].confidentiality_key = NoKey
        /\ meter_keys_[m].default_keys # Meters[m].default_keys
        => m \in spoiled

\* What a meter makes of the telegram p, or of a header h that is not for it.
Handled(h, p) ==
    \/ /\ Matches(i, h) /\ outcome'.ok = p.ok /\ outcome'.match = TRUE
       /\ meter_keys_'[i].confidentiality_key = p.key
       /\ meter_keys_'[i].default_keys = p.default_keys
       /\ \A m \in DOMAIN Meters : m # i => meter_keys_'[m] = meter_keys_[m]
       /\ spoiled' = IF Spoils(p, i) THEN spoiled \union {i} ELSE spoiled
       /\ hash_to_format_' = p.formats
    \/ /\ ~Matches(i, h) /\ outcome'.ok = FALSE
       /\ meter_keys_' = meter_keys_ /\ spoiled' = spoiled
       /\ hash_to_format_' = h.formats

LEMMA Handling ==
  ASSUME KeyInv, OfferToMeter
  PROVE  /\ i \in DOMAIN Meters /\ IsTelegram(telegram) /\ IsAnnounced(telegram)
         /\ LET t == Reread(telegram, meter_keys_[i], telegram.simulated, FALSE)
            IN Handled(parseHeader(telegram, NewTelegram), parse(telegram, t))
<1> DEFINE h == parseHeader(telegram, NewTelegram)
           t == Reread(telegram, meter_keys_[i], telegram.simulated, FALSE)
           p == parse(telegram, t)
<1>1. i \in DOMAIN Meters /\ IsTelegram(telegram) /\ IsAnnounced(telegram)
  BY AirAssumption, MetersAssumption DEF KeyInv, OfferToMeter
<1>2. \/ Matches(i, h) /\ TakeParsed(i, p)
      \/ ~Matches(i, h) /\ NotForMeter(h)
  BY Zenon DEF OfferToMeter, handleTelegram, HandleHeader, Reread
<1> HIDE DEF h, t, p
<1>3. DOMAIN meter_keys_ = DOMAIN Meters
  BY Zenon DEF KeyInv, KeysKept
<1>4. ASSUME Matches(i, h) /\ TakeParsed(i, p) PROVE Handled(h, p)
  <2>1. outcome'.ok = p.ok /\ outcome'.match = TRUE
    BY <1>4, Zenon DEF TakeParsed
  <2>2. /\ meter_keys_'[i].confidentiality_key = p.key
        /\ meter_keys_'[i].default_keys = p.default_keys
        /\ \A m \in DOMAIN Meters : m # i => meter_keys_'[m] = meter_keys_[m]
    BY <1>1, <1>3, <1>4, Zenon DEF TakeParsed, Keys
  <2> QED
    BY <1>4, <2>1, <2>2, Zenon DEF TakeParsed, Handled
<1>5. ASSUME ~Matches(i, h) /\ NotForMeter(h) PROVE Handled(h, p)
  <2>1. outcome'.ok = FALSE
    BY <1>5, Zenon DEF NotForMeter, NoOutcome
  <2> QED
    BY <1>5, <2>1, Zenon DEF NotForMeter, Handled
<1>6. Handled(h, p)
  BY <1>2, <1>4, <1>5, Zenon
<1> QED
  BY <1>1, <1>6, Zenon DEF h, t, p

\* handleTelegram: what the keys of the meter can read is taken.
LEMMA OfferingTakes ==
  ASSUME KeyInv, WarnInv, SpoilInv, OfferToMeter
  PROVE  KeyDecodes /\ DefaultKeysTried /\ SpoilInv'
<1> DEFINE a == telegram
           keys == meter_keys_[i]
           h == parseHeader(a, NewTelegram)
           t == Reread(a, keys, a.simulated, FALSE)
           p == parse(a, t)
<1>1. i \in DOMAIN Meters /\ IsTelegram(a) /\ IsAnnounced(a) /\ Handled(h, p)
  BY Handling, Zenon
<1>2. RereadsWith(keys, h, t)
  BY <1>1, Rereading, Zenon DEF WarnInv
<1>3. Result(a, keys, p)
  BY <1>1, WholeParse, Zenon DEF Reread
<1>4. Whole(a) => /\ h.ok = TRUE /\ Visible(a) \subseteq h.addresses
                  /\ a.ci = "73" /\ ~Ciphered(a) => h.tpl_mt = a.mt
  BY <1>1, HeaderShown, Zenon DEF WarnInv
<1>5. Whole(a) /\ CanRead(a, t) => p.ok
  BY <1>1, <1>2, ReadableParses, Zenon DEF RereadsWith
<1> HIDE DEF h, t, p
<1>6. Whole(a) /\ Visible(a) \intersect Meters[i].ids # {} => Matches(i, h)
  BY <1>4, Zenon DEF Matches
<1>7. /\ Meters[i].key # NoKey => t.key = Meters[i].key
      /\ keys.default_keys \in {Meters[i].default_keys, <<>>}
      /\ NoKey \notin {a.key, a.ell_key}
  BY <1>1, <1>2, Zenon DEF KeyInv, KeysKept, RereadsWith, IsTelegram
<1>8. ASSUME Readable(a, i), FormatKnown(a) PROVE CanRead(a, t)
  <2>1. CASE a.ci \in {"78", "79"} /\ (Ciphered(a) => a.ell_key = Meters[i].key)
    <3>1. Ciphered(a) => EllDecrypted(a, t)
      BY <1>2, <1>7, <2>1, Zenon DEF EllDecrypted, hasConfidentialityKey, RereadsWith
    <3>2. a.ci = "79" => a.content.format \in mt_to_compact_formats_(a.mt) \union t.formats
      BY <1>2, <1>8, Zenon DEF FormatKnown, IsCompact, RereadsWith
    <3> QED
      BY <2>1, <3>1, <3>2, Zenon DEF CanRead
  <2>2. CASE a.ci \in WithHeader /\ EncryptedWith(a, Meters[i].key)
    <3>1. a.key = Meters[i].key /\ ~Ciphered(a)
      BY <2>2, Zenon DEF EncryptedWith
    <3>2. EncryptedWith(a, a.key) /\ HasKeyFor(a, t)
      BY <1>7, <2>2, <3>1, Zenon DEF HasKeyFor
    <3>3. Whole(a)
      BY <1>8, Zenon DEF Readable
    <3>4. \/ ~IsCompact(a)
          \/ /\ ~DecryptedPast(a)
             /\ a.content.format \in mt_to_compact_formats_(t.tpl_mt) \union t.formats
      BY <1>2, <1>4, <1>8, <2>2, <3>1, <3>3, Zenon DEF FormatKnown, WithHeader, RereadsWith
    <3> QED
      BY <2>2, <3>1, <3>2, <3>4, Zenon DEF CanRead
  <2> QED
    BY <1>8, <2>1, <2>2, Zenon DEF Readable
<1>9. KeyDecodes
  BY <1>1, <1>5, <1>6, <1>8, Zenon DEF KeyDecodes, Readable, Handled
<1>10. DefaultKeysTried
  <2> SUFFICES ASSUME Meters[i].key = NoKey, i \notin spoiled, Whole(a), a.diehl = "NA",
                      a.ci \in {"72", "7A"}, a.mode = "AES_CBC_IV",
                      Visible(a) \intersect Meters[i].ids # {},
                      a.key \in Range(Meters[i].default_keys), EncryptedWith(a, a.key)
               PROVE  outcome'.ok \/ meter_keys_'[i].confidentiality_key \notin {NoKey, a.key}
    BY Zenon DEF DefaultKeysTried
  <2>1. /\ Matches(i, h) /\ outcome'.ok = p.ok /\ meter_keys_'[i].confidentiality_key = p.key
    BY <1>1, <1>6, Zenon DEF Handled
  <2>2. t.key = NoKey => t.default_keys = Meters[i].default_keys
    BY <1>1, <1>2, Zenon DEF SpoilInv, RereadsWith
  <2>3. HasKeyFor(a, t) => CanRead(a, t)
    BY Zenon DEF CanRead, WithHeader, IsCompact, EncryptedWith
  <2>4. t.key \in {NoKey, a.key} => HasKeyFor(a, t)
    BY <2>2, Zenon DEF HasKeyFor
  <2>5. t.key # NoKey => p.key = t.key
    BY <1>2, <1>3, Zenon DEF Result, RereadsWith
  <2> QED
    BY <1>5, <2>1, <2>3, <2>4, <2>5, Zenon
<1>11. SpoilInv'
  <2> SUFFICES ASSUME NEW m \in DOMAIN Meters, meter_keys_'[m].confidentiality_key = NoKey,
                      meter_keys_'[m].default_keys # Meters[m].default_keys
               PROVE  m \in spoiled'
    BY Zenon DEF SpoilInv
  <2>1. spoiled \subseteq spoiled'
    BY <1>1, Zenon DEF Handled
  <2>2. CASE meter_keys_'[m] = meter_keys_[m]
    BY <2>1, <2>2, Zenon DEF SpoilInv
  <2>3. CASE /\ m = i /\ p.key = NoKey /\ p.default_keys # Meters[i].default_keys
             /\ spoiled' = IF Spoils(p, i) THEN spoiled \union {i} ELSE spoiled
    <3>1. keys.confidentiality_key = NoKey
      BY <1>3, <2>3, Zenon DEF Result
    <3>2. CASE keys.default_keys # Meters[i].default_keys
      BY <1>1, <2>1, <2>3, <3>1, <3>2, Zenon DEF SpoilInv
    <3>3. CASE keys.default_keys = Meters[i].default_keys
      BY <1>3, <1>7, <2>3, <3>1, <3>3, Zenon DEF Result, Spoils
    <3> QED
      BY <3>2, <3>3, Zenon
  <2> QED
    BY <1>1, <2>2, <2>3, Zenon DEF Handled
<1> QED
  BY <1>9, <1>10, <1>11, Zenon

\* What the service has received or will receive is pieces of the lines that the
\* clients send.
Sent(s) == \A e \in Range(s) : e.line \in Lines

LinesInv ==
    /\ Sent(data) /\ Sent(line_buffer_)
    /\ \A c \in Clients : Sent(link[c].inbox) /\ Range(link[c].begun) \subseteq Lines

LEMMA FirstAndRest ==
  ASSUME NEW s, Sequence(s), s # <<>>
  PROVE  Head(s) \in Range(s) /\ Range(Tail(s)) \subseteq Range(s)
<1> DEFINE S == Range(s)
           r == Tail(s)
<1>1. s \in Seq(S)
  BY DEF Sequence
<1> HIDE DEF S
<1>2. Head(s) \in S /\ r \in Seq(S)
  BY <1>1
<1> HIDE DEF r
<1>3. \A m \in DOMAIN r : r[m] \in S
  BY <1>2
<1>4. Range(r) \subseteq S
  BY <1>3, Zenon DEF Range
<1> QED
  BY <1>2, <1>4, Zenon DEF r, S

LEMMA EmptyAndOne ==
  ASSUME NEW l
  PROVE  Range(<<>>) = {} /\ Range(<<l>>) = {l}
BY DEF Range

\* Only the lines that a client begins are new.
LEMMA ClientLines ==
  ASSUME AnswerInv, LinesInv, NEW c \in Clients,
         \/ Connect(c) \/ BeginLine(c) \/ EndLine(c) \/ ReadAnswer(c) \/ CloseClient(c)
  PROVE  LinesInv'
<1> DEFINE k == link[c]
<1>1. /\ IsLink(k) /\ Sequence(k.inbox) /\ Sequence(k.begun)
      /\ Sent(k.inbox) /\ Range(k.begun) \subseteq Lines
  BY Zenon DEF AnswerInv, Linked, IsLink, LinesInv
<1>2. ASSUME NEW x, ClientStep(c, x), Sent(x.inbox), Range(x.begun) \subseteq Lines
      PROVE  LinesInv'
  <2>1. /\ link'[c] = x /\ \A d \in Clients \ {c} : link'[d] = link[d]
        /\ data' = data /\ line_buffer_' = line_buffer_
    BY <1>2, ClientFrame, Zenon
  <2>2. \A d \in Clients : Sent(link'[d].inbox) /\ Range(link'[d].begun) \subseteq Lines
    BY <1>2, <2>1, Zenon DEF LinesInv
  <2> QED
    BY <2>1, <2>2, Zenon DEF LinesInv, Sent
<1>3. ASSUME Connect(c) \/ CloseClient(c) \/ ReadAnswer(c) PROVE LinesInv'
  <2>1. PICK x : /\ ClientStep(c, x)
                 /\ \/ \E a : x = [k EXCEPT !.state = a]
                    \/ \E a : x = [k EXCEPT !.read = a]
    BY <1>3, Zenon DEF Connect, CloseClient, ReadAnswer
  <2>2. x.begun = k.begun
    BY <1>1, <2>1, Relinked, Zenon
  <2>3. x.inbox = k.inbox
    BY <1>1, <2>1, Zenon DEF IsLink
  <2> QED
    BY <1>1, <1>2, <2>1, <2>2, <2>3, Zenon
<1>4. ASSUME NEW l \in Lines, NEW newline
      PROVE  Sent(Append(k.inbox, [line |-> l, newline |-> newline]))
  <2> DEFINE e == [line |-> l, newline |-> newline]
  <2>1. e.line \in Lines
    BY <1>4, Zenon
  <2> HIDE DEF e
  <2>2. Range(Append(k.inbox, e)) = Range(k.inbox) \cup {e}
    BY <1>1, Appended, Zenon
  <2>3. Sent(Append(k.inbox, e))
    BY <1>1, <2>1, <2>2, Zenon DEF Sent
  <2> QED
    BY <2>3, Zenon DEF e
<1>5. ASSUME BeginLine(c) PROVE LinesInv'
  <2>1. PICK l \in Lines : ClientStep(c, [k EXCEPT !.begun = <<l>>,
                                   !.inbox = Append(@, [line |-> l, newline |-> FALSE])])
    BY <1>5, Zenon DEF BeginLine
  <2> DEFINE f == Append(k.inbox, [line |-> l, newline |-> FALSE])
             x == [k EXCEPT !.begun = <<l>>, !.inbox = f]
  <2>2. Sent(f)
    BY <1>4, <2>1, Zenon
  <2>3. ClientStep(c, x)
    BY <2>1, Zenon
  <2> HIDE DEF f
  <2>4. x.inbox = f /\ x.begun = <<l>>
    BY <1>1, Zenon DEF IsLink
  <2> HIDE DEF x
  <2>5. Range(<<l>>) = {l}
    BY EmptyAndOne, Zenon
  <2> QED
    BY <1>2, <2>1, <2>2, <2>3, <2>4, <2>5, Zenon
<1>6. ASSUME EndLine(c) PROVE LinesInv'
  <2> DEFINE l == Head(k.begun)
             f == Append(k.inbox, [line |-> l, newline |-> TRUE])
             x == [k EXCEPT !.begun = <<>>, !.lines = Append(k.lines, l), !.inbox = f]
  <2>1. ClientStep(c, x) /\ k.begun # <<>>
    BY <1>6, Zenon DEF EndLine
  <2>2. l \in Lines
    BY <1>1, <2>1, FirstAndRest, Zenon
  <2>3. Sent(f)
    BY <1>4, <2>2, Zenon
  <2> HIDE DEF f
  <2>4. x.inbox = f /\ x.begun = <<>>
    BY <1>1, Zenon DEF IsLink
  <2> HIDE DEF x
  <2> QED
    BY <1>2, <2>1, <2>3, <2>4, EmptyAndOne, Zenon
<1> QED
  BY <1>3, <1>5, <1>6, Zenon

LEMMA LinesKept ==
  ASSUME AnswerInv, LinesInv, [ServiceNext]_allVars
  PROVE  LinesInv'
<1>1. /\ Sequence(data) /\ Sequence(line_buffer_)
      /\ link = [d \in Clients |-> link[d]] /\ \A d \in Clients : IsLink(link[d])
  BY Zenon DEF AnswerInv, Linked
<1>2. Sent(<<>>)
  BY EmptyAndOne, Zenon DEF Sent
<1>3. data # <<>> => Head(data).line \in Lines /\ Sent(Tail(data))
  BY <1>1, FirstAndRest, Zenon DEF LinesInv, Sent
<1>4. CASE receive
  <2> DEFINE x == [link[client_fd_] EXCEPT !.inbox = <<>>]
  <2>1. /\ client_fd_ \in Clients /\ link' = [link EXCEPT ![client_fd_] = x]
        /\ data' = link[client_fd_].inbox /\ line_buffer_' = line_buffer_
    BY <1>4, Zenon DEF receive, AnswerInv
  <2>2. x.inbox = <<>> /\ x.begun = link[client_fd_].begun
    <3>1. IsLink(link[client_fd_])
      BY <1>1, <2>1, Zenon
    <3> QED
      BY <3>1, Zenon DEF IsLink
  <2> HIDE DEF x
  <2>3. \A d \in Clients : Sent(link'[d].inbox) /\ Range(link'[d].begun) \subseteq Lines
    BY <1>1, <1>2, <2>1, <2>2, Zenon DEF LinesInv
  <2> QED
    BY <2>1, <2>3, Zenon DEF LinesInv
<1>5. CASE AddToLine
  <2> DEFINE r == Append(line_buffer_, Head(data))
  <2>1. data # <<>> /\ data' = Tail(data) /\ line_buffer_' = r /\ link' = link
    BY <1>5, Zenon DEF AddToLine
  <2>2. Range(r) = Range(line_buffer_) \cup {Head(data)}
    BY <1>1, Appended, Zenon
  <2> HIDE DEF r
  <2>3. Sent(r)
    BY <1>3, <2>1, <2>2, Zenon DEF LinesInv, Sent
  <2> QED
    BY <1>3, <2>1, <2>3, Zenon DEF LinesInv
<1>6. CASE ProcessLine
  <2>1. /\ data' \in {<<>>, Tail(data)} /\ data # <<>> /\ line_buffer_' = <<>>
        /\ \E answers : send(client_fd_, answers)
    BY <1>6, Zenon DEF ProcessLine, Finish
  <2>2. PICK r : link' \in {link, [link EXCEPT ![client_fd_].replies = r]}
    BY <2>1, Zenon DEF send
  <2>3. ASSUME NEW d \in Clients
        PROVE  link'[d].inbox = link[d].inbox /\ link'[d].begun = link[d].begun
    <3> DEFINE x == [link[d] EXCEPT !.replies = r]
    <3>1. x.inbox = link[d].inbox /\ x.begun = link[d].begun
      <4>1. IsLink(link[d])
        BY <1>1, Zenon
      <4> QED
        BY <4>1, Zenon DEF IsLink
    <3>2. link'[d] \in {link[d], x}
      BY <1>1, <2>2, Zenon
    <3> HIDE DEF x
    <3> QED
      BY <3>1, <3>2, Zenon
  <2>4. Sent(data')
    BY <1>2, <1>3, <2>1, Zenon
  <2> QED
    BY <1>2, <2>1, <2>3, <2>4, Zenon DEF LinesInv
<1>7. CASE line_buffer_' \in {line_buffer_, <<>>} /\ UNCHANGED <<link, data>>
  BY <1>2, <1>7, Zenon DEF LinesInv
<1>8. \/ \E c \in Clients : Connect(c) \/ BeginLine(c) \/ EndLine(c) \/ ReadAnswer(c) \/ CloseClient(c)
      \/ receive \/ AddToLine \/ ProcessLine
      \/ line_buffer_' \in {line_buffer_, <<>>} /\ UNCHANGED <<link, data>>
  BY Zenon DEF ServiceNext, processSerialData, acceptClient, disconnectClient, ClearLine,
         ReceiveTelegram, HandleTelegram, allVars, serviceVars
<1> QED
  BY <1>4, <1>5, <1>6, <1>7, <1>8, ClientLines, Zenon

\* The format of no telegram, or of one that cannot be read, is never learned.
Proper(formats) == formats \intersect {"", "?"} = {}

LEMMA LearntFormats ==
  ASSUME NEW a, IsTelegram(a), NEW keys, NEW simulated, NEW analyzed,
         WarnInv, Proper(hash_to_format_)
  PROVE  /\ Proper(parseHeader(a, NewTelegram).formats)
         /\ Proper(parse(a, Reread(a, keys, simulated, analyzed)).formats)
<1> DEFINE h == parseHeader(a, NewTelegram)
           t == Reread(a, keys, simulated, analyzed)
           p == parse(a, t)
<1>1. ReadTwice(a, h, t, p)
  BY TelegramLeaves, Zenon DEF WarnInv
<1>2. NewTelegram.formats = hash_to_format_
  BY Zenon DEF NewTelegram
<1> HIDE DEF h, t, p
<1>3. Proper(h.formats) /\ Proper(p.formats)
  BY <1>1, <1>2, Zenon DEF ReadTwice, Leaves, Proper
<1> QED
  BY <1>3, Zenon DEF h, t, p

\* handleDecode learns formats as a meter does.
LEMMA ProcessedFormats ==
  ASSUME NEW l, l.cmd = "decode" => IsTelegram(l.telegram), WarnInv, Proper(hash_to_format_)
  PROVE  Proper(processLine(l).formats)
<1> DEFINE h == parseHeader(l.telegram, NewTelegram)
           id == LastId(l.telegram, h)
           Good(r) == Proper(r.formats)
<1>1. /\ Good(Unchanged(l)) /\ Good([Unchanged(l) EXCEPT !.answer.status = "drivers"])
      /\ \A x : Proper(x) => Good([Unchanged(l) EXCEPT !.formats = x])
  BY Zenon DEF Unchanged
<1>2. ASSUME l.cmd = "decode" PROVE Good(handleDecode(meter_cache_, l))
  <2>1. /\ Proper(h.formats)
        /\ \A keys : Proper(parse(l.telegram, SecondParse(h, keys, FALSE, TRUE)).formats)
    BY <1>2, LearntFormats, Zenon DEF Reread
  <2> HIDE DEF h, id
  <2>2. ASSUME NEW meter PROVE Good(DecodeWith(l, id, h, meter))
    BY <2>1, Zenon DEF DecodeWith, DecodedFrom, Decoded
  <2> HIDE DEF Good
  <2>3. Good(DecodeHeader(meter_cache_, l, id, h))
    BY <1>1, <2>1, <2>2, Zenon DEF DecodeHeader
  <2> QED
    BY <2>3, Zenon DEF handleDecode, DecodeParsed, h, id
<1> HIDE DEF Good
<1>3. Good(processLine(l))
  BY <1>1, <1>2, Zenon DEF processLine
<1> QED
  BY <1>3, Zenon DEF Good

LEMMA ServiceFormats ==
  ASSUME AnswerInv, LinesInv, WarnInv, Proper(hash_to_format_), ProcessLine
  PROVE  Proper(hash_to_format_')
<1> DEFINE r == Append(line_buffer_, Head(data))
           l == LineOf(r)
<1>1. data # <<>> /\ hash_to_format_' = processLine(l).formats
  BY Zenon DEF ProcessLine, Finish
<1>2. Sequence(r) /\ Range(r) = Range(line_buffer_) \cup {Head(data)} /\ Head(data) \in Range(data)
  BY <1>1, Appended, FirstAndRest, Zenon DEF AnswerInv
<1>3. r # <<>>
  BY <1>2, EmptyAndOne, Zenon
<1> HIDE DEF r
<1>4. Head(r).line \in Lines
  BY <1>2, <1>3, FirstAndRest, Zenon DEF LinesInv, Sent
<1>5. l \in Lines \/ l = Garbage
  BY <1>4, Zenon DEF LineOf
<1> HIDE DEF l
<1>6. l.cmd = "decode" => IsTelegram(l.telegram)
  <2>1. Garbage.cmd # "decode"
    BY DEF Garbage
  <2> QED
    BY <1>5, <2>1, LinesAssumption, Zenon
<1> QED
  BY <1>1, <1>6, ProcessedFormats, Zenon

LEMMA MetersFinite == Len(Meters) \in Nat
<1> DEFINE Meter == [ids : SUBSET STRING, key : STRING, default_keys : Seq(STRING)]
<1>1. Meters \in Seq(Meter)
  BY MetersAssumption, Zenon
<1> HIDE DEF Meter
<1> QED
  BY <1>1

\* handleTelegram leaves the state of the meters well formed.
LEMMA OfferingTypes ==
  ASSUME KeyInv, WarnInv, TypeOK, OfferToMeter
  PROVE  TypeOK'
<1> DEFINE keys == meter_keys_[i]
           h == parseHeader(telegram, NewTelegram)
           t == Reread(telegram, keys, telegram.simulated, FALSE)
           p == parse(telegram, t)
<1>1. i \in DOMAIN Meters /\ IsTelegram(telegram) /\ Handled(h, p)
  BY Handling, Zenon
<1>2. Result(telegram, keys, p)
  BY <1>1, WholeParse, Zenon DEF Reread
<1>3. Proper(h.formats) /\ Proper(p.formats)
  <2>1. Proper(hash_to_format_)
    BY Zenon DEF TypeOK, Proper
  <2> QED
    BY <1>1, <2>1, LearntFormats, Zenon
<1> HIDE DEF h, t, p
<1>4. Range(keys.default_keys) \subseteq Range(Meters[i].default_keys)
  BY <1>1, EmptyAndOne, Zenon DEF KeyInv, KeysKept
<1>5. p.key \in {Meters[i].key, PriosAESKey} \union Range(Meters[i].default_keys)
  <2>1. keys.confidentiality_key \in {Meters[i].key, PriosAESKey} \union Range(Meters[i].default_keys)
    BY <1>1, Zenon DEF TypeOK
  <2> QED
    BY <1>2, <1>4, <2>1, Zenon DEF Result
<1>6. \A m \in DOMAIN Meters :
        meter_keys_'[m].confidentiality_key \in {Meters[m].key, PriosAESKey} \union Range(Meters[m].default_keys)
  BY <1>1, <1>5, Zenon DEF Handled, TypeOK
<1>7. Proper(hash_to_format_')
  BY <1>1, <1>3, Zenon DEF Handled
<1>8. Len(warning_printed_for_telegrams') <= MaxWarned
  BY OfferingWarns, Zenon DEF WarnInv, IsWarned
<1>9. i' \in 1..(Len(Meters) + 1)
  BY MetersFinite DEF OfferToMeter, KeyInv
<1>10. outcome'.ok => outcome'.match
  BY <1>1, Zenon DEF Handled
<1>11. spoiled' \subseteq DOMAIN Meters
  BY <1>1, Zenon DEF Handled, TypeOK
<1> QED
  BY <1>6, <1>7, <1>8, <1>9, <1>10, <1>11, Zenon DEF TypeOK, Proper

TakenInv == KeyInv /\ WarnInv /\ AnswerInv /\ LinesInv /\ SpoilInv /\ TypeOK

LEMMA TakenInitially == ServiceInit => TakenInv
<1> SUFFICES ASSUME ServiceInit PROVE TakenInv
  OBVIOUS
<1>1. KeyInv /\ AnswerInv
  BY KeyInitially, AnswersInitially, Zenon DEF ServiceInit
<1>2. WarnInv
  BY WarnedInitially
<1>3. LinesInv
  <2>1. Range(<<>>) = {}
    BY EmptyAndOne, Zenon
  <2>2. Offline.inbox = <<>> /\ Offline.begun = <<>>
    BY Zenon DEF Offline
  <2>3. LET open == [Offline EXCEPT !.state = "open"] IN open.inbox = <<>> /\ open.begun = <<>>
    BY Zenon DEF Offline
  <2>4. ASSUME NEW c \in Clients PROVE link[c].inbox = <<>> /\ link[c].begun = <<>>
    BY <2>2, <2>3, Zenon DEF ServiceInit
  <2> QED
    BY <2>1, <2>4, Zenon DEF ServiceInit, LinesInv, Sent
<1>4. /\ meter_keys_ = [m \in DOMAIN Meters |-> NewKeys(Meters[m].key, Meters[m].default_keys)]
      /\ hash_to_format_ = {} /\ telegram \in Air /\ i = 1 /\ outcome = NoOutcome /\ spoiled = {}
  BY Zenon DEF ServiceInit, Init
<1>5. SpoilInv
  BY <1>4, Zenon DEF SpoilInv, NewKeys
<1>6. TypeOK
  <2>1. \A m \in DOMAIN Meters : meter_keys_[m].confidentiality_key = Meters[m].key
    BY <1>4, Zenon DEF NewKeys
  <2>2. i \in 1..(Len(Meters) + 1)
    BY <1>4, MetersFinite
  <2>3. ~outcome.ok
    BY <1>4, Zenon DEF NoOutcome
  <2> QED
    BY <1>2, <1>4, <2>1, <2>2, <2>3, Zenon DEF TypeOK, WarnInv, IsWarned
<1> QED
  BY <1>1, <1>2, <1>3, <1>5, <1>6, Zenon DEF TakenInv

\* The steps of the service offer no telegram to a meter, but learn formats.
LEMMA ServiceTakes ==
  ASSUME TakenInv, [ServiceNext]_allVars
  PROVE  TakenInv' /\ KeyDecodes /\ DefaultKeysTried /\ TypeOK'
<1>1. KeyInv /\ WarnInv /\ AnswerInv /\ LinesInv /\ SpoilInv /\ TypeOK
  BY Zenon DEF TakenInv
<1>2. KeyInv' /\ WarnInv' /\ AnswerInv' /\ LinesInv'
  BY <1>1, ServiceKeepsKeys, ServiceWarns, AnswersStep, LinesKept, Zenon
<1>3. CASE OfferToMeter
  BY <1>1, <1>2, <1>3, OfferingTakes, OfferingTypes, Zenon DEF TakenInv
<1>4. CASE Receive
  <2>1. i' # i + 1 /\ i' \in 1..(Len(Meters) + 1)
    BY <1>1, <1>4, MetersFinite DEF Receive, KeyInv
  <2>2. ~outcome'.ok
    BY <1>4, Zenon DEF Receive, NoOutcome
  <2>3. TypeOK'
    BY <1>1, <1>4, <2>1, <2>2, Zenon DEF Receive, TypeOK
  <2>4. SpoilInv'
    BY <1>1, <1>4, Zenon DEF Receive, SpoilInv
  <2> QED
    BY <1>2, <2>1, <2>3, <2>4, Zenon DEF TakenInv, KeyDecodes, DefaultKeysTried, Offered
<1>5. CASE /\ UNCHANGED <<meter_keys_, warning_printed_for_telegrams, telegram, i, outcome, spoiled>>
           /\ hash_to_format_' = hash_to_format_ \/ ProcessLine
  <2>1. i' # i + 1
    BY <1>1, <1>5 DEF KeyInv
  <2>2. Proper(hash_to_format_')
    <3>1. Proper(hash_to_format_)
      BY <1>1, Zenon DEF TypeOK, Proper
    <3> QED
      BY <1>1, <1>5, <3>1, ServiceFormats, Zenon
  <2>3. TypeOK'
    BY <1>1, <1>5, <2>2, Zenon DEF TypeOK, Proper
  <2>4. SpoilInv'
    BY <1>1, <1>5, Zenon DEF SpoilInv
  <2> QED
    BY <1>2, <2>1, <2>3, <2>4, Zenon DEF TakenInv, KeyDecodes, DefaultKeysTried, Offered
<1>6. \/ OfferToMeter \/ Receive
      \/ /\ UNCHANGED <<meter_keys_, warning_printed_for_telegrams, telegram, i, outcome, spoiled>>
         /\ hash_to_format_' = hash_to_format_ \/ ProcessLine
  BY Zenon DEF ServiceNext, Connect, BeginLine, EndLine, ReadAnswer, CloseClient, ClientStep,
         processSerialData, acceptClient, receive, disconnectClient, AddToLine, ProcessLine,
         ReceiveTelegram, HandleTelegram, allVars, vars
<1> QED
  BY <1>3, <1>4, <1>5, <1>6, Zenon

\* handleTelegram and potentiallyDecrypt: a telegram that the key of the meter
\* reads is taken once its format is known, and one that a default key of the
\* driver reads is taken by a meter without a key, unless a telegram that fits
\* none came first or another key was promoted, whatever telegrams and requests
\* came before; keys, formats and remembered warnings stay well formed.
THEOREM ReadableTaken == ServiceSpec => ReadableIsTaken
<1>1. TakenInv /\ [ServiceNext]_allVars => TakenInv'
  BY ServiceTakes
<1>2. TakenInv /\ [ServiceNext]_allVars => [KeyDecodes /\ DefaultKeysTried /\ TypeOK']_vars
  BY ServiceTakes, Zenon
<1> QED
  BY TakenInitially, <1>1, <1>2, PTL DEF ServiceSpec, ReadableIsTaken

=============================================================================
