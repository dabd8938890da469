-------------------------- MODULE FrameReaderProofs --------------------------
(* What the reading of frames promises on every wire: the duplicate filter, *)
(* for every number of telegrams it remembers, and the end of the loop of   *)
(* processSerialData, for every driver and every byte that may come.        *)
EXTENDS FrameReader, WellFoundedInduction, TLAPS

-----------------------------------------------------------------------------
(* The duplicate filter.                                                    *)

Sequence(s) == s \in Seq(Range(s))

\* The filter remembers the telegrams that were heard last: SeenLimit of them,
\* or all as long as there are fewer.
RemembersLast ==
    LET n == Len(seen_telegrams) IN
    /\ n <= SeenLimit /\ n <= Len(heard)
    /\ n < SeenLimit => n = Len(heard)
    /\ \A i \in 1 .. n : seen_telegrams[i] = heard[Len(heard) - n + i]

FilterInv ==
    /\ Sequence(delivered) /\ Sequence(seen_telegrams) /\ Sequence(heard)
    /\ device # "mbus" => RemembersLast
    /\ DuplicateFilter

LEMMA Appended ==
  ASSUME NEW s, Sequence(s), NEW e
  PROVE  /\ Sequence(Append(s, e))
         /\ Len(s) \in Nat /\ DOMAIN s = 1 .. Len(s)
         /\ Len(Append(s, e)) = Len(s) + 1 /\ DOMAIN Append(s, e) = 1 .. Len(s) + 1
         /\ \A i \in 1 .. Len(s) : Append(s, e)[i] = s[i]
         /\ Append(s, e)[Len(s) + 1] = e
         /\ Range(Append(s, e)) = Range(s) \cup {e}
<1> DEFINE S == Range(s) \cup {e}
           r == Append(s, e)
<1>1. s \in Seq(S) /\ e \in S
  BY DEF Sequence
<1> HIDE DEF S
<1>2. /\ r \in Seq(S)
      /\ Len(s) \in Nat /\ DOMAIN s = 1 .. Len(s)
      /\ Len(r) = Len(s) + 1 /\ DOMAIN r = 1 .. Len(s) + 1
      /\ \A i \in 1 .. Len(s) : r[i] = s[i]
      /\ r[Len(s) + 1] = e
  BY <1>1
<1> HIDE DEF r
<1>3. Range(r) = Range(s) \cup {e}
  <2>1. Range(r) \subseteq Range(s) \cup {e}
    <3> SUFFICES ASSUME NEW i \in DOMAIN r PROVE r[i] \in Range(s) \cup {e}
      BY Zenon DEF Range
    <3>1. i \in 1 .. Len(s) \/ i = Len(s) + 1
      BY <1>2
    <3> QED
      BY <1>2, <3>1, Zenon DEF Range
  <2>2. Range(s) \cup {e} \subseteq Range(r)
    <3>1. e \in Range(r)
      <4>1. Len(s) + 1 \in DOMAIN r
        BY <1>2
      <4> QED
        BY <1>2, <4>1, Zenon DEF Range
    <3>2. ASSUME NEW i \in DOMAIN s PROVE s[i] \in Range(r)
      <4>1. i \in DOMAIN r /\ r[i] = s[i]
        BY <1>2
      <4> QED
        BY <4>1, Zenon DEF Range
    <3> QED
      BY <3>1, <3>2, Zenon DEF Range
  <2> QED
    BY <2>1, <2>2, Zenon
<1>4. Sequence(r)
  BY <1>2, <1>3, Zenon DEF Sequence, S
<1> QED
  BY <1>2, <1>3, <1>4, Zenon DEF r

\* The tail of a sequence, with what is appended to it.
LEMMA Shifted ==
  ASSUME NEW s, Sequence(s), s # <<>>
  PROVE  /\ Sequence(Tail(s)) /\ Len(s) > 0 /\ Len(Tail(s)) = Len(s) - 1
         /\ \A i \in 1 .. Len(s) - 1 : Tail(s)[i] = s[i + 1]
<1> DEFINE S == Range(s)
           r == Tail(s)
<1>1. s \in Seq(S)
  BY Zenon DEF Sequence
<1> HIDE DEF S
<1>2. /\ r \in Seq(S) /\ Len(s) \in Nat /\ Len(s) > 0 /\ Len(r) = Len(s) - 1
      /\ \A i \in 1 .. Len(s) - 1 : r[i] = s[i + 1]
  BY <1>1
<1> HIDE DEF r
<1>3. r \in Seq(Range(r))
  <2>1. r \in [1 .. Len(r) -> Range(r)] /\ Len(r) \in Nat
    BY <1>2 DEF Range
  <2> QED
    BY <2>1
<1> QED
  BY <1>2, <1>3, Zenon DEF Sequence, r

\* A telegram that was not seen is heard and remembered.
LEMMA HeardAndRemembered ==
  ASSUME FilterInv, device # "mbus", UNCHANGED wire, NEW frame,
         ~seen_this_telegram_before(frame),
         seen_telegrams' = Remember(frame), heard' = Append(heard, frame)
  PROVE  /\ Sequence(seen_telegrams)' /\ Sequence(heard)' /\ RemembersLast'
         /\ \A i, j \in DOMAIN heard' : i < j /\ heard'[i] = heard'[j] => j - i > SeenLimit
         /\ Range(heard') = Range(heard) \cup {frame}
<1>1. /\ Sequence(seen_telegrams) /\ Sequence(heard) /\ RemembersLast /\ SeenLimit \in Nat /\ SeenLimit # 0
      /\ \A i, j \in DOMAIN heard : i < j /\ heard[i] = heard[j] => j - i > SeenLimit
  BY SeenAssumption, Zenon DEF FilterInv, DuplicateFilter
<1> DEFINE n == Len(seen_telegrams)
           h == Len(heard)
           front == IF n >= SeenLimit THEN Tail(seen_telegrams) ELSE seen_telegrams
<1>2. /\ Sequence(heard)' /\ h \in Nat /\ DOMAIN heard = 1 .. h
      /\ Len(heard') = h + 1 /\ DOMAIN heard' = 1 .. h + 1
      /\ \A i \in 1 .. h : heard'[i] = heard[i]
      /\ heard'[h + 1] = frame
      /\ Range(heard') = Range(heard) \cup {frame}
  BY <1>1, Appended
<1>3. /\ n \in Nat /\ n <= SeenLimit /\ n <= h /\ (n < SeenLimit => n = h)
      /\ DOMAIN seen_telegrams = 1 .. n
      /\ \A i \in 1 .. n : seen_telegrams[i] = heard[h - n + i]
  BY <1>1, Appended, Zenon DEF RemembersLast
<1> HIDE DEF n, h
<1>4. /\ Sequence(front) /\ Len(front) \in Nat /\ Len(front) = IF n >= SeenLimit THEN n - 1 ELSE n
      /\ \A i \in 1 .. Len(front) : front[i] = heard[h - Len(front) + i]
  <2>1. CASE n >= SeenLimit
    <3>1. seen_telegrams # <<>>
      BY <1>1, <1>3, <2>1 DEF n
    <3>2. /\ Sequence(front) /\ Len(front) = n - 1
          /\ \A i \in 1 .. n - 1 : front[i] = seen_telegrams[i + 1]
      BY <1>1, <2>1, <3>1, Shifted, Zenon DEF n
    <3> HIDE DEF front
    <3>3. n - 1 \in Nat
      BY <1>1, <1>3, <2>1
    <3>4. ASSUME NEW i \in 1 .. n - 1 PROVE front[i] = heard[h - (n - 1) + i]
      <4>1. i + 1 \in 1 .. n /\ h - n + (i + 1) = h - (n - 1) + i
        BY <1>2, <1>3, <3>3
      <4> QED
        BY <1>3, <3>2, <4>1, Zenon
    <3> QED
      BY <2>1, <3>2, <3>3, <3>4, Zenon
  <2>2. CASE ~(n >= SeenLimit)
    BY <1>1, <1>3, <2>2, Zenon DEF n
  <2> QED
    BY <2>1, <2>2, Zenon
<1> HIDE DEF front
<1>5. /\ Sequence(seen_telegrams)' /\ Len(seen_telegrams') = Len(front) + 1
      /\ \A i \in 1 .. Len(front) : seen_telegrams'[i] = front[i]
      /\ seen_telegrams'[Len(front) + 1] = frame
  <2>1. seen_telegrams' = Append(front, frame)
    BY Zenon DEF Remember, front, n
  <2> QED
    BY <1>4, <2>1, Appended
<1>6. RemembersLast'
  <2> DEFINE k == Len(seen_telegrams')
  <2>1. k \in Nat /\ k = Len(front) + 1 /\ k <= SeenLimit /\ k <= h + 1 /\ (k < SeenLimit => k = h + 1)
    BY <1>1, <1>2, <1>3, <1>4, <1>5
  <2> HIDE DEF k
  <2>2. ASSUME NEW i \in 1 .. k PROVE seen_telegrams'[i] = heard'[h + 1 - k + i]
    <3>1. CASE i = k
      <4>1. h + 1 - k + i = h + 1
        BY <1>2, <2>1, <3>1
      <4> QED
        BY <1>2, <1>5, <2>1, <3>1, <4>1, Zenon
    <3>2. CASE i # k
      <4>1. i \in 1 .. Len(front) /\ h + 1 - k + i = h - Len(front) + i /\ h - Len(front) + i \in 1 .. h
        BY <1>2, <1>4, <2>1, <3>2, SMTT(30)
      <4> QED
        BY <1>2, <1>4, <1>5, <4>1, Zenon
    <3> QED
      BY <3>1, <3>2, Zenon
  <2>3. ASSUME NEW i \in 1 .. k PROVE seen_telegrams'[i] = heard'[Len(heard') - k + i]
    <3>1. Len(heard') - k + i = h + 1 - k + i
      BY <1>2, <2>1
    <3> QED
      BY <2>2, <3>1, Zenon
  <2>4. k <= SeenLimit /\ k <= Len(heard') /\ (k < SeenLimit => k = Len(heard'))
    BY <1>2, <2>1, Zenon
  <2> QED
    BY <2>3, <2>4, Zenon DEF RemembersLast, k
<1>7. ASSUME NEW i \in DOMAIN heard', NEW j \in DOMAIN heard', i < j, heard'[i] = heard'[j]
      PROVE  j - i > SeenLimit
  <2>1. i \in 1 .. h /\ i \in Nat /\ j \in Nat
    BY <1>2, <1>7
  <2>2. CASE j \in 1 .. h
    BY <1>1, <1>2, <1>7, <2>1, <2>2, Zenon
  <2>3. CASE j = h + 1
    <3>1. heard[i] = frame
      BY <1>2, <1>7, <2>1, <2>3, Zenon
    <3>2. SUFFICES ASSUME i > h - n PROVE FALSE
      BY <1>1, <1>2, <1>3, <2>1, <2>3
    <3>3. i - (h - n) \in 1 .. n /\ h - n + (i - (h - n)) = i
      BY <1>2, <1>3, <2>1, <3>2
    <3>4. seen_telegrams[i - (h - n)] = frame
      BY <1>3, <3>1, <3>3, Zenon
    <3> QED
      BY <1>3, <3>3, <3>4, Zenon DEF seen_this_telegram_before, Range
  <2> QED
    BY <1>2, <2>2, <2>3
<1> QED
  BY <1>2, <1>5, <1>6, <1>7, Zenon

LEMMA FilterInitially == Init => FilterInv
<1> SUFFICES ASSUME Init PROVE FilterInv
  OBVIOUS
<1>1. delivered = <<>> /\ seen_telegrams = <<>> /\ heard = <<>>
  BY Zenon DEF Init
<1>2. Sequence(<<>>)
  BY DEF Sequence
<1>3. RemembersLast /\ DuplicateFilter
  BY <1>1, SeenAssumption DEF RemembersLast, DuplicateFilter, Range
<1> QED
  BY <1>1, <1>2, <1>3 DEF FilterInv

\* What the driver hands on is a telegram that was heard, or none, or no telegram.
LEMMA DeliveredIsHeard ==
  ASSUME FilterInv, device # "mbus", Range(heard) \subseteq Range(heard'), NEW kind, NEW frame,
         kind = "telegram" /\ frame # <<>> => frame \in Range(heard'),
         delivered' = delivered \/ delivered' = Append(delivered, <<kind, frame>>)
  PROVE  \A x \in Range(delivered') : x[1] = "telegram" /\ x[2] # <<>> => x[2] \in Range(heard')
<1>1. \A x \in Range(delivered) : x[1] = "telegram" /\ x[2] # <<>> => x[2] \in Range(heard')
  BY Zenon DEF FilterInv, DuplicateFilter
<1>2. CASE delivered' = delivered
  BY <1>1, <1>2, Zenon
<1>3. CASE delivered' = Append(delivered, <<kind, frame>>)
  <2>1. Range(delivered') = Range(delivered) \cup {<<kind, frame>>}
    BY <1>3, Appended, Zenon DEF FilterInv
  <2> QED
    BY <1>1, <2>1
<1> QED
  BY <1>2, <1>3, Zenon

LEMMA FullFilters ==
  ASSUME FilterInv, Full
  PROVE  FilterInv'
<1>1. PICK r : /\ r = Check(read_buffer_)
               /\ IF r.kind = "telegram" THEN handleTelegram(r.payload)
                  ELSE UNCHANGED <<seen_telegrams, heard, aborted>>
               /\ delivered' = IF r.kind = "unhandled" THEN delivered
                               ELSE Append(delivered, <<r.kind, r.payload>>)
  BY Zenon DEF Full
<1> DEFINE kind == r.kind
           frame == r.payload
<1>2. /\ kind = "telegram" => handleTelegram(frame)
      /\ kind # "telegram" => UNCHANGED <<seen_telegrams, heard>>
      /\ delivered' = delivered \/ delivered' = Append(delivered, <<kind, frame>>)
  BY <1>1, Zenon
<1> HIDE DEF kind, frame
<1>3. UNCHANGED wire /\ device' = device
  BY Zenon DEF Full, inputVars, device
<1>4. Sequence(delivered)'
  <2>1. Sequence(delivered) /\ Sequence(Append(delivered, <<kind, frame>>))
    BY Appended, Zenon DEF FilterInv
  <2> QED
    BY <1>2, <2>1, Zenon
<1>5. CASE device = "mbus"
  <2>1. UNCHANGED seen_telegrams /\ (heard' = heard \/ heard' = Append(heard, frame))
    BY <1>2, <1>5, Zenon DEF handleTelegram
  <2> QED
    <3>1. Sequence(heard) /\ Sequence(Append(heard, frame)) /\ Sequence(seen_telegrams)
      BY Appended, Zenon DEF FilterInv
    <3>2. Sequence(heard') /\ Sequence(seen_telegrams')
      BY <2>1, <3>1, Zenon
    <3> QED
      BY <1>3, <1>4, <1>5, <3>2, Zenon DEF FilterInv, DuplicateFilter
<1>6. CASE device # "mbus" /\ UNCHANGED <<seen_telegrams, heard>>
  <2>1. kind = "telegram" /\ frame # <<>> => frame \in Range(heard)
    <3> SUFFICES ASSUME kind = "telegram", frame # <<>> PROVE frame \in Range(heard)
      BY Zenon
    <3>1. handleTelegram(frame)
      BY <1>2, Zenon
    <3>2. CASE ~seen_this_telegram_before(frame)
      <4>1. heard' = Append(heard, frame)
        BY <1>6, <3>1, <3>2, Zenon DEF handleTelegram
      <4> QED
        BY <1>6, <4>1, Appended DEF FilterInv
    <3>3. CASE seen_this_telegram_before(frame)
      <4>1. PICK i \in DOMAIN seen_telegrams : frame = seen_telegrams[i]
        BY <3>3 DEF seen_this_telegram_before, Range
      <4> DEFINE k == Len(heard) - Len(seen_telegrams) + i
      <4>2. k \in DOMAIN heard
        BY <1>6, Appended DEF FilterInv, RemembersLast
      <4>3. heard[k] = frame
        BY <1>6, <4>1, Appended, Zenon DEF FilterInv, RemembersLast
      <4> QED
        BY <4>2, <4>3, Zenon DEF Range
    <3> QED
      BY <3>2, <3>3
  <2>2. \A x \in Range(delivered') : x[1] = "telegram" /\ x[2] # <<>> => x[2] \in Range(heard')
    BY <1>2, <1>6, <2>1, DeliveredIsHeard, Zenon
  <2> QED
    BY <1>3, <1>4, <1>6, <2>2, Zenon DEF FilterInv, DuplicateFilter, RemembersLast
<1>7. CASE device # "mbus" /\ ~UNCHANGED <<seen_telegrams, heard>>
  <2>1. /\ ~seen_this_telegram_before(frame)
        /\ seen_telegrams' = Remember(frame) /\ heard' = Append(heard, frame)
    BY <1>2, <1>7, Zenon DEF handleTelegram
  <2>2. /\ Sequence(seen_telegrams)' /\ Sequence(heard)' /\ RemembersLast'
        /\ \A i, j \in DOMAIN heard' : i < j /\ heard'[i] = heard'[j] => j - i > SeenLimit
        /\ Range(heard') = Range(heard) \cup {frame}
    BY <1>3, <1>7, <2>1, HeardAndRemembered, Zenon
  <2>3. \A x \in Range(delivered') : x[1] = "telegram" /\ x[2] # <<>> => x[2] \in Range(heard')
    BY <1>2, <1>7, <2>2, DeliveredIsHeard, Zenon
  <2> QED
    BY <1>3, <1>4, <2>2, <2>3, Zenon DEF FilterInv, DuplicateFilter
<1> QED
  BY <1>5, <1>6, <1>7

LEMMA FilterStep == FilterInv /\ [Next]_vars => FilterInv'
<1> SUFFICES ASSUME FilterInv, [Next]_vars PROVE FilterInv'
  BY Zenon
<1>1. CASE UNCHANGED <<wire, outVars>>
  BY <1>1, Zenon DEF outVars, FilterInv, DuplicateFilter, RemembersLast, device
<1>2. CASE Text
  <2>1. /\ UNCHANGED <<wire, seen_telegrams, heard>> /\ device' = device
        /\ delivered' = delivered \/ delivered' = Append(delivered, <<"response", <<CMODE>>>>)
    BY <1>2, Zenon DEF Text, inputVars, device
  <2>2. Sequence(delivered)'
    <3>1. Sequence(delivered) /\ Sequence(Append(delivered, <<"response", <<CMODE>>>>))
      BY Appended, Zenon DEF FilterInv
    <3> QED
      BY <2>1, <3>1, Zenon
  <2>3. device # "mbus" =>
          \A x \in Range(delivered') : x[1] = "telegram" /\ x[2] # <<>> => x[2] \in Range(heard')
    BY <2>1, DeliveredIsHeard, Zenon
  <2> QED
    BY <2>1, <2>2, <2>3, Zenon DEF FilterInv, DuplicateFilter, RemembersLast
<1>3. CASE Full
  BY <1>3, FullFilters
<1>4. CASE (\E n \in 1 .. (Len(Stream) - received) : Receive(n)) \/ Gap \/ Partial \/ PartialUnassigned \/ Error
  BY <1>1, <1>4, Zenon DEF Receive, Gap, Partial, PartialUnassigned, Error, inputVars
<1> QED
  BY <1>1, <1>2, <1>3, <1>4, Zenon DEF Next, vars, inputVars

\* Whatever the wire and the driver, the listeners of a wireless device do not
\* hear a telegram again while it is among the SeenLimit telegrams they heard
\* last, and miss none that they have not heard (wmbus.cc handleTelegram,
\* seen_this_telegram_before).
THEOREM DuplicatesAreFiltered == Spec => []DuplicateFilter
<1>1. FilterInv => DuplicateFilter
  BY Zenon DEF FilterInv
<1> QED
  BY FilterInitially, FilterStep, <1>1, PTL DEF Spec

-----------------------------------------------------------------------------
(* Natural numbers.                                                         *)

\* A set of natural numbers has a least one.
LEMMA Least ==
  ASSUME NEW T, T \subseteq Nat, T # {}
  PROVE  \E n \in T : \A m \in T : n <= m
<1>1. IsWellFoundedOn(OpToRel(<, Nat), Nat)
  BY NatLessThanWellFounded, Zenon
<1>2. PICK n \in T : \A m \in T : <<m, n>> \notin OpToRel(<, Nat)
  BY <1>1, WFMin, Zenon
<1>3. ASSUME NEW m \in T PROVE ~(m < n)
  BY <1>2, Zenon DEF OpToRel
<1> QED
  BY <1>3

LEMMA Induction ==
  ASSUME NEW T, 0 \in T, \A n \in Nat : n \in T => n + 1 \in T
  PROVE  Nat \subseteq T
<1> SUFFICES ASSUME Nat \ T # {} PROVE FALSE
  BY Zenon
<1>1. PICK n \in Nat \ T : \A m \in Nat \ T : n <= m
  BY Least, Zenon
<1>2. n # 0 /\ n - 1 \in Nat
  OBVIOUS
<1>3. n - 1 \in T
  BY <1>1, <1>2
<1> QED
  BY <1>2, <1>3

LEMMA LeastOf ==
  ASSUME NEW S, S \subseteq Nat, S # {}
  PROVE  Min(S) \in S
<1>1. \E n \in S : \A m \in S : n <= m
  BY Least, Zenon
<1> QED
  BY <1>1, Zenon DEF Min

-----------------------------------------------------------------------------
(* What the examination of the buffer says about the bytes it takes.        *)

\* The rest of the buffer is not longer than the buffer, and a frame, or a line
\* of a driver that goes on after a bad one, takes a byte at least.
Fits(r, data) ==
    /\ r.data \in Seq(Nat) /\ Len(r.data) <= Len(data)
    /\ r.status = "full" => r.length \in Nat /\ r.length # 0 /\ data # <<>>
LineFits(r, data) ==
    Fits(r, data) /\ (r.status \in {"error", "text"} => r.length \in Nat /\ r.length # 0 /\ data # <<>>)

LEMMA Rest ==
  ASSUME NEW data \in Seq(Nat), NEW i \in Nat, i # 0
  PROVE  /\ From(data, i) \in Seq(Nat) /\ Len(From(data, i)) <= Len(data)
         /\ i # 1 /\ data # <<>> => Len(From(data, i)) < Len(data)
<1> DEFINE r == From(data, i)
<1>1. Len(data) \in Nat /\ (data # <<>> => Len(data) # 0)
  OBVIOUS
<1>2. r \in Seq(Nat)
  BY <1>1 DEF From
<1>3. Len(r) = IF i <= Len(data) THEN Len(data) - i + 1 ELSE 0
  BY <1>1 DEF From
<1> HIDE DEF r
<1>4. Len(r) <= Len(data) /\ (i # 1 /\ data # <<>> => Len(r) < Len(data))
  BY <1>1, <1>3
<1> QED
  BY <1>2, <1>4, Zenon DEF r

LEMMA Frames ==
  ASSUME NEW data, NEW n, NEW kind, NEW payload
  PROVE  /\ PartialFrame(data).status = "partial" /\ PartialFrame(data).data = data
         /\ ErrorInFrame(data, n).status = "error" /\ ErrorInFrame(data, n).data = data
         /\ ErrorInFrame(data, n).length = n
         /\ TextAndNotFrame(data, n).status = "text" /\ TextAndNotFrame(data, n).data = data
         /\ TextAndNotFrame(data, n).length = n
         /\ FullFrame(data, n, kind, payload).status = "full"
         /\ FullFrame(data, n, kind, payload).data = data
         /\ FullFrame(data, n, kind, payload).length = n
  BY Zenon DEF PartialFrame, ErrorInFrame, TextAndNotFrame, FullFrame

LEMMA At ==
  ASSUME NEW data \in Seq(Nat), NEW c, Positions(data, c) # {}
  PROVE  /\ Min(Positions(data, c)) \in DOMAIN data /\ Min(Positions(data, c)) \in Nat
         /\ Min(Positions(data, c)) # 0 /\ data # <<>>
<1>1. Positions(data, c) \subseteq DOMAIN data /\ DOMAIN data \subseteq Nat /\ 0 \notin DOMAIN data
  BY DEF Positions
<1>2. Min(Positions(data, c)) \in Positions(data, c)
  BY <1>1, LeastOf, Zenon
<1> QED
  BY <1>1, <1>2

LEMMA PartialFits ==
  ASSUME NEW data \in Seq(Nat), NEW d \in Seq(Nat), Len(d) <= Len(data)
  PROVE  LineFits(PartialFrame(d), data)
  BY Frames, ZenonT(40) DEF Fits, LineFits

LEMMA ErrorFits ==
  ASSUME NEW data \in Seq(Nat), NEW d \in Seq(Nat), Len(d) <= Len(data), NEW n
  PROVE  /\ Fits(ErrorInFrame(d, n), data) /\ Fits(TextAndNotFrame(d, n), data)
         /\ n \in Nat /\ n # 0 /\ data # <<>> =>
               LineFits(ErrorInFrame(d, n), data) /\ LineFits(TextAndNotFrame(d, n), data)
<1>1. /\ ErrorInFrame(d, n).status = "error" /\ ErrorInFrame(d, n).data = d /\ ErrorInFrame(d, n).length = n
      /\ TextAndNotFrame(d, n).status = "text" /\ TextAndNotFrame(d, n).data = d
      /\ TextAndNotFrame(d, n).length = n
  BY Frames
<1>2. Fits(ErrorInFrame(d, n), data)
  BY <1>1, Zenon DEF Fits
<1>3. Fits(TextAndNotFrame(d, n), data)
  BY <1>1, Zenon DEF Fits
<1> QED
  BY <1>1, <1>2, <1>3, Zenon DEF LineFits

LEMMA FullFits ==
  ASSUME NEW data \in Seq(Nat), data # <<>>, NEW d \in Seq(Nat), Len(d) <= Len(data),
         NEW n \in Nat, n # 0, NEW kind, NEW payload
  PROVE  LineFits(FullFrame(d, n, kind, payload), data)
  BY Frames DEF Fits, LineFits

LEMMA IM871AFits ==
  ASSUME NEW data \in Seq(Nat)
  PROVE  Fits(checkIM871AFrame(data), data)
<1> DEFINE starts == Positions(data, 165)
           d == From(data, Min(starts))
           r == checkIM871AFrame(data)
<1>1. CASE starts = {}
  <2>1. r = PartialFrame(data) \/ r = ErrorInFrame(data, 0)
    BY <1>1, Zenon DEF checkIM871AFrame
  <2> QED
    BY <2>1, PartialFits, ErrorFits, SMTT(30) DEF LineFits
<1>2. CASE starts # {}
  <2>1. d \in Seq(Nat) /\ Len(d) <= Len(data) /\ data # <<>>
    BY <1>2, At, Rest
  <2> DEFINE bit(b) == ((d[2] \div 16) \div b) % 2
             n == 4 + d[4] + 4 * bit(2) + bit(4) + 2 * bit(8)
             k == CASE d[2] % 16 = 2 /\ d[3] = 3 -> "telegram"
                  [] d[2] % 16 = 1 /\ d[3] \in {2, 4, 6, 16} -> "response"
                  [] d[2] % 16 = 2 /\ d[3] \in {2, 5} -> "response"
                  [] OTHER -> "unhandled"
             p == IF d[4] = 0 THEN <<>>
                   ELSE (IF d[2] % 16 = 2 /\ d[3] = 3 THEN <<d[4]>> ELSE <<>>) \o SubSeq(d, 5, 4 + d[4])
  <2>2. r = PartialFrame(d) \/ r = ErrorInFrame(d, 0) \/ (r = FullFrame(d, n, k, p) /\ ~(Len(d) < 4))
    <3>1. CASE Len(d) < 4
      BY <1>2, <2>1, <3>1, Zenon DEF checkIM871AFrame
    <3>2. CASE ~(Len(d) < 4)
      <4> DEFINE wrong == bit(1) = 1 \/ d[2] % 16 \notin 1..4 \/ d[3] \notin MsgIds(d[2] % 16)
      <4>1. r = IF wrong THEN ErrorInFrame(d, 0) ELSE IF Len(d) < n THEN PartialFrame(d) ELSE FullFrame(d, n, k, p)
        BY <1>2, <2>1, <3>2 DEF checkIM871AFrame
      <4> HIDE DEF wrong, d, n, k, p, r
      <4> QED
        BY <3>2, <4>1, Zenon
    <3> QED
      BY <3>1, <3>2, Zenon
  <2> HIDE DEF d, k, p
  <2>3. ASSUME ~(Len(d) < 4) PROVE n \in Nat /\ n # 0
    <3>1. d[2] \in Nat /\ d[4] \in Nat
      BY <2>1, <2>3, SMTT(30)
    <3>2. d[2] \div 16 \in Nat
      BY <3>1
    <3>3. bit(2) \in Nat /\ bit(4) \in Nat /\ bit(8) \in Nat
      BY <3>2, SMTT(30)
    <3>4. \A i, j, k1, l \in Nat : 4 + i + 4 * j + k1 + 2 * l \in Nat /\ 4 + i + 4 * j + k1 + 2 * l # 0
      OBVIOUS
    <3> HIDE DEF bit
    <3> QED
      BY <3>1, <3>3, <3>4, Zenon
  <2> HIDE DEF n
  <2> QED
    BY <2>1, <2>2, <2>3, PartialFits, ErrorFits, FullFits, Zenon DEF LineFits
<1> QED
  BY <1>1, <1>2

LEMMA AMB8465Fits ==
  ASSUME NEW data \in Seq(Nat)
  PROVE  Fits(checkAMB8465Frame(data), data)
<1> DEFINE r == checkAMB8465Frame(data)
           command == data[1] = 255
           at == IF command THEN 3 ELSE Min(TelegramOffsets(data)) + 1
           n == at + data[at] + (IF command THEN 1 ELSE 0)
<1>1. CASE Len(data) < 2 \/ (command /\ Len(data) < 3)
  BY <1>1, PartialFits DEF checkAMB8465Frame, LineFits
<1>2. CASE ~(Len(data) < 2) /\ ~command /\ TelegramOffsets(data) = {}
  <2>1. r = PartialFrame(<<data[Len(data)]>>)
    BY <1>2 DEF checkAMB8465Frame
  <2>2. <<data[Len(data)]>> \in Seq(Nat) /\ Len(<<data[Len(data)]>>) <= Len(data)
    BY <1>2
  <2> QED
    BY <2>1, <2>2, PartialFits, Zenon DEF LineFits
<1>3. CASE ~(Len(data) < 2 \/ (command /\ Len(data) < 3)) /\ (command \/ TelegramOffsets(data) # {})
  <2>1. r = PartialFrame(data) \/ \E k, p : r = FullFrame(data, n, k, p)
    BY <1>3, SMTT(30) DEF checkAMB8465Frame
  <2>2. at \in 1 .. Len(data)
    <3>1. CASE command
      BY <1>3, <3>1
    <3>2. CASE ~command
      <4>1. TelegramOffsets(data) \subseteq {0} \cup 1 .. (Len(data) - 3) /\ TelegramOffsets(data) # {}
        BY <1>3, <3>2, Zenon DEF TelegramOffsets
      <4>2. Min(TelegramOffsets(data)) \in {0} \cup 1 .. (Len(data) - 3)
        BY <4>1, LeastOf
      <4> QED
        BY <1>3, <3>2, <4>2
    <3> QED
      BY <3>1, <3>2, Zenon
  <2>3. n \in Nat /\ n # 0
    <3>1. data[at] \in Nat /\ at \in Nat /\ at # 0
      BY <2>2
    <3> HIDE DEF at
    <3> QED
      BY <3>1
  <2> HIDE DEF n
  <2> QED
    BY <1>3, <2>1, <2>3, PartialFits, FullFits DEF LineFits
<1> QED
  BY <1>1, <1>2, <1>3, Zenon

LEMMA WMBusFits ==
  ASSUME NEW data \in Seq(Nat)
  PROVE  Fits(checkWMBusFrame(data), data)
<1> DEFINE r == checkWMBusFrame(data)
           inStep == isValidWMBusCField(data[2])
           found == {i \in 1..(Len(data) - 2) : data[i + 1] = 68 /\ data[i] + 1 = (Len(data) - i + 1) % 256}
           offset == IF inStep THEN 1 ELSE Min(found)
           n == data[offset] + offset
<1>1. \/ r = [PartialFrame(data) EXCEPT !.unset = TRUE]
      \/ r = ErrorInFrame(data, 0)
      \/ r = PartialFrame(data)
      \/ ~(Len(data) < 11) /\ (inStep \/ found # {}) /\ \E p : r = FullFrame(data, n, "telegram", p)
  BY Zenon DEF checkWMBusFrame
<1>2. Fits([PartialFrame(data) EXCEPT !.unset = TRUE], data)
  BY DEF Fits, PartialFrame
<1>3. ASSUME ~(Len(data) < 11), inStep \/ found # {} PROVE n \in Nat /\ n # 0 /\ data # <<>>
  <2>1. offset \in 1 .. Len(data)
    <3>1. found # {} => Min(found) \in found
      <4>1. found \subseteq Nat
        OBVIOUS
      <4> HIDE DEF found
      <4> QED
        BY <4>1, LeastOf, Zenon
    <3> HIDE DEF inStep
    <3>2. CASE inStep
      BY <1>3, <3>2
    <3>3. CASE ~inStep
      <4>1. Min(found) \in 1 .. (Len(data) - 2)
        BY <1>3, <3>1, <3>3, Zenon
      <4> HIDE DEF found
      <4> QED
        BY <3>3, <4>1
    <3> QED
      BY <3>2, <3>3, Zenon
  <2> HIDE DEF offset
  <2> QED
    BY <1>3, <2>1
<1> HIDE DEF n, found, inStep
<1>4. ASSUME ~(Len(data) < 11), inStep \/ found # {}, NEW p
      PROVE  Fits(FullFrame(data, n, "telegram", p), data)
  BY <1>3, <1>4, FullFits DEF LineFits
<1>5. Fits(PartialFrame(data), data) /\ Fits(ErrorInFrame(data, 0), data)
  BY PartialFits, ErrorFits DEF LineFits
<1> HIDE DEF r
<1> QED
  BY <1>1, <1>2, <1>4, <1>5, Zenon DEF r

LEMMA MBusFits ==
  ASSUME NEW data \in Seq(Nat)
  PROVE  Fits(checkMBusFrame(data), data)
<1> DEFINE r == checkMBusFrame(data)
           n == data[2] + 6
<1>1. \/ data # <<>> /\ r = FullFrame(data, 1, "telegram", <<229>>)
      \/ r = PartialFrame(data)
      \/ r = ErrorInFrame(data, 0)
      \/ ~(Len(data) < 6) /\ r = FullFrame(data, n, "telegram", SubSeq(data, 1, n))
  BY ZenonT(40) DEF checkMBusFrame
<1>2. ~(Len(data) < 6) => n \in Nat /\ n # 0 /\ data # <<>>
  OBVIOUS
<1> HIDE DEF n, r
<1> QED
  BY <1>1, <1>2, PartialFits, ErrorFits, FullFits, SMTT(30) DEF LineFits, r

LEMMA CULFits ==
  ASSUME NEW data \in Seq(Nat)
  PROVE  Fits(checkCULFrame(data), data)
<1> DEFINE r == checkCULFrame(data)
           eol == Min(Positions(data, LF))
           last == IF data[eol - 1] = CR THEN eol - 2 ELSE eol - 1
           hex == SubSeq(data, IF data[2] = 89 THEN 3 ELSE 2, last)
           payload == hex2bin(SubSeq(hex, 1, Len(hex) - 2))
           trimmed == IF data[2] = 89 THEN trimCRCsFrameFormatB(payload) ELSE trimCRCsFrameFormatA(payload)
<1>1. \/ r = PartialFrame(data)
      \/ r = TextAndNotFrame(data, eol)
      \/ r = ErrorInFrame(data, eol)
      \/ Positions(data, LF) # {} /\ r = FullFrame(data, eol, "telegram", trimmed)
  BY Zenon DEF checkCULFrame
<1> HIDE DEF trimmed
<1>2. Positions(data, LF) # {} => eol \in Nat /\ eol # 0 /\ data # <<>>
  BY At, Zenon
<1> HIDE DEF eol, r
<1> QED
  BY <1>1, <1>2, PartialFits, ErrorFits, FullFits DEF LineFits, r

LEMMA RTLWMBUSFits ==
  ASSUME NEW data \in Seq(Nat)
  PROVE  LineFits(checkRTLWMBUSFrame(data), data)
<1> DEFINE r == checkRTLWMBUSFrame(data)
           eol == Min(Positions(data, LF))
<1>1. \/ r = PartialFrame(data)
      \/ /\ Positions(data, LF) # {}
         /\ \/ r = TextAndNotFrame(data, eol)
            \/ r = ErrorInFrame(data, eol)
            \/ \E p : r = FullFrame(data, eol, "telegram", p)
  BY Zenon DEF checkRTLWMBUSFrame
<1>2. Positions(data, LF) # {} => eol \in Nat /\ eol # 0 /\ data # <<>>
  BY At, Zenon
<1> HIDE DEF eol, r
<1> QED
  BY <1>1, <1>2, PartialFits, ErrorFits, FullFits DEF r

LEMMA RTL433Fits ==
  ASSUME NEW data \in Seq(Nat)
  PROVE  LineFits(checkRTL433Frame(data), data)
<1> DEFINE r == checkRTL433Frame(data)
           eol == Min(Positions(data, LF))
           d == [data EXCEPT ![eol] = 0]
<1>1. \/ Positions(data, LF) = {} /\ r = PartialFrame(data)
      \/ /\ Positions(data, LF) # {}
         /\ \/ r = PartialFrame(d)
            \/ r = TextAndNotFrame(d, eol)
            \/ r = ErrorInFrame(d, eol)
            \/ \E p : r = FullFrame(d, eol, "telegram", p)
  BY Zenon DEF checkRTL433Frame
<1>2. Positions(data, LF) # {} => eol \in Nat /\ eol # 0 /\ data # <<>>
  BY At, Zenon
<1>3. d \in Seq(Nat) /\ Len(d) <= Len(data)
  <2> HIDE DEF eol
  <2>1. data \in [1 .. Len(data) -> Nat] /\ Len(data) \in Nat
    OBVIOUS
  <2>2. d \in [1 .. Len(data) -> Nat]
    BY <2>1, Zenon
  <2> QED
    BY <2>1, <2>2
<1> HIDE DEF eol, r, d
<1> QED
  BY <1>1, <1>2, <1>3, PartialFits, ErrorFits, FullFits DEF r

LEMMA SlipFacts ==
  ASSUME NEW data \in Seq(Nat)
  PROVE  LET slip == removeSlipFraming(data) IN
         \/ slip.length = 0 /\ slip.to = <<>>
         \/ slip.length \in Nat /\ slip.length # 0 /\ data # <<>>
<1> DEFINE starts == {i \in DOMAIN data : data[i] # END}
           ends == {i \in Positions(data, END) : i > Min(starts)}
           slip == removeSlipFraming(data)
<1>1. CASE starts = {} \/ ends = {}
  BY <1>1, Zenon DEF removeSlipFraming
<1>2. CASE starts # {} /\ ends # {}
  <2>1. slip.length = Min(ends)
    BY <1>2, Zenon DEF removeSlipFraming
  <2>2. ends \subseteq DOMAIN data /\ DOMAIN data \subseteq Nat /\ 0 \notin DOMAIN data
    BY DEF Positions
  <2>3. Min(ends) \in ends
    BY <1>2, <2>2, LeastOf, Zenon
  <2> QED
    BY <2>1, <2>2, <2>3
<1> QED
  BY <1>1, <1>2, Zenon

LEMMA IU880BFits ==
  ASSUME NEW data \in Seq(Nat)
  PROVE  Fits(checkIU880BFrame(data), data)
<1> DEFINE r == checkIU880BFrame(data)
           slip == removeSlipFraming(data)
<1>1. \/ r = PartialFrame(data)
      \/ r = ErrorInFrame(data, slip.length)
      \/ ~(Len(slip.to) < 5) /\ \E k, p : r = FullFrame(data, slip.length, k, p)
  BY Zenon DEF checkIU880BFrame
<1>2. ~(Len(slip.to) < 5) => slip.length \in Nat /\ slip.length # 0 /\ data # <<>>
  <2>1. slip.to = <<>> => Len(slip.to) < 5
    OBVIOUS
  <2> QED
    BY <2>1, SlipFacts, Zenon
<1> HIDE DEF slip, r
<1> QED
  BY <1>1, <1>2, PartialFits, ErrorFits, FullFits DEF LineFits, r

LEMMA IU891AFits ==
  ASSUME NEW data \in Seq(Nat)
  PROVE  Fits(checkIU891AFrame(data), data)
<1> DEFINE r == checkIU891AFrame(data)
           slip == removeSlipFraming(data)
<1>1. \/ r = PartialFrame(data)
      \/ \E n : r = ErrorInFrame(data, n)
      \/ slip.length # 0 /\ \E k, p : r = FullFrame(data, slip.length, k, p)
  BY Zenon DEF checkIU891AFrame
<1>2. slip.length # 0 => slip.length \in Nat /\ data # <<>>
  BY SlipFacts, Zenon
<1> HIDE DEF slip, r
<1> QED
  BY <1>1, <1>2, PartialFits, ErrorFits, FullFits DEF LineFits, r

LEMMA CheckFits ==
  ASSUME wire \in Wires, NEW data \in Seq(Nat)
  PROVE  Fits(Check(data), data) /\ (LineBased => LineFits(Check(data), data))
<1>1. device \in Devices
  BY WiresAssumption DEF device
<1>2. CASE device = "rtlwmbus"
  BY <1>2, RTLWMBUSFits, Zenon DEF Check, TTYs, LineFits
<1>3. CASE device = "rtl433"
  BY <1>3, RTL433Fits, Zenon DEF Check, TTYs, LineFits
<1>4. CASE device \in TTYs \cup {"rc1180"}
  BY <1>4, WMBusFits, Zenon DEF Check, TTYs, LineBased
<1>5. CASE device \in {"im871a", "amb8465", "mbus", "cul", "iu880b", "iu891a"}
  BY <1>5, IM871AFits, AMB8465Fits, MBusFits, CULFits, IU880BFits, IU891AFits, Zenon DEF Check,
     TTYs, LineBased
<1> QED
  BY <1>1, <1>2, <1>3, <1>4, <1>5, Zenon DEF Devices

-----------------------------------------------------------------------------
(* The digits that a hextty keeps.                                          *)

Keeps(chars, n, f) ==
    f = [i \in 0..n |->
            IF i = 0 THEN <<>>
            ELSE IF chars[i] \in HexDigits THEN Append(f[i - 1], chars[i]) ELSE f[i - 1]]

\* kept is the one function that its definition describes.
LEMMA KeptExists ==
  ASSUME NEW chars
  PROVE  \A n \in Nat : \E f : Keeps(chars, n, f)
<1> DEFINE T == {n \in Nat : \E f : Keeps(chars, n, f)}
<1>1. 0 \in T
  <2> DEFINE f == [i \in 0..0 |-> <<>>]
  <2>1. Keeps(chars, 0, f)
    BY DEF Keeps
  <2> QED
    BY <2>1
<1>2. ASSUME NEW n \in Nat, n \in T PROVE n + 1 \in T
  <2>1. PICK f : Keeps(chars, n, f)
    BY <1>2
  <2> DEFINE g == [i \in 0..n + 1 |->
                     IF i <= n THEN f[i]
                     ELSE IF chars[i] \in HexDigits THEN Append(f[i - 1], chars[i]) ELSE f[i - 1]]
  <2>2. \A i \in 0..n : f[i] = IF i = 0 THEN <<>>
            ELSE IF chars[i] \in HexDigits THEN Append(f[i - 1], chars[i]) ELSE f[i - 1]
    BY <2>1, Zenon DEF Keeps
  <2>3. \A i \in 0..n + 1 : g[i] = IF i = 0 THEN <<>>
            ELSE IF chars[i] \in HexDigits THEN Append(g[i - 1], chars[i]) ELSE g[i - 1]
    BY <2>2
  <2>4. Keeps(chars, n + 1, g)
    <3> HIDE DEF g
    <3> QED
      BY <2>3, Zenon DEF Keeps, g
  <2> QED
    BY <2>4
<1> HIDE DEF T
<1>3. Nat \subseteq T
  BY <1>1, <1>2, Induction
<1> QED
  BY <1>3 DEF T

LEMMA DigitsAreDigits ==
  ASSUME NEW chars \in Seq(Nat)
  PROVE  Digits(chars) \in Seq(HexDigits)
<1> DEFINE kept == CHOOSE f : Keeps(chars, Len(chars), f)
           T == {n \in Nat : n <= Len(chars) => kept[n] \in Seq(HexDigits)}
<1>1. Keeps(chars, Len(chars), kept)
  <2>1. Len(chars) \in Nat
    OBVIOUS
  <2> QED
    BY <2>1, KeptExists, Zenon
<1>2. Digits(chars) = kept[Len(chars)]
  BY DEF Digits, Keeps
<1> HIDE DEF kept
<1>3. \A i \in 0..Len(chars) : kept[i] = IF i = 0 THEN <<>>
            ELSE IF chars[i] \in HexDigits THEN Append(kept[i - 1], chars[i]) ELSE kept[i - 1]
  BY <1>1, Zenon DEF Keeps
<1>4. 0 \in T
  <2>1. Len(chars) \in Nat /\ 0 \in 0..Len(chars)
    OBVIOUS
  <2>2. kept[0] = <<>>
    BY <1>3, <2>1, Zenon
  <2>3. <<>> \in Seq(HexDigits)
    OBVIOUS
  <2> QED
    BY <2>2, <2>3, Zenon
<1>5. ASSUME NEW n \in Nat, n \in T PROVE n + 1 \in T
  <2> SUFFICES ASSUME n + 1 <= Len(chars) PROVE kept[n + 1] \in Seq(HexDigits)
    OBVIOUS
  <2>1. kept[n] \in Seq(HexDigits)
    BY <1>5
  <2>2. n + 1 \in 0..Len(chars) /\ n + 1 # 0 /\ (n + 1) - 1 = n
    OBVIOUS
  <2>3. kept[n + 1] = IF chars[n + 1] \in HexDigits THEN Append(kept[n], chars[n + 1]) ELSE kept[n]
    <3>1. kept[n + 1] = IF chars[n + 1] \in HexDigits THEN Append(kept[(n + 1) - 1], chars[n + 1])
                        ELSE kept[(n + 1) - 1]
      BY <1>3, <2>2, Zenon
    <3> QED
      BY <2>2, <3>1, Zenon
  <2>4. ASSUME NEW s \in Seq(HexDigits), NEW c \in HexDigits PROVE Append(s, c) \in Seq(HexDigits)
    OBVIOUS
  <2> QED
    BY <2>1, <2>3, <2>4, Zenon
<1>6. Nat \subseteq T
  <2> HIDE DEF T
  <2> QED
    BY <1>4, <1>5, Induction, Zenon
<1> QED
  BY <1>2, <1>6

LEMMA MoreGeneral ==
  ASSUME NEW S, NEW R, S \subseteq R, NEW s \in Seq(S)
  PROVE  s \in Seq(R)
  OBVIOUS

LEMMA CopyGivesBytes ==
  ASSUME NEW chars \in Seq(Nat)
  PROVE  copy(chars).to \in Seq(Nat) /\ copy(chars).from \in Seq(Nat)
<1> DEFINE digits == Digits(chars)
           pairs == Len(digits) \div 2
           to == [k \in 1..pairs |-> 16 * (digits[2 * k - 1] - 2000) + digits[2 * k] - 2000]
<1>1. digits \in Seq(HexDigits)
  BY DigitsAreDigits
<1>2. copy(chars).to = to /\ copy(chars).from = SubSeq(digits, 2 * pairs + 1, Len(digits))
  BY DEF copy
<1> HIDE DEF digits
<1>3. pairs \in Nat /\ 2 * pairs <= Len(digits) /\ Len(digits) \in Nat
  BY <1>1
<1> HIDE DEF pairs
<1>4. ASSUME NEW k \in 1..pairs PROVE 16 * (digits[2 * k - 1] - 2000) + digits[2 * k] - 2000 \in Nat
  <2>1. 2 * k - 1 \in 1 .. Len(digits) /\ 2 * k \in 1 .. Len(digits)
    BY <1>3
  <2>2. digits[2 * k - 1] \in HexDigits /\ digits[2 * k] \in HexDigits
    BY <1>1, <2>1
  <2>3. \A x, y \in HexDigits : 16 * (x - 2000) + y - 2000 \in Nat
    BY DEF HexDigits
  <2> QED
    BY <2>2, <2>3
<1>5. to \in Seq(Nat)
  <2>1. to \in [1..pairs -> Nat]
    BY <1>4
  <2> HIDE DEF to
  <2> QED
    BY <1>3, <2>1
<1>6. SubSeq(digits, 2 * pairs + 1, Len(digits)) \in Seq(HexDigits)
  BY <1>1, <1>3
<1>7. SubSeq(digits, 2 * pairs + 1, Len(digits)) \in Seq(Nat)
  <2>1. HexDigits \subseteq Nat
    BY DEF HexDigits
  <2> QED
    BY <1>6, <2>1, MoreGeneral, Zenon
<1> QED
  BY <1>2, <1>5, <1>7

-----------------------------------------------------------------------------
(* The loop of processSerialData.                                           *)

BufferInv ==
    /\ wire \in Wires /\ received \in 0 .. Len(Stream)
    /\ read_buffer_ \in Seq(Nat) /\ odd_char \in Seq(Nat)

LEMMA BufferInitially == Init => BufferInv
<1> SUFFICES ASSUME Init PROVE BufferInv
  OBVIOUS
<1>1. Stream \in Seq(Nat)
  BY WiresAssumption, Zenon DEF Init, Stream
<1> QED
  BY <1>1 DEF Init, BufferInv

LEMMA ReceiveBuffers ==
  ASSUME BufferInv, NEW n \in 1 .. (Len(Stream) - received), Receive(n)
  PROVE  BufferInv'
<1> DEFINE data == SubSeq(Stream, received + 1, received + n)
           kept == IF Late THEN <<>> ELSE read_buffer_
           chars == odd_char \o data
<1>1. Stream \in Seq(Nat) /\ Len(Stream) \in Nat /\ wire' = wire /\ Stream' = Stream
  BY WiresAssumption DEF BufferInv, Stream, Receive
<1>2. received' \in 0 .. Len(Stream) /\ data \in Seq(Nat)
  <2>1. received' = received + n
    BY Zenon DEF Receive
  <2>2. received \in 0 .. Len(Stream)
    BY DEF BufferInv
  <2>3. received \in Nat /\ n \in Nat /\ received + n <= Len(Stream)
    BY <1>1, <2>2
  <2> QED
    BY <1>1, <2>1, <2>3
<1>3. kept \in Seq(Nat)
  BY DEF BufferInv
<1>4. /\ read_buffer_' = kept \o (IF device = "hextty" THEN copy(chars).to ELSE data)
      /\ odd_char' = IF device = "hextty" THEN copy(chars).from ELSE <<>>
  BY Zenon DEF Receive
<1> HIDE DEF data, kept
<1>5. chars \in Seq(Nat)
  BY <1>2 DEF BufferInv
<1> HIDE DEF chars
<1>6. copy(chars).to \in Seq(Nat) /\ copy(chars).from \in Seq(Nat)
  BY <1>5, CopyGivesBytes
<1>7. read_buffer_' \in Seq(Nat) /\ odd_char' \in Seq(Nat)
  <2>1. CASE device = "hextty"
    BY <1>3, <1>4, <1>6, <2>1
  <2>2. CASE device # "hextty"
    BY <1>2, <1>3, <1>4, <2>2
  <2> QED
    BY <2>1, <2>2
<1> QED
  BY <1>1, <1>2, <1>7, Zenon DEF BufferInv

\* What is left in the buffer by a turn of the loop.
LEMMA TurnLeaves ==
  ASSUME BufferInv, Partial \/ PartialUnassigned \/ Error \/ Text \/ Full
  PROVE  /\ BufferInv'
         /\ reading' => Len(read_buffer_') < Len(read_buffer_)
<1> DEFINE r == Check(read_buffer_)
<1>1. /\ read_buffer_ \in Seq(Nat) /\ Len(read_buffer_) \in Nat
      /\ Fits(r, read_buffer_) /\ (LineBased => LineFits(r, read_buffer_))
  BY CheckFits DEF BufferInv
<1>2. /\ UNCHANGED inputVars
      /\ \/ reading' = FALSE /\ read_buffer_' \in {<<>>, r.data}
         \/ /\ read_buffer_' = From(r.data, r.length + 1)
            /\ r.status = "full" \/ (LineBased /\ r.status \in {"error", "text"})
  <2>1. CASE Partial
    BY <2>1, Zenon DEF Partial, Return
  <2>2. CASE PartialUnassigned
    BY <2>2, Zenon DEF PartialUnassigned, Return
  <2>3. CASE Error
    BY <2>3, Zenon DEF Error, Return, ZeroLength
  <2>4. CASE Text
    BY <2>4, Zenon DEF Text, Return
  <2>5. CASE Full
    BY <2>5, Zenon DEF Full
  <2> QED
    BY <2>1, <2>2, <2>3, <2>4, <2>5, Zenon
<1> HIDE DEF r
<1>3. UNCHANGED <<wire, received, odd_char>> /\ Stream' = Stream
  BY <1>2, Zenon DEF inputVars, Stream
<1>4. CASE reading' = FALSE /\ read_buffer_' \in {<<>>, r.data}
  <2>1. read_buffer_' \in Seq(Nat)
    <3>1. <<>> \in Seq(Nat) /\ r.data \in Seq(Nat)
      BY <1>1 DEF Fits
    <3> QED
      BY <1>4, <3>1, Zenon
  <2> QED
    BY <1>3, <1>4, <2>1, Zenon DEF BufferInv
<1>5. CASE /\ read_buffer_' = From(r.data, r.length + 1)
           /\ r.status = "full" \/ (LineBased /\ r.status \in {"error", "text"})
  <2>1. /\ r.data \in Seq(Nat) /\ Len(r.data) <= Len(read_buffer_)
        /\ r.length \in Nat /\ r.length # 0 /\ read_buffer_ # <<>>
    BY <1>1, <1>5, Zenon DEF Fits, LineFits
  <2>2. read_buffer_' \in Seq(Nat) /\ Len(read_buffer_') < Len(read_buffer_)
    <3>1. /\ From(r.data, r.length + 1) \in Seq(Nat)
          /\ r.data # <<>> => Len(From(r.data, r.length + 1)) < Len(r.data)
          /\ Len(From(r.data, r.length + 1)) <= Len(r.data)
      BY <2>1, Rest
    <3>2. Len(read_buffer_) > 0 /\ Len(r.data) \in Nat /\ (r.data = <<>> => Len(r.data) = 0)
      BY <1>1, <2>1
    <3>3. Len(From(r.data, r.length + 1)) \in Nat
      BY <3>1
    <3> QED
      BY <1>1, <1>5, <2>1, <3>1, <3>2, <3>3
  <2> QED
    BY <1>3, <2>2 DEF BufferInv
<1> QED
  BY <1>2, <1>4, <1>5, Zenon

LEMMA BufferStep == BufferInv /\ [Next]_vars => BufferInv'
<1> SUFFICES ASSUME BufferInv, [Next]_vars PROVE BufferInv'
  OBVIOUS
<1>1. CASE UNCHANGED <<inputVars, read_buffer_>>
  BY <1>1 DEF BufferInv, inputVars, Stream
<1>2. CASE Gap
  BY <1>1, <1>2 DEF Gap
<1>3. CASE \E n \in 1 .. (Len(Stream) - received) : Receive(n)
  BY <1>3, ReceiveBuffers
<1>4. CASE Partial \/ PartialUnassigned \/ Error \/ Text \/ Full
  BY <1>4, TurnLeaves
<1> QED
  BY <1>1, <1>2, <1>3, <1>4, Zenon DEF Next, vars

\* Every turn of the loop of processSerialData that does not end it takes at
\* least one byte from the buffer, whatever the driver and whatever the bytes:
\* the loop ends for every input, and the event loop goes on (processSerialData
\* of the wmbus_*.cc drivers, with their check*Frame).
THEOREM LoopsEnd == Spec => LoopShrinks
<1>1. BufferInv /\ [Next]_vars => [reading /\ reading' => Len(read_buffer_') < Len(read_buffer_)]_vars
  <2> SUFFICES ASSUME BufferInv, Next, reading, reading' PROVE Len(read_buffer_') < Len(read_buffer_)
    BY Zenon
  <2>1. CASE Gap \/ \E n \in 1 .. (Len(Stream) - received) : Receive(n)
    BY <2>1, Zenon DEF Gap, Receive
  <2>2. CASE Partial \/ PartialUnassigned \/ Error \/ Text \/ Full
    BY <2>2, TurnLeaves
  <2> QED
    BY <2>1, <2>2, Zenon DEF Next
<1> QED
  BY BufferInitially, BufferStep, <1>1, PTL DEF Spec, LoopShrinks
=============================================================================
