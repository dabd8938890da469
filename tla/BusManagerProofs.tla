--------------------------- MODULE BusManagerProofs ---------------------------
(* What the bus manager relies on between any two steps of a detection, for *)
(* every set of ports, things, configurations and alarm intervals.          *)
EXTENDS BusManager, WellFoundedInduction, TLAPS

-----------------------------------------------------------------------------
(* Natural numbers.                                                         *)

\* A set of natural numbers has a least one: < is well founded.
LEMMA Least ==
  ASSUME NEW T, T \subseteq Nat, T # {}
  PROVE  \E n \in T : \A m \in T : n <= m
<1>1. IsWellFoundedOn(OpToRel(<, Nat), Nat)
  BY NatLessThanWellFounded, Zenon
<1>2. PICK n \in T : \A m \in T : <<m, n>> \notin OpToRel(<, Nat)
  BY <1>1, WFMin, Zenon
<1>3. ASSUME NEW m \in T PROVE ~(m < n)
  BY <1>2, Zenon DEF OpToRel
<1> QED
  BY <1>3

LEMMA Induction ==
  ASSUME NEW T, 0 \in T, \A n \in Nat : n \in T => n + 1 \in T
  PROVE  Nat \subseteq T
<1> SUFFICES ASSUME Nat \ T # {} PROVE FALSE
  OBVIOUS
<1>1. PICK n \in Nat \ T : \A m \in Nat \ T : n <= m
  BY Least, Zenon
<1>2. n # 0 /\ n - 1 \in Nat
  OBVIOUS
<1>3. n - 1 \in T
  BY <1>1, <1>2
<1> QED
  BY <1>2, <1>3

\* The least number of a set, or 0.
LEMMA FirstIn ==
  ASSUME NEW S, S \subseteq Nat
  PROVE  (S = {} /\ First(S) = 0) \/ First(S) \in S
<1>1. CASE S = {}
  BY <1>1 DEF First
<1>2. CASE S # {}
  <2>1. \E n \in S : \A m \in S : n <= m
    BY <1>2, Least, Zenon
  <2> QED
    BY <1>2, <2>1, Zenon DEF First
<1> QED
  BY <1>1, <1>2, Zenon

-----------------------------------------------------------------------------
(* Erasing the devices that do not work.                                    *)

\* kept is the one function that its definition describes.
Keeps(devices, n, f) ==
    f = [i \in 0..n |->
            IF i = 0 THEN <<>>
            ELSE IF devices[i].is_working THEN Append(f[i - 1], devices[i]) ELSE f[i - 1]]

LEMMA KeptExists ==
  ASSUME NEW devices
  PROVE  \A n \in Nat : \E f : Keeps(devices, n, f)
<1> DEFINE T == {n \in Nat : \E f : Keeps(devices, n, f)}
<1>1. 0 \in T
  <2> DEFINE f == [i \in 0..0 |-> <<>>]
  <2>1. Keeps(devices, 0, f)
    BY DEF Keeps
  <2> QED
    BY <2>1
<1>2. ASSUME NEW n \in Nat, n \in T PROVE n + 1 \in T
  <2>1. PICK f : Keeps(devices, n, f)
    BY <1>2
  <2> DEFINE g == [i \in 0..n + 1 |->
                     IF i <= n THEN f[i]
                     ELSE IF devices[i].is_working THEN Append(f[i - 1], devices[i]) ELSE f[i - 1]]
  <2>2. \A i \in 0..n : f[i] = IF i = 0 THEN <<>>
            ELSE IF devices[i].is_working THEN Append(f[i - 1], devices[i]) ELSE f[i - 1]
    BY <2>1, Zenon DEF Keeps
  <2>3. \A i \in 0..n + 1 : g[i] = IF i = 0 THEN <<>>
            ELSE IF devices[i].is_working THEN Append(g[i - 1], devices[i]) ELSE g[i - 1]
    BY <2>2
  <2>4. Keeps(devices, n + 1, g)
    <3> HIDE DEF g
    <3> QED
      BY <2>3, Zenon DEF Keeps, g
  <2> QED
    BY <2>4
<1> HIDE DEF T
<1>3. Nat \subseteq T
  BY <1>1, <1>2, Induction, Zenon
<1> QED
  BY <1>3 DEF T

\* r holds devices of the first n, each at most once, and only ones that work.
PickedFrom(devices, n, r) ==
    \E g \in [DOMAIN r -> 1..n] :
        /\ \A j, k \in DOMAIN r : g[j] = g[k] => j = k
        /\ \A j \in DOMAIN r : r[j] = devices[g[j]] /\ devices[g[j]].is_working

LEMMA KeptArePicked ==
  ASSUME NEW S, NEW devices \in Seq(S), NEW f, Keeps(devices, Len(devices), f)
  PROVE  \A n \in 0..Len(devices) : f[n] \in Seq(S) /\ PickedFrom(devices, n, f[n])
<1> DEFINE Good(n) == f[n] \in Seq(S) /\ PickedFrom(devices, n, f[n])
           T == {n \in Nat : n <= Len(devices) => Good(n)}
<1>1. 0 \in T
  <2>1. f[0] = <<>>
    BY DEF Keeps
  <2>2. PickedFrom(devices, 0, <<>>)
    <3> DEFINE g == [j \in {} |-> 0]
    <3>1. g \in [DOMAIN <<>> -> 1..0]
      OBVIOUS
    <3> QED
      BY <3>1, Zenon DEF PickedFrom
  <2>3. <<>> \in Seq(S)
    OBVIOUS
  <2>4. Good(0)
    BY <2>1, <2>2, <2>3, Zenon
  <2> QED
    BY <2>4, Zenon
<1>2. ASSUME NEW n \in Nat, n \in T, n + 1 <= Len(devices) PROVE Good(n + 1)
  <2>1. /\ f[n + 1] = IF devices[n + 1].is_working THEN Append(f[n], devices[n + 1]) ELSE f[n]
        /\ n + 1 \in DOMAIN devices /\ devices[n + 1] \in S
    <3>1. n + 1 \in 0..Len(devices) /\ n + 1 # 0 /\ (n + 1) - 1 = n
      BY <1>2
    <3>2. f[n + 1] = IF devices[n + 1].is_working THEN Append(f[(n + 1) - 1], devices[n + 1]) ELSE f[(n + 1) - 1]
      BY <3>1, Zenon DEF Keeps
    <3> QED
      BY <1>2, <3>1, <3>2
  <2>2. f[n] \in Seq(S) /\ PickedFrom(devices, n, f[n])
    BY <1>2
  <2>3. PICK g \in [DOMAIN f[n] -> 1..n] :
            /\ \A j, k \in DOMAIN f[n] : g[j] = g[k] => j = k
            /\ \A j \in DOMAIN f[n] : f[n][j] = devices[g[j]] /\ devices[g[j]].is_working
    BY <2>2, Zenon DEF PickedFrom
  <2>4. CASE ~devices[n + 1].is_working
    <3>1. f[n + 1] = f[n] /\ g \in [DOMAIN f[n] -> 1..(n + 1)]
      BY <2>1, <2>4
    <3>2. PickedFrom(devices, n + 1, f[n])
      BY <2>3, <3>1, Zenon DEF PickedFrom
    <3> QED
      BY <2>2, <3>1, <3>2, Zenon
  <2>5. CASE devices[n + 1].is_working
    <3> DEFINE r == Append(f[n], devices[n + 1])
               h == [j \in DOMAIN r |-> IF j \in DOMAIN f[n] THEN g[j] ELSE n + 1]
    <3>1. /\ r \in Seq(S) /\ Len(r) = Len(f[n]) + 1 /\ DOMAIN r = 1..Len(r) /\ DOMAIN f[n] = 1..Len(f[n])
          /\ r[Len(r)] = devices[n + 1]
          /\ \A j \in DOMAIN f[n] : r[j] = f[n][j]
      BY <2>1, <2>2
    <3> HIDE DEF r
    <3>2. /\ \A j \in DOMAIN f[n] : h[j] = g[j] /\ h[j] \in 1..n
          /\ h[Len(r)] = n + 1
      BY <2>2, <2>3, <3>1
    <3>3. \A j \in DOMAIN r : j \in DOMAIN f[n] \/ j = Len(r)
      BY <2>2, <3>1
    <3>4. h \in [DOMAIN r -> 1..(n + 1)]
      BY <3>2, <3>3
    <3> HIDE DEF h
    <3>5. \A j, k \in DOMAIN r : h[j] = h[k] => j = k
      BY <2>3, <3>2, <3>3
    <3>6. \A j \in DOMAIN r : r[j] = devices[h[j]] /\ devices[h[j]].is_working
      BY <2>3, <2>5, <3>1, <3>2, <3>3, Zenon
    <3>7. PickedFrom(devices, n + 1, r)
      BY <3>4, <3>5, <3>6, Zenon DEF PickedFrom
    <3> QED
      BY <2>1, <2>5, <3>1, <3>7, Zenon DEF r
  <2> QED
    BY <2>4, <2>5, Zenon
<1>3. \A n \in Nat : n \in T => n + 1 \in T
  BY <1>2
<1> HIDE DEF T
<1>4. Nat \subseteq T
  BY <1>1, <1>3, Induction, Zenon
<1> QED
  BY <1>4 DEF T

LEMMA Erased ==
  ASSUME NEW S, NEW devices \in Seq(S)
  PROVE  /\ EraseNotWorking(devices) \in Seq(S)
         /\ PickedFrom(devices, Len(devices), EraseNotWorking(devices))
<1> DEFINE kept == CHOOSE f : Keeps(devices, Len(devices), f)
<1>1. Keeps(devices, Len(devices), kept)
  BY KeptExists
<1>2. EraseNotWorking(devices) = kept[Len(devices)]
  BY DEF EraseNotWorking, Keeps
<1> HIDE DEF kept
<1> QED
  BY <1>1, <1>2, KeptArePicked

-----------------------------------------------------------------------------
(* The inductive invariant.                                                 *)

KindOf(p) == IF p \in TTYs THEN "tty" ELSE "radio"

\* A scan of this kind is part of every detection, except of the one for files.
SearchOf(kind) == IF kind = "tty" THEN "search tty" ELSE "search radio"
Demanded(kind) == config.auto \/ \E s \in Specs : Supplied[s].kind = SearchOf(kind)
Named(p, s) == Supplied[s].kind = "tty" /\ Supplied[s].path = p

\* This detection has still to tidy up port p of the ignore list: the scan of
\* its kind has not listed the ports yet, or the tty is a supplied one that was
\* not looked at yet.
ScanComes(p) ==
    /\ Demanded(KindOf(p))
    /\ \/ pc \in {"supplied", "probing"}
       \/ pc = "list" /\ scanning \in {"tty", KindOf(p)}
       \/ pc = "scan" /\ scanning = "tty" /\ KindOf(p) = "radio"
TurnComes(p) ==
    \E s \in Specs :
        /\ Named(p, s)
        /\ (pc = "supplied" /\ s >= spec) \/ (pc = "probing" /\ s > spec)

\* What is ignored is not open, and is looked at in every detection.
IgnoredIsChecked ==
    /\ dt = "files" => ignored = {}
    /\ \A p \in ignored :
          /\ ~lookup(p)
          /\ Demanded(KindOf(p)) \/ \E s \in Specs : Named(p, s)
          /\ plugged[p] = Nothing =>
                vacant[p] = 0 \/ (vacant[p] = 1 /\ (ScanComes(p) \/ TurnComes(p)))

\* The kinds of ports that are scanned: those the detection has met so far.
ScansDemanded ==
    /\ \A kind \in must_auto_find : Demanded(kind)
    /\ dt = "files" => must_auto_find = {}
    /\ dt # "files" /\ pc \in {"supplied", "probing"} =>
          \A kind \in {"tty", "radio"} :
              config.auto \/ (\E s \in Specs : s < spec /\ Supplied[s].kind = SearchOf(kind))
                  => kind \in must_auto_find
    /\ dt # "files" /\ pc \in {"list", "scan"} =>
          \A kind \in {"tty", "radio"} : Demanded(kind) => kind \in must_auto_find

\* Between the look at a tty and its probe nobody else opens or ignores it.
ProbeIsDue ==
    pc = "probing" =>
        /\ dt # "files" /\ spec \in Specs /\ Supplied[spec].kind = "tty"
        /\ ~lookup(Supplied[spec].path) /\ Supplied[spec].path \notin ignored

\* A listed port that is empty became so after it was listed.
ListedIsRecent ==
    /\ pc # "scan" => todo = {}
    /\ todo # {} => scanning \in must_auto_find
    /\ \A p \in todo : plugged[p] = Nothing => vacant[p] = 0

PortsInv ==
    PortsConsistent /\ IgnoredIsChecked /\ ScansDemanded /\ ProbeIsDue /\ ListedIsRecent

-----------------------------------------------------------------------------
(* The supplied devices, and the devices in use.                            *)

LEMMA SuppliedFacts ==
  ASSUME config \in Configs
  PROVE  /\ Len(Supplied) \in Nat /\ Specs = 1..Len(Supplied)
         /\ \A s \in Specs :
               /\ Supplied[s].kind \in {"tty", "command", "file", "search tty", "search radio"}
               /\ Supplied[s].kind = "tty" => Supplied[s].path \in TTYs /\ Supplied[s].type # Unknown
               /\ Supplied[s].kind = "command" => Supplied[s].path \in Commands
               /\ Supplied[s].kind = "file" => Supplied[s].path \in Files
<1> DEFINE R == {Supplied[s] : s \in DOMAIN Supplied}
<1>1. Supplied \in Seq(R)
  BY ConfigsAssumption, Zenon DEF Supplied
<1> HIDE DEF R
<1>2. Len(Supplied) \in Nat /\ DOMAIN Supplied = 1..Len(Supplied)
  BY <1>1
<1> QED
  BY <1>2, ConfigsAssumption, Zenon DEF Supplied, Specs

LEMMA DetectedIsSpec ==
  ASSUME config \in Configs, NEW type, NEW id
  PROVE  find_specified_device_from_detected(type, id) \in {0} \cup Specs
<1> DEFINE searched == {s \in Specs : Supplied[s].kind \notin {"tty", "file"}
                                         /\ TypeMatches(Supplied[s].type, type)}
           exact == {s \in searched : Supplied[s].id # NoId /\ Supplied[s].id = id}
           loose == {s \in searched : Supplied[s].id = NoId}
<1>1. Specs \subseteq Nat
  <2>1. Specs = 1..Len(Supplied)
    BY SuppliedFacts, Zenon
  <2> QED
    BY <2>1
<1>2. exact \subseteq Specs /\ loose \subseteq Specs
  BY Zenon
<1>3. find_specified_device_from_detected(type, id) = IF exact # {} THEN First(exact) ELSE First(loose)
  BY Zenon DEF find_specified_device_from_detected
<1> HIDE DEF exact, loose
<1>4. First(exact) \in {0} \cup Specs /\ First(loose) \in {0} \cup Specs
  BY <1>1, <1>2, FirstIn, Zenon
<1> QED
  BY <1>3, <1>4, Zenon

\* A new device is the only one in use on its path if none was before.
LEMMA Opened ==
  ASSUME bus_devices_ \in Seq(BusDevices), OneDevicePerPath, UNCHANGED config,
         NEW p \in Paths, NEW type, NEW id, NEW s \in {0} \cup Specs,
         type \in {t.type : t \in Things} \cup {Supplied[x].type : x \in Specs},
         id \in {t.id : t \in Things} \cup {NoId},
         ~lookup(p), Open(p, type, id, s)
  PROVE  /\ (bus_devices_ \in Seq(BusDevices))'
         /\ OneDevicePerPath'
         /\ \A q : lookup(q)' => lookup(q) \/ q = p
<1> DEFINE b == [path |-> p, type |-> type, id |-> id, spec |-> s, is_working |-> TRUE]
<1>1. b \in BusDevices
  BY Zenon DEF BusDevices
<1>2. BusDevices' = BusDevices
  BY Zenon DEF BusDevices, Supplied, Specs
<1>3. bus_devices_' = Append(bus_devices_, b) /\ b.path = p
  BY Zenon DEF Open
<1> HIDE DEF b
<1>4. /\ bus_devices_' \in Seq(BusDevices)
      /\ DOMAIN bus_devices_ = 1..Len(bus_devices_)
      /\ DOMAIN bus_devices_' = 1..(Len(bus_devices_) + 1)
      /\ \A k \in 1..Len(bus_devices_) : bus_devices_'[k] = bus_devices_[k]
      /\ bus_devices_'[Len(bus_devices_) + 1] = b
      /\ Len(bus_devices_) \in Nat
  BY <1>1, <1>3
<1>5. \A k \in Working' : \/ k \in Working /\ bus_devices_'[k] = bus_devices_[k]
                          \/ k = Len(bus_devices_) + 1 /\ bus_devices_'[k].path = p
  BY <1>3, <1>4 DEF Working
<1> QED
  BY <1>2, <1>4, <1>5, Zenon DEF OneDevicePerPath, lookup

LEMMA ErasedLookup ==
  ASSUME bus_devices_ \in Seq(BusDevices), OneDevicePerPath, UNCHANGED config,
         bus_devices_' = EraseNotWorking(bus_devices_)
  PROVE  /\ (bus_devices_ \in Seq(BusDevices))'
         /\ OneDevicePerPath'
         /\ \A q : lookup(q)' => lookup(q)
<1>1. BusDevices' = BusDevices
  BY Zenon DEF BusDevices, Supplied, Specs
<1>2. bus_devices_' \in Seq(BusDevices) /\ PickedFrom(bus_devices_, Len(bus_devices_), bus_devices_')
  BY Erased
<1>3. PICK g \in [DOMAIN bus_devices_' -> 1..Len(bus_devices_)] :
        /\ \A j, k \in DOMAIN bus_devices_' : g[j] = g[k] => j = k
        /\ \A j \in DOMAIN bus_devices_' : bus_devices_'[j] = bus_devices_[g[j]] /\ bus_devices_[g[j]].is_working
  BY <1>2, Zenon DEF PickedFrom
<1>4. \A j \in Working' : j \in DOMAIN bus_devices_' /\ g[j] \in Working /\ bus_devices_'[j] = bus_devices_[g[j]]
  BY <1>3 DEF Working
<1> QED
  BY <1>1, <1>2, <1>3, <1>4 DEF OneDevicePerPath, lookup

LEMMA LostLookup ==
  ASSUME bus_devices_ \in Seq(BusDevices), OneDevicePerPath, UNCHANGED config,
         NEW k \in Working, Lose(k)
  PROVE  /\ (bus_devices_ \in Seq(BusDevices))'
         /\ OneDevicePerPath'
         /\ \A q : lookup(q)' => lookup(q)
<1>1. BusDevices' = BusDevices
  BY Zenon DEF BusDevices, Supplied, Specs
<1>2. k \in DOMAIN bus_devices_ /\ bus_devices_' = [bus_devices_ EXCEPT ![k].is_working = FALSE]
  BY Zenon DEF Lose, Working
<1>3. bus_devices_[k] \in BusDevices
  BY <1>2
<1>4. [bus_devices_[k] EXCEPT !.is_working = FALSE] \in BusDevices
  BY <1>3, Zenon DEF BusDevices
<1>5. bus_devices_' \in Seq(BusDevices) /\ DOMAIN bus_devices_' = DOMAIN bus_devices_
  BY <1>2, <1>4
<1>6. \A j \in Working' : j \in Working /\ bus_devices_'[j] = bus_devices_[j]
  BY <1>2, <1>5 DEF Working
<1> QED
  BY <1>1, <1>5, <1>6, Zenon DEF OneDevicePerPath, lookup

LEMMA SameDevices ==
  ASSUME bus_devices_ \in Seq(BusDevices), OneDevicePerPath, UNCHANGED <<config, bus_devices_>>
  PROVE  /\ (bus_devices_ \in Seq(BusDevices))'
         /\ OneDevicePerPath'
         /\ \A q : lookup(q)' = lookup(q)
BY Zenon DEF BusDevices, Supplied, Specs, OneDevicePerPath, lookup, Working

-----------------------------------------------------------------------------
(* The steps.  In each the configuration stays.                             *)

LEMMA SameConfig ==
  ASSUME UNCHANGED config
  PROVE  /\ Supplied' = Supplied /\ Specs' = Specs
         /\ \A kind : Demanded(kind)' = Demanded(kind)
         /\ \A p : AskedFor(p)' = AskedFor(p)
         /\ \A p, x : Named(p, x)' = Named(p, x)
BY Zenon DEF Supplied, Specs, Demanded, AskedFor, Named

LEMMA Unpacked ==
  ASSUME PortsInv
  PROVE  /\ TypeOK /\ OneDevicePerPath /\ IgnoredAreForeign /\ IgnoredIsChecked
         /\ ScansDemanded /\ ProbeIsDue /\ ListedIsRecent
         /\ config \in Configs /\ bus_devices_ \in Seq(BusDevices) /\ ignored \subseteq Ports
         /\ Len(Supplied) \in Nat /\ Specs = 1..Len(Supplied) /\ spec \in 1..Len(Supplied) + 1
<1>1. TypeOK /\ config \in Configs
  BY Zenon DEF PortsInv, PortsConsistent, TypeOK
<1> QED
  BY <1>1, SuppliedFacts, Zenon DEF PortsInv, PortsConsistent, TypeOK

\* The supplied device that a detection looks at.
LEMMA SpecLookedAt ==
  ASSUME PortsInv, spec <= Len(Supplied)
  PROVE  /\ spec \in Specs
         /\ Supplied[spec].kind = "tty" => Supplied[spec].path \in TTYs /\ Supplied[spec].type # Unknown
         /\ Supplied[spec].kind = "command" => Supplied[spec].path \in Commands
         /\ Supplied[spec].kind = "file" => Supplied[spec].path \in Files
<1>1. spec \in Specs
  BY Unpacked
<1> QED
  BY <1>1, Unpacked, SuppliedFacts, Zenon

\* A step that leaves a part of the state alone keeps what is said about it.
LEMMA StillForeign ==
  ASSUME IgnoredAreForeign, UNCHANGED <<config, plugged>>, ignored' \subseteq ignored
  PROVE  IgnoredAreForeign'
BY SameConfig, Zenon DEF IgnoredAreForeign

LEMMA StillChecked ==
  ASSUME IgnoredIsChecked, UNCHANGED <<config, plugged, vacant, dt>>, ignored' \subseteq ignored,
         \A p \in ignored' : lookup(p)' => lookup(p),
         \A p \in ignored' :
             plugged[p] = Nothing /\ (ScanComes(p) \/ TurnComes(p)) => ScanComes(p)' \/ TurnComes(p)'
  PROVE  IgnoredIsChecked'
BY SameConfig, Zenon DEF IgnoredIsChecked

LEMMA StillDemanded ==
  ASSUME ScansDemanded, UNCHANGED <<config, dt, pc, spec, must_auto_find>>
  PROVE  ScansDemanded'
BY SameConfig, Zenon DEF ScansDemanded

LEMMA StillDue ==
  ASSUME ProbeIsDue, UNCHANGED <<config, dt, pc, spec, ignored>>, \A p : lookup(p)' => lookup(p)
  PROVE  ProbeIsDue'
BY SameConfig, Zenon DEF ProbeIsDue

LEMMA NoneDue ==
  ASSUME pc' # "probing"
  PROVE  ProbeIsDue'
BY DEF ProbeIsDue

LEMMA NoneListed ==
  ASSUME todo' = {}
  PROVE  ListedIsRecent'
BY DEF ListedIsRecent

\* Between the steps that look at a supplied device.
LEMMA SuppliedStep ==
  ASSUME PortsInv, pc \in {"supplied", "probing"}, pc' \in {"supplied", "probing"},
         spec <= Len(Supplied), spec' \in {spec, spec + 1}, handled' \in [Specs -> BOOLEAN],
         UNCHANGED <<plugged, config, vacant, since_alarm, printed_warning_, expect_devices_to_work_,
                     running_, dt, scanning, todo>>,
         (bus_devices_ \in Seq(BusDevices))', ignored' \subseteq Ports,
         do_not_open_file_again_' \subseteq Files, must_auto_find' \subseteq {"tty", "radio"}
  PROVE  TypeOK' /\ ListedIsRecent'
<1>1. spec' \in 1..Len(Supplied) + 1
  BY Unpacked
<1>2. todo' = {}
  BY Unpacked, Zenon DEF ListedIsRecent
<1> QED
  BY <1>1, <1>2, Unpacked, SameConfig, NoneListed, Zenon DEF TypeOK

\* The scans that are demanded are those of the supplied devices looked at.
LEMMA SuppliedDemands ==
  ASSUME PortsInv, pc \in {"supplied", "probing"}, pc' \in {"supplied", "probing"},
         spec' \in {spec, spec + 1}, Supplied[spec].kind \in {"tty", "command", "file"},
         UNCHANGED <<config, dt, must_auto_find>>
  PROVE  ScansDemanded'
<1>1. \A kind : Supplied[spec].kind # SearchOf(kind)
  BY Zenon DEF SearchOf
<1>2. \A x \in Specs : x < spec' => x < spec \/ x = spec
  BY Unpacked
<1> QED
  BY <1>1, <1>2, Unpacked, SameConfig, Zenon DEF ScansDemanded

\* A supplied device that is not a tty: the turns of the ttys still come.
LEMMA TurnsStay ==
  ASSUME PortsInv, pc = "supplied", pc' = "supplied", spec' = spec + 1, UNCHANGED config,
         Supplied[spec].kind # "tty", NEW p
  PROVE  /\ TurnComes(p) => TurnComes(p)'
         /\ ScanComes(p) => ScanComes(p)'
<1>1. \A s \in Specs : s >= spec => s >= spec + 1 \/ s = spec
  BY Unpacked
<1>2. TurnComes(p) => TurnComes(p)'
  BY <1>1, SameConfig, Zenon DEF TurnComes, Named
<1>3. ScanComes(p) => ScanComes(p)'
  BY SameConfig, Zenon DEF ScanComes
<1> QED
  BY <1>2, <1>3

\* A supplied device is opened on its own path.
LEMMA OpenedSupplied ==
  ASSUME PortsInv, UNCHANGED config, spec \in Specs, Supplied[spec].path \in Paths,
         NEW id \in {t.id : t \in Things} \cup {NoId},
         ~lookup(Supplied[spec].path), Open(Supplied[spec].path, Supplied[spec].type, id, spec)
  PROVE  /\ (bus_devices_ \in Seq(BusDevices))'
         /\ OneDevicePerPath'
         /\ \A q : lookup(q)' => lookup(q) \/ q = Supplied[spec].path
<1>1. spec \in {0} \cup Specs
  BY Zenon
<1>2. Supplied[spec].type \in {t.type : t \in Things} \cup {Supplied[x].type : x \in Specs}
  BY Zenon
<1> QED
  BY <1>1, <1>2, Unpacked, Opened, Zenon

LEMMA CheckForDeadWmbusDevicesKeeps ==
  ASSUME PortsInv, checkForDeadWmbusDevices
  PROVE  PortsInv'
<1>1. /\ UNCHANGED <<plugged, config, ignored, do_not_open_file_again_, handled, since_alarm, dt,
                     scanning, todo>>
      /\ pc = "idle" /\ pc' = "supplied" /\ spec' = 1
      /\ bus_devices_' = EraseNotWorking(bus_devices_)
      /\ must_auto_find' = IF config.auto /\ dt # "files" THEN {"tty", "radio"} ELSE {}
      /\ vacant' = [p \in Ports |-> IF vacant[p] = 0 THEN 1 ELSE vacant[p]]
  BY Zenon DEF checkForDeadWmbusDevices, specVars
<1>2. /\ (bus_devices_ \in Seq(BusDevices))' /\ OneDevicePerPath'
      /\ \A q : lookup(q)' => lookup(q)
  BY <1>1, Unpacked, ErasedLookup, Zenon
<1>3. (printed_warning_ \in BOOLEAN /\ expect_devices_to_work_ \in BOOLEAN /\ running_ \in BOOLEAN)'
  BY Unpacked, Zenon DEF TypeOK, checkForDeadWmbusDevices
<1>4. TypeOK'
  BY <1>1, <1>2, <1>3, Unpacked, SameConfig DEF TypeOK
<1>5. IgnoredIsChecked'
  <2>1. ASSUME NEW p \in ignored PROVE ScanComes(p)' \/ TurnComes(p)'
    <3>1. Demanded(KindOf(p)) \/ \E s \in Specs : Named(p, s)
      BY Unpacked, Zenon DEF IgnoredIsChecked
    <3>2. Demanded(KindOf(p)) => ScanComes(p)'
      BY <1>1, SameConfig, Zenon DEF ScanComes
    <3>3. ASSUME NEW s \in Specs, Named(p, s) PROVE TurnComes(p)'
      BY <1>1, <3>3, Unpacked, SameConfig DEF TurnComes
    <3> QED
      BY <3>1, <3>2, <3>3, Zenon
  <2>2. \A p \in ignored : plugged[p] = Nothing => vacant[p] \in {0, 1} /\ vacant'[p] = 1
    BY <1>1, Unpacked, Zenon DEF IgnoredIsChecked
  <2>3. \A p \in ignored : ~lookup(p)' /\ (Demanded(KindOf(p))' \/ \E s \in Specs' : Named(p, s)')
    BY <1>1, <1>2, Unpacked, SameConfig, Zenon DEF IgnoredIsChecked
  <2>4. dt' = "files" => ignored' = {}
    BY <1>1, Unpacked, Zenon DEF IgnoredIsChecked
  <2> QED
    BY <1>1, <2>1, <2>2, <2>3, <2>4, Zenon DEF IgnoredIsChecked
<1>6. ScansDemanded'
  BY <1>1, Unpacked, SameConfig DEF ScansDemanded, Demanded
<1>7. ListedIsRecent'
  BY <1>1, Unpacked, NoneListed, Zenon DEF ListedIsRecent
<1> QED
  BY <1>1, <1>2, <1>4, <1>5, <1>6, <1>7, Unpacked, StillForeign, NoneDue, Zenon DEF PortsInv,
     PortsConsistent

LEMMA PostponeKeeps ==
  ASSUME PortsInv, Postpone
  PROVE  PortsInv'
<1>1. /\ UNCHANGED <<plugged, config, vacant, bus_devices_, ignored, do_not_open_file_again_, since_alarm,
                     printed_warning_, expect_devices_to_work_, running_, dt, must_auto_find, scanning, todo>>
      /\ dt = "files" /\ pc = "supplied" /\ pc' = "supplied"
      /\ spec <= Len(Supplied) /\ spec' = spec + 1
      /\ handled' = [handled EXCEPT ![spec] = FALSE]
  BY Zenon DEF Postpone, Supply, Handled, NextSpec, worldVars, deviceVars, managerVars, scanVars
<1>2. (bus_devices_ \in Seq(BusDevices))' /\ OneDevicePerPath' /\ \A q : lookup(q)' = lookup(q)
  BY <1>1, Unpacked, SameDevices, Zenon
<1>3. handled' \in [Specs -> BOOLEAN]
  BY <1>1, Unpacked, Zenon DEF TypeOK
<1>4. do_not_open_file_again_ \subseteq Files /\ must_auto_find \subseteq {"tty", "radio"}
  BY Unpacked, Zenon DEF TypeOK
<1>5. TypeOK' /\ ListedIsRecent'
  BY <1>1, <1>2, <1>3, <1>4, Unpacked, SuppliedStep, Zenon
<1>6. IgnoredIsChecked' /\ ScansDemanded'
  BY <1>1, Unpacked, SameConfig, Zenon DEF IgnoredIsChecked, ScansDemanded
<1> QED
  BY <1>1, <1>2, <1>5, <1>6, Unpacked, StillForeign, NoneDue, Zenon DEF PortsInv, PortsConsistent

LEMMA MustAutoFindKeeps ==
  ASSUME PortsInv, NEW k \in {"tty", "radio"}, MustAutoFind(k)
  PROVE  PortsInv'
<1>1. /\ UNCHANGED <<plugged, config, vacant, bus_devices_, ignored, do_not_open_file_again_, since_alarm,
                     printed_warning_, expect_devices_to_work_, running_, dt, scanning, todo>>
      /\ dt # "files" /\ pc = "supplied" /\ pc' = "supplied"
      /\ spec <= Len(Supplied) /\ spec' = spec + 1 /\ Supplied[spec].kind = SearchOf(k)
      /\ handled' = [handled EXCEPT ![spec] = FALSE]
      /\ must_auto_find' = must_auto_find \cup {k}
  BY Zenon DEF MustAutoFind, SearchOf, Supply, Handled, NextSpec, worldVars, deviceVars, managerVars
<1>2. (bus_devices_ \in Seq(BusDevices))' /\ OneDevicePerPath' /\ \A q : lookup(q)' = lookup(q)
  BY <1>1, Unpacked, SameDevices, Zenon
<1>3. handled' \in [Specs -> BOOLEAN]
  BY <1>1, Unpacked, Zenon DEF TypeOK
<1>4. do_not_open_file_again_ \subseteq Files /\ must_auto_find' \subseteq {"tty", "radio"}
  BY <1>1, Unpacked, Zenon DEF TypeOK
<1>5. TypeOK' /\ ListedIsRecent'
  BY <1>1, <1>2, <1>3, <1>4, Unpacked, SuppliedStep, Zenon
<1>6. Supplied[spec].kind # "tty"
  BY <1>1, Zenon DEF SearchOf
<1>7. IgnoredIsChecked'
  BY <1>1, <1>2, <1>6, Unpacked, TurnsStay, StillChecked, Zenon
<1>8. ScansDemanded'
  <2>1. \A kind \in {"tty", "radio"} : SearchOf(kind) = SearchOf(k) => kind = k
    <3>1. SearchOf("tty") = "search tty" /\ SearchOf("radio") = "search radio"
      BY Zenon DEF SearchOf
    <3> QED
      BY <3>1, Zenon
  <2>2. spec \in Specs /\ \A x \in Specs : x < spec' => x < spec \/ x = spec
    BY <1>1, Unpacked
  <2>3. Demanded(k)
    BY <1>1, <2>2, Zenon DEF Demanded
  <2> QED
    BY <1>1, <2>1, <2>2, <2>3, Unpacked, SameConfig, Zenon DEF ScansDemanded
<1> QED
  BY <1>1, <1>2, <1>5, <1>7, <1>8, Unpacked, StillForeign, NoneDue, Zenon DEF PortsInv,
     PortsConsistent

LEMMA EndSuppliedKeeps ==
  ASSUME PortsInv, EndSupplied
  PROVE  PortsInv'
<1>1. /\ UNCHANGED <<plugged, config, vacant, bus_devices_, ignored, do_not_open_file_again_, handled,
                     since_alarm, printed_warning_, expect_devices_to_work_, running_, dt, spec,
                     must_auto_find, todo>>
      /\ pc = "supplied" /\ pc' = "list" /\ spec > Len(Supplied) /\ scanning' = "tty"
  BY DEF EndSupplied, worldVars, deviceVars, specVars, managerVars
<1>2. (bus_devices_ \in Seq(BusDevices))' /\ OneDevicePerPath' /\ \A q : lookup(q)' = lookup(q)
  BY <1>1, Unpacked, SameDevices, Zenon
<1>3. todo = {}
  BY <1>1, Unpacked, Zenon DEF ListedIsRecent
<1>4. TypeOK'
  BY <1>1, <1>2, <1>3, Unpacked, SameConfig, Zenon DEF TypeOK
<1>5. IgnoredIsChecked'
  <2>1. \A p : ~TurnComes(p)
    BY <1>1, Unpacked DEF TurnComes
  <2>2. \A p : ScanComes(p) => ScanComes(p)'
    BY <1>1, SameConfig, Zenon DEF ScanComes
  <2> QED
    BY <1>1, <1>2, <2>1, <2>2, Unpacked, StillChecked, Zenon
<1>6. ScansDemanded'
  <2>1. \A s \in Specs : s < spec
    BY <1>1, Unpacked
  <2> QED
    BY <1>1, <2>1, Unpacked, SameConfig, Zenon DEF ScansDemanded, Demanded
<1> QED
  BY <1>1, <1>2, <1>3, <1>4, <1>5, <1>6, Unpacked, StillForeign, NoneDue, NoneListed, Zenon DEF
     PortsInv, PortsConsistent

LEMMA ListPortsKeeps ==
  ASSUME PortsInv, ListPorts
  PROVE  PortsInv'
<1>1. /\ UNCHANGED <<plugged, config, vacant, bus_devices_, do_not_open_file_again_, handled, since_alarm,
                     printed_warning_, expect_devices_to_work_, running_, dt, spec, must_auto_find, scanning>>
      /\ pc = "list" /\ pc' = "scan"
      /\ scanning \in must_auto_find =>
            /\ todo' = {p \in PortsOf(scanning) : plugged[p] # Nothing}
            /\ ignored' = {p \in ignored : p \in PortsOf(scanning) => plugged[p] # Nothing}
      /\ scanning \notin must_auto_find => todo' = {} /\ ignored' = ignored
  BY Zenon DEF ListPorts, Listed, remove_lost_devices_from_ignore_list, worldVars, specVars,
     managerVars
<1>2. (bus_devices_ \in Seq(BusDevices))' /\ OneDevicePerPath' /\ \A q : lookup(q)' = lookup(q)
  BY <1>1, Unpacked, SameDevices, Zenon
<1>3. ignored' \subseteq ignored /\ todo' \subseteq PortsOf(scanning)
  BY <1>1, Zenon
<1>4. TypeOK'
  BY <1>1, <1>2, <1>3, Unpacked, SameConfig, Zenon DEF TypeOK
<1>5. IgnoredIsChecked'
  <2>1. ASSUME NEW p \in ignored', plugged[p] = Nothing, ScanComes(p) \/ TurnComes(p) PROVE ScanComes(p)'
    <3>1. ScanComes(p) /\ p \in Ports /\ p \in ignored
      BY <1>1, <1>3, <2>1, Unpacked, Zenon DEF TurnComes
    <3>2. Demanded(KindOf(p)) /\ scanning \in {"tty", KindOf(p)}
      BY <1>1, <3>1, Zenon DEF ScanComes
    <3>3. KindOf(p) \in {"tty", "radio"} /\ p \in PortsOf(KindOf(p))
      BY <3>1, Zenon DEF KindOf, PortsOf, Ports
    <3>4. dt # "files"
      BY <3>1, Unpacked, Zenon DEF IgnoredIsChecked
    <3>5. KindOf(p) \in must_auto_find
      BY <1>1, <3>2, <3>3, <3>4, Unpacked, Zenon DEF ScansDemanded
    <3>6. scanning # KindOf(p)
      BY <1>1, <2>1, <3>1, <3>3, <3>5, Zenon
    <3> QED
      BY <1>1, <3>2, <3>3, <3>6, SameConfig DEF ScanComes
  <2> QED
    BY <1>1, <1>2, <1>3, <2>1, Unpacked, StillChecked, Zenon
<1>6. ScansDemanded'
  BY <1>1, Unpacked, SameConfig, Zenon DEF ScansDemanded
<1>7. ListedIsRecent'
  BY <1>1, Zenon DEF ListedIsRecent
<1> QED
  BY <1>1, <1>2, <1>3, <1>4, <1>5, <1>6, <1>7, Unpacked, StillForeign, NoneDue, Zenon DEF
     PortsInv, PortsConsistent

LEMMA EndScanKeeps ==
  ASSUME PortsInv, EndScan
  PROVE  PortsInv'
<1>1. /\ UNCHANGED <<plugged, config, vacant, bus_devices_, ignored, do_not_open_file_again_, handled,
                     since_alarm, printed_warning_, expect_devices_to_work_, running_, dt, spec,
                     must_auto_find, todo>>
      /\ pc = "scan" /\ todo = {} /\ scanning' = "radio"
      /\ pc' = IF scanning = "tty" THEN "list" ELSE "mark"
  BY Zenon DEF EndScan, worldVars, deviceVars, specVars, managerVars
<1>2. (bus_devices_ \in Seq(BusDevices))' /\ OneDevicePerPath' /\ \A q : lookup(q)' = lookup(q)
  BY <1>1, Unpacked, SameDevices, Zenon
<1>3. TypeOK'
  BY <1>1, <1>2, Unpacked, SameConfig, Zenon DEF TypeOK
<1>4. \A p : ~TurnComes(p) /\ (ScanComes(p) => ScanComes(p)')
  BY <1>1, SameConfig, Zenon DEF TurnComes, ScanComes
<1>5. IgnoredIsChecked'
  BY <1>1, <1>2, <1>4, Unpacked, StillChecked, Zenon
<1>6. ScansDemanded'
  BY <1>1, Unpacked, SameConfig, Zenon DEF ScansDemanded
<1> QED
  BY <1>1, <1>2, <1>3, <1>5, <1>6, Unpacked, StillForeign, NoneDue, NoneListed, Zenon DEF
     PortsInv, PortsConsistent

LEMMA EndDetectionKeeps ==
  ASSUME PortsInv, EndDetection
  PROVE  PortsInv'
<1>1. /\ UNCHANGED <<plugged, config, bus_devices_, ignored, do_not_open_file_again_, printed_warning_,
                     expect_devices_to_work_, running_, spec, must_auto_find, scanning, todo>>
      /\ pc = "mark" /\ pc' = IF dt = "first" THEN "started" ELSE "idle"
      /\ dt' = IF dt = "files" THEN "first" ELSE dt
      /\ vacant' = [p \in Ports |-> IF vacant[p] = 1 THEN 2 ELSE vacant[p]]
  BY Zenon DEF EndDetection, deviceVars, managerVars, scanVars
<1>2. (bus_devices_ \in Seq(BusDevices))' /\ OneDevicePerPath' /\ \A q : lookup(q)' = lookup(q)
  BY <1>1, Unpacked, SameDevices, Zenon
<1>3. handled' \in [Specs -> BOOLEAN]
  BY Zenon DEF EndDetection
<1>4. since_alarm' \in [Specs -> 0 .. AlarmInterval + 1]
  BY Unpacked, AlarmAssumption DEF TypeOK, EndDetection
<1>5. vacant' \in [Ports -> 0 .. 2]
  BY <1>1, Unpacked DEF TypeOK
<1>6. TypeOK'
  BY <1>1, <1>2, <1>3, <1>4, <1>5, Unpacked, SameConfig, Zenon DEF TypeOK
<1>7. IgnoredIsChecked'
  <2>1. \A p \in ignored : plugged[p] = Nothing => vacant'[p] = 0
    BY <1>1, Unpacked, Zenon DEF IgnoredIsChecked, ScanComes, TurnComes
  <2> QED
    BY <1>1, <1>2, <2>1, Unpacked, SameConfig, Zenon DEF IgnoredIsChecked
<1>8. ScansDemanded'
  BY <1>1, Unpacked, SameConfig, Zenon DEF ScansDemanded
<1>9. todo' = {}
  BY <1>1, Unpacked, Zenon DEF ListedIsRecent
<1> QED
  BY <1>1, <1>2, <1>6, <1>7, <1>8, <1>9, Unpacked, StillForeign, NoneDue, NoneListed, Zenon DEF
     PortsInv, PortsConsistent

LEMMA StartupCheckKeeps ==
  ASSUME PortsInv, StartupCheck
  PROVE  PortsInv'
<1>1. /\ UNCHANGED <<plugged, config, vacant, bus_devices_, ignored, do_not_open_file_again_, handled,
                     since_alarm, printed_warning_, expect_devices_to_work_, spec, must_auto_find,
                     scanning, todo>>
      /\ pc = "started" /\ pc' = "idle" /\ dt' = "regular"
  BY Zenon DEF StartupCheck, worldVars, deviceVars, specVars, scanVars
<1>2. (bus_devices_ \in Seq(BusDevices))' /\ OneDevicePerPath' /\ \A q : lookup(q)' = lookup(q)
  BY <1>1, Unpacked, SameDevices, Zenon
<1>3. running_' \in BOOLEAN
  BY Zenon DEF StartupCheck
<1>4. TypeOK'
  BY <1>1, <1>2, <1>3, Unpacked, SameConfig, Zenon DEF TypeOK
<1>5. IgnoredIsChecked'
  BY <1>1, <1>2, Unpacked, SameConfig, Zenon DEF IgnoredIsChecked, ScanComes, TurnComes
<1>6. ScansDemanded'
  BY <1>1, Unpacked, SameConfig, Zenon DEF ScansDemanded
<1>7. todo' = {}
  BY <1>1, Unpacked, Zenon DEF ListedIsRecent
<1> QED
  BY <1>1, <1>2, <1>4, <1>5, <1>6, <1>7, Unpacked, StillForeign, NoneDue, NoneListed, Zenon DEF
     PortsInv, PortsConsistent

LEMMA SuppliedCommandKeeps ==
  ASSUME PortsInv, SuppliedCommand
  PROVE  PortsInv'
<1>1. /\ UNCHANGED <<plugged, config, vacant, ignored, do_not_open_file_again_, since_alarm,
                     printed_warning_, expect_devices_to_work_, running_, dt, must_auto_find, scanning, todo>>
      /\ pc = "supplied" /\ pc' = "supplied"
      /\ spec <= Len(Supplied) /\ spec' = spec + 1 /\ Supplied[spec].kind = "command"
      /\ handled' = [handled EXCEPT ![spec] = TRUE]
      /\ \/ bus_devices_' = bus_devices_
         \/ ~lookup(Supplied[spec].path) /\ Open(Supplied[spec].path, Supplied[spec].type, NoId, spec)
  BY Zenon DEF SuppliedCommand, Supply, Handled, NextSpec, worldVars, managerVars, scanVars
<1>2. /\ (bus_devices_ \in Seq(BusDevices))' /\ OneDevicePerPath'
      /\ \A q \in Ports : lookup(q)' => lookup(q)
  <2>1. CASE bus_devices_' = bus_devices_
    BY <1>1, <2>1, Unpacked, SameDevices, Zenon
  <2>2. CASE ~lookup(Supplied[spec].path) /\ Open(Supplied[spec].path, Supplied[spec].type, NoId, spec)
    <3>1. spec \in Specs /\ Supplied[spec].path \in Commands
      BY <1>1, SpecLookedAt, Zenon
    <3>2. Supplied[spec].path \in Paths
      BY <3>1 DEF Paths
    <3>3. /\ (bus_devices_ \in Seq(BusDevices))' /\ OneDevicePerPath'
          /\ \A q : lookup(q)' => lookup(q) \/ q = Supplied[spec].path
      BY <1>1, <2>2, <3>1, <3>2, OpenedSupplied, Zenon
    <3> QED
      BY <3>1, <3>3, PortsAssumption, Zenon
  <2> QED
    BY <1>1, <2>1, <2>2, Zenon
<1>3. handled' \in [Specs -> BOOLEAN]
  BY <1>1, Unpacked, Zenon DEF TypeOK
<1>4. do_not_open_file_again_ \subseteq Files /\ must_auto_find \subseteq {"tty", "radio"}
  BY Unpacked, Zenon DEF TypeOK
<1>5. TypeOK' /\ ListedIsRecent'
  BY <1>1, <1>2, <1>3, <1>4, Unpacked, SuppliedStep, Zenon
<1>6. IgnoredIsChecked'
  BY <1>1, <1>2, Unpacked, TurnsStay, StillChecked, Zenon
<1>7. ScansDemanded'
  BY <1>1, SuppliedDemands, Zenon
<1> QED
  BY <1>1, <1>2, <1>5, <1>6, <1>7, Unpacked, StillForeign, NoneDue, Zenon DEF PortsInv,
     PortsConsistent

LEMMA SuppliedFileKeeps ==
  ASSUME PortsInv, SuppliedFile
  PROVE  PortsInv'
<1>1. /\ UNCHANGED <<plugged, config, vacant, ignored, since_alarm,
                     printed_warning_, expect_devices_to_work_, running_, dt, must_auto_find, scanning, todo>>
      /\ pc = "supplied" /\ pc' = "supplied"
      /\ spec <= Len(Supplied) /\ spec' = spec + 1 /\ Supplied[spec].kind = "file"
      /\ handled' = [handled EXCEPT ![spec] = TRUE]
      /\ \/ bus_devices_' = bus_devices_
         \/ ~lookup(Supplied[spec].path) /\ Open(Supplied[spec].path, Supplied[spec].type, NoId, spec)
  BY Zenon DEF SuppliedFile, Supply, Handled, NextSpec, worldVars, managerVars, scanVars
<1>2. spec \in Specs /\ Supplied[spec].path \in Files
  BY <1>1, SpecLookedAt, Zenon
<1>3. /\ (bus_devices_ \in Seq(BusDevices))' /\ OneDevicePerPath'
      /\ \A q \in Ports : lookup(q)' => lookup(q)
  <2>1. CASE bus_devices_' = bus_devices_
    BY <1>1, <2>1, Unpacked, SameDevices, Zenon
  <2>2. CASE ~lookup(Supplied[spec].path) /\ Open(Supplied[spec].path, Supplied[spec].type, NoId, spec)
    <3>1. Supplied[spec].path \in Paths
      BY <1>2 DEF Paths
    <3>2. /\ (bus_devices_ \in Seq(BusDevices))' /\ OneDevicePerPath'
          /\ \A q : lookup(q)' => lookup(q) \/ q = Supplied[spec].path
      BY <1>1, <1>2, <2>2, <3>1, OpenedSupplied, Zenon
    <3> QED
      BY <1>2, <3>2, PortsAssumption, Zenon
  <2> QED
    BY <1>1, <2>1, <2>2, Zenon
<1>4. handled' \in [Specs -> BOOLEAN]
  BY <1>1, Unpacked, Zenon DEF TypeOK
<1>5. do_not_open_file_again_' \subseteq Files /\ must_auto_find \subseteq {"tty", "radio"}
  <2>1. do_not_open_file_again_' \subseteq do_not_open_file_again_ \cup {Supplied[spec].path}
    BY Zenon DEF SuppliedFile
  <2> QED
    BY <1>2, <2>1, Unpacked, Zenon DEF TypeOK
<1>6. TypeOK' /\ ListedIsRecent'
  BY <1>1, <1>3, <1>4, <1>5, Unpacked, SuppliedStep, Zenon
<1>7. IgnoredIsChecked'
  BY <1>1, <1>3, Unpacked, TurnsStay, StillChecked, Zenon
<1>8. ScansDemanded'
  BY <1>1, SuppliedDemands, Zenon
<1> QED
  BY <1>1, <1>3, <1>6, <1>7, <1>8, Unpacked, StillForeign, NoneDue, Zenon DEF PortsInv,
     PortsConsistent

LEMMA LoseKeeps ==
  ASSUME PortsInv, NEW k \in Working, Lose(k)
  PROVE  PortsInv'
<1>1. /\ UNCHANGED <<plugged, config, vacant, ignored, do_not_open_file_again_, handled, since_alarm,
                     printed_warning_, expect_devices_to_work_, dt, pc, spec, must_auto_find, scanning, todo>>
      /\ running_' \in BOOLEAN
  BY Zenon DEF Lose, worldVars, specVars, scanVars
<1>2. (bus_devices_ \in Seq(BusDevices))' /\ OneDevicePerPath' /\ \A q : lookup(q)' => lookup(q)
  BY <1>1, Unpacked, LostLookup, Zenon
<1>3. TypeOK'
  BY <1>1, <1>2, Unpacked, SameConfig, Zenon DEF TypeOK
<1>4. \A p : (TurnComes(p) => TurnComes(p)') /\ (ScanComes(p) => ScanComes(p)')
  BY <1>1, SameConfig, Zenon DEF TurnComes, ScanComes
<1>5. IgnoredIsChecked'
  BY <1>1, <1>2, <1>4, Unpacked, StillChecked, Zenon
<1>6. ListedIsRecent'
  BY <1>1, Unpacked, Zenon DEF ListedIsRecent
<1> QED
  BY <1>1, <1>2, <1>3, <1>5, <1>6, Unpacked, StillForeign, StillDemanded, StillDue, Zenon DEF
     PortsInv, PortsConsistent

LEMMA PlugKeeps ==
  ASSUME PortsInv, NEW p \in Ports, NEW t \in config.things, Plug(p, t)
  PROVE  PortsInv'
<1>1. /\ UNCHANGED <<config, vacant, bus_devices_, ignored, do_not_open_file_again_, handled, since_alarm,
                     printed_warning_, expect_devices_to_work_, running_, dt, pc, spec, must_auto_find,
                     scanning, todo>>
      /\ plugged[p] = Nothing /\ vacant[p] = 2
      /\ plugged' = [plugged EXCEPT ![p] = t]
  BY Zenon DEF Plug, deviceVars, specVars, managerVars, scanVars
<1>2. (bus_devices_ \in Seq(BusDevices))' /\ OneDevicePerPath' /\ \A q : lookup(q)' = lookup(q)
  BY <1>1, Unpacked, SameDevices, Zenon
<1>3. t \in Things /\ t # Nothing
  BY Unpacked, ConfigsAssumption, ThingsAssumption, Zenon
<1>4. /\ plugged' \in [Ports -> Things \cup {Nothing}]
      /\ \A q \in Ports : q # p => plugged'[q] = plugged[q]
      /\ plugged'[p] = t
  BY <1>1, <1>3, Unpacked, Zenon DEF TypeOK
<1>5. TypeOK'
  BY <1>1, <1>2, <1>4, Unpacked, SameConfig, Zenon DEF TypeOK
<1>6. p \notin ignored /\ p \notin todo
  BY <1>1, Unpacked DEF IgnoredIsChecked, ListedIsRecent
<1>7. \A q \in ignored : plugged'[q] = plugged[q]
  BY <1>4, <1>6, Unpacked, Zenon
<1>8. IgnoredAreForeign'
  BY <1>1, <1>7, Unpacked, SameConfig DEF IgnoredAreForeign
<1>9. \A q : (TurnComes(q) => TurnComes(q)') /\ (ScanComes(q) => ScanComes(q)')
  BY <1>1, SameConfig, Zenon DEF TurnComes, ScanComes
<1>10. IgnoredIsChecked'
  BY <1>1, <1>2, <1>7, <1>9, Unpacked, SameConfig, Zenon DEF IgnoredIsChecked
<1>11. ListedIsRecent'
  <2>1. todo \subseteq Ports
    BY Unpacked, Zenon DEF TypeOK, PortsOf, Ports
  <2>2. \A q \in todo : plugged'[q] = plugged[q]
    BY <1>4, <1>6, <2>1
  <2> QED
    BY <1>1, <2>2, Unpacked, Zenon DEF ListedIsRecent
<1> QED
  BY <1>1, <1>2, <1>5, <1>8, <1>10, <1>11, Unpacked, StillDemanded, StillDue, Zenon DEF PortsInv,
     PortsConsistent

LEMMA UnplugKeeps ==
  ASSUME PortsInv, NEW p \in Ports, Unplug(p)
  PROVE  PortsInv'
<1>1. /\ UNCHANGED <<config, bus_devices_, ignored, do_not_open_file_again_, handled, since_alarm,
                     printed_warning_, expect_devices_to_work_, running_, dt, pc, spec, must_auto_find,
                     scanning, todo>>
      /\ plugged' = [plugged EXCEPT ![p] = Nothing]
      /\ vacant' = [vacant EXCEPT ![p] = 0]
  BY Zenon DEF Unplug, deviceVars, specVars, managerVars, scanVars
<1>2. (bus_devices_ \in Seq(BusDevices))' /\ OneDevicePerPath' /\ \A q : lookup(q)' = lookup(q)
  BY <1>1, Unpacked, SameDevices, Zenon
<1>3. /\ plugged' \in [Ports -> Things \cup {Nothing}] /\ vacant' \in [Ports -> 0..2]
      /\ \A q \in Ports : q # p => plugged'[q] = plugged[q] /\ vacant'[q] = vacant[q]
      /\ plugged'[p] = Nothing /\ vacant'[p] = 0
  BY <1>1, Unpacked DEF TypeOK
<1>4. TypeOK'
  BY <1>1, <1>2, <1>3, Unpacked, SameConfig, Zenon DEF TypeOK
<1>5. \A q \in ignored : plugged'[q] = plugged[q] \/ plugged'[q] = Nothing
  BY <1>3, Unpacked, Zenon
<1>6. IgnoredAreForeign'
  BY <1>1, <1>5, Unpacked, SameConfig, Zenon DEF IgnoredAreForeign
<1>7. \A q : (TurnComes(q) => TurnComes(q)') /\ (ScanComes(q) => ScanComes(q)')
  BY <1>1, SameConfig, Zenon DEF TurnComes, ScanComes
<1>8. \A q \in ignored : (plugged'[q] = plugged[q] /\ vacant'[q] = vacant[q]) \/ vacant'[q] = 0
  BY <1>3, Unpacked, Zenon
<1>9. IgnoredIsChecked'
  BY <1>1, <1>2, <1>7, <1>8, Unpacked, SameConfig, Zenon DEF IgnoredIsChecked
<1>10. ListedIsRecent'
  <2>1. todo \subseteq Ports
    BY Unpacked, Zenon DEF TypeOK, PortsOf, Ports
  <2>2. \A q \in todo : (plugged'[q] = plugged[q] /\ vacant'[q] = vacant[q]) \/ vacant'[q] = 0
    BY <1>3, <2>1, Zenon
  <2> QED
    BY <1>1, <2>2, Unpacked, Zenon DEF ListedIsRecent
<1> QED
  BY <1>1, <1>2, <1>4, <1>6, <1>9, <1>10, Unpacked, StillDemanded, StillDue, Zenon DEF PortsInv,
     PortsConsistent

LEMMA SuppliedTTYKeeps ==
  ASSUME PortsInv, SuppliedTTY
  PROVE  PortsInv'
<1> DEFINE p == Supplied[spec].path
<1>1. /\ UNCHANGED <<plugged, config, vacant, bus_devices_, do_not_open_file_again_, since_alarm,
                     printed_warning_, expect_devices_to_work_, running_, dt, must_auto_find, scanning, todo>>
      /\ dt # "files" /\ pc = "supplied" /\ spec <= Len(Supplied) /\ Supplied[spec].kind = "tty"
      /\ \/ pc' = "supplied" /\ spec' = spec + 1
         \/ pc' = "probing" /\ spec' = spec /\ ~lookup(p) /\ p \notin ignored'
  BY Zenon DEF SuppliedTTY, Supply, NextSpec, worldVars, managerVars, scanVars
<1>2. handled' = [handled EXCEPT ![spec] = TRUE] \/ handled' = [handled EXCEPT ![spec] = FALSE]
  BY Zenon DEF SuppliedTTY, Handled
<1>3. spec \in Specs /\ p \in TTYs
  BY <1>1, SpecLookedAt, Zenon
<1>4. /\ ignored' \subseteq ignored
      /\ p \in ignored' => plugged[p] # Nothing \/ lookup(p)
  BY <1>3, Zenon DEF SuppliedTTY, remove_lost_devices_from_ignore_list, Listed, PortsOf
<1> HIDE DEF p
<1>5. (bus_devices_ \in Seq(BusDevices))' /\ OneDevicePerPath' /\ \A q : lookup(q)' = lookup(q)
  BY <1>1, Unpacked, SameDevices, Zenon
<1>6. handled' \in [Specs -> BOOLEAN]
  BY <1>2, Unpacked, Zenon DEF TypeOK
<1>7. do_not_open_file_again_ \subseteq Files /\ must_auto_find \subseteq {"tty", "radio"}
  BY Unpacked, Zenon DEF TypeOK
<1>8. ignored' \subseteq Ports /\ pc' \in {"supplied", "probing"} /\ spec' \in {spec, spec + 1}
  BY <1>1, <1>4, Unpacked, Zenon
<1>9. TypeOK' /\ ListedIsRecent'
  BY <1>1, <1>5, <1>6, <1>7, <1>8, SuppliedStep, Zenon
<1>10. IgnoredIsChecked'
  <2>1. p \in ignored' => plugged[p] # Nothing
    BY <1>4, Unpacked, Zenon DEF IgnoredIsChecked
  <2>2. \A s \in Specs : s >= spec => s > spec \/ s = spec
    BY Unpacked
  <2>3. \A s \in Specs : s > spec => s >= spec + 1
    BY Unpacked
  <2>4. \A q \in ignored' : plugged[q] = Nothing /\ TurnComes(q) => TurnComes(q)'
    BY <1>1, <2>1, <2>2, <2>3, SameConfig, Zenon DEF TurnComes, Named, p
  <2>5. \A q : ScanComes(q) => ScanComes(q)'
    BY <1>1, SameConfig, Zenon DEF ScanComes
  <2> QED
    BY <1>1, <1>4, <1>5, <2>4, <2>5, Unpacked, StillChecked, Zenon
<1>11. ScansDemanded'
  BY <1>1, <1>8, SuppliedDemands, Zenon
<1>12. ProbeIsDue'
  BY <1>1, <1>3, <1>5, SameConfig DEF ProbeIsDue, p
<1> QED
  BY <1>1, <1>4, <1>5, <1>9, <1>10, <1>11, <1>12, Unpacked, StillForeign, Zenon DEF PortsInv,
     PortsConsistent

LEMMA ProbeSuppliedKeeps ==
  ASSUME PortsInv, ProbeSupplied
  PROVE  PortsInv'
<1> DEFINE p == Supplied[spec].path
<1>1. /\ UNCHANGED <<plugged, config, vacant, do_not_open_file_again_, since_alarm,
                     printed_warning_, expect_devices_to_work_, running_, dt, must_auto_find, scanning, todo>>
      /\ pc = "probing" /\ pc' = "supplied" /\ spec' = spec + 1
      /\ handled' = [handled EXCEPT ![spec] = TRUE]
  BY Zenon DEF ProbeSupplied, Handled, NextSpec, worldVars, managerVars, scanVars
<1>2. \/ ignored' = ignored /\ bus_devices_' = bus_devices_
      \/ /\ ignored' = ignored /\ Detect(p) = Supplied[spec].type
         /\ Open(p, Supplied[spec].type, plugged[p].id, spec)
      \/ /\ ignored' = ignored \cup {p} /\ bus_devices_' = bus_devices_
         /\ Detect(p) # Supplied[spec].type /\ plugged[p] # Nothing
  BY Zenon DEF ProbeSupplied
<1>3. /\ dt # "files" /\ spec \in Specs /\ Supplied[spec].kind = "tty" /\ ~lookup(p) /\ p \notin ignored
  BY <1>1, Unpacked, Zenon DEF ProbeIsDue
<1>4. spec <= Len(Supplied)
  BY <1>3, Unpacked
<1>5. p \in TTYs /\ p \in Ports /\ Supplied[spec].type # Unknown
  BY <1>3, <1>4, SpecLookedAt, Zenon DEF Ports
<1>6. /\ (bus_devices_ \in Seq(BusDevices))' /\ OneDevicePerPath'
      /\ \A q : lookup(q)' => lookup(q) \/ (q = p /\ ignored' = ignored)
  <2>1. CASE bus_devices_' = bus_devices_
    BY <1>1, <2>1, Unpacked, SameDevices, Zenon
  <2>2. CASE /\ ignored' = ignored /\ Detect(p) = Supplied[spec].type
             /\ Open(p, Supplied[spec].type, plugged[p].id, spec)
    <3>1. plugged[p] \in Things
      BY <1>5, <2>2, Unpacked, Zenon DEF TypeOK, Detect
    <3>2. plugged[p].id \in {t.id : t \in Things} \cup {NoId} /\ p \in Paths
      BY <1>5, <3>1, Zenon DEF Paths
    <3> QED
      BY <1>1, <1>3, <2>2, <3>2, OpenedSupplied, Zenon
  <2> QED
    BY <1>2, <2>1, <2>2, Zenon
<1>7. ignored' \subseteq ignored \cup {p} /\ ignored' \subseteq Ports
  BY <1>2, <1>5, Unpacked, Zenon
<1>8. handled' \in [Specs -> BOOLEAN]
  BY <1>1, Unpacked, Zenon DEF TypeOK
<1>9. do_not_open_file_again_ \subseteq Files /\ must_auto_find \subseteq {"tty", "radio"}
  BY Unpacked, Zenon DEF TypeOK
<1>10. TypeOK' /\ ListedIsRecent'
  BY <1>1, <1>4, <1>6, <1>7, <1>8, <1>9, SuppliedStep, Zenon
<1>11. IgnoredAreForeign'
  <2>1. Supplied[spec].type \in AskedFor(p)
    BY <1>3, Zenon DEF AskedFor
  <2>2. p \in ignored' => plugged[p] # Nothing /\ plugged[p].type # Supplied[spec].type
    BY <1>2, <1>3, Zenon DEF Detect
  <2> HIDE DEF p
  <2>3. \A q \in ignored' :
            plugged[q] = Nothing \/ plugged[q].type = Unknown \/ AskedFor(q) \ {plugged[q].type} # {}
    <3>1. p \in ignored' => AskedFor(p) \ {plugged[p].type} # {}
      BY <2>1, <2>2, Zenon
    <3> QED
      BY <1>7, <3>1, Unpacked, Zenon DEF IgnoredAreForeign
  <2> QED
    BY <1>1, <2>3, SameConfig, Zenon DEF IgnoredAreForeign
<1>12. IgnoredIsChecked'
  <2>1. \A q \in ignored : (TurnComes(q) => TurnComes(q)') /\ (ScanComes(q) => ScanComes(q)')
    <3>1. \A s \in Specs : s > spec => s >= spec + 1
      BY Unpacked
    <3> QED
      BY <1>1, <3>1, SameConfig, Zenon DEF TurnComes, ScanComes
  <2>2. \A q \in ignored' : ~lookup(q)'
    <3>1. CASE ignored' = ignored
      BY <1>3, <1>6, <3>1, Unpacked, Zenon DEF IgnoredIsChecked
    <3>2. CASE ignored' = ignored \cup {p} /\ bus_devices_' = bus_devices_
      BY <1>3, <3>2, Unpacked, Zenon DEF IgnoredIsChecked, lookup, Working
    <3> QED
      BY <1>2, <3>1, <3>2, Zenon
  <2>3. p \in ignored' => plugged[p] # Nothing
    BY <1>2, <1>3, Zenon
  <2>4. Named(p, spec)
    BY <1>3 DEF Named
  <2> HIDE DEF p
  <2> QED
    BY <1>1, <1>3, <1>7, <2>1, <2>2, <2>3, <2>4, Unpacked, SameConfig, Zenon DEF IgnoredIsChecked
<1>13. ScansDemanded'
  BY <1>1, <1>3, SuppliedDemands, Zenon
<1> QED
  BY <1>1, <1>6, <1>10, <1>11, <1>12, <1>13, NoneDue, Zenon DEF PortsInv, PortsConsistent

LEMMA ProbePortKeeps ==
  ASSUME PortsInv, NEW p \in Ports, ProbePort(p)
  PROVE  PortsInv'
<1> DEFINE x == find_specified_device_from_detected(Detect(p), plugged[p].id)
           type == IF x = 0 THEN Detect(p) ELSE Supplied[x].type
<1>1. /\ UNCHANGED <<plugged, config, vacant, do_not_open_file_again_, handled, since_alarm,
                     printed_warning_, expect_devices_to_work_, running_, dt, pc, spec, must_auto_find,
                     scanning>>
      /\ pc = "scan" /\ p \in todo /\ todo' = todo \ {p}
  BY Zenon DEF ProbePort, worldVars, specVars, managerVars
<1>2. \/ ignored' = ignored /\ bus_devices_' = bus_devices_
      \/ /\ ignored' = ignored \cup {p} /\ bus_devices_' = bus_devices_ /\ ~lookup(p)
         /\ Detect(p) = Unknown
      \/ /\ ignored' = ignored /\ p \notin ignored /\ ~lookup(p) /\ Detect(p) # Unknown
         /\ Open(p, type, plugged[p].id, x)
  BY Zenon DEF ProbePort, SkippedPorts
<1>3. x \in {0} \cup Specs
  BY Unpacked, DetectedIsSpec, Zenon
<1> HIDE DEF x
<1>4. /\ (bus_devices_ \in Seq(BusDevices))' /\ OneDevicePerPath'
      /\ \A q : lookup(q)' => lookup(q) \/ (q = p /\ p \notin ignored /\ ignored' = ignored)
  <2>1. CASE bus_devices_' = bus_devices_
    BY <1>1, <2>1, Unpacked, SameDevices, Zenon
  <2>2. CASE /\ ignored' = ignored /\ p \notin ignored /\ ~lookup(p) /\ Detect(p) # Unknown
             /\ Open(p, type, plugged[p].id, x)
    <3>1. plugged[p] \in Things /\ Detect(p) = plugged[p].type
      BY <2>2, Unpacked, Zenon DEF TypeOK, Detect
    <3>2. type \in {t.type : t \in Things} \cup {Supplied[y].type : y \in Specs}
      BY <1>3, <3>1, Zenon
    <3>3. plugged[p].id \in {t.id : t \in Things} \cup {NoId} /\ p \in Paths
      BY <3>1, Zenon DEF Paths
    <3> HIDE DEF type
    <3> QED
      BY <1>1, <1>3, <2>2, <3>2, <3>3, Unpacked, Opened, Zenon
  <2> QED
    BY <1>2, <2>1, <2>2, Zenon
<1> HIDE DEF type
<1>5. ignored' \subseteq Ports /\ ignored' \subseteq ignored \cup {p} /\ todo' \subseteq todo
  BY <1>1, <1>2, Unpacked, Zenon
<1>6. TypeOK'
  BY <1>1, <1>4, <1>5, Unpacked, SameConfig, Zenon DEF TypeOK
<1>7. IgnoredAreForeign'
  <2>1. p \in ignored' => p \in ignored \/ plugged[p] = Nothing \/ plugged[p].type = Unknown
    BY <1>2, Zenon DEF Detect
  <2> QED
    BY <1>1, <1>5, <2>1, Unpacked, SameConfig, Zenon DEF IgnoredAreForeign
<1>8. IgnoredIsChecked'
  <2>1. scanning \in must_auto_find /\ (plugged[p] = Nothing => vacant[p] = 0)
    BY <1>1, Unpacked, Zenon DEF ListedIsRecent
  <2>2. KindOf(p) = scanning
    BY <1>1, Unpacked, PortsAssumption, Zenon DEF TypeOK, KindOf, PortsOf
  <2>3. dt # "files" /\ Demanded(KindOf(p))
    BY <2>1, <2>2, Unpacked, Zenon DEF ScansDemanded
  <2>4. \A q : (TurnComes(q) => TurnComes(q)') /\ (ScanComes(q) => ScanComes(q)')
    BY <1>1, SameConfig, Zenon DEF TurnComes, ScanComes
  <2>5. \A q \in ignored' : ~lookup(q)'
    <3>1. CASE ignored' = ignored
      BY <1>4, <3>1, Unpacked, Zenon DEF IgnoredIsChecked
    <3>2. CASE ignored' = ignored \cup {p} /\ ~lookup(p) /\ bus_devices_' = bus_devices_
      BY <3>2, Unpacked, Zenon DEF IgnoredIsChecked, lookup, Working
    <3> QED
      BY <1>2, <3>1, <3>2, Zenon
  <2> QED
    BY <1>1, <1>5, <2>1, <2>3, <2>4, <2>5, Unpacked, SameConfig, Zenon DEF IgnoredIsChecked
<1>9. ListedIsRecent'
  BY <1>1, <1>5, Unpacked, Zenon DEF ListedIsRecent
<1> QED
  BY <1>1, <1>4, <1>6, <1>7, <1>8, <1>9, Unpacked, StillDemanded, NoneDue, Zenon DEF PortsInv,
     PortsConsistent

\* The manager starts with no devices, nothing ignored and every port empty.
LEMMA PortsStart ==
  ASSUME Init
  PROVE  PortsInv
<1>1. config \in Configs /\ Len(Supplied) \in Nat /\ Specs = 1..Len(Supplied)
  BY SuppliedFacts, Zenon DEF Init
<1>2. bus_devices_ \in Seq(BusDevices) /\ OneDevicePerPath
  <2>1. bus_devices_ = <<>>
    BY DEF Init
  <2>2. DOMAIN bus_devices_ = {}
    BY <2>1
  <2> QED
    BY <2>1, <2>2 DEF OneDevicePerPath, Working
<1>3. TypeOK
  <2>1. handled \in [Specs -> BOOLEAN] /\ since_alarm \in [Specs -> 0 .. AlarmInterval + 1]
    BY AlarmAssumption DEF Init
  <2>2. plugged \in [Ports -> Things \cup {Nothing}] /\ vacant \in [Ports -> 0 .. 2]
    BY DEF Init
  <2>3. /\ spec \in 1 .. Len(Supplied) + 1 /\ ignored \subseteq Ports /\ do_not_open_file_again_ \subseteq Files
        /\ must_auto_find \subseteq {"tty", "radio"} /\ scanning \in {"tty", "radio"}
        /\ todo \subseteq PortsOf(scanning)
    BY <1>1 DEF Init
  <2> QED
    BY <1>1, <1>2, <2>1, <2>2, <2>3, Zenon DEF Init, TypeOK
<1>4. IgnoredAreForeign /\ IgnoredIsChecked
  BY Zenon DEF Init, IgnoredAreForeign, IgnoredIsChecked
<1>5. ScansDemanded /\ ProbeIsDue /\ ListedIsRecent
  BY Zenon DEF Init, ScansDemanded, ProbeIsDue, ListedIsRecent
<1> QED
  BY <1>2, <1>3, <1>4, <1>5 DEF PortsInv, PortsConsistent

LEMMA PortsStep ==
  ASSUME PortsInv, [Next]_vars
  PROVE  PortsInv'
<1>1. CASE Detection
  BY <1>1, CheckForDeadWmbusDevicesKeeps, PostponeKeeps, MustAutoFindKeeps, SuppliedCommandKeeps,
     SuppliedFileKeeps, SuppliedTTYKeeps, ProbeSuppliedKeeps, EndSuppliedKeeps, ListPortsKeeps,
     ProbePortKeeps, EndScanKeeps, EndDetectionKeeps, StartupCheckKeeps, Zenon DEF Detection
<1>2. CASE \E p \in Ports : LosePort(p)
  BY <1>2, LoseKeeps DEF LosePort
<1>3. CASE LoseOther
  BY <1>3, LoseKeeps DEF LoseOther
<1>4. CASE \E p \in Ports, t \in config.things : Plug(p, t)
  BY <1>4, PlugKeeps, Zenon
<1>5. CASE \E p \in Ports : Unplug(p)
  BY <1>5, UnplugKeeps
<1>6. CASE UNCHANGED vars
  <2>1. UNCHANGED <<plugged, config, vacant, bus_devices_, ignored, do_not_open_file_again_, handled,
                    since_alarm, printed_warning_, expect_devices_to_work_, running_, dt, pc, spec,
                    must_auto_find, scanning, todo>>
    BY <1>6, Zenon DEF vars, worldVars, deviceVars, specVars, managerVars, scanVars
  <2>2. (bus_devices_ \in Seq(BusDevices))' /\ OneDevicePerPath' /\ \A q : lookup(q)' = lookup(q)
    BY <2>1, Unpacked, SameDevices, Zenon
  <2>3. TypeOK'
    BY <2>1, <2>2, Unpacked, SameConfig, Zenon DEF TypeOK
  <2>4. \A p : (TurnComes(p) => TurnComes(p)') /\ (ScanComes(p) => ScanComes(p)')
    BY <2>1, SameConfig, Zenon DEF TurnComes, ScanComes
  <2>5. IgnoredIsChecked'
    BY <2>1, <2>2, <2>4, Unpacked, StillChecked, Zenon
  <2>6. ListedIsRecent'
    BY <2>1, Unpacked, Zenon DEF ListedIsRecent
  <2> QED
    BY <2>1, <2>2, <2>3, <2>5, <2>6, Unpacked, StillForeign, StillDemanded, StillDue, Zenon DEF
       PortsInv, PortsConsistent
<1> QED
  BY <1>1, <1>2, <1>3, <1>4, <1>5, <1>6, Zenon DEF Next, Stopped

\* In every detection, whatever is plugged in or lost between its steps: no tty,
\* radio, command or file is driven by two bus devices, no usable dongle stays on
\* the ignore list, and the variables have their types (bus.cc
\* detectAndConfigureWmbusDevices).
THEOREM PortsStayConsistent == Spec => []PortsConsistent
<1>1. Init => PortsInv
  BY PortsStart
<1>2. PortsInv /\ [Next]_vars => PortsInv'
  BY PortsStep
<1>3. PortsInv => PortsConsistent
  BY DEF PortsInv
<1> QED
  BY <1>1, <1>2, <1>3, PTL DEF Spec
=============================================================================
