----------------------------- MODULE BusManager -----------------------------
(* The bus manager: every two seconds the timer thread removes the bus     *)
(* devices that were lost, looks for the supplied devices, scans the ttys  *)
(* and the software radios for new ones, and raises alarms for supplied    *)
(* devices that are missing.  Meanwhile things are plugged in and out, and *)
(* the event loop finds out that open devices are gone.                     *)
(*                                                                         *)
(* The main thread performs the first two detections: one for files only,  *)
(* before the event loop is started, and a full one.                        *)
EXTENDS Naturals, Sequences, FiniteSets

CONSTANTS
    TTYs,           \* paths of serial ttys
    Radios,         \* serial numbers of rtlsdr sticks
    Commands,       \* identifiers of commands and sockets
    Files,          \* files and stdin
    Things,         \* what can be plugged in: records [port, type, id]
    Nothing,        \* an empty port
    Unknown,        \* DEVICE_UNKNOWN
    NoId,           \* a device without an id, or an id that was not supplied
    Configs,        \* configurations the program may be started with
    AlarmInterval   \* detections between two alarms for a missing device

Ports == TTYs \cup Radios
Paths == Ports \cup Commands \cup Files
PortsOf(kind) == IF kind = "tty" THEN TTYs ELSE Radios

ASSUME PortsAssumption == TTYs \cap Radios = {} /\ Ports \cap (Commands \cup Files) = {}
ASSUME ThingsAssumption ==
    /\ Nothing \notin Things
    /\ \A t \in Things : t.port \in {"tty", "radio"}
\* A configuration: the supplied devices, a sequence of [kind, path, type, id],
\* the switches, the ttys that must not be probed, and the things that will be
\* plugged in.  kind says how a supplied device is found: a named tty, a command
\* or a file, or by a scan of the ttys or of the radios.  The program refuses a
\* named tty without a type.
ASSUME ConfigsAssumption ==
    \A c \in Configs :
        /\ {c.auto, c.nodeviceexit, c.single_device_override} \subseteq BOOLEAN
        /\ c.do_not_probe_ttys \subseteq TTYs /\ c.things \subseteq Things
        /\ c.supplied \in Seq({c.supplied[s] : s \in DOMAIN c.supplied})
        /\ \A s \in DOMAIN c.supplied :
              /\ c.supplied[s].kind \in {"tty", "command", "file", "search tty", "search radio"}
              /\ c.supplied[s].kind = "tty" => c.supplied[s].path \in TTYs /\ c.supplied[s].type # Unknown
              /\ c.supplied[s].kind = "command" => c.supplied[s].path \in Commands
              /\ c.supplied[s].kind = "file" => c.supplied[s].path \in Files
ASSUME AlarmAssumption == AlarmInterval \in Nat

VARIABLES
    plugged,                  \* what is in each port
    config,                   \* the configuration, chosen when the program is started
    vacant,                   \* detections begun and ended since a port became empty (0, 1, 2)
    bus_devices_,             \* a vector of [path, type, id, spec, is_working]
    ignored,                  \* not_serial_wmbus_devices_ and not_swradio_wmbus_devices_
    do_not_open_file_again_,
    handled,                  \* of each supplied device
    since_alarm,              \* detections since the last alarm for each supplied device
    printed_warning_,
    expect_devices_to_work_,  \* of the serial manager
    running_,                 \* of the serial manager
    dt,                       \* which detection: "files", "first", "regular"
    pc,                       \* where the detection is
    spec,                     \* the supplied device it looks at
    must_auto_find,           \* the kinds of ports that have to be scanned
    scanning,                 \* the kind of port being scanned
    todo                      \* the listed ports still to be looked at

worldVars == <<plugged, config, vacant>>
deviceVars == <<bus_devices_, ignored, do_not_open_file_again_>>
specVars == <<handled, since_alarm>>
managerVars == <<printed_warning_, expect_devices_to_work_, running_>>
scanVars == <<must_auto_find, scanning, todo>>
vars == <<worldVars, deviceVars, specVars, managerVars, dt, pc, spec, scanVars>>

Supplied == config.supplied
Specs == DOMAIN Supplied

Init ==
    /\ plugged = [p \in Ports |-> Nothing]
    /\ vacant = [p \in Ports |-> 2]
    /\ config \in Configs
    /\ bus_devices_ = <<>>
    /\ ignored = {}
    /\ do_not_open_file_again_ = {}
    /\ handled = [s \in Specs |-> FALSE]
    /\ since_alarm = [s \in Specs |-> AlarmInterval + 1]
    /\ printed_warning_ = TRUE
    /\ expect_devices_to_work_ = FALSE
    /\ running_ = TRUE
    /\ dt = "files"
    /\ pc = "idle"
    /\ spec = 1
    /\ must_auto_find = {}
    /\ scanning = "tty"
    /\ todo = {}

-----------------------------------------------------------------------------
(* Helpers.                                                                 *)

\* serial_manager_->lookup: a serial device that disappeared is not found.
Working == {k \in DOMAIN bus_devices_ : bus_devices_[k].is_working}
lookup(p) == \E k \in Working : bus_devices_[k].path = p

\* What a probe of a port finds.
Detect(p) == IF plugged[p] = Nothing THEN Unknown ELSE plugged[p].type

\* openBusDeviceAndPotentiallySetLinkmodes, for the supplied device s or for none (0).
Open(p, type, id, s) ==
    bus_devices_' = Append(bus_devices_,
        [path |-> p, type |-> type, id |-> id, spec |-> s, is_working |-> TRUE])

First(S) == IF S = {} THEN 0 ELSE CHOOSE s \in S : \A x \in S : s <= x

\* A software radio serves rtlwmbus and rtl433.
TypeMatches(want, found) == want = found \/ (want = "rtl433" /\ found = "rtlwmbus")

\* Of the supplied devices without a file (commands too): an exact type and id
\* match first, then a type match without id.
find_specified_device_from_detected(type, id) ==
    LET searched == {s \in Specs : Supplied[s].kind \notin {"tty", "file"}
                                     /\ TypeMatches(Supplied[s].type, type)}
        exact == {s \in searched : Supplied[s].id # NoId /\ Supplied[s].id = id}
        loose == {s \in searched : Supplied[s].id = NoId}
    IN  IF exact # {} THEN First(exact) ELSE First(loose)

\* listSerialTTYs and listRtlSdrDevices.
Listed(kind) == {p \in PortsOf(kind) : plugged[p] # Nothing}

\* The ignore list without the ports of a kind that are empty now.
remove_lost_devices_from_ignore_list(kind) ==
    {p \in ignored : p \in PortsOf(kind) => p \in Listed(kind)}

-----------------------------------------------------------------------------
(* A detection.                                                             *)

\* Fault: the loss of the last device is only logged.
NoDeviceIsLogged == FALSE

\* The loss of the last device stops the program with --nodeviceexit.
NoDeviceStops == config.nodeviceexit /\ ~printed_warning_

EraseNotWorking(devices) ==
    LET kept[n \in 0..Len(devices)] ==
            IF n = 0 THEN <<>>
            ELSE IF devices[n].is_working THEN Append(kept[n - 1], devices[n]) ELSE kept[n - 1]
    IN kept[Len(devices)]

\* checkForDeadWmbusDevices, and the beginning of detectAndConfigureWmbusDevices.
checkForDeadWmbusDevices ==
    /\ pc = "idle" /\ (running_ \/ dt # "regular")
    /\ bus_devices_' = EraseNotWorking(bus_devices_)
    /\ IF bus_devices_' # <<>>
         THEN printed_warning_' = FALSE /\ UNCHANGED <<expect_devices_to_work_, running_>>
         ELSE IF config.single_device_override
                THEN expect_devices_to_work_' = TRUE /\ UNCHANGED <<printed_warning_, running_>>
                ELSE /\ printed_warning_' = TRUE
                     /\ running_' = (running_ /\ ~NoDeviceStops)
                     /\ UNCHANGED expect_devices_to_work_
    /\ must_auto_find' = IF config.auto /\ dt # "files" THEN {"tty", "radio"} ELSE {}
    /\ vacant' = [p \in Ports |-> IF vacant[p] = 0 THEN 1 ELSE vacant[p]]
    /\ spec' = 1 /\ pc' = "supplied"
    /\ UNCHANGED <<plugged, config, ignored, do_not_open_file_again_, specVars, dt, scanning, todo>>

Supply(kind) == pc = "supplied" /\ spec <= Len(Supplied) /\ Supplied[spec].kind = kind

\* Fault: handled is not reset by the next detection.
HandledForever(b) == handled' = [handled EXCEPT ![spec] = @ \/ b]

Handled(b) == handled' = [handled EXCEPT ![spec] = b]
NextSpec == spec' = spec + 1 /\ pc' = "supplied"

\* Before the event loop is started only files are looked at.
Postpone ==
    /\ dt = "files"
    /\ \E kind \in {"tty", "command", "search tty", "search radio"} : Supply(kind)
    /\ Handled(FALSE) /\ NextSpec
    /\ UNCHANGED <<worldVars, deviceVars, since_alarm, managerVars, dt, scanVars>>

\* Fault: every supplied device without a path is looked for on the ttys.
MustAutoFindOnTTYs(kind) ==
    /\ dt # "files" /\ Supply(IF kind = "tty" THEN "search tty" ELSE "search radio")
    /\ must_auto_find' = must_auto_find \cup {"tty"}
    /\ Handled(FALSE) /\ NextSpec
    /\ UNCHANGED <<worldVars, deviceVars, since_alarm, managerVars, dt, scanning, todo>>

\* No path was supplied: a scan has to find the device.
MustAutoFind(kind) ==
    /\ dt # "files" /\ Supply(IF kind = "tty" THEN "search tty" ELSE "search radio")
    /\ must_auto_find' = must_auto_find \cup {kind}
    /\ Handled(FALSE) /\ NextSpec
    /\ UNCHANGED <<worldVars, deviceVars, since_alarm, managerVars, dt, scanning, todo>>

\* A command or a socket is started unless it is running.
SuppliedCommand ==
    /\ dt # "files" /\ Supply("command")
    /\ LET s == Supplied[spec] IN
         IF lookup(s.path) THEN UNCHANGED bus_devices_ ELSE Open(s.path, s.type, NoId, spec)
    /\ Handled(TRUE) /\ NextSpec
    /\ UNCHANGED <<worldVars, ignored, do_not_open_file_again_, since_alarm, managerVars, dt,
                   scanVars>>

\* A file is opened once.
SuppliedFile ==
    /\ Supply("file")
    /\ LET s == Supplied[spec] IN
         IF lookup(s.path) \/ s.path \in do_not_open_file_again_
           THEN UNCHANGED <<bus_devices_, do_not_open_file_again_>>
           ELSE /\ Open(s.path, s.type, NoId, spec)
                /\ do_not_open_file_again_' = do_not_open_file_again_ \cup {s.path}
    /\ Handled(TRUE) /\ NextSpec
    /\ UNCHANGED <<worldVars, ignored, since_alarm, managerVars, dt, scanVars>>

\* A named tty: in use, ignored, missing, or to be probed.
SuppliedTTY ==
    /\ dt # "files" /\ Supply("tty")
    /\ LET p == Supplied[spec].path
           kept == IF p \in ignored THEN remove_lost_devices_from_ignore_list("tty") ELSE ignored
       IN  IF lookup(p)
             THEN Handled(TRUE) /\ NextSpec /\ UNCHANGED ignored
             ELSE /\ ignored' = kept
                  /\ IF p \in kept
                       THEN Handled(TRUE) /\ NextSpec
                       ELSE IF plugged[p] = Nothing
                              THEN Handled(FALSE) /\ NextSpec
                              ELSE pc' = "probing" /\ Handled(FALSE) /\ UNCHANGED spec
    /\ UNCHANGED <<worldVars, bus_devices_, do_not_open_file_again_, since_alarm, managerVars,
                   dt, scanVars>>

\* detectBusDeviceWithFileOrHex looks for nothing but the supplied type.
ProbeSupplied ==
    /\ pc = "probing"
    /\ LET s == Supplied[spec] IN
         IF Detect(s.path) = s.type
           THEN Open(s.path, s.type, plugged[s.path].id, spec) /\ UNCHANGED ignored
           ELSE /\ ignored' = IF plugged[s.path] # Nothing THEN ignored \cup {s.path} ELSE ignored
                /\ UNCHANGED bus_devices_
    /\ Handled(TRUE) /\ NextSpec
    /\ UNCHANGED <<worldVars, do_not_open_file_again_, since_alarm, managerVars, dt, scanVars>>

EndSupplied ==
    /\ pc = "supplied" /\ spec > Len(Supplied)
    /\ scanning' = "tty" /\ pc' = "list"
    /\ UNCHANGED <<worldVars, deviceVars, specVars, managerVars, dt, spec, must_auto_find, todo>>

\* perform_auto_scan_of_serial_devices and perform_auto_scan_of_swradio_devices
\* list the ports, if they are called at all, and tidy up the ignore list.
ListPorts ==
    /\ pc = "list"
    /\ IF scanning \in must_auto_find
         THEN /\ todo' = Listed(scanning)
              /\ ignored' = remove_lost_devices_from_ignore_list(scanning)
         ELSE todo' = {} /\ UNCHANGED ignored
    /\ pc' = "scan"
    /\ UNCHANGED <<worldVars, bus_devices_, do_not_open_file_again_, specVars, managerVars, dt,
                   spec, must_auto_find, scanning>>

\* Fault: the scan does not look whether a port is in use.
SkippedPortsIgnoredOnly == ignored \cup config.do_not_probe_ttys

\* Ports the scan does not probe: ignored, forbidden or in use.
SkippedPorts == ignored \cup config.do_not_probe_ttys \cup {p \in Ports : lookup(p)}

\* A listed port that is not skipped is probed; what is not
\* recognised is ignored from now on, what nobody asked for is left alone.
ProbePort(p) ==
    /\ pc = "scan" /\ p \in todo
    /\ todo' = todo \ {p}
    /\ IF p \in SkippedPorts
         THEN UNCHANGED <<bus_devices_, ignored>>
         ELSE IF Detect(p) = Unknown
                THEN ignored' = ignored \cup {p} /\ UNCHANGED bus_devices_
                ELSE LET s == find_specified_device_from_detected(Detect(p), plugged[p].id)
                     IN  /\ IF config.auto \/ s # 0
                              THEN Open(p, IF s = 0 THEN Detect(p) ELSE Supplied[s].type,
                                        plugged[p].id, s)
                              ELSE UNCHANGED bus_devices_
                         /\ UNCHANGED ignored
    /\ UNCHANGED <<worldVars, do_not_open_file_again_, specVars, managerVars, dt, pc, spec,
                   must_auto_find, scanning>>

\* The serial devices are followed by the software radios.
EndScan ==
    /\ pc = "scan" /\ todo = {}
    /\ scanning' = "radio"
    /\ pc' = IF scanning = "tty" THEN "list" ELSE "mark"
    /\ UNCHANGED <<worldVars, deviceVars, specVars, managerVars, dt, spec, must_auto_find, todo>>

\* The devices in use are marked as handled, and an alarm is raised for every
\* supplied device that is not handled.
Marked == {find_specified_device_from_detected(b.type, b.id) :
              b \in {bus_devices_[k] : k \in DOMAIN bus_devices_}}

Alarms ==
    IF dt = "files" THEN {}
    ELSE {s \in Specs : ~handled[s] /\ s \notin Marked /\ since_alarm[s] > AlarmInterval}

\* The end of detectAndConfigureWmbusDevices; time passes until the next one.
EndDetection ==
    /\ pc = "mark"
    /\ handled' = [s \in Specs |-> handled[s] \/ s \in Marked]
    /\ since_alarm' = [s \in Specs |->
           IF s \in Alarms THEN 0
           ELSE IF since_alarm[s] <= AlarmInterval THEN since_alarm[s] + 1
           ELSE since_alarm[s]]
    /\ vacant' = [p \in Ports |-> IF vacant[p] = 1 THEN 2 ELSE vacant[p]]
    /\ pc' = IF dt = "first" THEN "started" ELSE "idle"
    /\ dt' = IF dt = "files" THEN "first" ELSE dt
    /\ UNCHANGED <<plugged, config, deviceVars, managerVars, spec, scanVars>>

\* start: exit at once if nothing was found, else start the regular callback.
StartupCheck ==
    /\ pc = "started"
    /\ running_' = (running_ /\ ~(config.nodeviceexit /\ bus_devices_ = <<>>))
    /\ dt' = "regular" /\ pc' = "idle"
    /\ UNCHANGED <<worldVars, deviceVars, specVars, printed_warning_, expect_devices_to_work_,
                   spec, scanVars>>

-----------------------------------------------------------------------------
(* The world.                                                               *)

\* A port stays empty for a whole detection before it is used again, and the
\* event loop has by then noticed that the old device is gone.
Plug(p, t) ==
    /\ plugged[p] = Nothing /\ vacant[p] = 2 /\ ~lookup(p)
    /\ p \in PortsOf(t.port) /\ \A q \in Ports : plugged[q] # t
    /\ plugged' = [plugged EXCEPT ![p] = t]
    /\ UNCHANGED <<config, vacant, deviceVars, specVars, managerVars, dt, pc, spec, scanVars>>

Unplug(p) ==
    /\ plugged[p] # Nothing
    /\ plugged' = [plugged EXCEPT ![p] = Nothing]
    /\ vacant' = [vacant EXCEPT ![p] = 0]
    /\ UNCHANGED <<config, deviceVars, specVars, managerVars, dt, pc, spec, scanVars>>

\* The event loop finds out that a tty is gone or that a radio's process, a
\* command or a file has ended; its loss ends the program if it was the only
\* device asked for.
Lose(k) ==
    /\ dt # "files" /\ running_ /\ k \in Working
    /\ bus_devices_[k].path \in Ports => plugged[bus_devices_[k].path] = Nothing
    /\ bus_devices_' = [bus_devices_ EXCEPT ![k].is_working = FALSE]
    /\ running_' = ~expect_devices_to_work_
    /\ UNCHANGED <<worldVars, ignored, do_not_open_file_again_, specVars, printed_warning_,
                   expect_devices_to_work_, dt, pc, spec, scanVars>>

LosePort(p) == \E k \in Working : bus_devices_[k].path = p /\ Lose(k)
LoseOther == \E k \in Working : bus_devices_[k].path \notin Ports /\ Lose(k)

Detection ==
    \/ checkForDeadWmbusDevices
    \/ Postpone
    \/ \E kind \in {"tty", "radio"} : MustAutoFind(kind)
    \/ SuppliedCommand \/ SuppliedFile \/ SuppliedTTY \/ ProbeSupplied \/ EndSupplied
    \/ ListPorts
    \/ \E p \in Ports : ProbePort(p)
    \/ EndScan \/ EndDetection \/ StartupCheck

\* After the exit nothing is left to do.
Stopped == ~running_ /\ pc = "idle" /\ dt = "regular" /\ UNCHANGED vars

Next ==
    \/ Detection
    \/ \E p \in Ports : LosePort(p)
    \/ LoseOther
    \/ \E p \in Ports, t \in config.things : Plug(p, t)
    \/ \E p \in Ports : Unplug(p)
    \/ Stopped

\* The timer thread calls the detection again and again, and the event loop
\* looks at every open device at least every two seconds.
Spec == Init /\ [][Next]_vars
FairSpec == Spec /\ WF_vars(Detection) /\ \A p \in Ports : WF_vars(LosePort(p))

-----------------------------------------------------------------------------
(* Properties.                                                              *)

BusDevices == [path : Paths, type : {t.type : t \in Things} \cup {Supplied[s].type : s \in Specs},
               id : {t.id : t \in Things} \cup {NoId}, spec : {0} \cup Specs,
               is_working : BOOLEAN]

\* The variables have their types, only ports that were listed or probed are
\* ignored, and a scan only looks at ports of its kind (bus.cc).
TypeOK ==
    /\ plugged \in [Ports -> Things \cup {Nothing}]
    /\ config \in Configs
    /\ vacant \in [Ports -> 0 .. 2]
    /\ bus_devices_ \in Seq(BusDevices)
    /\ ignored \subseteq Ports
    /\ do_not_open_file_again_ \subseteq Files
    /\ handled \in [Specs -> BOOLEAN]
    /\ since_alarm \in [Specs -> 0 .. AlarmInterval + 1]
    /\ printed_warning_ \in BOOLEAN
    /\ expect_devices_to_work_ \in BOOLEAN
    /\ running_ \in BOOLEAN
    /\ dt \in {"files", "first", "regular"}
    /\ pc \in {"idle", "supplied", "probing", "list", "scan", "mark", "started"}
    /\ spec \in 1 .. Len(Supplied) + 1
    /\ must_auto_find \subseteq {"tty", "radio"}
    /\ scanning \in {"tty", "radio"}
    /\ todo \subseteq PortsOf(scanning)

\* A tty, radio, command or file is never driven by two bus devices at once,
\* though a named tty is also found by the scan (bus.cc:613).
OneDevicePerPath ==
    \A j, k \in Working : bus_devices_[j].path = bus_devices_[k].path => j = k

\* No dongle is on the ignore list while it is plugged in, unless another type
\* was asked for on that tty (bus.cc:567 remove_lost_serial_devices_from_ignore_list).
AskedFor(p) == {Supplied[s].type : s \in {x \in Specs : Supplied[x].kind = "tty" /\ Supplied[x].path = p}}
IgnoredAreForeign ==
    \A p \in ignored :
        plugged[p] = Nothing \/ plugged[p].type = Unknown \/ AskedFor(p) \ {plugged[p].type} # {}

\* What the manager relies on between any two steps of a detection: its variables
\* have their types, no path has two devices and no usable dongle is ignored.
PortsConsistent == TypeOK /\ OneDevicePerPath /\ IgnoredAreForeign

\* What is plugged in and stays is found, if it is wanted (bus.cc:591, 651).
Wanted(p, t) ==
    /\ t.type # Unknown /\ p \notin config.do_not_probe_ttys /\ AskedFor(p) \subseteq {t.type}
    /\ config.auto \/ find_specified_device_from_detected(t.type, t.id) # 0
PluggedIsFound ==
    \A p \in Ports, t \in Things :
        <>[](plugged[p] = t /\ Wanted(p, t) /\ running_) => <>[](lookup(p))

\* A supplied device that stays away is reported again and again (bus.cc:548-564).
Serves(b, s) == b.spec = s \/ find_specified_device_from_detected(b.type, b.id) = s
Away(s) ==
    /\ s \in Specs /\ Supplied[s].kind \in {"tty", "search tty", "search radio"}
    /\ \A k \in DOMAIN bus_devices_ : ~Serves(bus_devices_[k], s)
    /\ Supplied[s].kind = "tty" => plugged[Supplied[s].path] = Nothing
MissingIsReported ==
    \A s \in UNION {DOMAIN c.supplied : c \in Configs} :
        <>[](Away(s) /\ running_) => []<>(s \in Specs /\ since_alarm[s] = 0)

\* With --nodeviceexit the program stops when the devices a checkup saw are lost
\* and no other one turns up (bus.cc:340).
LastDeviceLostExits ==
    (config.nodeviceexit /\ ~config.single_device_override /\ ~printed_warning_ /\ Working = {})
        ~> (~running_ \/ Working # {})

=============================================================================
