---------------------------- MODULE MCBusManager ----------------------------
(* Small instances of BusManager for TLC.                                   *)
EXTENDS BusManager

Dongle == [port |-> "tty", type |-> "im871a", id |-> "i1"]
Other == [port |-> "tty", type |-> "im871a", id |-> "i2"]
Phone == [port |-> "tty", type |-> Unknown, id |-> NoId]
Stick == [port |-> "radio", type |-> "rtlwmbus", id |-> "rtl0"]
DonglesPhoneStick == {Dongle, Other, Phone, Stick}

Supply1(kind, path, type, id) == [kind |-> kind, path |-> path, type |-> type, id |-> id]
Config(supplied, auto, nodeviceexit, things) ==
    [supplied |-> supplied, auto |-> auto, nodeviceexit |-> nodeviceexit, things |-> things,
     single_device_override |-> FALSE, do_not_probe_ttys |-> {}]

\* A named tty and device=auto: both find the dongle.
NamedTTY == Config(<<Supply1("tty", "usb1", "im871a", NoId)>>, TRUE, FALSE, {Dongle, Phone})

\* Two dongles of one type: one by its id, one by its type.
TwoDongles ==
    Config(<<Supply1("search tty", NoId, "im871a", NoId), Supply1("search tty", NoId, "im871a", "i2")>>,
           FALSE, TRUE, {Dongle, Other})

\* A software radio, found by a scan, beside a command of the same type.
RadioAndCommand ==
    Config(<<Supply1("search radio", NoId, "rtl433", NoId),
             Supply1("command", "cmd_2", "rtlwmbus", NoId)>>, FALSE, FALSE, {Stick})

\* A file and nothing else.
OnlyStdin ==
    [Config(<<Supply1("file", "stdin", "rawtty", NoId)>>, FALSE, FALSE, {Phone})
        EXCEPT !.single_device_override = TRUE]

\* device=auto and a tty that must not be probed.
ForbiddenTTY ==
    [Config(<<>>, TRUE, TRUE, {Dongle}) EXCEPT !.do_not_probe_ttys = {"usb1"}]

AllConfigs == {ForbiddenTTY, NamedTTY, TwoDongles, RadioAndCommand, OnlyStdin}

=============================================================================
