---------------------------- MODULE SerialManager ----------------------------
(* The serial communication manager: the devices it manages, the event     *)
(* loop thread that selects on them, the main thread that waits for the    *)
(* manager to stop, and the client that creates, opens, resets and closes  *)
(* devices.  The client is the main thread while it sets the program up,   *)
(* and afterwards the regular callback of the timer thread.                *)
(*                                                                         *)
(* serial_devices_mutex_ makes each locked section one step; only          *)
(* closeAllDoNotRemove keeps the lock over several steps.  close() is      *)
(* called without the lock, and is two steps because another thread can    *)
(* see a device whose descriptor and whose owner do not agree yet.         *)
EXTENDS Integers, FiniteSets

CONSTANTS
    Devices,   \* bound: the serial device objects created in a behaviour
    TTYs,      \* paths of serial ttys
    Commands,  \* identifiers of shell commands, eg rtl_sdr|rtl_wmbus
    Files,     \* files and stdin
    NoPath,    \* the path of an object that is not created yet
    NoDevice,  \* a thread that handles no device
    Faults     \* what the surroundings do: subset of FaultKinds

Paths == TTYs \cup Commands \cup Files
FaultKinds == {"unplug", "replug", "open fails", "signal", "exit after"}

ASSUME PathsAssumption ==
    /\ NoPath \notin Paths
    /\ TTYs \cap Commands = {} /\ TTYs \cap Files = {} /\ Commands \cap Files = {}
ASSUME DevicesAssumption == NoDevice \notin Devices
ASSUME FaultsAssumption == Faults \subseteq FaultKinds

VARIABLES
    running_,
    expect_devices_to_work_,
    serial_devices_,   \* the devices under management
    event_loop_free,   \* startEventLoop has released event_loop_mutex_
    device_,           \* path of each device
    fd_,               \* -2 not yet opened, -1 not working, 0 a descriptor
    resetting_,
    on_data_,          \* the owner of the device (a bus device) listens to it
    on_disappear_,     \* the owner wants to know when the device disappears
    is_working_,       \* what the owner has been told: disconnectedFromDevice
    exists,            \* paths whose tty, child process or file is there
    pending,           \* paths with unread data
    pc,                \* where the threads main, event and timer are
    obj,               \* the device a thread is closing, resetting or serving
    after,             \* where a thread continues when close() returns
    readfds,           \* the devices handed to select
    todo,              \* devices a thread has still to notify or to close
    lost               \* non_working.size() > 0

managerVars == <<running_, expect_devices_to_work_, serial_devices_, event_loop_free>>
deviceVars == <<device_, fd_, resetting_, on_data_, on_disappear_, is_working_>>
worldVars == <<exists, pending>>
threadVars == <<pc, obj, after>>
loopVars == <<readfds, todo, lost>>
vars == <<managerVars, deviceVars, worldVars, threadVars, loopVars>>

Threads == {"main", "event", "timer"}

Init ==
    /\ running_ = TRUE
    /\ expect_devices_to_work_ = FALSE
    /\ serial_devices_ = {}
    /\ event_loop_free = FALSE
    /\ device_ = [d \in Devices |-> NoPath]
    /\ fd_ = [d \in Devices |-> -2]
    /\ resetting_ = [d \in Devices |-> FALSE]
    /\ on_data_ = [d \in Devices |-> FALSE]
    /\ on_disappear_ = [d \in Devices |-> FALSE]
    /\ is_working_ = [d \in Devices |-> FALSE]
    /\ exists = Paths
    /\ pending = {}
    /\ pc = [main |-> "setup", event |-> "blocked", timer |-> "sleep"]
    /\ obj = [t \in Threads |-> NoDevice]
    /\ after = [t \in Threads |-> "none"]
    /\ readfds = {}
    /\ todo = [t \in Threads |-> {}]
    /\ lost = FALSE

Goto(t, label) == pc' = [pc EXCEPT ![t] = label]

-----------------------------------------------------------------------------
(* The serial devices.                                                      *)

IsTTY(d) == device_[d] \in TTYs
IsCommand(d) == device_[d] \in Commands
IsFile(d) == device_[d] \in Files

opened(d) == resetting_[d] \/ fd_[d] # -2

\* SerialDeviceTTY::working looks for the device node, SerialDeviceCommand
\* for data or a living child, SerialDeviceFile for a usable descriptor.
TTYWorks(d) == fd_[d] # -1 /\ device_[d] \in exists
CommandWorks(d) == fd_[d] >= 0 /\ device_[d] \in pending \cup exists
FileWorks(d) == fd_[d] >= 0

\* Fault: the tty inherits working() from SerialDeviceImp.
workingByDescriptor(d) ==
    \/ resetting_[d]
    \/ IsTTY(d) /\ fd_[d] # -1
    \/ IsCommand(d) /\ CommandWorks(d)
    \/ IsFile(d) /\ FileWorks(d)

working(d) ==
    \/ resetting_[d]
    \/ IsTTY(d) /\ TTYWorks(d)
    \/ IsCommand(d) /\ CommandWorks(d)
    \/ IsFile(d) /\ FileWorks(d)

isClosed(d) == fd_[d] = -1 /\ ~resetting_[d]

lookup(p) == {d \in serial_devices_ : device_[d] = p}

\* A tty that refuses to be opened or configured gives -1, one that is locked
\* by another process gives -2.
openSerialTTY == {0} \cup (IF "open fails" \in Faults THEN {-1, -2} ELSE {})

\* The descriptors that open() can leave behind; a tty or a file that is gone
\* leaves fd_ as it was.
TTYOpen(d) == IF device_[d] \in exists THEN openSerialTTY ELSE {fd_[d]}
FileOpen(d) == IF device_[d] \in exists THEN {0} ELSE {fd_[d]}
CommandOpen(d) == {0}

OpenResults(d) ==
    IF IsTTY(d) THEN TTYOpen(d) ELSE IF IsFile(d) THEN FileOpen(d) ELSE CommandOpen(d)

\* Opening a command starts its child process.
StartChild(d) == exists' = IF IsCommand(d) THEN exists \cup {device_[d]} ELSE exists

\* Fault: the close of a reset is reported too.
DisappearAlways(d) ==
    /\ on_disappear_' = [on_disappear_ EXCEPT ![d] = FALSE]
    /\ is_working_' = [is_working_ EXCEPT ![d] = @ /\ ~on_disappear_[d]]

\* on_disappear_ is called at most once, and not for the close of a reset.
Disappear(d) ==
    IF on_disappear_[d] /\ ~resetting_[d]
      THEN /\ on_disappear_' = [on_disappear_ EXCEPT ![d] = FALSE]
           /\ is_working_' = [is_working_ EXCEPT ![d] = FALSE]
      ELSE UNCHANGED <<on_disappear_, is_working_>>

\* close() of a tty or a file first gives up the descriptor ...
DropDescriptor(d) ==
    /\ fd_' = [fd_ EXCEPT ![d] = -1]
    /\ UNCHANGED <<exists, on_disappear_, is_working_>>

\* ... and then a tty tells its owner; SerialDeviceFile::close tells nobody.
TellOwner(d) ==
    /\ IF IsTTY(d) THEN Disappear(d) ELSE UNCHANGED <<on_disappear_, is_working_>>
    /\ UNCHANGED fd_

\* close() of a command stops the child and tells the owner first ...
StopChild(d) ==
    /\ exists' = exists \ {device_[d]}
    /\ Disappear(d)
    /\ UNCHANGED fd_

\* ... and gives up the descriptor afterwards.
DropPipe(d) ==
    /\ fd_' = [fd_ EXCEPT ![d] = -1]
    /\ UNCHANGED <<on_disappear_, is_working_>>

CloseEnter(d) == IF IsCommand(d) THEN StopChild(d) ELSE DropDescriptor(d)
CloseLeave(d) == IF IsCommand(d) THEN DropPipe(d) ELSE TellOwner(d)

\* Thread t calls close() on d and continues at label.
CallClose(t, d, label) ==
    /\ obj' = [obj EXCEPT ![t] = d]
    /\ IF fd_[d] = -1
         THEN /\ Goto(t, label)
              /\ UNCHANGED <<after, fd_, exists, on_disappear_, is_working_>>
         ELSE /\ CloseEnter(d)
              /\ after' = [after EXCEPT ![t] = label]
              /\ Goto(t, "closing")

\* closeAllDoNotRemove keeps serial_devices_mutex_ while it closes.
MainHoldsLock ==
    \/ pc["main"] = "closeall"
    \/ pc["main"] = "closing" /\ after["main"] = "closeall"

\* close() ends by tickling the event loop, which takes serial_devices_mutex_.
FinishClose(t) ==
    /\ pc[t] = "closing"
    /\ t = "main" \/ ~MainHoldsLock
    /\ CloseLeave(obj[t])
    /\ Goto(t, after[t])
    /\ after' = [after EXCEPT ![t] = "none"]
    /\ UNCHANGED <<managerVars, device_, resetting_, on_data_, worldVars, obj, loopVars>>

-----------------------------------------------------------------------------
(* The event loop thread.                                                   *)

\* LOCK_EVENT_LOOP: blocked until startEventLoop.
EnterEventLoop ==
    /\ pc["event"] = "blocked"
    /\ event_loop_free
    /\ Goto("event", "head")
    /\ UNCHANGED <<managerVars, deviceVars, worldVars, obj, after, loopVars>>

\* Collect the descriptors for select; stop if a device broke that must work.
ListDescriptors ==
    /\ pc["event"] = "head" /\ running_ /\ ~MainHoldsLock
    /\ readfds' = {d \in serial_devices_ :
                      opened(d) /\ working(d) /\ ~resetting_[d] /\ fd_[d] >= 0}
    /\ IF expect_devices_to_work_ /\ \E d \in serial_devices_ : opened(d) /\ ~working(d)
         THEN running_' = FALSE /\ Goto("event", "exited")
         ELSE UNCHANGED running_ /\ Goto("event", "select")
    /\ UNCHANGED <<expect_devices_to_work_, serial_devices_, event_loop_free,
                   deviceVars, worldVars, obj, after, todo, lost>>

\* while (running_) and the break after select.
LeaveEventLoop ==
    /\ pc["event"] \in {"head", "select"} /\ ~running_
    /\ Goto("event", "exited")
    /\ UNCHANGED <<managerVars, deviceVars, worldVars, obj, after, loopVars>>

\* Data, or the end of the file or of the child's output.
Readable(d) ==
    \/ device_[d] \in pending
    \/ ~IsTTY(d) /\ device_[d] \notin exists

\* select returns after at most a second; the devices with something to read
\* that are still usable are the ones to notify.
Select ==
    /\ pc["event"] = "select" /\ running_ /\ ~MainHoldsLock
    /\ todo' = [todo EXCEPT !["event"] =
                  {d \in serial_devices_ \cap readfds :
                     /\ Readable(d)
                     /\ opened(d) /\ working(d) /\ ~resetting_[d] /\ fd_[d] >= 0}]
    /\ Goto("event", "notify")
    /\ UNCHANGED <<managerVars, deviceVars, worldVars, obj, after, readfds, lost>>

\* read() returned 0: the end of a file, or of a child's output (which the
\* code takes for the end only if its own stdin has ended too).
EndOfInput(d) ==
    {e \in BOOLEAN :
        /\ e => fd_[d] >= 0 /\ ~IsTTY(d)
        /\ e /\ IsCommand(d) => device_[d] \notin exists
        /\ ~e /\ IsFile(d) => fd_[d] = -1 \/ device_[d] \in exists}

\* on_data_ of d: processSerialData calls receive(), which may close the
\* device, and then handles the bytes it got.
Notify(d) ==
    /\ pc["event"] = "notify" /\ d \in todo["event"]
    /\ todo' = [todo EXCEPT !["event"] = @ \ {d}]
    /\ IF on_data_[d]
         THEN /\ pending' = IF fd_[d] >= 0 THEN pending \ {device_[d]} ELSE pending
              /\ \E e \in EndOfInput(d) :
                   IF e
                     THEN CallClose("event", d, "serving")
                     ELSE /\ obj' = [obj EXCEPT !["event"] = d]
                          /\ Goto("event", "serving")
                          /\ UNCHANGED <<after, fd_, exists, on_disappear_, is_working_>>
         ELSE UNCHANGED <<threadVars, worldVars, fd_, on_disappear_, is_working_>>
    /\ UNCHANGED <<managerVars, device_, resetting_, on_data_, readfds, lost>>

\* The telegrams in the received bytes are handled; the callback returns.
ServeData ==
    /\ pc["event"] = "serving"
    /\ obj' = [obj EXCEPT !["event"] = NoDevice]
    /\ Goto("event", "notify")
    /\ UNCHANGED <<managerVars, deviceVars, worldVars, after, loopVars>>

FindNonWorking ==
    /\ pc["event"] = "notify" /\ todo["event"] = {} /\ ~MainHoldsLock
    /\ todo' = [todo EXCEPT !["event"] =
                  {d \in serial_devices_ : opened(d) /\ ~working(d) /\ ~isClosed(d)}]
    /\ lost' = (todo'["event"] # {})
    /\ Goto("event", "sweep")
    /\ UNCHANGED <<managerVars, deviceVars, worldVars, obj, after, readfds>>

CloseNonWorking(d) ==
    /\ pc["event"] = "sweep" /\ d \in todo["event"]
    /\ todo' = [todo EXCEPT !["event"] = @ \ {d}]
    /\ CallClose("event", d, "sweep")
    /\ UNCHANGED <<managerVars, device_, resetting_, on_data_, pending, readfds, lost>>

\* An object that nobody refers to is destroyed, which closes it.
Unreferenced(gone) ==
    [d \in Devices |-> IF d \in gone /\ ~on_data_[d] THEN -1 ELSE fd_[d]]

\* removeNonWorkingSerialDevices, and the exit if devices had to work.
removeNonWorkingSerialDevices ==
    /\ pc["event"] = "sweep" /\ todo["event"] = {} /\ ~MainHoldsLock
    /\ LET gone == {d \in serial_devices_ : opened(d) /\ ~working(d)}
       IN  /\ serial_devices_' = serial_devices_ \ gone
           /\ fd_' = Unreferenced(gone)
           /\ running_' = (running_ /\ ~(expect_devices_to_work_
                                            /\ (lost \/ serial_devices_ \subseteq gone)))
    /\ obj' = [obj EXCEPT !["event"] = NoDevice]
    /\ Goto("event", IF lost /\ expect_devices_to_work_ THEN "exited" ELSE "head")
    /\ UNCHANGED <<expect_devices_to_work_, event_loop_free, device_, resetting_, on_data_,
                   on_disappear_, is_working_, worldVars, after, loopVars>>

-----------------------------------------------------------------------------
(* The client: thread t is setting the program up or in a regular checkup. *)

Client(t) == pc[t] = IF t = "main" THEN "setup" ELSE "checkup"
Return(t) ==
    /\ obj' = [obj EXCEPT ![t] = NoDevice]
    /\ Goto(t, IF t = "main" THEN "setup" ELSE "checkup")

\* createSerialDeviceTTY/Command/File, and a bus device is put on top of it.
CreateDevice(t, d, p) ==
    /\ Client(t) /\ ~MainHoldsLock
    /\ device_[d] = NoPath
    /\ lookup(p) = {}
    /\ device_' = [device_ EXCEPT ![d] = p]
    /\ serial_devices_' = serial_devices_ \cup {d}
    /\ on_data_' = [on_data_ EXCEPT ![d] = TRUE]
    /\ on_disappear_' = [on_disappear_ EXCEPT ![d] = TRUE]
    /\ is_working_' = [is_working_ EXCEPT ![d] = TRUE]
    /\ UNCHANGED <<running_, expect_devices_to_work_, event_loop_free, fd_, resetting_,
                   worldVars, threadVars, loopVars>>

\* reset() of a device that is not in use only opens it: when it has just
\* been created, or in a checkup because its owner hears nothing from it.
OpenDevice(t, d) ==
    /\ Client(t)
    /\ on_data_[d] /\ is_working_[d] /\ ~(opened(d) /\ working(d))
    /\ \E fd \in OpenResults(d) :
         /\ fd_' = [fd_ EXCEPT ![d] = fd]
         /\ running_' \in IF fd < 0 THEN {running_, FALSE} ELSE {running_}
    /\ StartChild(d)
    /\ UNCHANGED <<expect_devices_to_work_, serial_devices_, event_loop_free, device_,
                   resetting_, on_data_, on_disappear_, is_working_, pending, threadVars, loopVars>>

\* reset() of a device in use: resetInitiated, close, open, resetCompleted.
ResetDevice(t, d) ==
    /\ t = "timer" /\ Client(t)
    /\ on_data_[d] /\ is_working_[d] /\ opened(d) /\ working(d)
    /\ resetting_' = [resetting_ EXCEPT ![d] = TRUE]
    /\ obj' = [obj EXCEPT ![t] = d]
    /\ Goto(t, "resetting")
    /\ UNCHANGED <<managerVars, device_, fd_, on_data_, on_disappear_, is_working_,
                   worldVars, after, loopVars>>

CloseForReset(t) ==
    /\ pc[t] = "resetting"
    /\ CallClose(t, obj[t], "reopen")
    /\ UNCHANGED <<managerVars, device_, resetting_, on_data_, pending, loopVars>>

\* reset() sleeps 3 seconds after the close: longer than a sweep of the event
\* loop over its devices takes.
SweepIsOver == pc["event"] \notin {"sweep", "closing"}

\* A failed open ends the reset; resetCompleted is not called.  Depending on
\* why the device was reset, the manager is then stopped or an alarm raised.
ReopenForReset(t) ==
    /\ pc[t] = "reopen" /\ SweepIsOver
    /\ LET d == obj[t] IN
         \E fd \in OpenResults(d) :
            /\ fd_' = [fd_ EXCEPT ![d] = fd]
            /\ StartChild(d)
            /\ IF fd >= 0
                 THEN Goto(t, "reopened") /\ UNCHANGED <<running_, obj>>
                 ELSE Return(t) /\ running_' \in {running_, FALSE}
    /\ UNCHANGED <<expect_devices_to_work_, serial_devices_, event_loop_free, device_,
                   resetting_, on_data_, on_disappear_, is_working_, pending, after, loopVars>>

CompleteReset(t) ==
    /\ pc[t] = "reopened"
    /\ resetting_' = [resetting_ EXCEPT ![obj[t]] = FALSE]
    /\ Return(t)
    /\ UNCHANGED <<managerVars, device_, fd_, on_data_, on_disappear_, is_working_,
                   worldVars, after, loopVars>>

\* checkForDeadWmbusDevices found that the owner of d was disconnected: the
\* serial device is closed if it still works, and the owner is deleted.
CloseDeadDevice(t, d) ==
    /\ Client(t)
    /\ on_data_[d] /\ ~is_working_[d]
    /\ IF opened(d) /\ working(d)
         THEN CallClose(t, d, "erase")
         ELSE /\ obj' = [obj EXCEPT ![t] = d]
              /\ Goto(t, "drop")
              /\ UNCHANGED <<after, fd_, exists, on_disappear_, is_working_>>
    /\ UNCHANGED <<managerVars, device_, resetting_, on_data_, pending, loopVars>>

\* removeNonWorking(device) after a close, and ~BusDeviceCommonImplementation.
DropOwner(t) ==
    /\ pc[t] \in {"erase", "drop"} /\ ~MainHoldsLock
    /\ LET d == obj[t]
           gone == IF pc[t] = "drop" THEN {}
                   ELSE {x \in lookup(device_[d]) : opened(x) /\ ~working(x)}
       IN  /\ serial_devices_' = serial_devices_ \ gone
           /\ on_data_' = [on_data_ EXCEPT ![d] = FALSE]
           /\ on_disappear_' = [on_disappear_ EXCEPT ![d] = FALSE]
           /\ fd_' = [fd_ EXCEPT ![d] = IF d \in serial_devices_' THEN @ ELSE -1]
    /\ Return(t)
    /\ UNCHANGED <<running_, expect_devices_to_work_, event_loop_free, device_, resetting_,
                   is_working_, worldVars, after, loopVars>>

-----------------------------------------------------------------------------
(* The timer thread: it wakes up every second while the manager runs.       *)

ExitAfter ==
    /\ "exit after" \in Faults
    /\ pc["timer"] = "sleep" /\ running_
    /\ running_' = FALSE
    /\ Goto("timer", "exited")
    /\ UNCHANGED <<expect_devices_to_work_, serial_devices_, event_loop_free, deviceVars,
                   worldVars, obj, after, loopVars>>

LeaveTimerLoop ==
    /\ pc["timer"] = "sleep" /\ ~running_
    /\ Goto("timer", "exited")
    /\ UNCHANGED <<managerVars, deviceVars, worldVars, obj, after, loopVars>>

\* executeTimerCallbacks, once the callback has been registered.
StartCheckup ==
    /\ pc["timer"] = "sleep" /\ running_
    /\ MainHoldsLock \/ pc["main"] \in {"wait", "join"}
    /\ Goto("timer", "checkup")
    /\ UNCHANGED <<managerVars, deviceVars, worldVars, obj, after, loopVars>>

EndCheckup ==
    /\ pc["timer"] = "checkup"
    /\ Goto("timer", "sleep")
    /\ UNCHANGED <<managerVars, deviceVars, worldVars, obj, after, loopVars>>

-----------------------------------------------------------------------------
(* The main thread.                                                         *)

ExpectDevicesToWork ==
    /\ pc["main"] = "setup"
    /\ expect_devices_to_work_' = TRUE
    /\ UNCHANGED <<running_, serial_devices_, event_loop_free, deviceVars, worldVars,
                   threadVars, loopVars>>

startEventLoop ==
    /\ pc["main"] = "setup" /\ ~event_loop_free
    /\ event_loop_free' = TRUE
    /\ UNCHANGED <<running_, expect_devices_to_work_, serial_devices_, deviceVars, worldVars,
                   threadVars, loopVars>>

\* startRegularCallback, and the main thread enters waitForStop.
EndSetup ==
    /\ pc["main"] = "setup" /\ event_loop_free
    /\ Goto("main", "wait")
    /\ UNCHANGED <<managerVars, deviceVars, worldVars, obj, after, loopVars>>

\* Fault: the main thread only looks at the devices and sleeps again.
EndWaitIgnoresStop ==
    /\ pc["main"] = "wait"
    /\ Goto("main", IF serial_devices_ = {} THEN "leaving" ELSE "wait")
    /\ UNCHANGED <<managerVars, deviceVars, worldVars, obj, after, loopVars>>

\* waitForStop ends when the manager was stopped or has no device left.
EndWait ==
    /\ pc["main"] = "wait"
    /\ ~running_ \/ serial_devices_ = {}
    /\ Goto("main", "leaving")
    /\ UNCHANGED <<managerVars, deviceVars, worldVars, obj, after, loopVars>>

\* closeAllDoNotRemove takes the lock.
closeAllDoNotRemove ==
    /\ pc["main"] = "leaving"
    /\ todo' = [todo EXCEPT !["main"] = serial_devices_]
    /\ Goto("main", "closeall")
    /\ UNCHANGED <<managerVars, deviceVars, worldVars, obj, after, readfds, lost>>

CloseNext(d) ==
    /\ pc["main"] = "closeall" /\ d \in todo["main"]
    /\ todo' = [todo EXCEPT !["main"] = @ \ {d}]
    /\ CallClose("main", d, "closeall")
    /\ UNCHANGED <<managerVars, device_, resetting_, on_data_, pending, readfds, lost>>

EndCloseAll ==
    /\ pc["main"] = "closeall" /\ todo["main"] = {}
    /\ obj' = [obj EXCEPT !["main"] = NoDevice]
    /\ Goto("main", "join")
    /\ UNCHANGED <<managerVars, deviceVars, worldVars, after, loopVars>>

\* pthread_join of both loops, then removeAllBusDevices.
JoinThreads ==
    /\ pc["main"] = "join"
    /\ pc["event"] = "exited" /\ pc["timer"] = "exited"
    /\ on_data_' = [d \in Devices |-> FALSE]
    /\ on_disappear_' = [d \in Devices |-> FALSE]
    /\ Goto("main", "end")
    /\ UNCHANGED <<managerVars, device_, fd_, resetting_, is_working_, worldVars, obj, after,
                   loopVars>>

-----------------------------------------------------------------------------
(* The surroundings.                                                        *)

\* A dongle is pulled out, a child process ends, stdin is closed.
Unplug(p) ==
    /\ "unplug" \in Faults /\ p \in exists
    /\ \E d \in Devices : device_[d] = p
    /\ exists' = exists \ {p}
    /\ UNCHANGED <<managerVars, deviceVars, pending, threadVars, loopVars>>

\* The node of a dongle that is plugged in again takes longer to appear than a
\* sweep over the devices.
Replug(p) ==
    /\ "replug" \in Faults /\ p \in TTYs \ exists /\ SweepIsOver
    /\ exists' = exists \cup {p}
    /\ UNCHANGED <<managerVars, deviceVars, pending, threadVars, loopVars>>

DataArrives(p) ==
    /\ p \in exists /\ \E d \in lookup(p) : fd_[d] >= 0
    /\ pending' = pending \cup {p}
    /\ UNCHANGED <<managerVars, deviceVars, exists, threadVars, loopVars>>

\* exitHandler calls stop() from whatever thread got the signal.
Signal ==
    /\ "signal" \in Faults /\ running_
    /\ running_' = FALSE
    /\ UNCHANGED <<expect_devices_to_work_, serial_devices_, event_loop_free, deviceVars,
                   worldVars, threadVars, loopVars>>

-----------------------------------------------------------------------------

EventStep ==
    \/ EnterEventLoop \/ ListDescriptors \/ LeaveEventLoop \/ Select \/ ServeData
    \/ FindNonWorking \/ removeNonWorkingSerialDevices \/ FinishClose("event")
    \/ \E d \in Devices : Notify(d) \/ CloseNonWorking(d)

MainStep ==
    \/ startEventLoop \/ EndSetup \/ EndWait \/ closeAllDoNotRemove \/ EndCloseAll
    \/ JoinThreads \/ (MainHoldsLock /\ FinishClose("main"))
    \/ \E d \in Devices : CloseNext(d)

\* What a reset or a close that has begun does next.
ClientProceeds(t) ==
    \/ CloseForReset(t) \/ ReopenForReset(t) \/ CompleteReset(t) \/ DropOwner(t)
    \/ (t = "timer" \/ ~MainHoldsLock) /\ FinishClose(t)

ClientBegins(t) ==
    \/ \E d \in Devices : OpenDevice(t, d) \/ ResetDevice(t, d) \/ CloseDeadDevice(t, d)
    \/ \E d \in Devices, p \in Paths : CreateDevice(t, d, p)

TimerStep == LeaveTimerLoop \/ StartCheckup \/ ClientProceeds("timer")

World == \E p \in Paths : Unplug(p) \/ Replug(p) \/ DataArrives(p)

\* The program has ended.
Ended == pc["main"] = "end" /\ UNCHANGED vars

\* What the threads and the devices do.
ManagerStep ==
    \/ EventStep
    \/ MainStep
    \/ TimerStep \/ ExitAfter \/ EndCheckup
    \/ ExpectDevicesToWork
    \/ \E t \in {"main", "timer"} : ClientBegins(t)
    \/ ClientProceeds("main")
    \/ World

Next == ManagerStep \/ Signal \/ Ended

Spec == Init /\ [][Next]_vars

\* The threads keep running, a checkup does finitely many things, the sleep
\* of a reset and the setup of the program end.
Fairness ==
    /\ WF_vars(EventStep) /\ WF_vars(MainStep) /\ WF_vars(TimerStep)
    /\ WF_vars(ClientProceeds("main"))
    /\ SF_vars(EndCheckup) /\ SF_vars(ReopenForReset("timer"))

FairSpec == Spec /\ Fairness

-----------------------------------------------------------------------------

\* The variables stay in their domains; open() leaves no descriptor but -2, -1
\* or a real one.
TypeOK ==
    /\ running_ \in BOOLEAN
    /\ expect_devices_to_work_ \in BOOLEAN
    /\ serial_devices_ \subseteq Devices
    /\ event_loop_free \in BOOLEAN
    /\ device_ \in [Devices -> Paths \cup {NoPath}]
    /\ fd_ \in [Devices -> {-2, -1, 0}]
    /\ resetting_ \in [Devices -> BOOLEAN]
    /\ on_data_ \in [Devices -> BOOLEAN]
    /\ on_disappear_ \in [Devices -> BOOLEAN]
    /\ is_working_ \in [Devices -> BOOLEAN]
    /\ exists \subseteq Paths
    /\ pending \subseteq Paths
    /\ DOMAIN pc = Threads
    /\ obj \in [Threads -> Devices \cup {NoDevice}]
    /\ DOMAIN after = Threads
    /\ readfds \subseteq Devices
    /\ todo \in [Threads -> SUBSET Devices]
    /\ lost \in BOOLEAN

\* The event loop is inside the data callback of d.
Serving(d) ==
    /\ obj["event"] = d
    /\ pc["event"] = "serving" \/ (pc["event"] = "closing" /\ after["event"] = "serving")

\* While the program runs, the bus device of a tty is not deleted under the
\* event loop that executes its processSerialData.
CallbackHasOwner ==
    pc["main"] \in {"setup", "wait"} =>
        \A d \in Devices : IsTTY(d) /\ Serving(d) => on_data_[d]

\* Every device under management was opened, and none has a descriptor behind
\* which there still is a dongle, a child, a file or some data.
NoneWorks ==
    \A d \in serial_devices_ :
        opened(d) /\ (fd_[d] < 0 \/ device_[d] \notin exists \cup pending)

\* A reset whose open failed left resetting_ set.
StuckInReset == \E d \in serial_devices_ : resetting_[d] /\ obj["timer"] # d

\* If the devices are expected to work, the manager exits when none works any
\* more, except after a failed reset.
ExitsWithoutDevices ==
    (expect_devices_to_work_ /\ pc["main"] = "wait" /\ NoneWorks)
        ~> (~running_ \/ ~NoneWorks \/ StuckInReset)

\* serial.h: "if you expect configured devices to work, then the manager will
\* exit when there are no working devices".
ManagerExits ==
    (expect_devices_to_work_ /\ pc["main"] = "wait" /\ NoneWorks)
        ~> (~running_ \/ ~NoneWorks)

=============================================================================
