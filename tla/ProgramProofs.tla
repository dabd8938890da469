--------------------------- MODULE ProgramProofs ---------------------------
(* What holds in every life of the program, for every set of devices, ttys, *)
(* commands and files, and everything that may fail.                        *)
EXTENDS Program, TLAPS

\* The program is neither closing all its devices nor waiting for its threads.
Live ==
    \/ pc["main"] \in {"setup", "wait", "drop", "erase"}
    \/ pc["main"] = "closing" /\ after["main"] = "erase"

\* A thread calls close() only from the places that it continues at.
ClosesFrom ==
    /\ pc["event"] = "closing" => after["event"] \in {"sweep", "serving"}
    /\ pc["timer"] = "closing" => after["timer"] \in {"reopen", "erase"}
    /\ pc["main"] = "closing" => after["main"] \in {"closeall", "erase"}
    /\ pc["main"] \notin {"resetting", "reopen", "reopened"}
    /\ \A t \in Threads : pc[t] = "closing" => obj[t] \in Devices

At(t, label) == pc[t] = label \/ (pc[t] = "closing" /\ after[t] = label)

\* A managed device was created, and so was one that has an owner or that a
\* thread works on or is going to.
Created ==
    /\ \A d \in serial_devices_ \cup todo["event"] \cup todo["main"] : device_[d] # NoPath
    /\ \A d \in Devices : on_data_[d] => device_[d] # NoPath
    /\ \A t \in Threads : obj[t] # NoDevice => device_[obj[t]] # NoPath

\* The ttys that a sweep closes are gone and are not being reset; the one that
\* is being closed has lost its descriptor.
SweptAreGone ==
    At("event", "sweep") =>
        /\ \A d \in todo["event"] : IsTTY(d) => device_[d] \notin exists /\ ~resetting_[d]
        /\ pc["event"] = "closing" /\ IsTTY(obj["event"]) =>
              /\ device_[obj["event"]] \notin exists
              /\ ~resetting_[obj["event"]]
              /\ fd_[obj["event"]] = -1

\* A tty whose owner was told stays closed.
ToldAreClosed ==
    Live => \A d \in Devices : IsTTY(d) /\ ~is_working_[d] => fd_[d] = -1 /\ ~resetting_[d]

\* An owner is deleted only after it was told, and never served then.
DeletedAreTold ==
    /\ \A t \in {"main", "timer"} :
         At(t, "erase") \/ At(t, "drop") => obj[t] \in Devices /\ ~is_working_[obj[t]]
    /\ Live => \A d \in Devices : device_[d] # NoPath /\ is_working_[d] => on_data_[d]

ServedAreNotTold ==
    Live =>
        /\ pc["event"] = "notify" \/ At("event", "serving") =>
              \A d \in todo["event"] : IsTTY(d) => is_working_[d]
        /\ At("event", "serving") =>
              /\ obj["event"] \in Devices
              /\ IsTTY(obj["event"]) => is_working_[obj["event"]] /\ pc["event"] = "serving"

\* A reset in progress is marked in its device.
ResetIsMarked ==
    At("timer", "resetting") \/ At("timer", "reopen") \/ At("timer", "reopened") =>
        obj["timer"] \in Devices /\ resetting_[obj["timer"]]

OwnerInv ==
    /\ TypeOK
    /\ ClosesFrom
    /\ Created
    /\ SweptAreGone
    /\ ToldAreClosed
    /\ DeletedAreTold
    /\ ServedAreNotTold
    /\ ResetIsMarked

-----------------------------------------------------------------------------

LEMMA ManagerTypes ==
  ASSUME TypeOK, ClosesFrom, ResetIsMarked, ManagerStep
  PROVE  TypeOK'
<1> USE PathsAssumption, DevicesAssumption
<1> USE DEF TypeOK, Goto, managerVars, deviceVars, worldVars, threadVars, loopVars, vars, Threads
<1> DEFINE Closes(t, d) ==
      /\ fd_' \in [Devices -> {-2, -1, 0}]
      /\ exists' \subseteq Paths
      /\ on_disappear_' \in [Devices -> BOOLEAN] /\ is_working_' \in [Devices -> BOOLEAN]
      /\ obj' \in [Threads -> Devices \cup {NoDevice}]
      /\ DOMAIN pc' = Threads /\ DOMAIN after' = Threads
<1>1. ASSUME NEW t \in Threads, NEW d \in Devices, NEW l, CallClose(t, d, l)
      PROVE  Closes(t, d)
  BY <1>1, ZenonT(40) DEF CallClose, CloseEnter, StopChild, DropDescriptor, Disappear
<1>2. ASSUME NEW d \in Devices, NEW fd \in OpenResults(d), StartChild(d)
      PROVE  fd \in {-2, -1, 0} /\ exists' \subseteq Paths
  BY <1>2, ZenonT(40)
  DEF OpenResults, TTYOpen, FileOpen, CommandOpen, openSerialTTY, StartChild, IsCommand, Paths
<1>3. ASSUME NEW t \in Threads, FinishClose(t) PROVE TypeOK'
  BY <1>3, ZenonT(40) DEF FinishClose, CloseLeave, DropPipe, TellOwner, Disappear
<1>4. CASE EventStep
  <2>1. CASE EnterEventLoop \/ LeaveEventLoop \/ ServeData
    BY <2>1 DEF EnterEventLoop, LeaveEventLoop, ServeData
  <2>2. CASE ListDescriptors
    BY <2>2, Zenon DEF ListDescriptors
  <2>3. CASE Select
    BY <2>3, Zenon DEF Select
  <2>4. CASE FindNonWorking
    BY <2>4, Zenon DEF FindNonWorking
  <2>5. CASE removeNonWorkingSerialDevices
    BY <2>5, Zenon DEF removeNonWorkingSerialDevices, Unreferenced
  <2>6. ASSUME NEW d \in Devices, CloseNonWorking(d) PROVE TypeOK'
    BY <2>6, <1>1, Zenon DEF CloseNonWorking
  <2>7. ASSUME NEW d \in Devices, Notify(d) PROVE TypeOK'
    <3>1. CASE \E e \in EndOfInput(d) : CallClose("event", d, "serving")
      BY <2>7, <3>1, <1>1 DEF Notify
    <3>2. CASE ~ \E e \in EndOfInput(d) : CallClose("event", d, "serving")
      BY <2>7, <3>2 DEF Notify
    <3> QED
      BY <3>1, <3>2, Zenon
  <2> QED
    BY <1>3, <1>4, <2>1, <2>2, <2>3, <2>4, <2>5, <2>6, <2>7, Zenon DEF EventStep
<1>5. CASE MainStep
  <2>1. CASE startEventLoop \/ EndSetup \/ EndWait
    BY <2>1, Zenon DEF startEventLoop, EndSetup, EndWait
  <2>2. CASE EndCloseAll
    BY <2>2, Zenon DEF EndCloseAll
  <2>3. CASE closeAllDoNotRemove
    BY <2>3, Zenon DEF closeAllDoNotRemove
  <2>4. CASE JoinThreads
    BY <2>4, Zenon DEF JoinThreads
  <2>5. ASSUME NEW d \in Devices, CloseNext(d) PROVE TypeOK'
    BY <2>5, <1>1, Zenon DEF CloseNext
  <2> QED
    BY <1>3, <1>5, <2>1, <2>2, <2>3, <2>4, <2>5, Zenon DEF MainStep
<1>6. CASE LeaveTimerLoop \/ StartCheckup \/ ExitAfter \/ EndCheckup \/ ExpectDevicesToWork
  BY <1>6, Zenon DEF LeaveTimerLoop, StartCheckup, ExitAfter, EndCheckup, ExpectDevicesToWork
<1>7. ASSUME NEW t \in {"main", "timer"}, ClientProceeds(t) PROVE TypeOK'
  <2>1. CASE CloseForReset(t)
    <3>1. obj[t] \in Devices
      BY <2>1, Zenon DEF CloseForReset, ClosesFrom, ResetIsMarked, At
    <3> QED
      BY <2>1, <3>1, <1>1 DEF CloseForReset
  <2>2. CASE ReopenForReset(t)
    <3>1. obj[t] \in Devices
      BY <2>2, Zenon DEF ReopenForReset, ClosesFrom, ResetIsMarked, At
    <3>2. PICK fd \in OpenResults(obj[t]) :
            /\ fd_' = [fd_ EXCEPT ![obj[t]] = fd]
            /\ StartChild(obj[t])
            /\ IF fd >= 0
                 THEN Goto(t, "reopened") /\ UNCHANGED <<running_, obj>>
                 ELSE Return(t) /\ running_' \in {running_, FALSE}
      BY <2>2, Zenon DEF ReopenForReset
    <3>3. fd \in {-2, -1, 0} /\ exists' \subseteq Paths
      BY <3>1, <3>2, <1>2, Zenon
    <3>4. /\ running_' \in BOOLEAN
          /\ DOMAIN pc' = Threads /\ obj' \in [Threads -> Devices \cup {NoDevice}]
      <4>1. CASE fd >= 0
        BY <3>2, <4>1, Zenon
      <4>2. CASE ~(fd >= 0)
        <5>1. running_' \in {running_, FALSE}
          BY <3>2, <4>2, Zenon
        <5>2. Return(t)
          BY <3>2, <4>2, Zenon
        <5>3. DOMAIN pc' = Threads /\ obj' \in [Threads -> Devices \cup {NoDevice}]
          BY <5>2, Zenon DEF Return
        <5> QED
          BY <5>1, <5>3, Zenon
      <4> QED
        BY <4>1, <4>2, Zenon
    <3> QED
      BY <2>2, <3>2, <3>3, <3>4, Zenon DEF ReopenForReset
  <2>3. CASE CompleteReset(t)
    BY <2>3, Zenon DEF CompleteReset, Return
  <2>4. CASE DropOwner(t)
    BY <2>4, Zenon DEF DropOwner, Return
  <2> QED
    BY <1>3, <1>7, <2>1, <2>2, <2>3, <2>4, Zenon DEF ClientProceeds
<1>8. ASSUME NEW t \in {"main", "timer"}, ClientBegins(t) PROVE TypeOK'
  <2>1. ASSUME NEW d \in Devices, OpenDevice(t, d) PROVE TypeOK'
    <3>1. PICK fd \in OpenResults(d) :
            /\ fd_' = [fd_ EXCEPT ![d] = fd]
            /\ running_' \in IF fd < 0 THEN {running_, FALSE} ELSE {running_}
      BY <2>1, Zenon DEF OpenDevice
    <3>2. StartChild(d)
      BY <2>1, Zenon DEF OpenDevice
    <3>3. fd \in {-2, -1, 0} /\ exists' \subseteq Paths
      BY <3>1, <3>2, <1>2, Zenon
    <3> QED
      BY <2>1, <3>1, <3>3, Zenon DEF OpenDevice
  <2>2. ASSUME NEW d \in Devices, ResetDevice(t, d) PROVE TypeOK'
    BY <2>2, Zenon DEF ResetDevice
  <2>3. ASSUME NEW d \in Devices, CloseDeadDevice(t, d) PROVE TypeOK'
    BY <2>3, <1>1 DEF CloseDeadDevice
  <2>4. ASSUME NEW d \in Devices, NEW p \in Paths, CreateDevice(t, d, p) PROVE TypeOK'
    BY <2>4, Zenon DEF CreateDevice
  <2> QED
    BY <1>8, <2>1, <2>2, <2>3, <2>4, Zenon DEF ClientBegins
<1>9. CASE World
  BY <1>9 DEF World, Unplug, Replug, DataArrives, Paths
<1> QED
  BY <1>4, <1>5, <1>6, <1>7, <1>8, <1>9, Zenon DEF ManagerStep, TimerStep

-----------------------------------------------------------------------------

LEMMA OwnerStep ==
  ASSUME OwnerInv, ManagerStep
  PROVE  OwnerInv'
<1>0. TypeOK'
  BY ManagerTypes, Zenon DEF OwnerInv
<1> USE PathsAssumption, DevicesAssumption
<1> USE DEF OwnerInv, TypeOK, ClosesFrom, At, Created, SweptAreGone, ToldAreClosed, DeletedAreTold,
            ServedAreNotTold, ResetIsMarked, Live, IsTTY, Goto, Threads,
            managerVars, deviceVars, worldVars, threadVars, loopVars
<1>1. CASE EnterEventLoop
  BY <1>0, <1>1 DEF EnterEventLoop
<1>2. CASE LeaveEventLoop
  BY <1>0, <1>2, SMTT(30) DEF LeaveEventLoop
<1>3. CASE ServeData
  BY <1>0, <1>3, SMTT(30) DEF ServeData
<1>4. CASE ListDescriptors
  <2>1. pc' = [pc EXCEPT !["event"] = "exited"] \/ pc' = [pc EXCEPT !["event"] = "select"]
    BY <1>4, Zenon DEF ListDescriptors
  <2> QED
    BY <1>0, <1>4, <2>1 DEF ListDescriptors
<1>5. CASE Select
  BY <1>0, <1>5, SMTT(30) DEF Select, opened, working, TTYWorks
<1>6. CASE FindNonWorking
  BY <1>0, <1>6, SMTT(30) DEF FindNonWorking, opened, working, TTYWorks, isClosed
<1>7. CASE removeNonWorkingSerialDevices
  BY <1>0, <1>7, SMTT(30) DEF removeNonWorkingSerialDevices, Unreferenced
<1>8. CASE startEventLoop
  BY <1>0, <1>8, SMTT(30) DEF startEventLoop
<1>9. CASE EndSetup
  BY <1>0, <1>9, SMTT(30) DEF EndSetup
<1>10. CASE EndWait
  BY <1>0, <1>10, SMTT(30) DEF EndWait
<1>11. CASE EndCloseAll
  BY <1>0, <1>11, SMTT(30) DEF EndCloseAll
<1>12. CASE closeAllDoNotRemove
  BY <1>0, <1>12, SMTT(30) DEF closeAllDoNotRemove
<1>13. CASE JoinThreads
  BY <1>0, <1>13, Zenon DEF JoinThreads
<1>14. CASE LeaveTimerLoop
  BY <1>0, <1>14, SMTT(30) DEF LeaveTimerLoop
<1>15. CASE StartCheckup
  BY <1>0, <1>15 DEF StartCheckup
<1>16. CASE ExitAfter
  BY <1>0, <1>16, ZenonT(40) DEF ExitAfter
<1>17. CASE EndCheckup
  BY <1>0, <1>17 DEF EndCheckup
<1>18. CASE ExpectDevicesToWork
  BY <1>0, <1>18 DEF ExpectDevicesToWork
<1>19. ASSUME NEW d \in Devices, Notify(d) PROVE OwnerInv'
  BY <1>0, <1>19, SMTT(30)
  DEF Notify, EndOfInput, CallClose, CloseEnter, StopChild, DropDescriptor, Disappear, IsCommand
<1>20. ASSUME NEW d \in Devices, CloseNonWorking(d) PROVE OwnerInv'
  BY <1>0, <1>20, SMTT(30)
  DEF CloseNonWorking, CallClose, CloseEnter, StopChild, DropDescriptor, Disappear, IsCommand
<1>21. ASSUME NEW d \in Devices, CloseNext(d) PROVE OwnerInv'
  BY <1>0, <1>21, SMTT(30)
  DEF CloseNext, CallClose, CloseEnter, StopChild, DropDescriptor, Disappear, IsCommand
<1>22. ASSUME FinishClose("event") PROVE OwnerInv'
  BY <1>0, <1>22, SMTT(30)
  DEF FinishClose, CloseLeave, DropPipe, TellOwner, Disappear, MainHoldsLock, IsCommand
<1>23. ASSUME FinishClose("timer") PROVE OwnerInv'
  BY <1>0, <1>23, SMTT(30)
  DEF FinishClose, CloseLeave, DropPipe, TellOwner, Disappear, MainHoldsLock, IsCommand
<1>24. ASSUME FinishClose("main") PROVE OwnerInv'
  BY <1>0, <1>24, SMTT(30)
  DEF FinishClose, CloseLeave, DropPipe, TellOwner, Disappear, MainHoldsLock, IsCommand
<1>25. ASSUME NEW t \in {"main", "timer"}, CloseForReset(t) PROVE OwnerInv'
  BY <1>0, <1>25, SMTT(30)
  DEF CloseForReset, CallClose, CloseEnter, StopChild, DropDescriptor, Disappear, IsCommand
<1>26. ASSUME NEW t \in {"main", "timer"}, ReopenForReset(t) PROVE OwnerInv'
  <2>1. /\ t = "timer" /\ obj[t] \in Devices /\ resetting_[obj[t]]
        /\ pc["event"] \notin {"sweep", "closing"}
    BY <1>26, Zenon DEF ReopenForReset, SweepIsOver
  <2>2. \A d \in Devices : IsTTY(d) => (device_[d] \in exists' <=> device_[d] \in exists)
    BY <1>26, Zenon DEF ReopenForReset, StartChild, IsCommand
  <2>3. \/ pc' = [pc EXCEPT ![t] = "reopened"] /\ UNCHANGED obj
        \/ pc' = [pc EXCEPT ![t] = "checkup"] /\ obj' = [obj EXCEPT ![t] = NoDevice]
    BY <1>26, <2>1, Zenon DEF ReopenForReset, Return
  <2>4. \A d \in Devices : d # obj[t] => fd_'[d] = fd_[d]
    BY <1>26, ZenonT(40) DEF ReopenForReset
  <2> QED
    BY <1>0, <1>26, <2>1, <2>2, <2>3, <2>4, SMTT(30) DEF ReopenForReset
<1>27. ASSUME NEW t \in {"main", "timer"}, CompleteReset(t) PROVE OwnerInv'
  BY <1>0, <1>27, SMTT(30) DEF CompleteReset, Return
<1>28. ASSUME NEW t \in {"main", "timer"}, DropOwner(t) PROVE OwnerInv'
  BY <1>0, <1>28, SMTT(30) DEF DropOwner, Return
<1>29. ASSUME NEW t \in {"main", "timer"}, NEW d \in Devices, OpenDevice(t, d) PROVE OwnerInv'
  BY <1>0, <1>29, SMTT(30) DEF OpenDevice, OpenResults, TTYOpen, StartChild, IsCommand, Client
<1>30. ASSUME NEW t \in {"main", "timer"}, NEW d \in Devices, ResetDevice(t, d) PROVE OwnerInv'
  BY <1>0, <1>30, SMTT(30) DEF ResetDevice, Client, working, TTYWorks, IsCommand, IsFile
<1>31. ASSUME NEW t \in {"main", "timer"}, NEW d \in Devices, CloseDeadDevice(t, d)
       PROVE  OwnerInv'
  BY <1>0, <1>31, SMTT(30)
  DEF CloseDeadDevice, Client, working, CallClose, CloseEnter, StopChild, DropDescriptor, Disappear, IsCommand
<1>32. ASSUME NEW t \in {"main", "timer"}, NEW d \in Devices, NEW p \in Paths, CreateDevice(t, d, p)
       PROVE  OwnerInv'
  BY <1>0, <1>32, SMTT(30) DEF CreateDevice, Client
<1>33. ASSUME NEW p \in Paths, Unplug(p) PROVE OwnerInv'
  BY <1>0, <1>33, SMTT(30) DEF Unplug
<1>34. ASSUME NEW p \in Paths, Replug(p) PROVE OwnerInv'
  BY <1>0, <1>34, SMTT(30) DEF Replug, SweepIsOver
<1>35. ASSUME NEW p \in Paths, DataArrives(p) PROVE OwnerInv'
  BY <1>0, <1>35 DEF DataArrives
<1> QED
  BY <1>1, <1>2, <1>3, <1>4, <1>5, <1>6, <1>7, <1>8, <1>9, <1>10, <1>11, <1>12, <1>13, <1>14,
     <1>15, <1>16, <1>17, <1>18, <1>19, <1>20, <1>21, <1>22, <1>23, <1>24, <1>25, <1>26,
     <1>27, <1>28, <1>29, <1>30, <1>31, <1>32, <1>33, <1>34, <1>35, ZenonT(40)
  DEF ManagerStep, EventStep, MainStep, TimerStep, ClientProceeds, ClientBegins, World

LEMMA OwnerInitially == Init => OwnerInv
<1> SUFFICES ASSUME Init PROVE OwnerInv
  OBVIOUS
<1>1. TypeOK
  BY Zenon DEF Init, TypeOK, Threads
<1>2. /\ pc["main"] = "setup" /\ pc["event"] = "blocked" /\ pc["timer"] = "sleep"
      /\ serial_devices_ = {} /\ todo["event"] = {} /\ todo["main"] = {}
      /\ \A t \in Threads : obj[t] = NoDevice
      /\ \A d \in Devices : device_[d] = NoPath /\ on_data_[d] = FALSE
  BY Zenon DEF Init, Threads
<1> QED
  BY <1>1, <1>2, PathsAssumption, DevicesAssumption, Zenon
  DEF OwnerInv, ClosesFrom, At, Created, SweptAreGone, ToldAreClosed, DeletedAreTold,
      ServedAreNotTold, ResetIsMarked, Live, IsTTY, Paths, Threads

\* A signal changes nothing that an owner depends on, and the manager of the
\* next life begins like the first.
LEMMA OwnerInEveryLife ==
  ASSUME OwnerInv, [ProgramNext]_allVars
  PROVE  OwnerInv'
<1> DEFINE Same == UNCHANGED <<serial_devices_, deviceVars, worldVars, threadVars, loopVars,
                               expect_devices_to_work_, event_loop_free>>
<1>1. ASSUME Same, running_' \in BOOLEAN PROVE OwnerInv'
  BY <1>1, SMTT(30)
  DEF OwnerInv, TypeOK, ClosesFrom, At, Created, SweptAreGone, ToldAreClosed, DeletedAreTold,
      ServedAreNotTold, ResetIsMarked, Live, IsTTY, deviceVars, worldVars, threadVars, loopVars
<1>2. running_ \in BOOLEAN
  BY Zenon DEF OwnerInv, TypeOK
<1>3. ASSUME UNCHANGED vars PROVE OwnerInv'
  <2>1. Same /\ UNCHANGED running_
    BY <1>3, Zenon DEF vars, managerVars, deviceVars, worldVars, threadVars, loopVars
  <2> QED
    BY <2>1, <1>1, <1>2, Zenon
<1>4. CASE Run
  BY <1>4, OwnerStep, Zenon DEF Run, InRun
<1>5. CASE ResetManager
  <2>1. Init'
    BY <1>5, Zenon DEF ResetManager, Init, Threads
  <2> QED
    BY <2>1, OwnerInitially, PTL
<1>6. ASSUME NEW hup \in BOOLEAN, exitHandler(hup) PROVE OwnerInv'
  <2>1. Same
    BY <1>6, Zenon DEF exitHandler, deviceVars, worldVars, threadVars, loopVars
  <2>2. running_' \in BOOLEAN
    BY <1>6, <1>2, Zenon DEF exitHandler
  <2> QED
    BY <2>1, <2>2, <1>1, Zenon
<1>7. CASE restoreSignalHandlers \/ RestartOrExit \/ Start \/ Killed \/ Over \/ UNCHANGED allVars
  BY <1>7, <1>3, Zenon DEF restoreSignalHandlers, RestartOrExit, Start, Killed, Over, allVars
<1> QED
  BY <1>4, <1>5, <1>6, <1>7, Zenon DEF ProgramNext, StartStep

LEMMA ServedHasOwner == OwnerInv => CallbackHasOwner
  BY PathsAssumption, Zenon DEF OwnerInv, TypeOK, At, Created, DeletedAreTold, ServedAreNotTold,
     Live, IsTTY, CallbackHasOwner, Serving, Paths, Threads

\* Whatever is unplugged, plugged in again, reset, refused or signalled, and
\* however the threads interleave: while the program runs, no bus device of a tty is
\* deleted under the event loop thread that is inside of its processSerialData.
THEOREM OwnerOutlivesCallback == ProgramSpec => []CallbackHasOwner
<1>1. ProgramInit => OwnerInv
  BY OwnerInitially DEF ProgramInit
<1>2. OwnerInv /\ [ProgramNext]_allVars => OwnerInv'
  BY OwnerInEveryLife, Zenon
<1> QED
  BY <1>1, <1>2, ServedHasOwner, PTL DEF ProgramSpec

-----------------------------------------------------------------------------
\* The flag of the signal handler and the last signal agree.
FlagFollowsSignal == last # "none" => got_hupped_ = (last = "hup")

\* The last signal that exitHandler has seen in a life decides whether the program
\* loads its configuration again or ends.
THEOREM SignalDecides == ProgramSpec => LastSignalDecides
<1>1. ProgramInit => FlagFollowsSignal
  BY Zenon DEF ProgramInit, FlagFollowsSignal
<1>2. FlagFollowsSignal /\ [ProgramNext]_allVars => FlagFollowsSignal'
  BY Zenon DEF FlagFollowsSignal, ProgramNext, allVars, programVars, Run, InRun, StartStep,
     ResetManager, restoreSignalHandlers, RestartOrExit, Start, Killed, Over, exitHandler
<1>3. FlagFollowsSignal /\ [ProgramNext]_allVars =>
        [phase = "restored" /\ phase' # "restored" /\ last # "none"
           => phase' \in {IF last = "hup" THEN "load" ELSE "exited", "killed"}]_allVars
  BY Zenon
  DEF FlagFollowsSignal, ProgramNext, allVars, programVars, Run, InRun, StartStep, ResetManager,
         restoreSignalHandlers, RestartOrExit, Start, Killed, Over, exitHandler
<1> QED
  BY <1>1, <1>2, <1>3, PTL DEF ProgramSpec, LastSignalDecides

=============================================================================
