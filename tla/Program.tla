------------------------------ MODULE Program ------------------------------
(* The life of the program: start_using_config_files loads the             *)
(* configuration, start creates a serial manager and runs it until it is   *)
(* stopped, and a hang up signal makes it begin again.  The manager of each *)
(* life is the one of SerialManager; the flag of the signal handler         *)
(* outlives them all.                                                      *)
EXTENDS SerialManager

VARIABLES
    phase,          \* "load", "run", "reset", "restored", "exited" or "killed"
    got_hupped_,
    last            \* the last signal the handler has seen in this life

programVars == <<phase, got_hupped_, last>>
allVars == <<vars, programVars>>

\* onExit has been called for the manager, or for one that is gone by now.
signalsInstalled == phase \in {"run", "reset"}

ProgramInit ==
    /\ Init
    /\ phase = "run" /\ got_hupped_ = FALSE /\ last = "none"

\* start: the threads of the manager run, the main thread waits for the stop.
InRun(step) == phase = "run" /\ step /\ UNCHANGED programVars
Run == InRun(ManagerStep)

\* start: serial_manager_.reset(), while the signal handlers still know the manager.
\* Nothing is left of its devices; what is unplugged is plugged in again.
ResetManager ==
    /\ phase = "run" /\ pc["main"] = "end"
    /\ phase' = "reset"
    /\ running_' = TRUE /\ expect_devices_to_work_' = FALSE
    /\ serial_devices_' = {} /\ event_loop_free' = FALSE
    /\ device_' = [d \in Devices |-> NoPath] /\ fd_' = [d \in Devices |-> -2]
    /\ resetting_' = [d \in Devices |-> FALSE] /\ is_working_' = [d \in Devices |-> FALSE]
    /\ on_data_' = [d \in Devices |-> FALSE] /\ on_disappear_' = [d \in Devices |-> FALSE]
    /\ exists' = Paths /\ pending' = {}
    /\ pc' = [main |-> "setup", event |-> "blocked", timer |-> "sleep"]
    /\ obj' = [t \in Threads |-> NoDevice] /\ after' = [t \in Threads |-> "none"]
    /\ readfds' = {} /\ todo' = [t \in Threads |-> {}] /\ lost' = FALSE
    /\ UNCHANGED <<got_hupped_, last>>

restoreSignalHandlers ==
    /\ phase = "reset"
    /\ phase' = "restored"
    /\ UNCHANGED <<vars, got_hupped_, last>>

\* start returns gotHupped(), and start_using_config_files loops.
RestartOrExit ==
    /\ phase = "restored"
    /\ phase' = IF got_hupped_ THEN "load" ELSE "exited"
    /\ UNCHANGED <<vars, got_hupped_, last>>

\* loadConfiguration, createSerialCommunicationManager and onExit.
Start ==
    /\ phase = "load"
    /\ phase' = "run" /\ last' = "none"
    /\ UNCHANGED <<vars, got_hupped_>>

\* Fault: the flag is only ever set.
exitHandlerSticky(hup) ==
    /\ "signal" \in Faults /\ signalsInstalled
    /\ got_hupped_' = (got_hupped_ \/ hup) /\ last' = IF hup THEN "hup" ELSE "term"
    /\ running_' = (phase # "run" /\ running_)
    /\ UNCHANGED <<expect_devices_to_work_, serial_devices_, event_loop_free, deviceVars,
                   worldVars, threadVars, loopVars, phase>>

\* SIGHUP, or SIGINT or SIGTERM, with the handler: stop() of the manager.  The
\* handler may be called for a manager that was just deleted, which then takes no
\* notice of it.
exitHandler(hup) ==
    /\ "signal" \in Faults /\ signalsInstalled
    /\ got_hupped_' = hup /\ last' = IF hup THEN "hup" ELSE "term"
    /\ running_' = (phase # "run" /\ running_)
    /\ UNCHANGED <<expect_devices_to_work_, serial_devices_, event_loop_free, deviceVars,
                   worldVars, threadVars, loopVars, phase>>

\* Any of the signals without a handler ends the process.
Killed ==
    /\ "signal" \in Faults /\ phase \in {"load", "restored"}
    /\ phase' = "killed"
    /\ UNCHANGED <<vars, got_hupped_, last>>

\* The process is gone.
Over ==
    /\ phase \in {"exited", "killed"}
    /\ UNCHANGED allVars

StartStep == ResetManager \/ restoreSignalHandlers \/ RestartOrExit \/ Start

ProgramNext ==
    \/ Run \/ StartStep \/ Killed \/ Over
    \/ \E hup \in BOOLEAN : exitHandler(hup)

ProgramSpec == ProgramInit /\ [][ProgramNext]_allVars

\* The fairness of the manager; the main thread goes on after it.
ProgramFairness ==
    /\ WF_allVars(InRun(MainStep \/ ClientProceeds("main")) \/ StartStep)
    /\ WF_allVars(InRun(EventStep)) /\ WF_allVars(InRun(TimerStep))
    /\ SF_allVars(InRun(EndCheckup)) /\ SF_allVars(InRun(ReopenForReset("timer")))

FairProgram == ProgramSpec /\ ProgramFairness

-----------------------------------------------------------------------------

\* Once stop() was called, by a signal, an alarm or a lost device, the loops end, the
\* main thread joins them, and the program loads its configuration anew or ends
\* (serial.cc waitForStop, main.cc start).
StopEndsLife == ~running_ ~> phase \in {"load", "exited", "killed"}

\* The last signal that the handler has seen decides whether the configuration is
\* loaded again, whatever was received in earlier lives and whatever else stopped
\* the manager (main.cc start_using_config_files, signal_handling.cc exitHandler).
LastSignalDecides ==
    [][phase = "restored" /\ phase' # "restored" /\ last # "none"
         => phase' \in {IF last = "hup" THEN "load" ELSE "exited", "killed"}]_allVars
=============================================================================
