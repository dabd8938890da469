------------------------------ MODULE BusDevice ------------------------------
(* The supervision of one bus device: link modes are set and retried, the  *)
(* regular checkup (checkStatus) resets the device when it is due, when it *)
(* produced too many protocol errors, or when it was silent for too long,  *)
(* and stops the program when that fails.                                  *)
(*                                                                         *)
(* The timer thread runs setLinkModes, checkStatus and reset; the event    *)
(* loop thread hands in telegrams and protocol errors at any moment.  Time *)
(* is kept as ages: the seconds since last_received_ and last_reset_, each *)
(* of which stops counting once it exceeds the limit it is compared with.  *)
EXTENDS Naturals, FiniteSets

CONSTANTS
    Timeout,         \* timeout_: alarm_timeout, 0 when no alarm is wanted
    ResetTimeout,    \* reset_timeout_: 23 hours, or resetafter
    ErrorLimit,      \* protocol errors that make a reset necessary (20)
    Retries,         \* further attempts at setting the link modes (3)
    Day,             \* length of the cycle of expected_activity_
    Readonly,        \* readonly(): stdin and files are never reset regularly
    Activities,      \* choices of expected_activity_: sets of moments of the cycle
    Faults           \* what goes wrong: subset of FaultKinds

FaultKinds == {"open fails", "link modes fail", "protocol errors", "user stops"}

ASSUME LimitsAssumption ==
    /\ Timeout \in Nat /\ ResetTimeout \in Nat
    /\ ErrorLimit \in Nat \ {0} /\ Retries \in Nat /\ Day \in Nat \ {0}
ASSUME ReadonlyAssumption == Readonly \in BOOLEAN
ASSUME ActivitiesAssumption == Activities \subseteq SUBSET (0..(Day - 1))
ASSUME FaultsAssumption == Faults \subseteq FaultKinds

VARIABLES
    pc,                      \* where the timer thread is
    why,                     \* why it resets the device
    tries,                   \* failed attempts in retrySetLinkModes
    fd,                      \* does the serial device have a descriptor?
    resetting_,              \* of the serial device
    pending,                 \* has the serial device unread bytes?
    link_modes_configured_,
    listening,               \* has the dongle got link_modes_? (external)
    since_received,          \* now - last_received_
    since_reset,             \* now - last_reset_
    protocol_error_count_,
    running_,                \* of the manager
    alarms,                  \* the alarms logged so far
    clock,                   \* the moment of the cycle of expected_activity_
    expected_activity_,      \* the moments of the cycle with expected activity
    silence,                 \* seconds since the dongle was last heard
    stopped_by_user

controlVars == <<pc, why, tries>>
serialVars == <<fd, resetting_, pending>>
modeVars == <<link_modes_configured_, listening>>
timeVars == <<since_received, since_reset, clock, expected_activity_, silence>>
managerVars == <<running_, alarms, stopped_by_user>>
vars == <<controlVars, serialVars, modeVars, timeVars, protocol_error_count_, managerVars>>

Reasons == {"none", "setup", "regular", "errors", "inactivity"}
Alarms == {"DeviceFailure", "DeviceInactivity", "RegularResetFailure"}
Labels == {"opened", "idle", "expired", "reset", "closed", "reopened", "linkmodes"}

Init ==
    /\ pc = "opened"
    /\ why = "none"
    /\ tries = 0
    /\ fd = TRUE
    /\ resetting_ = FALSE
    /\ pending = FALSE
    /\ link_modes_configured_ = FALSE
    /\ listening = FALSE
    /\ since_received = 0
    /\ since_reset = 0
    /\ protocol_error_count_ = 0
    /\ running_ = TRUE
    /\ alarms = {}
    /\ clock \in 0..(Day - 1)
    /\ expected_activity_ \in Activities
    /\ silence = 0
    /\ stopped_by_user = FALSE

Stop == running_' = FALSE /\ UNCHANGED stopped_by_user
Alarm(a) == alarms' = alarms \cup {a}

-----------------------------------------------------------------------------
(* Setting the link modes.                                                  *)

\* setLinkModes, after openBusDeviceAndPotentiallySetLinkmodes made the device.
SetLinkModes ==
    /\ pc = "opened"
    /\ why' = "setup" /\ tries' = 0
    /\ pc' = "linkmodes"
    /\ UNCHANGED <<serialVars, modeVars, timeVars, protocol_error_count_, managerVars>>

\* canSetLinkModes refused them: the device is used as it is.
CannotSetLinkModes ==
    /\ pc = "opened"
    /\ pc' = "idle"
    /\ UNCHANGED <<why, tries, serialVars, modeVars, timeVars, protocol_error_count_, managerVars>>

\* What follows retrySetLinkModes: the end of setLinkModes, or of reset() and
\* the rest of checkStatus.
LinkModesDone ==
    /\ pc' = "idle" /\ why' = "none" /\ tries' = 0
    /\ link_modes_configured_' = (link_modes_configured_ \/ why = "setup")
    /\ protocol_error_count_' = IF why = "errors" THEN 0 ELSE protocol_error_count_

\* deviceSetLinkModes was confirmed by the dongle.
DeviceSetLinkModes ==
    /\ pc = "linkmodes" /\ fd
    /\ listening' = TRUE
    /\ LinkModesDone
    /\ UNCHANGED <<serialVars, timeVars, managerVars>>

\* Fault: retrySetLinkModes gives up without a word.
SetLinkModesGivesUp ==
    /\ pc = "linkmodes"
    /\ "link modes fail" \in Faults \/ ~fd
    /\ IF ~running_ \/ tries >= Retries
         THEN LinkModesDone
         ELSE /\ tries' = tries + 1
              /\ UNCHANGED <<pc, why, link_modes_configured_, protocol_error_count_>>
    /\ UNCHANGED <<listening, serialVars, timeVars, managerVars>>

\* deviceSetLinkModes failed: try again; after too many tries sound the alarm,
\* stop the manager and try a last time.
SetLinkModesFails ==
    /\ pc = "linkmodes"
    /\ "link modes fail" \in Faults \/ ~fd
    /\ IF ~running_
         THEN /\ LinkModesDone
              /\ UNCHANGED managerVars
         ELSE /\ tries' = tries + 1
              /\ IF tries + 1 > Retries
                   THEN Alarm("DeviceFailure") /\ Stop
                   ELSE UNCHANGED managerVars
              /\ UNCHANGED <<pc, why, link_modes_configured_, protocol_error_count_>>
    /\ UNCHANGED <<listening, serialVars, timeVars>>

-----------------------------------------------------------------------------
(* checkStatus, called by the regular checkup while the manager runs.       *)

CheckStatus == pc = "idle" /\ running_
BeginReset(reason) == pc' = "reset" /\ why' = reason

RegularResetIsDue ==
    ResetTimeout > 1 /\ since_reset > ResetTimeout /\ ~pending /\ ~Readonly
ErrorsAreTooMany == ~RegularResetIsDue /\ protocol_error_count_ >= ErrorLimit
TimeoutIsOver ==
    /\ ~RegularResetIsDue /\ protocol_error_count_ < ErrorLimit
    /\ Timeout # 0 /\ since_received >= Timeout

RegularReset ==
    /\ CheckStatus /\ RegularResetIsDue
    /\ BeginReset("regular")
    /\ UNCHANGED <<tries, serialVars, modeVars, timeVars, protocol_error_count_, managerVars>>

TooManyErrors ==
    /\ CheckStatus /\ ErrorsAreTooMany
    /\ Alarm("DeviceFailure")
    /\ BeginReset("errors")
    /\ UNCHANGED <<tries, serialVars, modeVars, timeVars, protocol_error_count_,
                   running_, stopped_by_user>>

\* Fault: a device without a descriptor is taken for a silent but healthy one.
TimeoutExpiresIfOpen ==
    /\ CheckStatus /\ TimeoutIsOver
    /\ IF fd THEN pc' = "expired" /\ UNCHANGED since_received
             ELSE since_received' = 0 /\ UNCHANGED pc
    /\ UNCHANGED <<why, tries, serialVars, modeVars, since_reset, clock, expected_activity_, silence,
                   protocol_error_count_, managerVars>>

TimeoutExpires ==
    /\ CheckStatus /\ TimeoutIsOver
    /\ pc' = "expired"
    /\ UNCHANGED <<why, tries, serialVars, modeVars, timeVars, protocol_error_count_, managerVars>>

\* isInsideTimePeriod of now and of then = now - timeout_.
InsideActivity ==
    clock \in expected_activity_ /\ (clock + Timeout * Day - Timeout) % Day \in expected_activity_

\* last_received_ is renewed; outside the expected activity nothing else happens.
DealWithTimeout ==
    /\ pc = "expired"
    /\ since_received' = 0
    /\ IF InsideActivity
         THEN Alarm("DeviceInactivity") /\ BeginReset("inactivity")
         ELSE pc' = "idle" /\ UNCHANGED <<why, alarms>>
    /\ UNCHANGED <<tries, serialVars, modeVars, since_reset, clock, expected_activity_, silence,
                   protocol_error_count_, running_, stopped_by_user>>

-----------------------------------------------------------------------------
(* reset(): close, three seconds of rest, open, link modes.                 *)

CloseForReset ==
    /\ pc = "reset"
    /\ since_reset' = 0
    /\ resetting_' = TRUE
    /\ fd' = FALSE /\ pending' = FALSE
    /\ pc' = "closed"
    /\ UNCHANGED <<why, tries, modeVars, since_received, clock, expected_activity_, silence,
                   protocol_error_count_, managerVars>>

\* The dongle may have lost its link modes.
Reopen ==
    /\ pc = "closed"
    /\ fd' = TRUE
    /\ listening' \in {listening, FALSE}
    /\ pc' = "reopened"
    /\ UNCHANGED <<why, tries, resetting_, pending, link_modes_configured_, timeVars,
                   protocol_error_count_, managerVars>>

\* open failed: reset() returns with resetting_ still set.  After a regular
\* reset that is an alarm, otherwise it is the end of the program.
ReopenFails ==
    /\ pc = "closed" /\ "open fails" \in Faults
    /\ IF why = "regular"
         THEN Alarm("RegularResetFailure") /\ UNCHANGED <<running_, stopped_by_user>>
         ELSE Alarm("DeviceFailure") /\ Stop
    /\ pc' = "idle" /\ why' = "none"
    /\ UNCHANGED <<tries, serialVars, modeVars, timeVars, protocol_error_count_>>

CompleteReset ==
    /\ pc = "reopened"
    /\ resetting_' = FALSE
    /\ IF link_modes_configured_
         THEN /\ pc' = "linkmodes" /\ tries' = 0
              /\ UNCHANGED <<why, link_modes_configured_, protocol_error_count_>>
         ELSE LinkModesDone
    /\ UNCHANGED <<fd, pending, listening, timeVars, managerVars>>

-----------------------------------------------------------------------------
(* The event loop: bytes arrive, and are a telegram or garbage.             *)

DataArrives ==
    /\ fd /\ running_ /\ ~pending
    /\ pending' = TRUE
    /\ UNCHANGED <<controlVars, fd, resetting_, modeVars, timeVars, protocol_error_count_,
                   managerVars>>

\* Fault: only telegrams that are not duplicates count as a sign of life.
HandleTelegramDuplicate ==
    /\ fd /\ ~resetting_ /\ pending
    /\ pending' = FALSE
    /\ silence' = 0
    /\ UNCHANGED <<controlVars, fd, resetting_, modeVars, since_received, since_reset, clock, expected_activity_,
                   protocol_error_count_, managerVars>>

\* handleTelegram: last_received_ is now.
HandleTelegram ==
    /\ fd /\ ~resetting_ /\ pending
    /\ pending' = FALSE
    /\ since_received' = 0 /\ silence' = 0
    /\ UNCHANGED <<controlVars, fd, resetting_, modeVars, since_reset, clock, expected_activity_,
                   protocol_error_count_, managerVars>>

\* The frame parser threw the received bytes away.  The count stops at the
\* limit it is compared with.
ProtocolErrorDetected ==
    /\ fd /\ ~resetting_ /\ pending /\ "protocol errors" \in Faults
    /\ pending' = FALSE
    /\ protocol_error_count_' =
           IF protocol_error_count_ < ErrorLimit THEN protocol_error_count_ + 1 ELSE ErrorLimit
    /\ UNCHANGED <<controlVars, fd, resetting_, modeVars, timeVars, managerVars>>

-----------------------------------------------------------------------------
(* Time, the user, and the specification.                                   *)

UpTo(age, limit) == IF age <= limit THEN age + 1 ELSE age

\* The checkup comes every two seconds, which is far less than one unit of
\* time: what is due is done first.  A reset takes less than ResetTimeout.
Tick ==
    /\ running_
    /\ pc \notin {"opened", "expired"}
    /\ ~(pc = "idle" /\ (RegularResetIsDue \/ ErrorsAreTooMany \/ TimeoutIsOver))
    /\ pc # "idle" /\ ResetTimeout > 1 => since_reset < ResetTimeout
    /\ since_received' = UpTo(since_received, Timeout)
    /\ since_reset' = UpTo(since_reset, ResetTimeout)
    /\ silence' = UpTo(silence, Timeout)
    /\ clock' = (clock + 1) % Day
    /\ UNCHANGED <<expected_activity_, controlVars, serialVars, modeVars, protocol_error_count_, managerVars>>

UserStops ==
    /\ "user stops" \in Faults /\ running_
    /\ running_' = FALSE /\ stopped_by_user' = TRUE
    /\ UNCHANGED <<controlVars, serialVars, modeVars, timeVars, protocol_error_count_, alarms>>

Ended == pc = "idle" /\ ~running_ /\ UNCHANGED vars

TimerStep ==
    \/ SetLinkModes \/ CannotSetLinkModes \/ DeviceSetLinkModes \/ SetLinkModesFails
    \/ RegularReset \/ TooManyErrors \/ TimeoutExpires \/ DealWithTimeout
    \/ CloseForReset \/ Reopen \/ ReopenFails \/ CompleteReset

EventStep == HandleTelegram \/ ProtocolErrorDetected

Next ==
    \/ TimerStep
    \/ EventStep
    \/ DataArrives
    \/ Tick
    \/ UserStops
    \/ Ended

Spec == Init /\ [][Next]_vars

\* The threads are scheduled and time passes.  Nothing makes the dongle answer,
\* the radio deliver or the device open.
Fairness == WF_vars(TimerStep) /\ WF_vars(EventStep) /\ WF_vars(Tick)
FairSpec == Spec /\ Fairness

-----------------------------------------------------------------------------
(* Properties.                                                              *)

\* The variables stay in their domains.
TypeOK ==
    /\ pc \in Labels /\ why \in Reasons
    /\ tries \in 0..(Retries + 1)
    /\ fd \in BOOLEAN /\ resetting_ \in BOOLEAN /\ pending \in BOOLEAN
    /\ link_modes_configured_ \in BOOLEAN /\ listening \in BOOLEAN
    /\ since_received \in 0..(Timeout + 1)
    /\ since_reset \in 0..(ResetTimeout + 1)
    /\ silence \in 0..(Timeout + 1)
    /\ clock \in 0..(Day - 1) /\ expected_activity_ \in Activities
    /\ protocol_error_count_ \in 0..ErrorLimit
    /\ running_ \in BOOLEAN /\ stopped_by_user \in BOOLEAN
    /\ alarms \subseteq Alarms

\* Between checkups an open device listens with the link modes it was given,
\* whatever resets it went through, unless the program is about to end: when
\* retrySetLinkModes returns without having set them, the manager is stopped.
ListensOrStops ==
    pc = "idle" /\ fd /\ ~resetting_ /\ link_modes_configured_ => listening \/ ~running_

\* The program never ends by itself without a DeviceFailure alarm: every
\* manager_->stop() of the supervision follows a logAlarm.
StopsWithAlarm ==
    ~running_ /\ ~stopped_by_user => "DeviceFailure" \in alarms

\* checkStatus finds the inactivity timeout expired only when the device was
\* really not heard for timeout_ seconds, although last_received_ is written
\* by both threads, and for two reasons.
ExpiresOnlyInSilence ==
    [][pc # "expired" /\ pc' = "expired" => silence >= Timeout]_vars

AlwaysActive == expected_activity_ = 0..(Day - 1)

\* A device whose regular reset failed has neither descriptor nor owner's
\* notice; if activity is expected all the time, the inactivity timeout still
\* finds it and resets it again or ends the program.
FailedResetIsRetried == (AlwaysActive /\ ~fd) ~> (fd \/ ~running_)

\* README.md: "Expect a telegram to arrive within <time> seconds, eg 60s, 60m,
\* 24h during expected activity": when no telegram arrives any more and activity
\* is expected all the time, the device is reported as inactive or as failing,
\* unless the user stops the program.
SilenceIsReported ==
    AlwaysActive /\ <>[](silence > Timeout) =>
        <>({"DeviceInactivity", "DeviceFailure"} \cap alarms # {} \/ stopped_by_user)

=============================================================================
