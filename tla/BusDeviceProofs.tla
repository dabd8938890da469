--------------------------- MODULE BusDeviceProofs ---------------------------
(* The safety of the supervision of a bus device, for all limits, activity *)
(* periods and combinations of faults.                                      *)
EXTENDS BusDevice, TLAPS

\* The type invariant, its numbers and the rest.
Numbers ==
    /\ tries \in 0..(Retries + 1)
    /\ since_received \in 0..(Timeout + 1)
    /\ since_reset \in 0..(ResetTimeout + 1)
    /\ silence \in 0..(Timeout + 1)
    /\ clock \in 0..(Day - 1)
    /\ protocol_error_count_ \in 0..ErrorLimit

Flags ==
    /\ pc \in Labels /\ why \in Reasons
    /\ fd \in BOOLEAN /\ resetting_ \in BOOLEAN /\ pending \in BOOLEAN
    /\ link_modes_configured_ \in BOOLEAN /\ listening \in BOOLEAN
    /\ running_ \in BOOLEAN /\ stopped_by_user \in BOOLEAN
    /\ alarms \subseteq Alarms /\ expected_activity_ \in Activities

\* The last attempt at setting link modes is made with the manager stopped.
LastTry == tries > Retries => ~running_

\* last_received_ is never earlier than the last telegram.
ReceivedSinceHeard == since_received <= silence

\* Outside of a reset and of the setting of link modes, an open device has its
\* link modes, or the manager is stopped; before the link modes are set for the
\* first time they are not marked as configured; a closed device has no descriptor;
\* and no reset is part of the setup.
LinkModesKept ==
    /\ pc \in {"idle", "expired", "reset"} /\ fd /\ ~resetting_ /\ link_modes_configured_
           => listening \/ ~running_
    /\ pc = "opened" => ~link_modes_configured_
    /\ pc = "closed" => ~fd
    /\ pc \in {"reset", "closed", "reopened"} => why # "setup"

IInv == Numbers /\ Flags /\ LastTry /\ ReceivedSinceHeard /\ LinkModesKept /\ StopsWithAlarm

USE DEF controlVars, serialVars, modeVars, timeVars, managerVars

\* The device is opened, and not yet heard, in a running program.
LEMMA InitInvariant == Init => IInv
<1> SUFFICES ASSUME Init
             PROVE  IInv
  BY Zenon
<1>1. Numbers /\ LastTry /\ ReceivedSinceHeard
  BY LimitsAssumption DEF Init, Numbers, LastTry, ReceivedSinceHeard
<1>2. Flags /\ LinkModesKept /\ StopsWithAlarm
  BY Zenon DEF Init, Flags, Labels, Reasons, LinkModesKept, StopsWithAlarm
<1> QED
  BY <1>1, <1>2, Zenon DEF IInv

\* An age grows by one until it exceeds its limit.
LEMMA UpToBound ==
  ASSUME NEW limit \in Nat, NEW age \in 0..(limit + 1)
  PROVE  UpTo(age, limit) \in 0..(limit + 1)
  BY DEF UpTo

\* Two ages with the same limit keep their order as time passes.
LEMMA UpToMonotone ==
  ASSUME NEW limit \in Nat, NEW a \in 0..(limit + 1), NEW b \in 0..(limit + 1), a <= b
  PROVE  UpTo(a, limit) <= UpTo(b, limit)
  BY SMTT(30) DEF UpTo

\* Every step of either thread, of time and of the user keeps the numbers in
\* range and the ages in order.
LEMMA NumbersStep ==
  ASSUME IInv, [Next]_vars
  PROVE  Numbers' /\ LastTry' /\ ReceivedSinceHeard'
<1> USE LimitsAssumption DEF IInv, Numbers, LastTry, ReceivedSinceHeard
<1>1. CASE SetLinkModes
  BY <1>1 DEF SetLinkModes
<1>2. CASE CannotSetLinkModes
  BY <1>2, Zenon DEF CannotSetLinkModes
<1>3. CASE DeviceSetLinkModes
  BY <1>3 DEF DeviceSetLinkModes, LinkModesDone
<1>4. CASE SetLinkModesFails
  <2>1. CASE ~running_
    <3>1. tries' = 0 /\ UNCHANGED <<timeVars, managerVars>>
      BY <1>4, <2>1, Zenon DEF SetLinkModesFails, LinkModesDone
    <3>2. protocol_error_count_' \in {0, protocol_error_count_}
      BY <1>4, <2>1, Zenon DEF SetLinkModesFails, LinkModesDone
    <3> QED
      BY <3>1, <3>2
  <2>2. CASE running_
    <3>1. tries' = tries + 1 /\ (tries + 1 > Retries => ~running_')
      BY <1>4, <2>2, Zenon DEF SetLinkModesFails, Stop
    <3>2. UNCHANGED <<timeVars, protocol_error_count_>>
      BY <1>4, <2>2, Zenon DEF SetLinkModesFails
    <3> QED
      BY <2>2, <3>1, <3>2 DEF Flags
  <2> QED
    BY <2>1, <2>2, Zenon
<1>5. CASE RegularReset
  BY <1>5, Zenon DEF RegularReset
<1>6. CASE TooManyErrors
  BY <1>6, Zenon DEF TooManyErrors
<1>7. CASE TimeoutExpires
  BY <1>7, Zenon DEF TimeoutExpires
<1>8. CASE DealWithTimeout
  BY <1>8 DEF DealWithTimeout
<1>9. CASE CloseForReset
  BY <1>9 DEF CloseForReset
<1>10. CASE Reopen
  BY <1>10, Zenon DEF Reopen
<1>11. CASE ReopenFails
  BY <1>11, Zenon DEF ReopenFails, Stop
<1>12. CASE CompleteReset
  BY <1>12 DEF CompleteReset, LinkModesDone
<1>13. CASE HandleTelegram
  BY <1>13 DEF HandleTelegram
<1>14. CASE ProtocolErrorDetected
  <2>1. UNCHANGED <<controlVars, timeVars, managerVars>>
    BY <1>14, Zenon DEF ProtocolErrorDetected
  <2>2. protocol_error_count_' \in {protocol_error_count_ + 1, ErrorLimit}
        /\ protocol_error_count_' <= ErrorLimit
    <3>1. CASE protocol_error_count_ < ErrorLimit
      <4>1. protocol_error_count_' = protocol_error_count_ + 1
        BY <1>14, <3>1, Zenon DEF ProtocolErrorDetected
      <4> QED
        BY <3>1, <4>1
    <3>2. CASE ~(protocol_error_count_ < ErrorLimit)
      <4>1. protocol_error_count_' = ErrorLimit
        BY <1>14, <3>2, Zenon DEF ProtocolErrorDetected
      <4> QED
        BY <4>1
    <3> QED
      BY <3>1, <3>2, Zenon
  <2> QED
    BY <2>1, <2>2
<1>15. CASE DataArrives
  BY <1>15, Zenon DEF DataArrives
<1>16. CASE Tick
  <2>1. since_received' \in 0..(Timeout + 1) /\ silence' \in 0..(Timeout + 1)
        /\ since_reset' \in 0..(ResetTimeout + 1)
    BY <1>16, UpToBound, Zenon DEF Tick
  <2>2. since_received' <= silence'
    BY <1>16, UpToMonotone, Zenon DEF Tick
  <2>3. clock' \in 0..(Day - 1)
    BY <1>16 DEF Tick
  <2> QED
    BY <1>16, <2>1, <2>2, <2>3, Zenon DEF Tick
<1>17. CASE UserStops
  BY <1>17, Zenon DEF UserStops
<1>18. CASE Ended \/ UNCHANGED vars
  BY <1>18 DEF Ended, vars
<1> QED
  BY <1>1, <1>2, <1>3, <1>4, <1>5, <1>6, <1>7, <1>8, <1>9, <1>10,
     <1>11, <1>12, <1>13, <1>14, <1>15, <1>16, <1>17, <1>18
  DEF Next, TimerStep, EventStep

\* Every step keeps the link modes and announces the end of the program.
LEMMA FlagsStep ==
  ASSUME IInv, [Next]_vars
  PROVE  Flags' /\ LinkModesKept' /\ StopsWithAlarm'
<1> USE DEF IInv, Flags, LinkModesKept, StopsWithAlarm, Labels, Reasons, Alarms
<1>1. CASE SetLinkModes
  BY <1>1, Zenon DEF SetLinkModes
<1>2. CASE CannotSetLinkModes
  BY <1>2 DEF CannotSetLinkModes
<1>3. CASE DeviceSetLinkModes
  BY <1>3, Zenon DEF DeviceSetLinkModes, LinkModesDone
<1>4. CASE SetLinkModesFails
  BY <1>4, Zenon DEF SetLinkModesFails, LinkModesDone, Alarm, Stop
<1>5. CASE RegularReset
  BY <1>5, Zenon DEF RegularReset, CheckStatus, BeginReset
<1>6. CASE TooManyErrors
  BY <1>6 DEF TooManyErrors, CheckStatus, BeginReset, Alarm
<1>7. CASE TimeoutExpires
  BY <1>7 DEF TimeoutExpires, CheckStatus
<1>8. CASE DealWithTimeout
  BY <1>8, ZenonT(40) DEF DealWithTimeout, BeginReset, Alarm
<1>9. CASE CloseForReset
  BY <1>9, Zenon DEF CloseForReset
<1>10. CASE Reopen
  BY <1>10, Zenon DEF Reopen
<1>11. CASE ReopenFails
  BY <1>11, Zenon DEF ReopenFails, Alarm, Stop
<1>12. CASE CompleteReset
  <2>1. CASE link_modes_configured_
    BY <1>12, <2>1, Zenon DEF CompleteReset
  <2>2. CASE ~link_modes_configured_
    <3>1. pc' = "idle" /\ why' = "none" /\ ~resetting_' /\ resetting_' \in BOOLEAN
      BY <1>12, <2>2, Zenon DEF CompleteReset, LinkModesDone
    <3>2. link_modes_configured_' = (why = "setup")
      BY <1>12, <2>2, Zenon DEF CompleteReset, LinkModesDone
    <3>3. UNCHANGED <<fd, pending, listening, managerVars>>
      BY <1>12, <2>2, Zenon DEF CompleteReset
    <3> QED
      BY <3>1, <3>2, <3>3, <1>12 DEF CompleteReset
  <2> QED
    BY <2>1, <2>2, Zenon
<1>13. CASE HandleTelegram
  BY <1>13, ZenonT(40) DEF HandleTelegram
<1>14. CASE ProtocolErrorDetected
  BY <1>14, ZenonT(40) DEF ProtocolErrorDetected
<1>15. CASE DataArrives
  BY <1>15 DEF DataArrives
<1>16. CASE Tick
  BY <1>16 DEF Tick
<1>17. CASE UserStops
  BY <1>17, ZenonT(40) DEF UserStops
<1>18. CASE Ended \/ UNCHANGED vars
  <2>1. UNCHANGED vars
    BY <1>18, Zenon DEF Ended
  <2> QED
    BY <2>1 DEF vars
<1> QED
  BY <1>1, <1>2, <1>3, <1>4, <1>5, <1>6, <1>7, <1>8, <1>9, <1>10,
     <1>11, <1>12, <1>13, <1>14, <1>15, <1>16, <1>17, <1>18, Zenon
  DEF Next, TimerStep, EventStep

\* The inductive invariant holds in every reachable state.
LEMMA Invariant == Spec => []IInv
<1>1. IInv /\ [Next]_vars => IInv'
  BY NumbersStep, FlagsStep, Zenon DEF IInv
<1> QED
  BY <1>1, InitInvariant, PTL DEF Spec

\* The types of the supervision hold in every reachable state.
THEOREM TypeCorrect == Spec => []TypeOK
<1>1. IInv => TypeOK
  BY Zenon DEF IInv, Numbers, Flags, TypeOK
<1> QED
  BY <1>1, Invariant, PTL

\* Whatever resets an open device went through and however they failed, it
\* listens with its link modes or the program ends.
THEOREM LinkModesSurviveResets == Spec => []ListensOrStops
<1>1. IInv => ListensOrStops
  BY Zenon DEF IInv, LinkModesKept, ListensOrStops
<1> QED
  BY <1>1, Invariant, PTL

\* The supervision never ends the program without a DeviceFailure alarm.
THEOREM EndIsAnnounced == Spec => []StopsWithAlarm
<1>1. IInv => StopsWithAlarm
  BY Zenon DEF IInv
<1> QED
  BY <1>1, Invariant, PTL

\* The inactivity timeout expires only after timeout_ seconds of real silence.
THEOREM SilenceIsReal == Spec => ExpiresOnlyInSilence
<1>1. IInv /\ [Next]_vars => [pc # "expired" /\ pc' = "expired" => silence >= Timeout]_vars
  <2> SUFFICES ASSUME IInv, [Next]_vars, pc # "expired", pc' = "expired"
               PROVE  silence >= Timeout
    BY Zenon
  <2>1. TimeoutExpires
    BY Zenon DEF Next, TimerStep, EventStep, SetLinkModes, CannotSetLinkModes, DeviceSetLinkModes,
           SetLinkModesFails, RegularReset, TooManyErrors, DealWithTimeout, CloseForReset,
           Reopen, ReopenFails, CompleteReset, HandleTelegram, ProtocolErrorDetected,
           DataArrives, Tick, UserStops, Ended, vars, BeginReset, LinkModesDone
  <2> QED
    BY <2>1, LimitsAssumption DEF IInv, Numbers, ReceivedSinceHeard, TimeoutExpires, TimeoutIsOver
<1> QED
  BY <1>1, Invariant, PTL DEF Spec, ExpiresOnlyInSilence

=============================================================================
