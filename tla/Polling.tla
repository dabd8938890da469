------------------------------ MODULE Polling ------------------------------
(* Polling the meters of a wired m-bus.                                     *)
(*                                                                         *)
(* The timer thread calls pollMeters: for each meter whose poll interval   *)
(* has passed it selects the meter, requests a telegram and waits on the   *)
(* meter's semaphore; as long as the telegram says that more records       *)
(* follow, it toggles the frame count bit and requests the next one.  The  *)
(* telegrams are read by the event loop thread, which stores                *)
(* more_records_follow_, signals the semaphore and only then updates the   *)
(* meter and the time its poll interval is counted from.                    *)
EXTENDS Naturals, Sequences

CONSTANTS
    Setups,          \* installations: [meters, delay, contents]
    Slaves,          \* the devices connected to the m-bus
    Parts,           \* telegrams of each slave's reading, 0: it never ends
    RepollLimit,     \* 10
    LineLength       \* bound: telegrams on the line

ASSUME SlavesAssumption == Parts \in [Slaves -> Nat]
\* An installation: the meters, a sequence of [slave, address, bus, interval],
\* and what the line is like.  With a "timely" line no telegram arrives after the
\* five seconds of a wait; with a "late" one it may, and there are spurious
\* wakeups.
ASSUME MetersAssumption ==
    \A i \in Setups :
        /\ i.delay \in {"timely", "late"}
        /\ i.meters \in Seq({i.meters[k] : k \in DOMAIN i.meters})
        /\ \A k \in DOMAIN i.meters :
              /\ i.meters[k].slave \in Slaves
              /\ i.meters[k].interval \in Nat
              /\ i.meters[k].address \in {"primary", "secondary", "wildcard", "bad", "none"}
ASSUME PollingBounds == RepollLimit \in Nat /\ LineLength \in Nat

VARIABLES
    setup,                \* the installation
    tpc,                  \* where the timer thread is
    m,                    \* the meter it polls
    fcb,                  \* the frame count bit of the next request
    next_telegram,        \* not the first request of this poll
    num_repolls,
    buses,                \* the bus aliases that findBus finds
    elapsed,              \* has the interval passed since datetime_of_poll_?
    more_records_follow_, \* of each meter
    lpc,                  \* where the event loop thread is
    handling,             \* the telegram it handles
    receiver,             \* the meter of meters_ it is handled by
    selected,             \* slaves that answer address 253
    primed,               \* has the selection of this poll reached the slave?
    slaveFcb,             \* the last frame count bit a slave has seen
    part,                 \* the part a slave sent last
    line,                 \* telegrams sent by the slaves, not read yet
    got                   \* parts the polled meter handled since its poll began

meters_ == setup.meters
Meters == DOMAIN meters_
delay == setup.delay

timerVars == <<tpc, m, fcb, next_telegram, num_repolls>>
meterVars == <<elapsed, more_records_follow_>>
pollLoopVars == <<lpc, handling, receiver>>
slaveVars == <<selected, primed, slaveFcb, part>>
pollVars == <<setup, buses, timerVars, meterVars, pollLoopVars, slaveVars, line, got>>

NoTelegram == [slave |-> "none", part |-> 0, more |-> FALSE]

PollInit ==
    /\ setup \in Setups
    /\ tpc = "idle" /\ m = 1 /\ fcb = 1 /\ next_telegram = FALSE /\ num_repolls = 0
    /\ buses = {meters_[k].bus : k \in Meters}
    /\ elapsed = [k \in Meters |-> TRUE]
    /\ more_records_follow_ = [k \in Meters |-> FALSE]
    /\ lpc = "select" /\ handling = NoTelegram /\ receiver = 1
    /\ selected = {} /\ primed = FALSE
    /\ slaveFcb = [s \in Slaves |-> 0]
    /\ part = [s \in Slaves |-> 0]
    /\ line = <<>>
    /\ got = <<>>

-----------------------------------------------------------------------------
(* The slaves of the m-bus (external): selecting one deselects the others   *)
(* and clears its frame count bit; a request with the other bit than the    *)
(* last one asks for the next telegram, with the same bit for a repetition. *)

Last(s, k) == Parts[s] # 0 /\ k = Parts[s]

\* The part that slave s sends when asked with bit b.
PartSent(s, b) ==
    IF b = slaveFcb[s] /\ part[s] # 0 THEN part[s]
    ELSE IF Last(s, part[s]) THEN 1
    ELSE IF Parts[s] = 0 THEN 1
    ELSE part[s] + 1

TelegramOf(s, b) ==
    [slave |-> s, part |-> PartSent(s, b), more |-> ~Last(s, PartSent(s, b))]

\* SND_UD to address 253; line noise may destroy it.
SlaveSelected(s) ==
    \/ /\ selected' = {s} /\ primed' = TRUE
       /\ slaveFcb' = [slaveFcb EXCEPT ![s] = 0]
       /\ part' = [part EXCEPT ![s] = 0]
    \/ primed' = FALSE /\ UNCHANGED <<selected, slaveFcb, part>>

\* REQ_UD2 to the slaves in S; the request or the answer may be destroyed.
SlaveRequested(S, b) ==
    \/ UNCHANGED <<slaveVars, line>>
    \/ \E s \in S :
         /\ slaveFcb' = [slaveFcb EXCEPT ![s] = b]
         /\ part' = [part EXCEPT ![s] = PartSent(s, b)]
         /\ line' \in {line} \cup (IF Len(line) < LineLength
                                     THEN {Append(line, TelegramOf(s, b))} ELSE {})
         /\ UNCHANGED <<selected, primed>>

-----------------------------------------------------------------------------
(* The timer thread.                                                        *)

\* poll returns, its local variables are gone, and pollMeters goes on.
LeavePoll ==
    /\ tpc' = "next" /\ m' = m + 1
    /\ fcb' = 1 /\ next_telegram' = FALSE /\ num_repolls' = 0
    /\ got' = <<>>
    /\ UNCHANGED <<setup, buses, meterVars, pollLoopVars, slaveVars, line>>

\* pollMeters starts with the first meter.
StartPollMeters ==
    /\ tpc = "idle"
    /\ tpc' = "next" /\ m' = 1
    /\ UNCHANGED <<setup, buses, fcb, next_telegram, num_repolls, meterVars, pollLoopVars,
                   slaveVars, line, got>>

\* Does poll get past its early returns?
Pollable(k) ==
    /\ meters_[k].interval > 0
    /\ elapsed[k]
    /\ meters_[k].bus \in buses
    /\ meters_[k].address \notin {"none", "wildcard"}

\* poll returns without sending anything.
SkipMeter ==
    /\ tpc = "next" /\ m \in Meters /\ ~Pollable(m)
    /\ m' = m + 1
    /\ UNCHANGED <<setup, buses, tpc, fcb, next_telegram, num_repolls, meterVars,
                   pollLoopVars, slaveVars, line, got>>

\* poll: fcb = 1, next_telegram = false, num_repolls = 0.
BeginPoll ==
    /\ tpc = "next" /\ m \in Meters /\ Pollable(m)
    /\ fcb' = 1 /\ next_telegram' = FALSE /\ num_repolls' = 0
    /\ tpc' = "send"
    /\ UNCHANGED <<setup, buses, m, got, meterVars, pollLoopVars, slaveVars, line>>

\* send_primary_poll and send_secondary_poll warn about a bad id, and poll returns.
BadId ==
    /\ tpc = "send" /\ meters_[m].address = "bad"
    /\ LeavePoll

\* send_primary_poll: REQ_UD2 to the meter's own address.
PrimaryPoll ==
    /\ tpc = "send" /\ meters_[m].address = "primary"
    /\ SlaveRequested({meters_[m].slave}, fcb)
    /\ tpc' = "wait"
    /\ UNCHANGED <<setup, buses, m, fcb, next_telegram, num_repolls, meterVars,
                   pollLoopVars, got>>

\* send_secondary_poll: the first request is preceded by the selection.
SecondarySelect ==
    /\ tpc = "send" /\ meters_[m].address = "secondary"
    /\ IF next_telegram THEN UNCHANGED slaveVars ELSE SlaveSelected(meters_[m].slave)
    /\ tpc' = "request"
    /\ UNCHANGED <<setup, buses, m, fcb, next_telegram, num_repolls, meterVars,
                   pollLoopVars, line, got>>

\* send_secondary_poll: REQ_UD2 to address 253.
SecondaryPoll ==
    /\ tpc = "request"
    /\ SlaveRequested(selected, fcb)
    /\ tpc' = "wait"
    /\ UNCHANGED <<setup, buses, m, fcb, next_telegram, num_repolls, meterVars,
                   pollLoopVars, got>>

\* waiting_for_poll_response_sem_.wait(): from here on a signal is noticed.
EnterWait ==
    /\ tpc = "wait"
    /\ tpc' = "asleep"
    /\ UNCHANGED <<setup, buses, m, fcb, next_telegram, num_repolls, meterVars,
                   pollLoopVars, slaveVars, line, got>>

\* Nothing is on its way to a meter.
Quiet == line = <<>> /\ lpc \notin {"flag", "notify"}

\* Fault: after a timeout poll waits again.
NoResponseWaitsOn ==
    /\ tpc = "asleep"
    /\ delay = "late" \/ Quiet
    /\ tpc' = "wait"
    /\ UNCHANGED <<setup, buses, m, fcb, next_telegram, num_repolls, meterVars, pollLoopVars,
                   slaveVars, line, got>>

\* The wait timed out: "did not send a response!"
NoResponse ==
    /\ tpc = "asleep"
    /\ delay = "late" \/ Quiet
    /\ LeavePoll

\* Fault: the poll ends with the first telegram, whatever follows.
AnsweredOnce ==
    /\ tpc = "woken"
    /\ tpc' = "complete"
    /\ UNCHANGED <<setup, buses, m, fcb, next_telegram, num_repolls, meterVars, pollLoopVars,
                   slaveVars, line, got>>

\* The wait returned true: done, poll again with the other bit, or give up.
Answered ==
    /\ tpc = "woken"
    /\ IF ~more_records_follow_[m]
         THEN tpc' = "complete" /\ UNCHANGED <<fcb, next_telegram, num_repolls>>
         ELSE /\ next_telegram' = TRUE
              /\ fcb' = 1 - fcb
              /\ num_repolls' = num_repolls + 1
              /\ tpc' = IF num_repolls' > RepollLimit THEN "ended" ELSE "send"
    /\ UNCHANGED <<setup, buses, m, meterVars, pollLoopVars, slaveVars, line, got>>

\* poll returns.
EndPoll ==
    /\ tpc \in {"complete", "ended"}
    /\ LeavePoll

\* pollMeters returns; the rest of the checkup follows.
EndPollMeters ==
    /\ tpc = "next" /\ m \notin Meters
    /\ tpc' = "polled"
    /\ UNCHANGED <<setup, buses, m, fcb, next_telegram, num_repolls, meterVars,
                   pollLoopVars, slaveVars, line, got>>

PollStep ==
    \/ SkipMeter \/ BeginPoll \/ BadId \/ PrimaryPoll \/ SecondarySelect \/ SecondaryPoll
    \/ EnterWait \/ NoResponse \/ Answered \/ EndPoll \/ EndPollMeters

-----------------------------------------------------------------------------
(* The event loop thread.                                                   *)

\* A telegram is read and offered to the meters, one after the other.
ReceiveTelegram ==
    /\ lpc = "select" /\ line # <<>>
    /\ handling' = Head(line) /\ line' = Tail(line)
    /\ receiver' = 1 /\ lpc' = "flag"
    /\ UNCHANGED <<setup, buses, timerVars, meterVars, slaveVars, got>>

\* isTelegramForMeter fails.
NotForMe ==
    /\ lpc = "flag" /\ receiver \in Meters /\ meters_[receiver].slave # handling.slave
    /\ receiver' = receiver + 1
    /\ UNCHANGED <<setup, buses, timerVars, meterVars, lpc, handling, slaveVars, line,
                   got>>

\* parse fails: the telegram is ignored by this meter.
NotParsed ==
    /\ lpc = "flag" /\ receiver \in Meters /\ meters_[receiver].slave = handling.slave
    /\ receiver' = receiver + 1
    /\ UNCHANGED <<setup, buses, timerVars, meterVars, lpc, handling, slaveVars, line, got>>

\* The timer thread polls meter k.
InPoll(k) == m = k /\ tpc \in {"send", "request", "wait", "asleep", "woken"}

\* more_records_follow_ = (t.mfct_1f_index != -1);
SetMoreRecords ==
    /\ lpc = "flag" /\ receiver \in Meters /\ meters_[receiver].slave = handling.slave
    /\ more_records_follow_' = [more_records_follow_ EXCEPT ![receiver] = handling.more]
    /\ got' = IF InPoll(receiver) /\ Len(got) <= RepollLimit + 1
                THEN Append(got, handling.part) ELSE got
    /\ lpc' = "notify"
    /\ UNCHANGED <<setup, buses, timerVars, elapsed, handling, receiver, slaveVars, line>>

\* waiting_for_poll_response_sem_.notify(): lost if the timer thread does not sleep.
NotifyPoll ==
    /\ lpc = "notify"
    /\ tpc' = IF tpc = "asleep" /\ m = receiver THEN "woken" ELSE tpc
    /\ lpc' = "update"
    /\ UNCHANGED <<setup, buses, m, fcb, next_telegram, num_repolls, meterVars, handling,
                   receiver, slaveVars, line, got>>

\* triggerUpdate, after the fields were extracted: the interval starts anew; a
\* discarded telegram does not count.
TriggerUpdate ==
    /\ lpc = "update"
    /\ \/ elapsed' = [elapsed EXCEPT ![receiver] = FALSE]
       \/ UNCHANGED elapsed
    /\ receiver' = receiver + 1 /\ lpc' = "flag"
    /\ UNCHANGED <<setup, buses, timerVars, more_records_follow_, handling, slaveVars, line,
                   got>>

\* All meters have seen the telegram.
EndTelegram ==
    /\ lpc = "flag" /\ receiver \notin Meters
    /\ lpc' = "select" /\ handling' = NoTelegram /\ receiver' = 1
    /\ UNCHANGED <<setup, buses, timerVars, meterVars, slaveVars, line, got>>

ReceiveStep ==
    \/ ReceiveTelegram \/ NotForMe \/ NotParsed \/ SetMoreRecords \/ NotifyPoll
    \/ TriggerUpdate \/ EndTelegram

-----------------------------------------------------------------------------
(* The world.                                                               *)

\* The poll interval of a meter passes.
IntervalPasses(k) ==
    /\ ~elapsed[k]
    /\ elapsed' = [elapsed EXCEPT ![k] = TRUE]
    /\ UNCHANGED <<setup, buses, timerVars, more_records_follow_, pollLoopVars, slaveVars,
                   line, got>>

\* pthread_cond_timedwait may return although nobody signalled.
SpuriousPollWakeup ==
    /\ delay = "late" /\ tpc = "asleep"
    /\ tpc' = "woken"
    /\ UNCHANGED <<setup, buses, m, fcb, next_telegram, num_repolls, meterVars,
                   pollLoopVars, slaveVars, line, got>>

=============================================================================
