--------------------------- MODULE RegularCheckup ---------------------------
(* regular_checkup, called by the timer thread every two seconds: poll the  *)
(* meters, detect devices (which changes the buses there are), flush the    *)
(* send queue.  It runs beside the main thread, which queues and flushes    *)
(* the contents of the command line, and beside the event loop.             *)
EXTENDS Polling

CONSTANTS
    Aliases,           \* bus aliases that may come and go
    Senders, NoSender

VARIABLES
    mpc,               \* where the main thread is
    bus_send_queue_, bus_send_queue_mutex_, at, queued, sent

send_bus_content == setup.contents

Queue == INSTANCE SendQueue

ASSUME SendersAssumption == NoSender \notin Senders /\ {"main", "timer"} \subseteq Senders
ASSUME ContentsAssumption ==
    \A i \in Setups :
        /\ i.contents \in Seq({i.contents[c] : c \in DOMAIN i.contents})
        /\ \A c \in DOMAIN i.contents : i.contents[c].content \in {"hex", "too long", "bad hex"}
ASSUME AliasesAssumption == \A i \in Setups : \A k \in DOMAIN i.meters : i.meters[k].bus \in Aliases

queueVars == <<bus_send_queue_, bus_send_queue_mutex_, at, queued, sent>>
vars == <<pollVars, mpc, queueVars>>

Init ==
    /\ PollInit
    /\ Queue!QueueInit
    /\ mpc = IF send_bus_content = <<>> THEN "waitForStop" ELSE "queue"

\* start queues the contents of the command line and flushes the queue.
MainQueues ==
    /\ mpc = "queue" /\ Queue!queueSendBusContent
    /\ UNCHANGED <<pollVars, mpc>>

MainFlushes ==
    /\ mpc = "queue" /\ queued = Len(send_bus_content)
    /\ Queue!LockQueue("main")
    /\ mpc' = "flush"
    /\ UNCHANGED pollVars

MainSends ==
    /\ mpc = "flush"
    /\ \/ Queue!SendContent("main") /\ UNCHANGED mpc
       \/ Queue!ClearQueue("main") /\ mpc' = "waitForStop"
    /\ UNCHANGED pollVars

MainStep == MainQueues \/ MainFlushes \/ MainSends

TimerPolls == (StartPollMeters \/ PollStep) /\ UNCHANGED <<mpc, queueVars>>

\* detectAndConfigureWmbusDevices and regularCheckup: bus devices come and go.
TimerDetects ==
    /\ tpc = "polled"
    /\ buses' \in SUBSET Aliases
    /\ tpc' = "detected"
    /\ UNCHANGED <<setup, m, fcb, next_telegram, num_repolls, meterVars, pollLoopVars, slaveVars,
                   line, got, mpc, queueVars>>

TimerFlushes ==
    /\ tpc = "detected"
    /\ Queue!LockQueue("timer")
    /\ tpc' = "flush"
    /\ UNCHANGED <<setup, buses, m, fcb, next_telegram, num_repolls, meterVars, pollLoopVars,
                   slaveVars, line, got, mpc>>

TimerSends ==
    /\ tpc = "flush"
    /\ \/ Queue!SendContent("timer") /\ UNCHANGED tpc
       \/ Queue!ClearQueue("timer") /\ tpc' = "idle"
    /\ UNCHANGED <<setup, buses, m, fcb, next_telegram, num_repolls, meterVars, pollLoopVars,
                   slaveVars, line, got, mpc>>

TimerStep == TimerPolls \/ TimerDetects \/ TimerFlushes \/ TimerSends

LoopStep == ReceiveStep /\ UNCHANGED <<mpc, queueVars>>

TimePasses ==
    /\ (\E k \in Meters : IntervalPasses(k)) \/ SpuriousPollWakeup
    /\ UNCHANGED <<mpc, queueVars>>

Next == MainStep \/ TimerStep \/ LoopStep \/ TimePasses

Spec == Init /\ [][Next]_vars

\* The main and the timer thread and the event loop run on, and a wait ends
\* after five seconds.  The queue is locked for a moment every two seconds, so
\* the main thread gets the lock some time.
Fairness ==
    /\ SF_vars(MainStep)
    /\ WF_vars(TimerStep)
    /\ WF_vars(LoopStep)

FairSpec == Spec /\ Fairness

-----------------------------------------------------------------------------

\* The variables have their types; at most one slave is selected, the requests
\* of a poll are limited, and the queue holds contents of the command line.
TypeOK ==
    /\ setup \in Setups
    /\ tpc \in {"idle", "next", "send", "request", "wait", "asleep", "woken", "complete",
                "ended", "polled", "detected", "flush"}
    /\ m \in 1 .. Len(meters_) + 1 /\ fcb \in {0, 1} /\ next_telegram \in BOOLEAN
    /\ num_repolls \in 0 .. RepollLimit + 1
    /\ buses \subseteq Aliases
    /\ elapsed \in [Meters -> BOOLEAN] /\ more_records_follow_ \in [Meters -> BOOLEAN]
    /\ lpc \in {"select", "flag", "notify", "update"}
    /\ receiver \in 1 .. Len(meters_) + 1
    /\ selected = {} \/ \E s \in Slaves : selected = {s}
    /\ primed \in BOOLEAN
    /\ slaveFcb \in [Slaves -> {0, 1}] /\ part \in [Slaves -> Nat]
    /\ Len(line) <= LineLength
    /\ bus_send_queue_ \in Seq(DOMAIN send_bus_content)
    /\ bus_send_queue_mutex_ \in Senders \cup {NoSender}
    /\ mpc \in {"queue", "flush", "waitForStop"}

\* A poll of a meter by its secondary address that ends without a warning has
\* handled every telegram of the reading once and in order, though requests,
\* answers and signals get lost (meters.cc poll, handleTelegram).  The exceptions:
\* a telegram is older than the five seconds of a wait, two meters read the same
\* slave, or the slave missed the selection that resets its frame count bit and
\* answers as it was selected before.
OneMeterEach == \A j, k \in Meters : meters_[j].slave = meters_[k].slave => j = k
PollIsComplete ==
    delay = "timely" /\ OneMeterEach /\ primed /\ tpc = "complete" /\ meters_[m].address = "secondary"
        => LET n == Parts[meters_[m].slave] IN got = [i \in 1 .. n |-> i]

\* A poll is complete or is given up within RepollLimit requests (the bound is in
\* the type of num_repolls).
PollIsBounded == TypeOK /\ PollIsComplete

\* Every content of the command line is sent at most once and in order, though
\* the main and the timer thread both flush the queue (bus.cc sendQueue).
SentInOrder == Queue!SentInOrder

\* A meter whose interval has passed is polled, though the meters before it do
\* not answer or never stop answering (metermanager.cc pollMeters).
Due(k) == k \in Meters /\ Pollable(k)
MaxMeters == CHOOSE n \in {Len(i.meters) : i \in Setups} :
                 \A i \in Setups : Len(i.meters) <= n
DueIsPolled ==
    \A k \in 1 .. MaxMeters : Due(k) ~> (tpc = "send" /\ m = k) \/ ~Due(k)

\* Whatever was queued is sent or dropped by a flush, and the checkups go on:
\* neither thread waits for ever for the other (bus.cc sendQueue).
QueueIsFlushed ==
    /\ mpc = "queue" ~> mpc = "waitForStop" /\ bus_send_queue_ = <<>>
    /\ []<>(tpc = "idle")
=============================================================================
