------------------------ MODULE RegularCheckupProofs ------------------------
(* What the send queue sends and what a poll reads, for every command line, *)
(* every installation of meters, slaves and buses and every interleaving of *)
(* the main thread, the timer thread and the event loop.                    *)
EXTENDS RegularCheckup, TLAPS

\* The contents increase along the queue and along what was sent, and none
\* was queued after the last.
Increasing(s) == \A i, j \in DOMAIN s : i < j => s[i] < s[j]
QueueTypes ==
    /\ queued \in Nat
    /\ bus_send_queue_ \in Seq(1 .. queued)
    /\ sent \in Seq(1 .. queued)
    /\ at \in [Senders -> Nat]
    /\ bus_send_queue_mutex_ \in Senders \cup {NoSender}

\* A thread is inside of the queue exactly while it holds the lock.
HolderIsInside == \A t \in Senders : (at[t] > 0) = (bus_send_queue_mutex_ = t)

\* What is still to be sent comes after everything that was sent: the rest of
\* the queue for a thread that flushes it, else the whole queue.
Remaining(k) == bus_send_queue_mutex_ = NoSender \/ k >= at[bus_send_queue_mutex_]
SentBeforeRest ==
    \A i \in DOMAIN sent : \A k \in DOMAIN bus_send_queue_ :
        Remaining(k) => sent[i] < bus_send_queue_[k]

QueueInv ==
    /\ QueueTypes
    /\ HolderIsInside
    /\ Increasing(bus_send_queue_)
    /\ Increasing(sent)
    /\ SentBeforeRest

-----------------------------------------------------------------------------
LEMMA QueueInitially == Init => QueueInv
  BY SendersAssumption
  DEF Init, Queue!QueueInit, QueueInv, QueueTypes, HolderIsInside, Increasing, SentBeforeRest

LEMMA Appended ==
  ASSUME NEW S, NEW s \in Seq(S), NEW e \in S
  PROVE  /\ Append(s, e) \in Seq(S)
         /\ Len(Append(s, e)) = Len(s) + 1
         /\ \A i \in 1 .. Len(s) : Append(s, e)[i] = s[i]
         /\ Append(s, e)[Len(s) + 1] = e
  OBVIOUS

\* A content is queued behind all that were queued before.
LEMMA QueueingKeeps == QueueInv /\ Queue!queueSendBusContent => QueueInv'
  <1> SUFFICES ASSUME QueueInv, Queue!queueSendBusContent PROVE QueueInv'
    BY Zenon
  <1> USE DEF QueueInv, QueueTypes, Queue!queueSendBusContent
  <1>1. /\ queued' = queued + 1 /\ queued' \in Nat
        /\ bus_send_queue_ \in Seq(1 .. queued') /\ sent \in Seq(1 .. queued')
    <2>1. 1 .. queued \subseteq 1 .. (queued + 1)
      OBVIOUS
    <2> QED
      BY <2>1
  <1>2. bus_send_queue_' \in Seq(1 .. queued')
    BY <1>1
  <1>3. /\ Len(bus_send_queue_') = Len(bus_send_queue_) + 1
        /\ \A i \in 1 .. Len(bus_send_queue_) : bus_send_queue_'[i] = bus_send_queue_[i]
        /\ bus_send_queue_'[Len(bus_send_queue_) + 1] = queued + 1
    OBVIOUS
  <1>4. Increasing(bus_send_queue_')
    BY <1>3 DEF Increasing
  <1>5. SentBeforeRest'
    BY <1>3, SMTT(30) DEF SentBeforeRest, Remaining
  <1> QED
    BY <1>1, <1>2, <1>4, <1>5, Zenon DEF HolderIsInside, Increasing

\* The lock is taken in front of the whole queue.
LEMMA LockingKeeps == ASSUME NEW t \in Senders, QueueInv, Queue!LockQueue(t) PROVE QueueInv'
  <1> USE DEF QueueInv, QueueTypes, Queue!LockQueue
  <1>1. QueueTypes'
    BY Zenon
  <1>2. HolderIsInside'
    BY SendersAssumption DEF HolderIsInside
  <1>3. SentBeforeRest'
    BY Zenon DEF SentBeforeRest, Remaining
  <1> QED
    BY <1>1, <1>2, <1>3, Zenon DEF Increasing

\* One content is sent or skipped, and the thread goes on to the next.
LEMMA SendingKeeps == ASSUME NEW t \in Senders, QueueInv, Queue!SendContent(t) PROVE QueueInv'
  <1> DEFINE c == bus_send_queue_[at[t]]
             q == bus_send_queue_
  <1>1. /\ at[t] \in DOMAIN q
        /\ sent' = sent \/ sent' = Append(sent, c)
        /\ at' = [at EXCEPT ![t] = at[t] + 1]
        /\ q' = q /\ bus_send_queue_mutex_' = bus_send_queue_mutex_ /\ queued' = queued
    BY Zenon DEF Queue!SendContent
  <1>2. /\ queued \in Nat /\ q \in Seq(1 .. queued) /\ sent \in Seq(1 .. queued)
        /\ at \in [Senders -> Nat] /\ DOMAIN q = 1 .. Len(q) /\ DOMAIN sent = 1 .. Len(sent)
        /\ Increasing(q) /\ Increasing(sent)
    BY DEF QueueInv, QueueTypes
  <1>3. c \in 1 .. queued /\ at[t] \in Nat /\ bus_send_queue_mutex_ = t /\ t # NoSender
    BY <1>1, <1>2, SendersAssumption DEF QueueInv, HolderIsInside
  <1>4. HolderIsInside' /\ at' \in [Senders -> Nat] /\ at'[t] = at[t] + 1
    BY <1>1, <1>2, <1>3 DEF QueueInv, HolderIsInside
  <1>5. \A i \in DOMAIN sent, k \in DOMAIN q : k >= at[t] => sent[i] < q[k]
    BY <1>3, Zenon DEF QueueInv, SentBeforeRest, Remaining
  <1>6. \A k \in DOMAIN q : k > at[t] => c < q[k]
    BY <1>1, <1>2, Zenon DEF Increasing
  <1>7. QueueTypes' /\ Increasing(sent)' /\ SentBeforeRest'
    <2>1. ASSUME NEW k \in DOMAIN q', Remaining(k)' PROVE k \in DOMAIN q /\ k > at[t]
      BY <1>1, <1>2, <1>3, <1>4, <2>1 DEF Remaining
    <2>2. CASE sent' = sent
      <3>1. SentBeforeRest'
        BY <1>1, <1>2, <1>5, <2>1, <2>2 DEF SentBeforeRest
      <3> QED
        BY <1>1, <1>2, <1>4, <2>2, <3>1, Zenon DEF QueueInv, QueueTypes, Increasing
    <2>3. CASE sent' = Append(sent, c)
      <3>1. /\ sent' \in Seq(1 .. queued) /\ DOMAIN sent' = 1 .. Len(sent) + 1
            /\ \A i \in DOMAIN sent : sent'[i] = sent[i]
            /\ sent'[Len(sent) + 1] = c
        BY <1>2, <1>3, <2>3, Appended
      <3>2. \A i \in DOMAIN sent' : i \in DOMAIN sent \/ i = Len(sent) + 1
        BY <1>2, <3>1
      <3>3. \A i \in DOMAIN sent : sent[i] < c
        BY <1>1, <1>2, <1>3, <1>5
      <3> HIDE DEF c, q
      <3>4. Increasing(sent)'
        <4> SUFFICES ASSUME NEW i \in DOMAIN sent', NEW j \in DOMAIN sent', i < j
                     PROVE  sent'[i] < sent'[j]
          BY Zenon DEF Increasing
        <4>1. i \in DOMAIN sent
          BY <1>2, <3>1
        <4>2. CASE j \in DOMAIN sent
          BY <1>2, <3>1, <4>1, <4>2, Zenon DEF Increasing
        <4>3. CASE j = Len(sent) + 1
          BY <3>1, <3>3, <4>1, <4>3, Zenon
        <4> QED
          BY <3>2, <4>2, <4>3, Zenon
      <3>5. SentBeforeRest'
        <4> SUFFICES ASSUME NEW i \in DOMAIN sent', NEW k \in DOMAIN q', Remaining(k)'
                     PROVE  sent'[i] < q'[k]
          BY Zenon DEF SentBeforeRest, q
        <4> QED
          BY <1>1, <1>2, <1>3, <1>5, <1>6, <2>1, <3>1, <3>2, SMTT(30)
      <3> QED
        BY <1>1, <1>2, <1>4, <3>1, <3>4, <3>5, Zenon DEF QueueInv, QueueTypes, q
    <2> QED
      BY <1>1, <2>2, <2>3, Zenon
  <1> QED
    BY <1>1, <1>2, <1>4, <1>7, Zenon DEF QueueInv, Increasing

\* The queue is emptied and the lock released.
LEMMA ClearingKeeps == ASSUME NEW t \in Senders, QueueInv, Queue!ClearQueue(t) PROVE QueueInv'
  <1> USE DEF QueueInv, QueueTypes, Queue!ClearQueue
  <1>1. bus_send_queue_mutex_ = t
    BY DEF HolderIsInside
  <1>2. HolderIsInside'
    BY <1>1, SendersAssumption DEF HolderIsInside
  <1> QED
    BY <1>2 DEF Increasing, SentBeforeRest

LEMMA QueueStep == QueueInv /\ [Next]_vars => QueueInv'
  <1> SUFFICES ASSUME QueueInv, [Next]_vars PROVE QueueInv'
    BY Zenon
  <1> "main" \in Senders /\ "timer" \in Senders
    BY SendersAssumption, Zenon
  <1>1. CASE UNCHANGED queueVars
    BY <1>1, Zenon DEF queueVars, QueueInv, QueueTypes, HolderIsInside, Increasing,
       SentBeforeRest, Remaining
  <1>2. CASE MainStep
    BY <1>2, QueueingKeeps, LockingKeeps, SendingKeeps, ClearingKeeps, Zenon DEF MainStep,
       MainQueues, MainFlushes, MainSends
  <1>3. CASE TimerFlushes \/ TimerSends
    BY <1>3, LockingKeeps, SendingKeeps, ClearingKeeps, Zenon DEF TimerFlushes, TimerSends
  <1>4. CASE TimerPolls \/ TimerDetects \/ LoopStep \/ TimePasses
    BY <1>1, <1>4, Zenon DEF TimerPolls, TimerDetects, LoopStep, TimePasses
  <1> QED
    BY <1>1, <1>2, <1>3, <1>4, Zenon DEF Next, TimerStep, vars

\* Every content of the command line is sent at most once and in the order of
\* the command line, however the main and the timer thread queue, lock and
\* flush (bus.cc queueSendBusContent, sendQueue).
THEOREM SendsInOrder == Spec => []SentInOrder
  <1>1. QueueInv => SentInOrder
    BY Zenon DEF QueueInv, Increasing, SentInOrder, Queue!SentInOrder
  <1> QED
    BY QueueInitially, QueueStep, <1>1, PTL DEF Spec

-----------------------------------------------------------------------------
(* Polling.  The timer thread and the event loop share the meters, and the  *)
(* slaves answer what they were asked.                                      *)

\* The types of the variables of Polling, and where the threads are.
Telegrams == [slave : Slaves, part : Nat, more : BOOLEAN]
TimerTypes ==
    /\ setup \in Setups
    /\ tpc \in {"idle", "next", "send", "request", "wait", "asleep", "woken", "complete",
                "ended", "polled", "detected", "flush"}
    /\ m \in 1 .. Len(meters_) + 1
    /\ fcb \in {0, 1} /\ num_repolls \in 0 .. RepollLimit + 1
    /\ buses \subseteq Aliases
    /\ tpc \in {"send", "request", "wait", "asleep", "woken", "complete", "ended"} => m \in Meters
    /\ tpc \in {"send", "request", "wait", "asleep", "woken"} => num_repolls <= RepollLimit
    /\ tpc \in {"idle", "next", "polled", "detected", "flush"} => got = <<>>
FlagTypes ==
    /\ next_telegram \in BOOLEAN /\ primed \in BOOLEAN
    /\ elapsed \in [Meters -> BOOLEAN] /\ more_records_follow_ \in [Meters -> BOOLEAN]
LoopTypes ==
    /\ lpc \in {"select", "flag", "notify", "update"}
    /\ receiver \in 1 .. Len(meters_) + 1
    /\ handling \in Telegrams \cup {NoTelegram}
    /\ lpc # "select" => handling \in Telegrams
    /\ lpc \in {"notify", "update"} => receiver \in Meters /\ meters_[receiver].slave = handling.slave
SlaveTypes ==
    /\ selected = {} \/ \E s \in Slaves : selected = {s}
    /\ slaveFcb \in [Slaves -> {0, 1}] /\ part \in [Slaves -> Nat]
    /\ line \in Seq(Telegrams) /\ Len(line) <= LineLength
PollTypes == TimerTypes /\ FlagTypes /\ LoopTypes /\ SlaveTypes

\* The telegram being handled has still to be offered to its meter.
Live == lpc = "flag" /\ \E k \in Meters : k >= receiver /\ meters_[k].slave = handling.slave

\* One telegram at most is on its way, and none unless the timer thread waits.
OneOnItsWay ==
    /\ tpc \notin {"wait", "asleep"} => line = <<>> /\ ~Live /\ lpc # "notify"
    /\ Len(line) <= 1 /\ (line # <<>> => ~Live /\ lpc # "notify")

\* The slave of the polled meter has been asked for the parts up to the n-th, and
\* the meter has handled them.  A reading that never ends has the part 1 only.
Polled == meters_[m].slave
Asked(n) ==
    /\ selected = {Polled}
    /\ Parts[Polled] # 0 => part[Polled] = n
Upto(n) == [i \in 1 .. n |-> i]
Got(n) == Parts[Polled] # 0 => got = Upto(n)

\* The next request has the other frame count bit.
Ready == Asked(num_repolls) /\ slaveFcb[Polled] # fcb /\ ~Last(Polled, num_repolls) /\ Got(num_repolls)

\* The next part was sent with this frame count bit.
Sent == Asked(num_repolls + 1) /\ slaveFcb[Polled] = fcb
IsNext(t) ==
    /\ t.more = ~Last(Polled, num_repolls + 1)
    /\ Parts[Polled] # 0 => t.part = num_repolls + 1
Handled == Sent /\ Got(num_repolls + 1) /\ more_records_follow_[m] = ~Last(Polled, num_repolls + 1)

PollBegins == tpc = "send" /\ ~next_telegram => num_repolls = 0 /\ fcb = 1 /\ got = <<>>
PollGoesOn ==
    /\ tpc = "send" /\ next_telegram => Ready
    /\ tpc = "request" => Ready
    /\ tpc \in {"wait", "asleep"} =>
          /\ \A i \in DOMAIN line :
                line[i].slave = Polled => Sent /\ Got(num_repolls) /\ IsNext(line[i])
          /\ Live /\ handling.slave = Polled => Sent /\ Got(num_repolls) /\ IsNext(handling)
          /\ lpc = "notify" /\ receiver = m => Handled
    /\ tpc = "woken" => Handled
    /\ tpc = "complete" => Parts[Polled] # 0 /\ Got(Parts[Polled])

PollInv ==
    /\ PollTypes
    /\ delay = "timely" /\ OneMeterEach =>
          /\ OneOnItsWay
          /\ PollBegins
          /\ m \in Meters /\ meters_[m].address = "secondary" /\ primed => PollGoesOn

-----------------------------------------------------------------------------
LEMMA SetupFacts ==
  ASSUME setup \in Setups
  PROVE  /\ Len(meters_) \in Nat /\ Meters = 1 .. Len(meters_)
         /\ Len(send_bus_content) \in Nat /\ DOMAIN send_bus_content = 1 .. Len(send_bus_content)
         /\ \A k \in Meters :
               /\ meters_[k].slave \in Slaves /\ meters_[k].bus \in Aliases
               /\ meters_[k].address \in {"primary", "secondary", "wildcard", "bad", "none"}
  <1> DEFINE R == {setup.meters[k] : k \in DOMAIN setup.meters}
             C == {setup.contents[c] : c \in DOMAIN setup.contents}
  <1>1. setup.meters \in Seq(R) /\ setup.contents \in Seq(C)
    BY MetersAssumption, ContentsAssumption, Zenon
  <1> HIDE DEF R, C
  <1>2. /\ Len(meters_) \in Nat /\ Meters = 1 .. Len(meters_)
        /\ Len(send_bus_content) \in Nat /\ DOMAIN send_bus_content = 1 .. Len(send_bus_content)
    BY <1>1 DEF meters_, Meters, send_bus_content
  <1> QED
    BY <1>2, MetersAssumption, AliasesAssumption, Zenon DEF meters_, Meters

\* The installation stays, and with it what is said about the meters.
LEMMA SameSetup ==
  ASSUME UNCHANGED setup
  PROVE  meters_' = meters_ /\ Meters' = Meters /\ delay' = delay /\ OneMeterEach' = OneMeterEach
  BY DEF meters_, Meters, delay, OneMeterEach

LEMMA SamePoll ==
  ASSUME UNCHANGED <<setup, m, fcb, num_repolls, more_records_follow_, selected, slaveFcb, part, got>>
  PROVE  /\ Polled' = Polled /\ Ready' = Ready /\ Sent' = Sent /\ Handled' = Handled
         /\ \A n : Got(n)' = Got(n)
         /\ \A t : IsNext(t)' = IsNext(t)
  BY Zenon DEF meters_, Polled, Ready, Sent, Handled, Got, IsNext, Asked

LEMMA Nothing == Upto(0) = <<>>
  BY DEF Upto

LEMMA OneMore ==
  ASSUME NEW n \in Nat
  PROVE  Append(Upto(n), n + 1) = Upto(n + 1) /\ Len(Upto(n)) = n
  <1>1. Upto(n) \in Seq(Nat) /\ Len(Upto(n)) = n /\ Upto(n + 1) \in Seq(Nat) /\ Len(Upto(n + 1)) = n + 1
    BY DEF Upto
  <1>2. \A i \in 1 .. n + 1 : Append(Upto(n), n + 1)[i] = Upto(n + 1)[i]
    BY <1>1 DEF Upto
  <1>3. Append(Upto(n), n + 1) \in Seq(Nat) /\ Len(Append(Upto(n), n + 1)) = n + 1
    BY <1>1
  <1>4. /\ Append(Upto(n), n + 1) = [i \in 1 .. n + 1 |-> Append(Upto(n), n + 1)[i]]
        /\ Upto(n + 1) = [i \in 1 .. n + 1 |-> Upto(n + 1)[i]]
    <2>1. DOMAIN Append(Upto(n), n + 1) = 1 .. n + 1
      BY <1>1
    <2> QED
      BY <2>1 DEF Upto
  <1> QED
    BY <1>1, <1>2, <1>4, Zenon

\* The request of a slave.
LEMMA Requested ==
  ASSUME SlaveTypes, NEW S \in SUBSET Slaves, NEW b \in {0, 1}, SlaveRequested(S, b)
  PROVE  /\ SlaveTypes' /\ selected' = selected /\ primed' = primed
         /\ \/ line' = line
            \/ \E s \in S : line' = Append(line, TelegramOf(s, b))
  <1>1. selected' = selected /\ primed' = primed
    BY Zenon DEF SlaveRequested, slaveVars
  <1>2. CASE UNCHANGED <<slaveVars, line>>
    BY <1>2, Zenon DEF SlaveTypes, slaveVars
  <1>3. ASSUME NEW s \in S, slaveFcb' = [slaveFcb EXCEPT ![s] = b],
               part' = [part EXCEPT ![s] = PartSent(s, b)],
               line' \in {line} \cup (IF Len(line) < LineLength
                                     THEN {Append(line, TelegramOf(s, b))} ELSE {})
        PROVE  SlaveTypes' /\ (line' = line \/ line' = Append(line, TelegramOf(s, b)))
    <2>1. PartSent(s, b) \in Nat
      BY DEF PartSent, SlaveTypes
    <2>2. TelegramOf(s, b) \in Telegrams
      BY <2>1, Zenon DEF TelegramOf, Telegrams, Last
    <2>3. line' = line \/ (Len(line) < LineLength /\ line' = Append(line, TelegramOf(s, b)))
      BY <1>3, Zenon
    <2>4. line' \in Seq(Telegrams) /\ Len(line') <= LineLength
      BY <2>2, <2>3, PollingBounds, SMTT(30) DEF SlaveTypes
    <2> QED
      BY <1>1, <1>3, <2>1, <2>3, <2>4, Zenon DEF SlaveTypes
  <1> QED
    BY <1>1, <1>2, <1>3, Zenon DEF SlaveRequested

LEMMA PollInitially == Init => PollInv
  <1> SUFFICES ASSUME Init PROVE PollInv
    OBVIOUS
  <1>1. /\ setup \in Setups /\ Len(meters_) \in Nat /\ Meters = 1 .. Len(meters_)
        /\ \A k \in Meters : meters_[k].bus \in Aliases
    BY SetupFacts, Zenon DEF Init, PollInit
  <1>2. PollTypes
    <2>1. TimerTypes
      BY <1>1, PollingBounds DEF Init, PollInit, TimerTypes
    <2>2. LoopTypes
      BY <1>1 DEF Init, PollInit, LoopTypes
    <2>3. SlaveTypes
      BY <1>1, PollingBounds DEF Init, PollInit, SlaveTypes
    <2>4. FlagTypes
      <3>1. next_telegram \in BOOLEAN /\ primed \in BOOLEAN
        BY Zenon DEF Init, PollInit
      <3> QED
        BY <3>1, Zenon DEF Init, PollInit, FlagTypes
    <2> QED
      BY <2>1, <2>2, <2>3, <2>4 DEF PollTypes
  <1>3. OneOnItsWay /\ PollBegins /\ PollGoesOn
    BY DEF Init, PollInit, OneOnItsWay, PollBegins, PollGoesOn, Live
  <1> QED
    BY <1>2, <1>3, Zenon DEF PollInv

LEMMA StartPollMetersPolls ==
  ASSUME PollInv, StartPollMeters
  PROVE  PollInv'
  <1>1. /\ setup \in Setups /\ Len(meters_) \in Nat /\ Meters = 1 .. Len(meters_) /\ PollTypes
        /\ \A j \in Meters : meters_[j].slave \in Slaves
    BY SetupFacts, Zenon DEF PollInv, PollTypes, TimerTypes
  <1>2. /\ UNCHANGED setup /\ meters_' = meters_ /\ Meters' = Meters /\ delay' = delay
        /\ OneMeterEach' = OneMeterEach
    BY SameSetup, Zenon DEF StartPollMeters
  <1>3. PollTypes'
    <2>1. TimerTypes'
      BY <1>1, <1>2, PollingBounds DEF PollTypes, TimerTypes, StartPollMeters, timerVars, meterVars,
         pollLoopVars, slaveVars
    <2>2. LoopTypes'
      BY <1>1, <1>2, Zenon DEF PollTypes, LoopTypes, StartPollMeters, timerVars, meterVars,
         pollLoopVars, slaveVars
    <2>3. SlaveTypes'
      BY <1>1, <1>2, PollingBounds, Zenon DEF PollTypes, SlaveTypes, StartPollMeters, timerVars,
         meterVars, pollLoopVars, slaveVars
    <2>4. FlagTypes'
      BY <1>1, <1>2, Zenon DEF PollTypes, FlagTypes, StartPollMeters, timerVars, meterVars,
         pollLoopVars, slaveVars
    <2> QED
      BY <2>1, <2>2, <2>3, <2>4 DEF PollTypes
  <1>4. ASSUME delay = "timely", OneMeterEach, OneOnItsWay, PollBegins PROVE OneOnItsWay'
    BY <1>4, <1>1, <1>2, Zenon DEF PollTypes, TimerTypes, FlagTypes, LoopTypes, SlaveTypes,
       OneOnItsWay, Live, StartPollMeters, timerVars, meterVars, pollLoopVars, slaveVars
  <1>5. ASSUME delay = "timely", OneMeterEach, OneOnItsWay, PollBegins PROVE PollBegins'
    BY <1>5, <1>1, <1>2, Zenon DEF PollTypes, TimerTypes, FlagTypes, LoopTypes, SlaveTypes,
       PollBegins, StartPollMeters, timerVars, meterVars, pollLoopVars, slaveVars
  <1>6. ASSUME delay = "timely", OneMeterEach, OneOnItsWay, PollBegins, m' \in Meters,
               meters_[m'].address = "secondary", primed',
               m \in Meters /\ meters_[m].address = "secondary" /\ primed => PollGoesOn
        PROVE  PollGoesOn'
    BY <1>6, <1>1, <1>2, Zenon DEF PollTypes, TimerTypes, FlagTypes, LoopTypes, SlaveTypes,
       PollGoesOn, StartPollMeters, timerVars, meterVars, pollLoopVars, slaveVars
  <1> QED
    BY <1>2, <1>3, <1>4, <1>5, <1>6, Zenon DEF PollInv

LEMMA SkipMeterPolls ==
  ASSUME PollInv, SkipMeter
  PROVE  PollInv'
  <1>1. /\ setup \in Setups /\ Len(meters_) \in Nat /\ Meters = 1 .. Len(meters_) /\ PollTypes
        /\ \A j \in Meters : meters_[j].slave \in Slaves
    BY SetupFacts, Zenon DEF PollInv, PollTypes, TimerTypes
  <1>2. /\ UNCHANGED setup /\ meters_' = meters_ /\ Meters' = Meters /\ delay' = delay
        /\ OneMeterEach' = OneMeterEach
    BY SameSetup, Zenon DEF SkipMeter
  <1>3. PollTypes'
    <2>1. TimerTypes'
      BY <1>1, <1>2, PollingBounds DEF PollTypes, TimerTypes, SkipMeter, timerVars, meterVars,
         pollLoopVars, slaveVars
    <2>2. LoopTypes'
      BY <1>1, <1>2, Zenon DEF PollTypes, LoopTypes, SkipMeter, timerVars, meterVars,
         pollLoopVars, slaveVars
    <2>3. SlaveTypes'
      BY <1>1, <1>2, PollingBounds, Zenon DEF PollTypes, SlaveTypes, SkipMeter, timerVars,
         meterVars, pollLoopVars, slaveVars
    <2>4. FlagTypes'
      BY <1>1, <1>2, Zenon DEF PollTypes, FlagTypes, SkipMeter, timerVars, meterVars,
         pollLoopVars, slaveVars
    <2> QED
      BY <2>1, <2>2, <2>3, <2>4 DEF PollTypes
  <1>4. ASSUME delay = "timely", OneMeterEach, OneOnItsWay, PollBegins PROVE OneOnItsWay'
    BY <1>4, <1>1, <1>2, Zenon DEF PollTypes, TimerTypes, FlagTypes, LoopTypes, SlaveTypes,
       OneOnItsWay, Live, SkipMeter, timerVars, meterVars, pollLoopVars, slaveVars
  <1>5. ASSUME delay = "timely", OneMeterEach, OneOnItsWay, PollBegins PROVE PollBegins'
    BY <1>5, <1>1, <1>2, Zenon DEF PollTypes, TimerTypes, FlagTypes, LoopTypes, SlaveTypes,
       PollBegins, SkipMeter, timerVars, meterVars, pollLoopVars, slaveVars
  <1>6. ASSUME delay = "timely", OneMeterEach, OneOnItsWay, PollBegins, m' \in Meters,
               meters_[m'].address = "secondary", primed',
               m \in Meters /\ meters_[m].address = "secondary" /\ primed => PollGoesOn
        PROVE  PollGoesOn'
    BY <1>6, <1>1, <1>2, Zenon DEF PollTypes, TimerTypes, FlagTypes, LoopTypes, SlaveTypes,
       PollGoesOn, SkipMeter, timerVars, meterVars, pollLoopVars, slaveVars
  <1> QED
    BY <1>2, <1>3, <1>4, <1>5, <1>6, Zenon DEF PollInv

LEMMA BeginPollPolls ==
  ASSUME PollInv, BeginPoll
  PROVE  PollInv'
  <1>1. /\ setup \in Setups /\ Len(meters_) \in Nat /\ Meters = 1 .. Len(meters_) /\ PollTypes
        /\ \A j \in Meters : meters_[j].slave \in Slaves
    BY SetupFacts, Zenon DEF PollInv, PollTypes, TimerTypes
  <1>2. /\ UNCHANGED setup /\ meters_' = meters_ /\ Meters' = Meters /\ delay' = delay
        /\ OneMeterEach' = OneMeterEach
    BY SameSetup, Zenon DEF BeginPoll
  <1>3. PollTypes'
    <2>1. TimerTypes'
      BY <1>1, <1>2, PollingBounds DEF PollTypes, TimerTypes, BeginPoll, timerVars, meterVars,
         pollLoopVars, slaveVars
    <2>2. LoopTypes'
      BY <1>1, <1>2, Zenon DEF PollTypes, LoopTypes, BeginPoll, timerVars, meterVars,
         pollLoopVars, slaveVars
    <2>3. SlaveTypes'
      BY <1>1, <1>2, PollingBounds, Zenon DEF PollTypes, SlaveTypes, BeginPoll, timerVars,
         meterVars, pollLoopVars, slaveVars
    <2>4. FlagTypes'
      <3>1. next_telegram' \in BOOLEAN /\ primed' \in BOOLEAN
        BY <1>1, Zenon DEF PollTypes, FlagTypes, BeginPoll, slaveVars
      <3> QED
        BY <1>1, <1>2, <3>1, Zenon DEF PollTypes, FlagTypes, BeginPoll, meterVars
    <2> QED
      BY <2>1, <2>2, <2>3, <2>4 DEF PollTypes
  <1>4. ASSUME delay = "timely", OneMeterEach, OneOnItsWay, PollBegins PROVE OneOnItsWay'
    BY <1>4, <1>1, <1>2, Zenon DEF PollTypes, TimerTypes, FlagTypes, LoopTypes, SlaveTypes,
       OneOnItsWay, Live, BeginPoll, timerVars, meterVars, pollLoopVars, slaveVars
  <1>5. ASSUME delay = "timely", OneMeterEach, OneOnItsWay, PollBegins PROVE PollBegins'
    BY <1>5, <1>1, <1>2, Zenon DEF PollTypes, TimerTypes, FlagTypes, LoopTypes, SlaveTypes,
       PollBegins, BeginPoll, timerVars, meterVars, pollLoopVars, slaveVars
  <1>6. ASSUME delay = "timely", OneMeterEach, OneOnItsWay, PollBegins, m' \in Meters,
               meters_[m'].address = "secondary", primed',
               m \in Meters /\ meters_[m].address = "secondary" /\ primed => PollGoesOn
        PROVE  PollGoesOn'
    BY <1>6, <1>1, <1>2, Zenon DEF PollTypes, TimerTypes, FlagTypes, LoopTypes, SlaveTypes,
       PollGoesOn, BeginPoll, timerVars, meterVars, pollLoopVars, slaveVars
  <1> QED
    BY <1>2, <1>3, <1>4, <1>5, <1>6, Zenon DEF PollInv

LEMMA BadIdPolls ==
  ASSUME PollInv, BadId
  PROVE  PollInv'
  <1>1. /\ setup \in Setups /\ Len(meters_) \in Nat /\ Meters = 1 .. Len(meters_) /\ PollTypes
        /\ \A j \in Meters : meters_[j].slave \in Slaves
    BY SetupFacts, Zenon DEF PollInv, PollTypes, TimerTypes
  <1>2. /\ UNCHANGED setup /\ meters_' = meters_ /\ Meters' = Meters /\ delay' = delay
        /\ OneMeterEach' = OneMeterEach
    BY SameSetup, Zenon DEF BadId, LeavePoll
  <1>3. PollTypes'
    <2>1. TimerTypes'
      BY <1>1, <1>2, PollingBounds DEF PollTypes, TimerTypes, BadId, LeavePoll, timerVars,
         meterVars, pollLoopVars, slaveVars
    <2>2. LoopTypes'
      BY <1>1, <1>2, Zenon DEF PollTypes, LoopTypes, BadId, LeavePoll, timerVars, meterVars,
         pollLoopVars, slaveVars
    <2>3. SlaveTypes'
      BY <1>1, <1>2, PollingBounds, Zenon DEF PollTypes, SlaveTypes, BadId, LeavePoll, timerVars,
         meterVars, pollLoopVars, slaveVars
    <2>4. FlagTypes'
      <3>1. next_telegram' \in BOOLEAN /\ primed' \in BOOLEAN
        BY <1>1, Zenon DEF PollTypes, FlagTypes, BadId, LeavePoll, slaveVars
      <3> QED
        BY <1>1, <1>2, <3>1, Zenon DEF PollTypes, FlagTypes, BadId, LeavePoll, meterVars
    <2> QED
      BY <2>1, <2>2, <2>3, <2>4 DEF PollTypes
  <1>4. ASSUME delay = "timely", OneMeterEach, OneOnItsWay, PollBegins PROVE OneOnItsWay'
    BY <1>4, <1>1, <1>2, Zenon DEF PollTypes, TimerTypes, FlagTypes, LoopTypes, SlaveTypes,
       OneOnItsWay, Live, BadId, LeavePoll, timerVars, meterVars, pollLoopVars, slaveVars
  <1>5. ASSUME delay = "timely", OneMeterEach, OneOnItsWay, PollBegins PROVE PollBegins'
    BY <1>5, <1>1, <1>2, Zenon DEF PollTypes, TimerTypes, FlagTypes, LoopTypes, SlaveTypes,
       PollBegins, BadId, LeavePoll, timerVars, meterVars, pollLoopVars, slaveVars
  <1>6. ASSUME delay = "timely", OneMeterEach, OneOnItsWay, PollBegins, m' \in Meters,
               meters_[m'].address = "secondary", primed',
               m \in Meters /\ meters_[m].address = "secondary" /\ primed => PollGoesOn
        PROVE  PollGoesOn'
    BY <1>6, <1>1, <1>2, Zenon DEF PollTypes, TimerTypes, FlagTypes, LoopTypes, SlaveTypes,
       PollGoesOn, BadId, LeavePoll, timerVars, meterVars, pollLoopVars, slaveVars
  <1> QED
    BY <1>2, <1>3, <1>4, <1>5, <1>6, Zenon DEF PollInv

LEMMA EnterWaitPolls ==
  ASSUME PollInv, EnterWait
  PROVE  PollInv'
  <1>1. /\ setup \in Setups /\ Len(meters_) \in Nat /\ Meters = 1 .. Len(meters_) /\ PollTypes
        /\ \A j \in Meters : meters_[j].slave \in Slaves
    BY SetupFacts, Zenon DEF PollInv, PollTypes, TimerTypes
  <1>2. /\ UNCHANGED setup /\ meters_' = meters_ /\ Meters' = Meters /\ delay' = delay
        /\ OneMeterEach' = OneMeterEach
    BY SameSetup, Zenon DEF EnterWait
  <1>3. PollTypes'
    <2>1. TimerTypes'
      BY <1>1, <1>2, PollingBounds, Zenon DEF PollTypes, TimerTypes, EnterWait, timerVars,
         meterVars, pollLoopVars, slaveVars
    <2>2. LoopTypes'
      BY <1>1, <1>2, Zenon DEF PollTypes, LoopTypes, EnterWait, timerVars, meterVars,
         pollLoopVars, slaveVars
    <2>3. SlaveTypes'
      BY <1>1, <1>2, PollingBounds, Zenon DEF PollTypes, SlaveTypes, EnterWait, timerVars,
         meterVars, pollLoopVars, slaveVars
    <2>4. FlagTypes'
      BY <1>1, <1>2, Zenon DEF PollTypes, FlagTypes, EnterWait, timerVars, meterVars,
         pollLoopVars, slaveVars
    <2> QED
      BY <2>1, <2>2, <2>3, <2>4 DEF PollTypes
  <1>4. ASSUME delay = "timely", OneMeterEach, OneOnItsWay, PollBegins PROVE OneOnItsWay'
    BY <1>4, <1>1, <1>2, Zenon DEF PollTypes, TimerTypes, FlagTypes, LoopTypes, SlaveTypes,
       OneOnItsWay, Live, EnterWait, timerVars, meterVars, pollLoopVars, slaveVars
  <1>5. ASSUME delay = "timely", OneMeterEach, OneOnItsWay, PollBegins PROVE PollBegins'
    BY <1>5, <1>1, <1>2, Zenon DEF PollTypes, TimerTypes, FlagTypes, LoopTypes, SlaveTypes,
       PollBegins, EnterWait, timerVars, meterVars, pollLoopVars, slaveVars
  <1>6. ASSUME delay = "timely", OneMeterEach, OneOnItsWay, PollBegins, m' \in Meters,
               meters_[m'].address = "secondary", primed',
               m \in Meters /\ meters_[m].address = "secondary" /\ primed => PollGoesOn
        PROVE  PollGoesOn'
    <2>1. UNCHANGED <<setup, m, fcb, num_repolls, more_records_follow_, selected, slaveFcb, part, got>>
      BY Zenon DEF EnterWait, timerVars, meterVars, pollLoopVars, slaveVars
    <2>2. /\ Polled' = Polled /\ Ready' = Ready /\ Sent' = Sent /\ Handled' = Handled
          /\ \A n : Got(n)' = Got(n)
          /\ \A t : IsNext(t)' = IsNext(t)
      BY <2>1, SamePoll, Zenon
    <2> QED
      BY <1>1, <1>2, <1>6, <2>1, <2>2, Zenon DEF PollTypes, TimerTypes, FlagTypes, LoopTypes,
         SlaveTypes, PollGoesOn, Live, EnterWait, timerVars, meterVars, pollLoopVars, slaveVars
  <1> QED
    BY <1>2, <1>3, <1>4, <1>5, <1>6, Zenon DEF PollInv

LEMMA NoResponsePolls ==
  ASSUME PollInv, NoResponse
  PROVE  PollInv'
  <1>1. /\ setup \in Setups /\ Len(meters_) \in Nat /\ Meters = 1 .. Len(meters_) /\ PollTypes
        /\ \A j \in Meters : meters_[j].slave \in Slaves
    BY SetupFacts, Zenon DEF PollInv, PollTypes, TimerTypes
  <1>2. /\ UNCHANGED setup /\ meters_' = meters_ /\ Meters' = Meters /\ delay' = delay
        /\ OneMeterEach' = OneMeterEach
    BY SameSetup, Zenon DEF NoResponse, LeavePoll
  <1>3. PollTypes'
    <2>1. TimerTypes'
      BY <1>1, <1>2, PollingBounds, SMTT(30) DEF PollTypes, TimerTypes, NoResponse, LeavePoll,
         timerVars,
         meterVars, pollLoopVars, slaveVars
    <2>2. LoopTypes'
      BY <1>1, <1>2, Zenon DEF PollTypes, LoopTypes, NoResponse, LeavePoll, timerVars, meterVars,
         pollLoopVars, slaveVars
    <2>3. SlaveTypes'
      BY <1>1, <1>2, PollingBounds, Zenon DEF PollTypes, SlaveTypes, NoResponse, LeavePoll,
         timerVars, meterVars, pollLoopVars, slaveVars
    <2>4. FlagTypes'
      <3>1. next_telegram' \in BOOLEAN /\ primed' \in BOOLEAN
        BY <1>1, Zenon DEF PollTypes, FlagTypes, NoResponse, LeavePoll, slaveVars
      <3> QED
        BY <1>1, <1>2, <3>1, Zenon DEF PollTypes, FlagTypes, NoResponse, LeavePoll, meterVars
    <2> QED
      BY <2>1, <2>2, <2>3, <2>4 DEF PollTypes
  <1>4. ASSUME delay = "timely", OneMeterEach, OneOnItsWay, PollBegins PROVE OneOnItsWay'
    BY <1>4, <1>1, <1>2, Zenon DEF PollTypes, TimerTypes, FlagTypes, LoopTypes, SlaveTypes,
       OneOnItsWay, Live, Quiet, NoResponse, LeavePoll, timerVars, meterVars, pollLoopVars,
       slaveVars
  <1>5. ASSUME delay = "timely", OneMeterEach, OneOnItsWay, PollBegins PROVE PollBegins'
    BY <1>5, <1>1, <1>2, Zenon DEF PollTypes, TimerTypes, FlagTypes, LoopTypes, SlaveTypes,
       PollBegins, NoResponse, LeavePoll, timerVars, meterVars, pollLoopVars, slaveVars
  <1>6. ASSUME delay = "timely", OneMeterEach, OneOnItsWay, PollBegins, m' \in Meters,
               meters_[m'].address = "secondary", primed',
               m \in Meters /\ meters_[m].address = "secondary" /\ primed => PollGoesOn
        PROVE  PollGoesOn'
    BY <1>6, <1>1, <1>2, Zenon DEF PollTypes, TimerTypes, FlagTypes, LoopTypes, SlaveTypes,
       PollGoesOn, NoResponse, LeavePoll, timerVars, meterVars, pollLoopVars, slaveVars
  <1> QED
    BY <1>2, <1>3, <1>4, <1>5, <1>6, Zenon DEF PollInv

LEMMA EndPollPolls ==
  ASSUME PollInv, EndPoll
  PROVE  PollInv'
  <1>1. /\ setup \in Setups /\ Len(meters_) \in Nat /\ Meters = 1 .. Len(meters_) /\ PollTypes
        /\ \A j \in Meters : meters_[j].slave \in Slaves
    BY SetupFacts, Zenon DEF PollInv, PollTypes, TimerTypes
  <1>2. /\ UNCHANGED setup /\ meters_' = meters_ /\ Meters' = Meters /\ delay' = delay
        /\ OneMeterEach' = OneMeterEach
    BY SameSetup, Zenon DEF EndPoll, LeavePoll
  <1>3. PollTypes'
    <2>1. TimerTypes'
      BY <1>1, <1>2, PollingBounds DEF PollTypes, TimerTypes, EndPoll, LeavePoll, timerVars,
         meterVars, pollLoopVars, slaveVars
    <2>2. LoopTypes'
      BY <1>1, <1>2, Zenon DEF PollTypes, LoopTypes, EndPoll, LeavePoll, timerVars, meterVars,
         pollLoopVars, slaveVars
    <2>3. SlaveTypes'
      BY <1>1, <1>2, PollingBounds, Zenon DEF PollTypes, SlaveTypes, EndPoll, LeavePoll,
         timerVars, meterVars, pollLoopVars, slaveVars
    <2>4. FlagTypes'
      <3>1. next_telegram' \in BOOLEAN /\ primed' \in BOOLEAN
        BY <1>1, Zenon DEF PollTypes, FlagTypes, EndPoll, LeavePoll, slaveVars
      <3> QED
        BY <1>1, <1>2, <3>1, Zenon DEF PollTypes, FlagTypes, EndPoll, LeavePoll, meterVars
    <2> QED
      BY <2>1, <2>2, <2>3, <2>4 DEF PollTypes
  <1>4. ASSUME delay = "timely", OneMeterEach, OneOnItsWay, PollBegins PROVE OneOnItsWay'
    BY <1>4, <1>1, <1>2, Zenon DEF PollTypes, TimerTypes, FlagTypes, LoopTypes, SlaveTypes,
       OneOnItsWay, Live, EndPoll, LeavePoll, timerVars, meterVars, pollLoopVars, slaveVars
  <1>5. ASSUME delay = "timely", OneMeterEach, OneOnItsWay, PollBegins PROVE PollBegins'
    BY <1>5, <1>1, <1>2, Zenon DEF PollTypes, TimerTypes, FlagTypes, LoopTypes, SlaveTypes,
       PollBegins, EndPoll, LeavePoll, timerVars, meterVars, pollLoopVars, slaveVars
  <1>6. ASSUME delay = "timely", OneMeterEach, OneOnItsWay, PollBegins, m' \in Meters,
               meters_[m'].address = "secondary", primed',
               m \in Meters /\ meters_[m].address = "secondary" /\ primed => PollGoesOn
        PROVE  PollGoesOn'
    BY <1>6, <1>1, <1>2, Zenon DEF PollTypes, TimerTypes, FlagTypes, LoopTypes, SlaveTypes,
       PollGoesOn, EndPoll, LeavePoll, timerVars, meterVars, pollLoopVars, slaveVars
  <1> QED
    BY <1>2, <1>3, <1>4, <1>5, <1>6, Zenon DEF PollInv

LEMMA EndPollMetersPolls ==
  ASSUME PollInv, EndPollMeters
  PROVE  PollInv'
  <1>1. /\ setup \in Setups /\ Len(meters_) \in Nat /\ Meters = 1 .. Len(meters_) /\ PollTypes
        /\ \A j \in Meters : meters_[j].slave \in Slaves
    BY SetupFacts, Zenon DEF PollInv, PollTypes, TimerTypes
  <1>2. /\ UNCHANGED setup /\ meters_' = meters_ /\ Meters' = Meters /\ delay' = delay
        /\ OneMeterEach' = OneMeterEach
    BY SameSetup, Zenon DEF EndPollMeters
  <1>3. PollTypes'
    <2>1. TimerTypes'
      BY <1>1, <1>2, PollingBounds, Zenon DEF PollTypes, TimerTypes, EndPollMeters, timerVars,
         meterVars, pollLoopVars, slaveVars
    <2>2. LoopTypes'
      BY <1>1, <1>2, Zenon DEF PollTypes, LoopTypes, EndPollMeters, timerVars, meterVars,
         pollLoopVars, slaveVars
    <2>3. SlaveTypes'
      BY <1>1, <1>2, PollingBounds, Zenon DEF PollTypes, SlaveTypes, EndPollMeters, timerVars,
         meterVars, pollLoopVars, slaveVars
    <2>4. FlagTypes'
      BY <1>1, <1>2, Zenon DEF PollTypes, FlagTypes, EndPollMeters, timerVars, meterVars,
         pollLoopVars, slaveVars
    <2> QED
      BY <2>1, <2>2, <2>3, <2>4 DEF PollTypes
  <1>4. ASSUME delay = "timely", OneMeterEach, OneOnItsWay, PollBegins PROVE OneOnItsWay'
    BY <1>4, <1>1, <1>2, Zenon DEF PollTypes, TimerTypes, FlagTypes, LoopTypes, SlaveTypes,
       OneOnItsWay, Live, EndPollMeters, timerVars, meterVars, pollLoopVars, slaveVars
  <1>5. ASSUME delay = "timely", OneMeterEach, OneOnItsWay, PollBegins PROVE PollBegins'
    BY <1>5, <1>1, <1>2, Zenon DEF PollTypes, TimerTypes, FlagTypes, LoopTypes, SlaveTypes,
       PollBegins, EndPollMeters, timerVars, meterVars, pollLoopVars, slaveVars
  <1>6. ASSUME delay = "timely", OneMeterEach, OneOnItsWay, PollBegins, m' \in Meters,
               meters_[m'].address = "secondary", primed',
               m \in Meters /\ meters_[m].address = "secondary" /\ primed => PollGoesOn
        PROVE  PollGoesOn'
    BY <1>6, <1>1, <1>2, Zenon DEF PollTypes, TimerTypes, FlagTypes, LoopTypes, SlaveTypes,
       PollGoesOn, EndPollMeters, timerVars, meterVars, pollLoopVars, slaveVars
  <1> QED
    BY <1>2, <1>3, <1>4, <1>5, <1>6, Zenon DEF PollInv

LEMMA ReceiveTelegramPolls ==
  ASSUME PollInv, ReceiveTelegram
  PROVE  PollInv'
  <1>1. /\ setup \in Setups /\ Len(meters_) \in Nat /\ Meters = 1 .. Len(meters_) /\ PollTypes
        /\ \A j \in Meters : meters_[j].slave \in Slaves
    BY SetupFacts, Zenon DEF PollInv, PollTypes, TimerTypes
  <1>2. /\ UNCHANGED setup /\ meters_' = meters_ /\ Meters' = Meters /\ delay' = delay
        /\ OneMeterEach' = OneMeterEach
    BY SameSetup, Zenon DEF ReceiveTelegram
  <1>3. PollTypes'
    <2>1. TimerTypes'
      BY <1>1, <1>2, PollingBounds, Zenon DEF PollTypes, TimerTypes, ReceiveTelegram, timerVars,
         meterVars, pollLoopVars, slaveVars
    <2>2. LoopTypes'
      <3>1. Head(line) \in Telegrams /\ 1 \in 1 .. Len(meters_) + 1
        BY <1>1 DEF PollTypes, SlaveTypes, ReceiveTelegram
      <3> QED
        BY <1>1, <1>2, <3>1, Zenon DEF PollTypes, LoopTypes, ReceiveTelegram, timerVars,
           meterVars, pollLoopVars, slaveVars
    <2>3. SlaveTypes'
      BY <1>1, <1>2, PollingBounds DEF PollTypes, SlaveTypes, ReceiveTelegram, timerVars, meterVars,
         pollLoopVars, slaveVars
    <2>4. FlagTypes'
      BY <1>1, <1>2, Zenon DEF PollTypes, FlagTypes, ReceiveTelegram, timerVars, meterVars,
         pollLoopVars, slaveVars
    <2> QED
      BY <2>1, <2>2, <2>3, <2>4 DEF PollTypes
  <1>4. ASSUME delay = "timely", OneMeterEach, OneOnItsWay, PollBegins PROVE OneOnItsWay'
    BY <1>4, <1>1, <1>2 DEF PollTypes, TimerTypes, FlagTypes, LoopTypes, SlaveTypes, OneOnItsWay,
       Live, ReceiveTelegram, timerVars, meterVars, pollLoopVars, slaveVars
  <1>5. ASSUME delay = "timely", OneMeterEach, OneOnItsWay, PollBegins PROVE PollBegins'
    BY <1>5, <1>1, <1>2, Zenon DEF PollTypes, TimerTypes, FlagTypes, LoopTypes, SlaveTypes,
       PollBegins, ReceiveTelegram, timerVars, meterVars, pollLoopVars, slaveVars
  <1>6. ASSUME delay = "timely", OneMeterEach, OneOnItsWay, PollBegins, m' \in Meters,
               meters_[m'].address = "secondary", primed',
               m \in Meters /\ meters_[m].address = "secondary" /\ primed => PollGoesOn
        PROVE  PollGoesOn'
    <2>1. UNCHANGED <<setup, m, fcb, num_repolls, more_records_follow_, selected, slaveFcb, part, got>>
      BY Zenon DEF ReceiveTelegram, timerVars, meterVars, pollLoopVars, slaveVars
    <2>2. /\ Polled' = Polled /\ Ready' = Ready /\ Sent' = Sent /\ Handled' = Handled
          /\ \A n : Got(n)' = Got(n)
          /\ \A t : IsNext(t)' = IsNext(t)
      BY <2>1, SamePoll, Zenon
    <2> QED
      BY <1>1, <1>2, <1>6, <2>1, <2>2 DEF PollTypes, TimerTypes, FlagTypes, LoopTypes, SlaveTypes,
         PollGoesOn, Live, ReceiveTelegram, timerVars, meterVars, pollLoopVars, slaveVars
  <1> QED
    BY <1>2, <1>3, <1>4, <1>5, <1>6, Zenon DEF PollInv

LEMMA NotForMePolls ==
  ASSUME PollInv, NotForMe
  PROVE  PollInv'
  <1>1. /\ setup \in Setups /\ Len(meters_) \in Nat /\ Meters = 1 .. Len(meters_) /\ PollTypes
        /\ \A j \in Meters : meters_[j].slave \in Slaves
    BY SetupFacts, Zenon DEF PollInv, PollTypes, TimerTypes
  <1>2. /\ UNCHANGED setup /\ meters_' = meters_ /\ Meters' = Meters /\ delay' = delay
        /\ OneMeterEach' = OneMeterEach
    BY SameSetup, Zenon DEF NotForMe
  <1>3. PollTypes'
    <2>1. TimerTypes'
      BY <1>1, <1>2, PollingBounds, Zenon DEF PollTypes, TimerTypes, NotForMe, timerVars,
         meterVars, pollLoopVars, slaveVars
    <2>2. LoopTypes'
      BY <1>1, <1>2, SMTT(30) DEF PollTypes, LoopTypes, NotForMe, timerVars, meterVars,
         pollLoopVars,
         slaveVars
    <2>3. SlaveTypes'
      BY <1>1, <1>2, PollingBounds, Zenon DEF PollTypes, SlaveTypes, NotForMe, timerVars,
         meterVars, pollLoopVars, slaveVars
    <2>4. FlagTypes'
      BY <1>1, <1>2, Zenon DEF PollTypes, FlagTypes, NotForMe, timerVars, meterVars, pollLoopVars,
         slaveVars
    <2> QED
      BY <2>1, <2>2, <2>3, <2>4 DEF PollTypes
  <1>4. ASSUME delay = "timely", OneMeterEach, OneOnItsWay, PollBegins PROVE OneOnItsWay'
    BY <1>4, <1>1, <1>2 DEF PollTypes, TimerTypes, FlagTypes, LoopTypes, SlaveTypes, OneOnItsWay,
       Live, NotForMe, timerVars, meterVars, pollLoopVars, slaveVars
  <1>5. ASSUME delay = "timely", OneMeterEach, OneOnItsWay, PollBegins PROVE PollBegins'
    BY <1>5, <1>1, <1>2, Zenon DEF PollTypes, TimerTypes, FlagTypes, LoopTypes, SlaveTypes,
       PollBegins, NotForMe, timerVars, meterVars, pollLoopVars, slaveVars
  <1>6. ASSUME delay = "timely", OneMeterEach, OneOnItsWay, PollBegins, m' \in Meters,
               meters_[m'].address = "secondary", primed',
               m \in Meters /\ meters_[m].address = "secondary" /\ primed => PollGoesOn
        PROVE  PollGoesOn'
    <2>1. UNCHANGED <<setup, m, fcb, num_repolls, more_records_follow_, selected, slaveFcb, part, got>>
      BY Zenon DEF NotForMe, timerVars, meterVars, pollLoopVars, slaveVars
    <2>2. /\ Polled' = Polled /\ Ready' = Ready /\ Sent' = Sent /\ Handled' = Handled
          /\ \A n : Got(n)' = Got(n)
          /\ \A t : IsNext(t)' = IsNext(t)
      BY <2>1, SamePoll, Zenon
    <2> QED
      BY <1>1, <1>2, <1>6, <2>1, <2>2 DEF PollTypes, TimerTypes, FlagTypes, LoopTypes, SlaveTypes,
         PollGoesOn, Live, NotForMe, timerVars, meterVars, pollLoopVars, slaveVars
  <1> QED
    BY <1>2, <1>3, <1>4, <1>5, <1>6, Zenon DEF PollInv

LEMMA NotParsedPolls ==
  ASSUME PollInv, NotParsed
  PROVE  PollInv'
  <1>1. /\ setup \in Setups /\ Len(meters_) \in Nat /\ Meters = 1 .. Len(meters_) /\ PollTypes
        /\ \A j \in Meters : meters_[j].slave \in Slaves
    BY SetupFacts, Zenon DEF PollInv, PollTypes, TimerTypes
  <1>2. /\ UNCHANGED setup /\ meters_' = meters_ /\ Meters' = Meters /\ delay' = delay
        /\ OneMeterEach' = OneMeterEach
    BY SameSetup, Zenon DEF NotParsed
  <1>3. PollTypes'
    <2>1. TimerTypes'
      BY <1>1, <1>2, PollingBounds, Zenon DEF PollTypes, TimerTypes, NotParsed, timerVars,
         meterVars, pollLoopVars, slaveVars
    <2>2. LoopTypes'
      BY <1>1, <1>2 DEF PollTypes, LoopTypes, NotParsed, timerVars, meterVars, pollLoopVars,
         slaveVars
    <2>3. SlaveTypes'
      BY <1>1, <1>2, PollingBounds, Zenon DEF PollTypes, SlaveTypes, NotParsed, timerVars,
         meterVars, pollLoopVars, slaveVars
    <2>4. FlagTypes'
      BY <1>1, <1>2, Zenon DEF PollTypes, FlagTypes, NotParsed, timerVars, meterVars,
         pollLoopVars, slaveVars
    <2> QED
      BY <2>1, <2>2, <2>3, <2>4 DEF PollTypes
  <1>4. ASSUME delay = "timely", OneMeterEach, OneOnItsWay, PollBegins PROVE OneOnItsWay'
    BY <1>4, <1>1, <1>2 DEF PollTypes, TimerTypes, FlagTypes, LoopTypes, SlaveTypes, OneOnItsWay,
       Live, NotParsed, timerVars, meterVars, pollLoopVars, slaveVars
  <1>5. ASSUME delay = "timely", OneMeterEach, OneOnItsWay, PollBegins PROVE PollBegins'
    BY <1>5, <1>1, <1>2, Zenon DEF PollTypes, TimerTypes, FlagTypes, LoopTypes, SlaveTypes,
       PollBegins, NotParsed, timerVars, meterVars, pollLoopVars, slaveVars
  <1>6. ASSUME delay = "timely", OneMeterEach, OneOnItsWay, PollBegins, m' \in Meters,
               meters_[m'].address = "secondary", primed',
               m \in Meters /\ meters_[m].address = "secondary" /\ primed => PollGoesOn
        PROVE  PollGoesOn'
    <2>1. UNCHANGED <<setup, m, fcb, num_repolls, more_records_follow_, selected, slaveFcb, part, got>>
      BY Zenon DEF NotParsed, timerVars, meterVars, pollLoopVars, slaveVars
    <2>2. /\ Polled' = Polled /\ Ready' = Ready /\ Sent' = Sent /\ Handled' = Handled
          /\ \A n : Got(n)' = Got(n)
          /\ \A t : IsNext(t)' = IsNext(t)
      BY <2>1, SamePoll, Zenon
    <2> QED
      BY <1>1, <1>2, <1>6, <2>1, <2>2 DEF PollTypes, TimerTypes, FlagTypes, LoopTypes, SlaveTypes,
         PollGoesOn, Live, NotParsed, timerVars, meterVars, pollLoopVars, slaveVars
  <1> QED
    BY <1>2, <1>3, <1>4, <1>5, <1>6, Zenon DEF PollInv

LEMMA EndTelegramPolls ==
  ASSUME PollInv, EndTelegram
  PROVE  PollInv'
  <1>1. /\ setup \in Setups /\ Len(meters_) \in Nat /\ Meters = 1 .. Len(meters_) /\ PollTypes
        /\ \A j \in Meters : meters_[j].slave \in Slaves
    BY SetupFacts, Zenon DEF PollInv, PollTypes, TimerTypes
  <1>2. /\ UNCHANGED setup /\ meters_' = meters_ /\ Meters' = Meters /\ delay' = delay
        /\ OneMeterEach' = OneMeterEach
    BY SameSetup, Zenon DEF EndTelegram
  <1>3. PollTypes'
    <2>1. TimerTypes'
      BY <1>1, <1>2, PollingBounds, Zenon DEF PollTypes, TimerTypes, EndTelegram, timerVars,
         meterVars, pollLoopVars, slaveVars
    <2>2. LoopTypes'
      BY <1>1, <1>2 DEF PollTypes, LoopTypes, EndTelegram, timerVars, meterVars, pollLoopVars,
         slaveVars
    <2>3. SlaveTypes'
      BY <1>1, <1>2, PollingBounds, Zenon DEF PollTypes, SlaveTypes, EndTelegram, timerVars,
         meterVars, pollLoopVars, slaveVars
    <2>4. FlagTypes'
      BY <1>1, <1>2, Zenon DEF PollTypes, FlagTypes, EndTelegram, timerVars, meterVars,
         pollLoopVars, slaveVars
    <2> QED
      BY <2>1, <2>2, <2>3, <2>4 DEF PollTypes
  <1>4. ASSUME delay = "timely", OneMeterEach, OneOnItsWay, PollBegins PROVE OneOnItsWay'
    BY <1>4, <1>1, <1>2, Zenon DEF PollTypes, TimerTypes, FlagTypes, LoopTypes, SlaveTypes,
       OneOnItsWay, Live, EndTelegram, timerVars, meterVars, pollLoopVars, slaveVars
  <1>5. ASSUME delay = "timely", OneMeterEach, OneOnItsWay, PollBegins PROVE PollBegins'
    BY <1>5, <1>1, <1>2, Zenon DEF PollTypes, TimerTypes, FlagTypes, LoopTypes, SlaveTypes,
       PollBegins, EndTelegram, timerVars, meterVars, pollLoopVars, slaveVars
  <1>6. ASSUME delay = "timely", OneMeterEach, OneOnItsWay, PollBegins, m' \in Meters,
               meters_[m'].address = "secondary", primed',
               m \in Meters /\ meters_[m].address = "secondary" /\ primed => PollGoesOn
        PROVE  PollGoesOn'
    <2>1. UNCHANGED <<setup, m, fcb, num_repolls, more_records_follow_, selected, slaveFcb, part, got>>
      BY Zenon DEF EndTelegram, timerVars, meterVars, pollLoopVars, slaveVars
    <2>2. /\ Polled' = Polled /\ Ready' = Ready /\ Sent' = Sent /\ Handled' = Handled
          /\ \A n : Got(n)' = Got(n)
          /\ \A t : IsNext(t)' = IsNext(t)
      BY <2>1, SamePoll, Zenon
    <2> QED
      BY <1>1, <1>2, <1>6, <2>1, <2>2 DEF PollTypes, TimerTypes, FlagTypes, LoopTypes, SlaveTypes,
         PollGoesOn, Live, EndTelegram, timerVars, meterVars, pollLoopVars, slaveVars
  <1> QED
    BY <1>2, <1>3, <1>4, <1>5, <1>6, Zenon DEF PollInv

LEMMA TriggerUpdatePolls ==
  ASSUME PollInv, TriggerUpdate
  PROVE  PollInv'
  <1>1. /\ setup \in Setups /\ Len(meters_) \in Nat /\ Meters = 1 .. Len(meters_) /\ PollTypes
        /\ \A j \in Meters : meters_[j].slave \in Slaves
    BY SetupFacts, Zenon DEF PollInv, PollTypes, TimerTypes
  <1>2. /\ UNCHANGED setup /\ meters_' = meters_ /\ Meters' = Meters /\ delay' = delay
        /\ OneMeterEach' = OneMeterEach
    BY SameSetup, Zenon DEF TriggerUpdate
  <1>3. PollTypes'
    <2>1. TimerTypes'
      BY <1>1, <1>2, PollingBounds, Zenon DEF PollTypes, TimerTypes, TriggerUpdate, timerVars,
         meterVars, pollLoopVars, slaveVars
    <2>2. LoopTypes'
      <3>1. receiver + 1 \in 1 .. Len(meters_) + 1
        BY <1>1, SMTT(30) DEF PollTypes, LoopTypes, TriggerUpdate
      <3> QED
        BY <1>1, <1>2, <3>1, Zenon DEF PollTypes, LoopTypes, TriggerUpdate
    <2>3. SlaveTypes'
      BY <1>1, <1>2, PollingBounds, Zenon DEF PollTypes, SlaveTypes, TriggerUpdate, timerVars,
         meterVars, pollLoopVars, slaveVars
    <2>4. FlagTypes'
      BY <1>1, <1>2, Zenon DEF PollTypes, FlagTypes, TriggerUpdate, timerVars, meterVars,
         pollLoopVars,
         slaveVars
    <2> QED
      BY <2>1, <2>2, <2>3, <2>4 DEF PollTypes
  <1>4. ASSUME delay = "timely", OneMeterEach, OneOnItsWay, PollBegins PROVE OneOnItsWay'
    <2>1. ~Live'
      BY <1>1, <1>2, <1>4 DEF PollTypes, LoopTypes, Live, OneMeterEach, TriggerUpdate
    <2> QED
      BY <1>4, <2>1, Zenon DEF OneOnItsWay, TriggerUpdate, timerVars, meterVars, pollLoopVars,
         slaveVars
  <1>5. ASSUME delay = "timely", OneMeterEach, OneOnItsWay, PollBegins PROVE PollBegins'
    BY <1>5, <1>1, <1>2, ZenonT(40) DEF PollTypes, TimerTypes, FlagTypes, LoopTypes, SlaveTypes,
       PollBegins, TriggerUpdate, timerVars, meterVars, pollLoopVars, slaveVars
  <1>6. ASSUME delay = "timely", OneMeterEach, OneOnItsWay, PollBegins, m' \in Meters,
               meters_[m'].address = "secondary", primed',
               m \in Meters /\ meters_[m].address = "secondary" /\ primed => PollGoesOn
        PROVE  PollGoesOn'
    <2>1. UNCHANGED <<setup, m, fcb, num_repolls, more_records_follow_, selected, slaveFcb, part, got>>
      BY Zenon DEF TriggerUpdate, timerVars, meterVars, pollLoopVars, slaveVars
    <2>2. /\ Polled' = Polled /\ Ready' = Ready /\ Sent' = Sent /\ Handled' = Handled
          /\ \A n : Got(n)' = Got(n)
          /\ \A t : IsNext(t)' = IsNext(t)
      BY <2>1, SamePoll, Zenon
    <2>3. ~Live'
      BY <1>1, <1>2, <1>6, SMTT(30) DEF PollTypes, LoopTypes, Live, OneMeterEach, TriggerUpdate
    <2> QED
      BY <1>1, <1>2, <1>6, <2>1, <2>2, <2>3, SMTT(30) DEF PollGoesOn, TriggerUpdate, timerVars,
         meterVars,
         pollLoopVars, slaveVars
  <1> QED
    BY <1>2, <1>3, <1>4, <1>5, <1>6, Zenon DEF PollInv

LEMMA IntervalPassesPolls ==
  ASSUME NEW k \in Meters, PollInv, IntervalPasses(k)
  PROVE  PollInv'
  <1>1. /\ setup \in Setups /\ Len(meters_) \in Nat /\ Meters = 1 .. Len(meters_) /\ PollTypes
        /\ \A j \in Meters : meters_[j].slave \in Slaves
    BY SetupFacts, Zenon DEF PollInv, PollTypes, TimerTypes
  <1>2. /\ UNCHANGED setup /\ meters_' = meters_ /\ Meters' = Meters /\ delay' = delay
        /\ OneMeterEach' = OneMeterEach
    BY SameSetup, Zenon DEF IntervalPasses
  <1>3. PollTypes'
    <2>1. TimerTypes'
      BY <1>1, <1>2, PollingBounds, Zenon DEF PollTypes, TimerTypes, IntervalPasses, timerVars,
         meterVars, pollLoopVars, slaveVars
    <2>2. LoopTypes'
      BY <1>1, <1>2, Zenon DEF PollTypes, LoopTypes, IntervalPasses, timerVars, meterVars,
         pollLoopVars, slaveVars
    <2>3. SlaveTypes'
      BY <1>1, <1>2, PollingBounds, Zenon DEF PollTypes, SlaveTypes, IntervalPasses, timerVars,
         meterVars, pollLoopVars, slaveVars
    <2>4. FlagTypes'
      BY <1>1, <1>2, Zenon DEF PollTypes, FlagTypes, IntervalPasses, timerVars, meterVars,
         pollLoopVars, slaveVars
    <2> QED
      BY <2>1, <2>2, <2>3, <2>4, Zenon DEF PollTypes
  <1>4. ASSUME delay = "timely", OneMeterEach, OneOnItsWay, PollBegins PROVE OneOnItsWay'
    BY <1>4, <1>1, <1>2, Zenon DEF PollTypes, TimerTypes, FlagTypes, LoopTypes, SlaveTypes,
       OneOnItsWay, Live, IntervalPasses, timerVars, meterVars, pollLoopVars, slaveVars
  <1>5. ASSUME delay = "timely", OneMeterEach, OneOnItsWay, PollBegins PROVE PollBegins'
    BY <1>5, <1>1, <1>2, Zenon DEF PollTypes, TimerTypes, FlagTypes, LoopTypes, SlaveTypes,
       PollBegins, IntervalPasses, timerVars, meterVars, pollLoopVars, slaveVars
  <1>6. ASSUME delay = "timely", OneMeterEach, OneOnItsWay, PollBegins, m' \in Meters,
               meters_[m'].address = "secondary", primed',
               m \in Meters /\ meters_[m].address = "secondary" /\ primed => PollGoesOn
        PROVE  PollGoesOn'
    <2>1. UNCHANGED <<setup, m, fcb, num_repolls, more_records_follow_, selected, slaveFcb, part, got>>
      BY Zenon DEF IntervalPasses, timerVars, meterVars, pollLoopVars, slaveVars
    <2>2. /\ Polled' = Polled /\ Ready' = Ready /\ Sent' = Sent /\ Handled' = Handled
          /\ \A n : Got(n)' = Got(n)
          /\ \A t : IsNext(t)' = IsNext(t)
      BY <2>1, SamePoll, Zenon
    <2> QED
      BY <1>1, <1>2, <1>6, <2>1, <2>2, Zenon DEF PollTypes, TimerTypes, FlagTypes, LoopTypes,
         SlaveTypes, PollGoesOn, Live, IntervalPasses, timerVars, meterVars, pollLoopVars,
         slaveVars
  <1> QED
    BY <1>2, <1>3, <1>4, <1>5, <1>6, Zenon DEF PollInv

LEMMA SpuriousPollWakeupPolls ==
  ASSUME PollInv, SpuriousPollWakeup
  PROVE  PollInv'
  <1>1. /\ setup \in Setups /\ Len(meters_) \in Nat /\ Meters = 1 .. Len(meters_) /\ PollTypes
        /\ \A j \in Meters : meters_[j].slave \in Slaves
    BY SetupFacts, Zenon DEF PollInv, PollTypes, TimerTypes
  <1>2. /\ UNCHANGED setup /\ meters_' = meters_ /\ Meters' = Meters /\ delay' = delay
        /\ OneMeterEach' = OneMeterEach
    BY SameSetup, Zenon DEF SpuriousPollWakeup
  <1>3. PollTypes'
    <2>1. TimerTypes'
      BY <1>1, <1>2, PollingBounds, Zenon DEF PollTypes, TimerTypes, SpuriousPollWakeup,
         timerVars, meterVars, pollLoopVars, slaveVars
    <2>2. LoopTypes'
      BY <1>1, <1>2, Zenon DEF PollTypes, LoopTypes, SpuriousPollWakeup, timerVars, meterVars,
         pollLoopVars, slaveVars
    <2>3. SlaveTypes'
      BY <1>1, <1>2, PollingBounds, Zenon DEF PollTypes, SlaveTypes, SpuriousPollWakeup,
         timerVars, meterVars, pollLoopVars, slaveVars
    <2>4. FlagTypes'
      BY <1>1, <1>2, Zenon DEF PollTypes, FlagTypes, SpuriousPollWakeup, timerVars, meterVars,
         pollLoopVars, slaveVars
    <2> QED
      BY <2>1, <2>2, <2>3, <2>4 DEF PollTypes
  <1>4. ASSUME delay = "timely", OneMeterEach, OneOnItsWay, PollBegins PROVE OneOnItsWay'
    BY <1>4, <1>1, <1>2, Zenon DEF PollTypes, TimerTypes, FlagTypes, LoopTypes, SlaveTypes,
       OneOnItsWay, Live, SpuriousPollWakeup, timerVars, meterVars, pollLoopVars, slaveVars
  <1>5. ASSUME delay = "timely", OneMeterEach, OneOnItsWay, PollBegins PROVE PollBegins'
    BY <1>5, <1>1, <1>2, Zenon DEF PollTypes, TimerTypes, FlagTypes, LoopTypes, SlaveTypes,
       PollBegins, SpuriousPollWakeup, timerVars, meterVars, pollLoopVars, slaveVars
  <1>6. ASSUME delay = "timely", OneMeterEach, OneOnItsWay, PollBegins, m' \in Meters,
               meters_[m'].address = "secondary", primed',
               m \in Meters /\ meters_[m].address = "secondary" /\ primed => PollGoesOn
        PROVE  PollGoesOn'
    <2>1. UNCHANGED <<setup, m, fcb, num_repolls, more_records_follow_, selected, slaveFcb, part, got>>
      BY Zenon DEF SpuriousPollWakeup, timerVars, meterVars, pollLoopVars, slaveVars
    <2>2. /\ Polled' = Polled /\ Ready' = Ready /\ Sent' = Sent /\ Handled' = Handled
          /\ \A n : Got(n)' = Got(n)
          /\ \A t : IsNext(t)' = IsNext(t)
      BY <2>1, SamePoll, Zenon
    <2> QED
      BY <1>1, <1>2, <1>6, <2>1, <2>2, Zenon DEF PollTypes, TimerTypes, FlagTypes, LoopTypes,
         SlaveTypes, PollGoesOn, Live, SpuriousPollWakeup, timerVars, meterVars, pollLoopVars,
         slaveVars
  <1> QED
    BY <1>2, <1>3, <1>4, <1>5, <1>6, Zenon DEF PollInv

LEMMA PrimaryPollPolls ==
  ASSUME PollInv, PrimaryPoll
  PROVE  PollInv'
  <1>1. /\ setup \in Setups /\ Len(meters_) \in Nat /\ Meters = 1 .. Len(meters_) /\ PollTypes
        /\ \A j \in Meters : meters_[j].slave \in Slaves
    BY SetupFacts, Zenon DEF PollInv, PollTypes, TimerTypes
  <1>2. /\ UNCHANGED setup /\ meters_' = meters_ /\ Meters' = Meters /\ delay' = delay
        /\ OneMeterEach' = OneMeterEach
    BY SameSetup, Zenon DEF PrimaryPoll
  <1>3. PollTypes'
    <2>1. TimerTypes'
      BY <1>1, <1>2, PollingBounds, Zenon DEF PollTypes, TimerTypes, PrimaryPoll, timerVars,
         meterVars, pollLoopVars, slaveVars
    <2>2. LoopTypes'
      BY <1>1, <1>2, Zenon DEF PollTypes, LoopTypes, PrimaryPoll, timerVars, meterVars,
         pollLoopVars, slaveVars
    <2>3. SlaveTypes'
      <3>1. {meters_[m].slave} \in SUBSET Slaves /\ fcb \in {0, 1} /\ SlaveTypes
        BY <1>1, Zenon DEF PollTypes, TimerTypes, SlaveTypes, PrimaryPoll
      <3> QED
        BY <3>1, Requested, Zenon DEF PrimaryPoll
    <2>4. FlagTypes'
      <3>1. {meters_[m].slave} \in SUBSET Slaves /\ fcb \in {0, 1} /\ SlaveTypes
        BY <1>1, Zenon DEF PollTypes, TimerTypes, SlaveTypes, PrimaryPoll
      <3>2. primed' = primed
        BY <3>1, Requested, Zenon DEF PrimaryPoll
      <3> QED
        BY <1>1, <1>2, <3>2, Zenon DEF PollTypes, FlagTypes, PrimaryPoll, meterVars
    <2> QED
      BY <2>1, <2>2, <2>3, <2>4 DEF PollTypes
  <1>4. ASSUME delay = "timely", OneMeterEach, OneOnItsWay, PollBegins PROVE OneOnItsWay'
    <2>1. {meters_[m].slave} \in SUBSET Slaves /\ fcb \in {0, 1} /\ SlaveTypes
      BY <1>1, Zenon DEF PollTypes, TimerTypes, SlaveTypes, PrimaryPoll
    <2>2. line = <<>> /\ ~Live /\ lpc # "notify"
      BY <1>4, Zenon DEF OneOnItsWay, PrimaryPoll
    <2>3. ~Live' /\ lpc' # "notify"
      BY <1>2, <2>2, Zenon DEF Live, PrimaryPoll, pollLoopVars
    <2>4. \A t : Len(Append(<<>>, t)) = 1
      OBVIOUS
    <2>5. line' = line \/ \E t : line' = Append(line, t)
      BY <2>1, Requested, Zenon DEF PrimaryPoll
    <2>6. Len(line') <= 1
      <3>1. CASE line' = line
        BY <2>2, <3>1
      <3>2. CASE line' # line
        <4>1. PICK t : line' = Append(<<>>, t)
          BY <2>2, <2>5, <3>2, Zenon
        <4> QED
          BY <2>4, <4>1
      <3> QED
        BY <3>1, <3>2
    <2> QED
      BY <2>3, <2>6, Zenon DEF OneOnItsWay, PrimaryPoll
  <1>5. ASSUME delay = "timely", OneMeterEach, OneOnItsWay, PollBegins PROVE PollBegins'
    BY <1>5, <1>1, <1>2, Zenon DEF PollTypes, TimerTypes, FlagTypes, LoopTypes, SlaveTypes,
       PollBegins, PrimaryPoll, timerVars, meterVars, pollLoopVars, slaveVars
  <1>6. ASSUME delay = "timely", OneMeterEach, OneOnItsWay, PollBegins, m' \in Meters,
               meters_[m'].address = "secondary", primed',
               m \in Meters /\ meters_[m].address = "secondary" /\ primed => PollGoesOn
        PROVE  PollGoesOn'
    BY <1>6, <1>2, Zenon DEF PrimaryPoll
  <1> QED
    BY <1>2, <1>3, <1>4, <1>5, <1>6, Zenon DEF PollInv

LEMMA SecondarySelectPolls ==
  ASSUME PollInv, SecondarySelect
  PROVE  PollInv'
  <1>1. /\ setup \in Setups /\ Len(meters_) \in Nat /\ Meters = 1 .. Len(meters_) /\ PollTypes
        /\ \A j \in Meters : meters_[j].slave \in Slaves
    BY SetupFacts, Zenon DEF PollInv, PollTypes, TimerTypes
  <1>2. /\ UNCHANGED setup /\ meters_' = meters_ /\ Meters' = Meters /\ delay' = delay
        /\ OneMeterEach' = OneMeterEach
    BY SameSetup, Zenon DEF SecondarySelect
  <1>3. PollTypes'
    <2>1. TimerTypes'
      BY <1>1, <1>2, PollingBounds, Zenon DEF PollTypes, TimerTypes, SecondarySelect, timerVars,
         meterVars, pollLoopVars, slaveVars
    <2>2. LoopTypes'
      BY <1>1, <1>2, Zenon DEF PollTypes, LoopTypes, SecondarySelect, timerVars, meterVars,
         pollLoopVars, slaveVars
    <2>3. SlaveTypes'
      <3>1. line' = line /\ meters_[m].slave \in Slaves
        BY <1>1, Zenon DEF PollTypes, TimerTypes, SecondarySelect
      <3>2. CASE UNCHANGED <<selected, slaveFcb, part>>
        BY <1>1, <3>1, <3>2, Zenon DEF PollTypes, SlaveTypes
      <3>3. CASE SlaveSelected(meters_[m].slave)
        <4>1. CASE /\ selected' = {meters_[m].slave}
                   /\ slaveFcb' = [slaveFcb EXCEPT ![meters_[m].slave] = 0]
                   /\ part' = [part EXCEPT ![meters_[m].slave] = 0]
          <5>1. \E s \in Slaves : selected' = {s}
            BY <3>1, <4>1, Zenon
          <5>2. slaveFcb' \in [Slaves -> {0, 1}] /\ part' \in [Slaves -> Nat]
            BY <1>1, <3>1, <4>1, Zenon DEF PollTypes, SlaveTypes
          <5> QED
            BY <1>1, <3>1, <5>1, <5>2, Zenon DEF PollTypes, SlaveTypes
        <4> QED
          BY <3>2, <3>3, <4>1, Zenon DEF SlaveSelected
      <3> QED
        BY <3>2, <3>3, Zenon DEF SecondarySelect, slaveVars
    <2>4. FlagTypes'
      <3>1. primed' \in BOOLEAN
        BY <1>1, ZenonT(40) DEF PollTypes, FlagTypes, SecondarySelect, SlaveSelected, slaveVars
      <3> QED
        BY <1>1, <1>2, <3>1, Zenon DEF PollTypes, FlagTypes, SecondarySelect, meterVars
    <2> QED
      BY <2>1, <2>2, <2>3, <2>4 DEF PollTypes
  <1>4. ASSUME delay = "timely", OneMeterEach, OneOnItsWay, PollBegins PROVE OneOnItsWay'
    BY <1>4, <1>1, <1>2, Zenon DEF PollTypes, TimerTypes, FlagTypes, LoopTypes, SlaveTypes,
       OneOnItsWay, Live, SecondarySelect, timerVars, meterVars, pollLoopVars, slaveVars
  <1>5. ASSUME delay = "timely", OneMeterEach, OneOnItsWay, PollBegins PROVE PollBegins'
    BY <1>5, <1>1, <1>2, Zenon DEF PollTypes, TimerTypes, FlagTypes, LoopTypes, SlaveTypes,
       PollBegins, SecondarySelect, timerVars, meterVars, pollLoopVars, slaveVars
  <1>6. ASSUME delay = "timely", OneMeterEach, OneOnItsWay, PollBegins, m' \in Meters,
               meters_[m'].address = "secondary", primed',
               m \in Meters /\ meters_[m].address = "secondary" /\ primed => PollGoesOn
        PROVE  PollGoesOn'
    <2>1. m \in Meters /\ Polled \in Slaves /\ Polled' = Polled /\ tpc' = "request"
      BY <1>1, <1>2, Zenon DEF PollTypes, TimerTypes, Polled, SecondarySelect
    <2>2. CASE next_telegram
      <3>1. UNCHANGED <<setup, m, fcb, num_repolls, more_records_follow_, selected, slaveFcb, part, got, primed>>
        BY <2>2, Zenon DEF SecondarySelect, slaveVars, meterVars
      <3>2. Ready
        BY <1>2, <1>6, <2>1, <2>2, <3>1, Zenon DEF PollGoesOn, SecondarySelect
      <3> QED
        BY <2>1, <3>1, <3>2, SamePoll, Zenon DEF PollGoesOn
    <2>3. CASE ~next_telegram
      <3>1. num_repolls' = 0 /\ fcb' = 1 /\ got' = <<>>
        BY <1>6, <2>3, Zenon DEF PollBegins, SecondarySelect
      <3>2. selected' = {Polled} /\ slaveFcb'[Polled] = 0 /\ part'[Polled] = 0
        BY <1>1, <1>6, <2>1, <2>3, Zenon DEF SecondarySelect, SlaveSelected, PollTypes, FlagTypes,
           SlaveTypes, Polled
      <3>3. Ready'
        BY <2>1, <3>1, <3>2, Nothing, SlavesAssumption DEF Ready, Asked, Last, Got
      <3> QED
        BY <2>1, <3>3, Zenon DEF PollGoesOn
    <2> QED
      BY <2>2, <2>3
  <1> QED
    BY <1>2, <1>3, <1>4, <1>5, <1>6, Zenon DEF PollInv

LEMMA SecondaryPollPolls ==
  ASSUME PollInv, SecondaryPoll
  PROVE  PollInv'
  <1>1. /\ setup \in Setups /\ Len(meters_) \in Nat /\ Meters = 1 .. Len(meters_) /\ PollTypes
        /\ \A j \in Meters : meters_[j].slave \in Slaves
    BY SetupFacts, Zenon DEF PollInv, PollTypes, TimerTypes
  <1>2. /\ UNCHANGED setup /\ meters_' = meters_ /\ Meters' = Meters /\ delay' = delay
        /\ OneMeterEach' = OneMeterEach
    BY SameSetup, Zenon DEF SecondaryPoll
  <1>3. PollTypes'
    <2>1. TimerTypes'
      BY <1>1, <1>2, PollingBounds, Zenon DEF PollTypes, TimerTypes, SecondaryPoll, timerVars,
         meterVars, pollLoopVars, slaveVars
    <2>2. LoopTypes'
      BY <1>1, <1>2, Zenon DEF PollTypes, LoopTypes, SecondaryPoll, timerVars, meterVars,
         pollLoopVars, slaveVars
    <2>3. SlaveTypes'
      <3>1. selected \in SUBSET Slaves /\ fcb \in {0, 1} /\ SlaveTypes
        BY <1>1, Zenon DEF PollTypes, TimerTypes, SlaveTypes, SecondaryPoll
      <3> QED
        BY <3>1, Requested, Zenon DEF SecondaryPoll
    <2>4. FlagTypes'
      <3>1. selected \in SUBSET Slaves /\ fcb \in {0, 1} /\ SlaveTypes
        BY <1>1, Zenon DEF PollTypes, TimerTypes, SlaveTypes, SecondaryPoll
      <3>2. primed' = primed
        BY <3>1, Requested, Zenon DEF SecondaryPoll
      <3> QED
        BY <1>1, <1>2, <3>2, Zenon DEF PollTypes, FlagTypes, SecondaryPoll, meterVars
    <2> QED
      BY <2>1, <2>2, <2>3, <2>4 DEF PollTypes
  <1>4. ASSUME delay = "timely", OneMeterEach, OneOnItsWay, PollBegins PROVE OneOnItsWay'
    <2>1. selected \in SUBSET Slaves /\ fcb \in {0, 1} /\ SlaveTypes
      BY <1>1, Zenon DEF PollTypes, TimerTypes, SlaveTypes, SecondaryPoll
    <2>2. line = <<>> /\ ~Live /\ lpc # "notify"
      BY <1>4, Zenon DEF OneOnItsWay, SecondaryPoll
    <2>3. ~Live' /\ lpc' # "notify"
      BY <1>2, <2>2, Zenon DEF Live, SecondaryPoll, pollLoopVars
    <2>4. \A t : Len(Append(<<>>, t)) = 1
      OBVIOUS
    <2>5. line' = line \/ \E t : line' = Append(line, t)
      BY <2>1, Requested, Zenon DEF SecondaryPoll
    <2>6. Len(line') <= 1
      <3>1. CASE line' = line
        BY <2>2, <3>1
      <3>2. CASE line' # line
        <4>1. PICK t : line' = Append(<<>>, t)
          BY <2>2, <2>5, <3>2
        <4> QED
          BY <2>4, <4>1
      <3> QED
        BY <3>1, <3>2
    <2> QED
      BY <2>3, <2>6, Zenon DEF OneOnItsWay, SecondaryPoll
  <1>5. ASSUME delay = "timely", OneMeterEach, OneOnItsWay, PollBegins PROVE PollBegins'
    BY <1>5, <1>1, <1>2, Zenon DEF PollTypes, TimerTypes, FlagTypes, LoopTypes, SlaveTypes,
       PollBegins, SecondaryPoll, timerVars, meterVars, pollLoopVars, slaveVars
  <1>6. ASSUME delay = "timely", OneMeterEach, OneOnItsWay, PollBegins, m' \in Meters,
               meters_[m'].address = "secondary", primed',
               m \in Meters /\ meters_[m].address = "secondary" /\ primed => PollGoesOn
        PROVE  PollGoesOn'
    <2>1. m \in Meters /\ Polled \in Slaves /\ Polled' = Polled /\ tpc' = "wait"
      BY <1>1, <1>2, Zenon DEF PollTypes, TimerTypes, Polled, SecondaryPoll
    <2>2. line = <<>> /\ ~Live' /\ lpc' # "notify"
      BY <1>2, <1>6, Zenon DEF OneOnItsWay, Live, SecondaryPoll, pollLoopVars
    <2>3. primed
      <3>1. selected \in SUBSET Slaves /\ fcb \in {0, 1} /\ SlaveTypes
        BY <1>1, Zenon DEF PollTypes, TimerTypes, SlaveTypes, SecondaryPoll
      <3> QED
        BY <1>6, <3>1, Requested, ZenonT(40) DEF SecondaryPoll
    <2>4. Ready /\ num_repolls \in Nat
      BY <1>1, <1>2, <1>6, <2>1, <2>3, PollingBounds, SMTT(30) DEF PollGoesOn, SecondaryPoll,
         PollTypes,
         TimerTypes
    <2>5. CASE line' = line
      BY <2>1, <2>2, <2>5, SMTT(30) DEF PollGoesOn
    <2>6. CASE line' # line
      <3>1. /\ selected' = {Polled}
            /\ slaveFcb' = [slaveFcb EXCEPT ![Polled] = fcb]
            /\ part' = [part EXCEPT ![Polled] = PartSent(Polled, fcb)]
            /\ line' = Append(line, TelegramOf(Polled, fcb))
        BY <2>4, <2>6, Zenon DEF SecondaryPoll, SlaveRequested, Ready, Asked, slaveVars
      <3>2. Parts[Polled] # 0 => PartSent(Polled, fcb) = num_repolls + 1
        BY <2>4, Zenon DEF Ready, Asked, PartSent, Last
      <3>3. slaveFcb'[Polled] = fcb /\ part'[Polled] = PartSent(Polled, fcb)
        BY <1>1, <2>1, <3>1, Zenon DEF PollTypes, SlaveTypes
      <3>4. fcb' = fcb /\ num_repolls' = num_repolls /\ got' = got
        BY Zenon DEF SecondaryPoll
      <3>5. Sent'
        BY <2>1, <3>1, <3>2, <3>3, <3>4, Zenon DEF Sent, Asked
      <3>6. Got(num_repolls)'
        BY <2>1, <2>4, <3>4, Zenon DEF Ready, Got
      <3>7. ASSUME NEW t, t = TelegramOf(Polled, fcb) PROVE IsNext(t)'
        BY <3>7, <2>1, <3>2, <3>4, Zenon DEF IsNext, TelegramOf, Last, PartSent
      <3>8. line' = <<TelegramOf(Polled, fcb)>>
        BY <2>2, <3>1
      <3> QED
        BY <2>1, <2>2, <3>5, <3>6, <3>7, <3>8, SMTT(30) DEF PollGoesOn
    <2> QED
      BY <2>5, <2>6
  <1> QED
    BY <1>2, <1>3, <1>4, <1>5, <1>6, Zenon DEF PollInv

LEMMA AnsweredPolls ==
  ASSUME PollInv, Answered
  PROVE  PollInv'
  <1>1. /\ setup \in Setups /\ Len(meters_) \in Nat /\ Meters = 1 .. Len(meters_) /\ PollTypes
        /\ \A j \in Meters : meters_[j].slave \in Slaves
    BY SetupFacts, Zenon DEF PollInv, PollTypes, TimerTypes
  <1>2. /\ UNCHANGED setup /\ meters_' = meters_ /\ Meters' = Meters /\ delay' = delay
        /\ OneMeterEach' = OneMeterEach
    BY SameSetup, Zenon DEF Answered
  <1>3. PollTypes'
    <2>1. TimerTypes'
      BY <1>1, <1>2, PollingBounds, SMTT(30) DEF PollTypes, TimerTypes, Answered, timerVars,
         meterVars,
         pollLoopVars, slaveVars
    <2>2. LoopTypes'
      BY <1>1, <1>2, Zenon DEF PollTypes, LoopTypes, Answered, timerVars, meterVars, pollLoopVars,
         slaveVars
    <2>3. SlaveTypes'
      BY <1>1, <1>2, PollingBounds, Zenon DEF PollTypes, SlaveTypes, Answered, timerVars,
         meterVars, pollLoopVars, slaveVars
    <2>4. FlagTypes'
      <3>1. next_telegram' \in BOOLEAN
        BY <1>1, Zenon DEF PollTypes, FlagTypes, Answered
      <3> QED
        BY <1>1, <1>2, <3>1, Zenon DEF PollTypes, FlagTypes, Answered, meterVars, slaveVars
    <2> QED
      BY <2>1, <2>2, <2>3, <2>4 DEF PollTypes
  <1>4. ASSUME delay = "timely", OneMeterEach, OneOnItsWay, PollBegins PROVE OneOnItsWay'
    BY <1>4, <1>1, <1>2, Zenon DEF PollTypes, TimerTypes, FlagTypes, LoopTypes, SlaveTypes,
       OneOnItsWay, Live, Answered, timerVars, meterVars, pollLoopVars, slaveVars
  <1>5. ASSUME delay = "timely", OneMeterEach, OneOnItsWay, PollBegins PROVE PollBegins'
    BY <1>5, <1>1, <1>2, Zenon DEF PollTypes, TimerTypes, FlagTypes, LoopTypes, SlaveTypes,
       PollBegins, Answered, timerVars, meterVars, pollLoopVars, slaveVars
  <1>6. ASSUME delay = "timely", OneMeterEach, OneOnItsWay, PollBegins, m' \in Meters,
               meters_[m'].address = "secondary", primed',
               m \in Meters /\ meters_[m].address = "secondary" /\ primed => PollGoesOn
        PROVE  PollGoesOn'
    <2>1. m \in Meters /\ Polled' = Polled /\ num_repolls \in Nat /\ fcb \in {0, 1}
      BY <1>1, <1>2, PollingBounds, SMTT(30) DEF PollTypes, TimerTypes, Polled, Answered
    <2>2. Handled
      BY <1>2, <1>6, <2>1, Zenon DEF PollGoesOn, Answered, slaveVars
    <2>3. UNCHANGED <<selected, slaveFcb, part, got>>
      BY Zenon DEF Answered, slaveVars
    <2>4. CASE ~more_records_follow_[m]
      <3>1. Parts[Polled] # 0 /\ Parts[Polled] = num_repolls + 1
        BY <2>2, <2>4, Zenon DEF Handled, Last
      <3>2. Got(Parts[Polled])
        BY <2>2, <3>1, Zenon DEF Handled
      <3> QED
        BY <2>1, <2>3, <2>4, <3>1, <3>2, Zenon DEF PollGoesOn, Answered, Got
    <2>5. CASE more_records_follow_[m]
      <3>1. fcb' = 1 - fcb /\ num_repolls' = num_repolls + 1
        BY <2>5, Zenon DEF Answered
      <3>2. Ready'
        <4>1. Asked(num_repolls)' /\ Got(num_repolls)'
          BY <2>1, <2>2, <2>3, <3>1, Zenon DEF Handled, Sent, Asked, Got
        <4>2. slaveFcb'[Polled] # fcb'
          BY <2>1, <2>2, <2>3, <3>1 DEF Handled, Sent
        <4>3. ~Last(Polled, num_repolls')
          BY <2>2, <2>5, <3>1, ZenonT(40) DEF Handled
        <4> QED
          BY <2>1, <4>1, <4>2, <4>3, Zenon DEF Ready, Last
      <3> QED
        BY <2>5, <3>2, Zenon DEF PollGoesOn, Answered
    <2> QED
      BY <2>4, <2>5
  <1> QED
    BY <1>2, <1>3, <1>4, <1>5, <1>6, Zenon DEF PollInv

LEMMA SetMoreRecordsPolls ==
  ASSUME PollInv, SetMoreRecords
  PROVE  PollInv'
  <1>1. /\ setup \in Setups /\ Len(meters_) \in Nat /\ Meters = 1 .. Len(meters_) /\ PollTypes
        /\ \A j \in Meters : meters_[j].slave \in Slaves
    BY SetupFacts, Zenon DEF PollInv, PollTypes, TimerTypes
  <1>2. /\ UNCHANGED setup /\ meters_' = meters_ /\ Meters' = Meters /\ delay' = delay
        /\ OneMeterEach' = OneMeterEach
    BY SameSetup, Zenon DEF SetMoreRecords
  <1>3. PollTypes'
    <2>1. TimerTypes'
      BY <1>1, <1>2, PollingBounds, ZenonT(40) DEF PollTypes, TimerTypes, InPoll, SetMoreRecords,
         timerVars
    <2>2. LoopTypes'
      BY <1>1, <1>2, Zenon DEF PollTypes, LoopTypes, SetMoreRecords, timerVars, meterVars,
         pollLoopVars,
         slaveVars
    <2>3. SlaveTypes'
      BY <1>1, <1>2, PollingBounds, Zenon DEF PollTypes, SlaveTypes, SetMoreRecords, timerVars,
         meterVars, pollLoopVars, slaveVars
    <2>4. FlagTypes'
      <3>1. handling.more \in BOOLEAN
        BY <1>1, Zenon DEF PollTypes, LoopTypes, Telegrams, SetMoreRecords
      <3> QED
        BY <1>1, <1>2, <3>1, Zenon DEF PollTypes, FlagTypes, SetMoreRecords, timerVars, slaveVars
    <2> QED
      BY <2>1, <2>2, <2>3, <2>4 DEF PollTypes
  <1>4. ASSUME delay = "timely", OneMeterEach, OneOnItsWay, PollBegins PROVE OneOnItsWay'
    <2>1. Live
      BY <1>1 DEF Live, SetMoreRecords, PollTypes, LoopTypes
    <2> QED
      BY <1>2, <1>4, <2>1, Zenon DEF OneOnItsWay, Live, SetMoreRecords, timerVars
  <1>5. ASSUME delay = "timely", OneMeterEach, OneOnItsWay, PollBegins PROVE PollBegins'
    <2>1. Live
      BY <1>1 DEF Live, SetMoreRecords, PollTypes, LoopTypes
    <2> QED
      BY <1>5, <2>1, Zenon DEF OneOnItsWay, PollBegins, SetMoreRecords, timerVars
  <1>6. ASSUME delay = "timely", OneMeterEach, OneOnItsWay, PollBegins, m' \in Meters,
               meters_[m'].address = "secondary", primed',
               m \in Meters /\ meters_[m].address = "secondary" /\ primed => PollGoesOn
        PROVE  PollGoesOn'
    <2>1. Live
      BY <1>1 DEF Live, SetMoreRecords, PollTypes, LoopTypes
    <2>2. tpc \in {"wait", "asleep"} /\ line = <<>>
      BY <1>6, <2>1, Zenon DEF OneOnItsWay
    <2>3. tpc' = tpc /\ line' = line /\ ~Live' /\ lpc' = "notify" /\ receiver' = receiver /\ m' = m
      BY Zenon DEF SetMoreRecords, Live, timerVars
    <2>4. ASSUME receiver = m PROVE Handled'
      <3>1. m \in Meters /\ handling.slave = Polled /\ Polled' = Polled
        BY <1>2, <2>4, Zenon DEF SetMoreRecords, Polled, timerVars
      <3>2. Sent /\ Got(num_repolls) /\ IsNext(handling)
        BY <1>6, <2>1, <2>2, <2>3, <3>1, Zenon DEF PollGoesOn, SetMoreRecords, slaveVars
      <3>3. num_repolls \in Nat /\ num_repolls <= RepollLimit /\ RepollLimit \in Nat
        BY <1>1, <2>2, PollingBounds DEF PollTypes, TimerTypes
      <3>4. Sent'
        BY <3>1, <3>2, Zenon DEF Sent, Asked, SetMoreRecords, timerVars, slaveVars
      <3>5. Got(num_repolls + 1)'
        <4>1. CASE Parts[Polled] = 0
          BY <3>1, <4>1, Zenon DEF Got
        <4>2. CASE Parts[Polled] # 0
          <5>1. got = Upto(num_repolls) /\ handling.part = num_repolls + 1
            BY <3>2, <4>2, Zenon DEF Got, IsNext
          <5>2. Len(got) <= RepollLimit + 1
            BY <3>3, <5>1, OneMore
          <5>3. got' = Append(got, handling.part)
            BY <2>2, <2>4, <5>2, Zenon DEF SetMoreRecords, InPoll
          <5>4. got' = Upto(num_repolls + 1)
            BY <3>3, <5>1, <5>3, OneMore, ZenonT(40)
          <5> QED
            BY <3>1, <5>4, Zenon DEF Got, SetMoreRecords, timerVars, Upto
        <4> QED
          BY <4>1, <4>2, Zenon
      <3>6. more_records_follow_'[m] = ~Last(Polled, num_repolls + 1)
        BY <1>1, <2>4, <3>1, <3>2, Zenon DEF SetMoreRecords, PollTypes, FlagTypes, IsNext
      <3>7. m' = m /\ num_repolls' = num_repolls
        BY Zenon DEF SetMoreRecords, timerVars
      <3> QED
        BY <3>1, <3>4, <3>5, <3>6, <3>7, Zenon DEF Handled
    <2> QED
      BY <2>2, <2>3, <2>4 DEF PollGoesOn
  <1> QED
    BY <1>2, <1>3, <1>4, <1>5, <1>6, Zenon DEF PollInv

LEMMA NotifyPollPolls ==
  ASSUME PollInv, NotifyPoll
  PROVE  PollInv'
  <1>1. /\ setup \in Setups /\ Len(meters_) \in Nat /\ Meters = 1 .. Len(meters_) /\ PollTypes
        /\ \A j \in Meters : meters_[j].slave \in Slaves
    BY SetupFacts, Zenon DEF PollInv, PollTypes, TimerTypes
  <1>2. /\ UNCHANGED setup /\ meters_' = meters_ /\ Meters' = Meters /\ delay' = delay
        /\ OneMeterEach' = OneMeterEach
    BY SameSetup, Zenon DEF NotifyPoll
  <1>3. PollTypes'
    <2>1. TimerTypes'
      BY <1>1, <1>2, PollingBounds, Zenon DEF PollTypes, TimerTypes, NotifyPoll, timerVars,
         meterVars, pollLoopVars, slaveVars
    <2>2. LoopTypes'
      BY <1>1, <1>2, Zenon DEF PollTypes, LoopTypes, NotifyPoll, timerVars, meterVars,
         pollLoopVars, slaveVars
    <2>3. SlaveTypes'
      BY <1>1, <1>2, PollingBounds, Zenon DEF PollTypes, SlaveTypes, NotifyPoll, timerVars,
         meterVars, pollLoopVars, slaveVars
    <2>4. FlagTypes'
      BY <1>1, <1>2, Zenon DEF PollTypes, FlagTypes, NotifyPoll, timerVars, meterVars,
         pollLoopVars, slaveVars
    <2> QED
      BY <2>1, <2>2, <2>3, <2>4 DEF PollTypes
  <1>4. ASSUME delay = "timely", OneMeterEach, OneOnItsWay, PollBegins PROVE OneOnItsWay'
    BY <1>4, <1>1, <1>2, Zenon DEF PollTypes, TimerTypes, FlagTypes, LoopTypes, SlaveTypes,
       OneOnItsWay, Live, NotifyPoll, timerVars, meterVars, pollLoopVars, slaveVars
  <1>5. ASSUME delay = "timely", OneMeterEach, OneOnItsWay, PollBegins PROVE PollBegins'
    BY <1>5, <1>1, <1>2, Zenon DEF PollTypes, TimerTypes, FlagTypes, LoopTypes, SlaveTypes,
       PollBegins, NotifyPoll, timerVars, meterVars, pollLoopVars, slaveVars
  <1>6. ASSUME delay = "timely", OneMeterEach, OneOnItsWay, PollBegins, m' \in Meters,
               meters_[m'].address = "secondary", primed',
               m \in Meters /\ meters_[m].address = "secondary" /\ primed => PollGoesOn
        PROVE  PollGoesOn'
    <2>1. UNCHANGED <<setup, m, fcb, num_repolls, more_records_follow_, selected, slaveFcb, part, got>>
      BY Zenon DEF NotifyPoll, timerVars, meterVars, pollLoopVars, slaveVars
    <2>2. /\ Polled' = Polled /\ Ready' = Ready /\ Sent' = Sent /\ Handled' = Handled
          /\ \A n : Got(n)' = Got(n)
          /\ \A t : IsNext(t)' = IsNext(t)
      BY <2>1, SamePoll, Zenon
    <2> QED
      BY <1>1, <1>2, <1>6, <2>1, <2>2, Zenon DEF PollTypes, TimerTypes, FlagTypes, LoopTypes,
         SlaveTypes,
         PollGoesOn, Live, NotifyPoll, timerVars, meterVars, pollLoopVars, slaveVars
  <1> QED
    BY <1>2, <1>3, <1>4, <1>5, <1>6, Zenon DEF PollInv

\* What the other steps of the timer thread do to the poll: nothing.
LEMMA CheckupPolls ==
  ASSUME PollInv, tpc \in {"polled", "detected", "flush"}, tpc' \in {"detected", "flush", "idle"},
         buses' \subseteq Aliases,
         UNCHANGED <<setup, m, fcb, next_telegram, num_repolls, meterVars, pollLoopVars,
                     slaveVars, line, got>>
  PROVE  PollInv'
  <1>1. /\ PollTypes /\ UNCHANGED setup /\ meters_' = meters_ /\ Meters' = Meters /\ delay' = delay
        /\ OneMeterEach' = OneMeterEach
    BY SameSetup, Zenon DEF PollInv
  <1>2. PollTypes'
    <2>1. TimerTypes'
      BY <1>1, Zenon DEF PollTypes, TimerTypes
    <2>2. FlagTypes' /\ LoopTypes' /\ SlaveTypes'
      BY <1>1, Zenon DEF PollTypes, FlagTypes, LoopTypes, SlaveTypes, meterVars, pollLoopVars,
         slaveVars
    <2> QED
      BY <2>1, <2>2, Zenon DEF PollTypes
  <1>3. OneOnItsWay => OneOnItsWay'
    BY <1>1, ZenonT(40) DEF OneOnItsWay, Live, pollLoopVars
  <1>4. PollBegins' /\ PollGoesOn'
    BY Zenon DEF PollBegins, PollGoesOn
  <1> QED
    BY <1>1, <1>2, <1>3, <1>4, Zenon DEF PollInv

LEMMA PollStays == ASSUME PollInv, UNCHANGED pollVars PROVE PollInv'
  <1>1. /\ UNCHANGED <<setup, m, fcb, next_telegram, num_repolls, more_records_follow_, elapsed, selected,
                      primed, slaveFcb, part, got, tpc, buses, lpc, handling, receiver, line>>
        /\ meters_' = meters_ /\ Meters' = Meters /\ delay' = delay /\ OneMeterEach' = OneMeterEach
    BY SameSetup, Zenon DEF pollVars, timerVars, meterVars, pollLoopVars, slaveVars
  <1>2. PollTypes' = PollTypes /\ OneOnItsWay' = OneOnItsWay /\ PollBegins' = PollBegins /\ Live' = Live
    BY <1>1, ZenonT(40) DEF PollTypes, TimerTypes, FlagTypes, LoopTypes, SlaveTypes, OneOnItsWay,
       PollBegins,
       Live
  <1>3. PollGoesOn' = PollGoesOn
    BY <1>1, <1>2, SamePoll DEF PollGoesOn
  <1> QED
    BY <1>1, <1>2, <1>3, Zenon DEF PollInv

LEMMA PollStepKeeps == PollInv /\ [Next]_vars => PollInv'
  <1> SUFFICES ASSUME PollInv, [Next]_vars PROVE PollInv'
    BY Zenon
  <1>1. CASE UNCHANGED pollVars
    BY <1>1, PollStays
  <1>2. CASE TimerPolls
    <2>1. CASE StartPollMeters \/ SkipMeter \/ BeginPoll \/ BadId \/ PrimaryPoll \/ SecondarySelect
      BY <2>1, StartPollMetersPolls, SkipMeterPolls, BeginPollPolls, BadIdPolls, PrimaryPollPolls,
         SecondarySelectPolls, Zenon
    <2>2. CASE SecondaryPoll \/ EnterWait \/ NoResponse \/ Answered \/ EndPoll \/ EndPollMeters
      BY <2>2, SecondaryPollPolls, EnterWaitPolls, NoResponsePolls, AnsweredPolls, EndPollPolls,
         EndPollMetersPolls, Zenon
    <2> QED
      BY <1>2, <2>1, <2>2, Zenon DEF TimerPolls, PollStep
  <1>3. CASE TimerDetects \/ TimerFlushes \/ TimerSends
    <2>1. buses \subseteq Aliases
      BY Zenon DEF PollInv, PollTypes, TimerTypes
    <2>2. CASE TimerDetects
      BY <2>2, CheckupPolls, Zenon DEF TimerDetects
    <2>3. CASE TimerFlushes
      BY <2>1, <2>3, CheckupPolls, Zenon DEF TimerFlushes
    <2>4. CASE TimerSends
      BY <2>1, <2>4, CheckupPolls, Zenon DEF TimerSends
    <2> QED
      BY <1>3, <2>2, <2>3, <2>4
  <1>4. CASE LoopStep
    BY <1>4, ReceiveTelegramPolls, NotForMePolls, NotParsedPolls, SetMoreRecordsPolls,
       NotifyPollPolls, TriggerUpdatePolls, EndTelegramPolls, Zenon DEF LoopStep, ReceiveStep
  <1>5. CASE TimePasses
    BY <1>5, IntervalPassesPolls, SpuriousPollWakeupPolls, Zenon DEF TimePasses
  <1>6. CASE MainStep
    BY <1>1, <1>6, Zenon DEF MainStep, MainQueues, MainFlushes, MainSends
  <1> QED
    BY <1>1, <1>2, <1>3, <1>4, <1>5, <1>6, Zenon DEF Next, TimerStep, vars

\* The main thread queues no more than the command line has.
MainInv == queued <= Len(send_bus_content) /\ mpc \in {"queue", "flush", "waitForStop"}

LEMMA MainInitially == Init => MainInv
  <1> SUFFICES ASSUME Init PROVE MainInv
    OBVIOUS
  <1>1. Len(send_bus_content) \in Nat
    BY SetupFacts, Zenon DEF Init, PollInit
  <1> QED
    BY <1>1 DEF Init, Queue!QueueInit, MainInv

LEMMA MainStepKeeps == PollInv /\ QueueInv /\ MainInv /\ [Next]_vars => MainInv'
  <1> SUFFICES ASSUME PollInv, QueueInv, MainInv, [Next]_vars PROVE MainInv'
    BY Zenon
  <1>1. Len(send_bus_content) \in Nat /\ queued \in Nat
    BY SetupFacts, Zenon DEF PollInv, PollTypes, TimerTypes, QueueInv, QueueTypes
  <1>2. send_bus_content' = send_bus_content
    BY Zenon DEF Next, vars, pollVars, send_bus_content, MainStep, MainQueues, MainFlushes,
       MainSends,
       TimerStep, TimerPolls, TimerDetects, TimerFlushes, TimerSends, LoopStep, TimePasses,
       StartPollMeters, PollStep, SkipMeter, BeginPoll, BadId, PrimaryPoll, SecondarySelect,
       SecondaryPoll, EnterWait, NoResponse, Answered, EndPoll, EndPollMeters, LeavePoll, ReceiveStep,
       ReceiveTelegram, NotForMe, NotParsed, SetMoreRecords, NotifyPoll, TriggerUpdate, EndTelegram,
       IntervalPasses, SpuriousPollWakeup
  <1>3. CASE MainQueues
    BY <1>1, <1>2, <1>3 DEF MainQueues, Queue!queueSendBusContent, MainInv
  <1>4. CASE UNCHANGED queued
    <2>1. mpc' = mpc \/ mpc' \in {"flush", "waitForStop"}
      BY <1>3, Zenon DEF Next, vars, MainStep, MainQueues, MainFlushes, MainSends, TimerStep,
         TimerPolls, TimerDetects, TimerFlushes, TimerSends, LoopStep, TimePasses
    <2> QED
      BY <1>2, <1>4, <2>1, Zenon DEF MainInv
  <1> QED
    BY <1>3, <1>4, Zenon DEF Next, vars, queueVars, MainStep, MainFlushes, MainSends, TimerStep,
       TimerPolls, TimerDetects, TimerFlushes, TimerSends, LoopStep, TimePasses, Queue!LockQueue,
       Queue!SendContent, Queue!ClearQueue

\* A poll gives up or is complete: one that ends without a warning has handled
\* every telegram of the reading, each once and in order, however the timer
\* thread and the event loop interleave, whatever is lost on the line and
\* whatever the other meters do (meters.cc poll, handleTelegram).
THEOREM PollsAreBounded == Spec => []PollIsBounded
  <1>1. PollInv /\ QueueInv /\ MainInv => TypeOK
    <2> SUFFICES ASSUME PollInv, QueueInv, MainInv PROVE TypeOK
      OBVIOUS
    <2>1. /\ Len(send_bus_content) \in Nat
          /\ DOMAIN send_bus_content = 1 .. Len(send_bus_content)
      BY SetupFacts, Zenon DEF PollInv, PollTypes, TimerTypes
    <2>2. 1 .. queued \subseteq DOMAIN send_bus_content
      BY <2>1 DEF MainInv, QueueInv, QueueTypes
    <2>3. bus_send_queue_ \in Seq(DOMAIN send_bus_content)
      BY <2>2, SMTT(30) DEF QueueInv, QueueTypes
    <2> QED
      BY <2>3, Zenon DEF PollInv, PollTypes, TimerTypes, FlagTypes, LoopTypes, SlaveTypes, QueueInv,
         QueueTypes, MainInv, TypeOK
  <1>2. PollInv => PollIsComplete
    <2> SUFFICES ASSUME PollInv, delay = "timely", OneMeterEach, primed, tpc = "complete",
                        meters_[m].address = "secondary"
                 PROVE  got = Upto(Parts[meters_[m].slave])
      BY Zenon DEF PollIsComplete, Upto
    <2>1. m \in Meters
      BY Zenon DEF PollInv, PollTypes, TimerTypes
    <2> QED
      BY <2>1, Zenon DEF PollInv, PollGoesOn, Got, Polled
  <1> QED
    BY PollInitially, PollStepKeeps, QueueInitially, QueueStep, MainInitially, MainStepKeeps, <1>1,
       <1>2,
       PTL DEF Spec, PollIsBounded
=============================================================================
