----------------------------- MODULE SendQueue -----------------------------
(* The queue of telegrams to be sent on the buses: the main thread fills it *)
(* from the command line and flushes it, the timer thread flushes it at the *)
(* end of every checkup.  A flush goes through the whole queue and clears   *)
(* it under bus_send_queue_mutex_; bus_devices_ is not protected by it.     *)
EXTENDS Naturals, Sequences

CONSTANTS
    Senders,           \* the threads that flush the queue
    NoSender           \* bus_send_queue_mutex_ is free

VARIABLES
    send_bus_content,       \* the contents given on the command line: [bus, content]
    buses,                  \* the bus aliases that findBus finds
    bus_send_queue_,        \* indices of send_bus_content
    bus_send_queue_mutex_,
    at,                     \* the element of the queue each flushing thread has come to
    queued,                 \* how many contents the main thread has queued
    sent                    \* the contents that were handed to sendTelegram

QueueInit ==
    /\ bus_send_queue_ = <<>>
    /\ bus_send_queue_mutex_ = NoSender
    /\ at = [t \in Senders |-> 0]
    /\ queued = 0
    /\ sent = <<>>

\* queueSendBusContent, called for every content of the command line.
queueSendBusContent ==
    /\ queued < Len(send_bus_content)
    /\ bus_send_queue_mutex_ = NoSender
    /\ bus_send_queue_' = Append(bus_send_queue_, queued + 1)
    /\ queued' = queued + 1
    /\ UNCHANGED <<bus_send_queue_mutex_, at, sent>>

\* Fault: the queue is flushed without holding the lock.
LockQueueUnguarded(t) ==
    /\ at[t] = 0
    /\ bus_send_queue_mutex_' = t
    /\ at' = [at EXCEPT ![t] = 1]
    /\ UNCHANGED <<bus_send_queue_, queued, sent>>

\* sendQueue: LOCK_BUS_SEND_QUEUE.
LockQueue(t) ==
    /\ at[t] = 0
    /\ bus_send_queue_mutex_ = NoSender
    /\ bus_send_queue_mutex_' = t
    /\ at' = [at EXCEPT ![t] = 1]
    /\ UNCHANGED <<bus_send_queue_, queued, sent>>

\* Is a content sent, or skipped with a warning?
Sendable(c) ==
    /\ send_bus_content[c].bus \in buses
    /\ send_bus_content[c].content = "hex"

\* sendQueue: one round of the loop.
SendContent(t) ==
    /\ at[t] \in DOMAIN bus_send_queue_
    /\ sent' = IF Sendable(bus_send_queue_[at[t]])
                 THEN Append(sent, bus_send_queue_[at[t]]) ELSE sent
    /\ at' = [at EXCEPT ![t] = @ + 1]
    /\ UNCHANGED <<bus_send_queue_, bus_send_queue_mutex_, queued>>

\* Fault: what could not be sent stays in the queue.
ClearSentOnly(t) ==
    /\ at[t] > Len(bus_send_queue_)
    /\ bus_send_queue_' = SelectSeq(bus_send_queue_, LAMBDA c : ~Sendable(c))
    /\ bus_send_queue_mutex_' = NoSender
    /\ at' = [at EXCEPT ![t] = 0]
    /\ UNCHANGED <<queued, sent>>

\* sendQueue: bus_send_queue_.clear(), and the lock is released.
ClearQueue(t) ==
    /\ at[t] > Len(bus_send_queue_)
    /\ bus_send_queue_' = <<>>
    /\ bus_send_queue_mutex_' = NoSender
    /\ at' = [at EXCEPT ![t] = 0]
    /\ UNCHANGED <<queued, sent>>

\* Every content is sent at most once, and in the order of the command line.
SentInOrder == \A i, j \in DOMAIN sent : i < j => sent[i] < sent[j]
=============================================================================
