--------------------------- MODULE DongleCommand ---------------------------
(* A command sent to a radio dongle and the wait for its answer.           *)
(*                                                                         *)
(* The main thread and the timer thread send commands; each holds          *)
(* command_mutex_ from building the request until it has the response or   *)
(* gave up.  The answer is read by the event loop thread, which stores it  *)
(* in response_ and calls notifyResponseIsHere; the command thread sleeps  *)
(* on a condition variable in waitForResponse.  The condition variable is  *)
(* signalled without its mutex, is waited for without a predicate, and     *)
(* waiting_for_response_id_ is a plain int shared by the threads, so every *)
(* access to it is a step of its own here.                                 *)
EXTENDS Naturals, Sequences

CONSTANTS
    Threads,          \* the threads that send commands (main, timer loop)
    Ids,              \* response ids, eg DEVMGMT_MSG_GET_CONFIG_RSP
    MaxRequests,      \* bound: the number of commands in a behaviour
    Environments,     \* which dongles and condition variables to consider
    NoThread          \* command_mutex_ is free

ASSUME ThreadsAssumption == NoThread \notin Threads
ASSUME IdsAssumption == Ids \subseteq Nat \ {0}
ASSUME MaxRequestsAssumption == MaxRequests \in Nat
ASSUME EnvironmentAssumption == Environments \subseteq {"timely", "late"}

VARIABLES
    env,                       \* the dongle and the condition variable of this behaviour
    pc,                        \* where each command thread is
    cmd,                       \* the request a thread is executing
    command_mutex_,            \* the thread that owns command_mutex_
    waiting_for_response_id_,  \* 0 when nobody waits
    response_,                 \* the last answer stored by the event loop
    epc,                       \* where the event loop thread is
    handling,                  \* the answer the event loop is handling
    pending,                   \* requests the dongle has not answered yet
    line,                      \* answers on their way to the host
    issued,                    \* number of commands started (bounded)
    accepted,                  \* number of answers matched with a waiter, and of spurious wakeups
    succeeded                  \* number of waits that returned true

threadVars == <<pc, cmd, command_mutex_>>
loopVars == <<epc, handling, response_>>
dongleVars == <<pending, line>>
countVars == <<issued, accepted, succeeded>>
vars == <<env, threadVars, waiting_for_response_id_, loopVars, dongleVars, countVars>>

\* "timely": the dongle answers within the 5 seconds of Semaphore::wait or not
\* at all, and pthread_cond_timedwait never wakes up by itself.  "late": answers
\* may arrive after the timeout, and there are spurious wakeups.
LateAnswers == env = "late"
SpuriousWakeups == env = "late"

Requests == [id : Ids, nr : 1..MaxRequests]
NoRequest == [id |-> 0, nr |-> 0]

ThreadStates ==
    {"idle", "send", "arm", "block", "sleep", "woken", "expired", "fatal"}
LoopStates == {"select", "check", "clear", "signal"}

Init ==
    /\ env \in Environments
    /\ pc = [t \in Threads |-> "idle"]
    /\ cmd = [t \in Threads |-> NoRequest]
    /\ command_mutex_ = NoThread
    /\ waiting_for_response_id_ = 0
    /\ response_ = NoRequest
    /\ epc = "select"
    /\ handling = NoRequest
    /\ pending = <<>>
    /\ line = <<>>
    /\ issued = 0
    /\ accepted = 0
    /\ succeeded = 0

\* error() terminates the whole process.
Exited == \E t \in Threads : pc[t] = "fatal"

At(t, label) == pc[t] = label /\ ~Exited
LoopAt(label) == epc = label /\ ~Exited
Goto(t, label) == pc' = [pc EXCEPT ![t] = label]

-----------------------------------------------------------------------------
(* The command threads.                                                     *)

\* LOCK_WMBUS_EXECUTING_COMMAND, and the request bytes are put in request_.
LockCommand(t, id) ==
    /\ At(t, "idle")
    /\ command_mutex_ = NoThread
    /\ issued < MaxRequests
    /\ command_mutex_' = t
    /\ issued' = issued + 1
    /\ cmd' = [cmd EXCEPT ![t] = [id |-> id, nr |-> issued + 1]]
    /\ Goto(t, "send")
    /\ UNCHANGED <<env, waiting_for_response_id_, loopVars, dongleVars, accepted, succeeded>>

\* serial()->send(request_) managed to write all bytes.
SendRequest(t) ==
    /\ At(t, "send")
    /\ pending' = Append(pending, cmd[t])
    /\ Goto(t, "arm")
    /\ UNCHANGED <<env, cmd, command_mutex_, waiting_for_response_id_, loopVars, line, countVars>>

\* serial()->send(request_) failed: the command gives up, the lock is released.
SendFails(t) ==
    /\ At(t, "send")
    /\ command_mutex_' = NoThread
    /\ Goto(t, "idle")
    /\ UNCHANGED <<env, cmd, waiting_for_response_id_, loopVars, dongleVars, countVars>>

\* waitForResponse: a second wait is a bad internal state and exits the program.
ArmWait(t) ==
    /\ At(t, "arm")
    /\ IF waiting_for_response_id_ # 0
         THEN /\ Goto(t, "fatal")
              /\ UNCHANGED waiting_for_response_id_
         ELSE /\ waiting_for_response_id_' = cmd[t].id
              /\ Goto(t, "block")
    /\ UNCHANGED <<env, cmd, command_mutex_, loopVars, dongleVars, countVars>>

\* Semaphore::wait: the thread enters pthread_cond_timedwait.
BlockOnSemaphore(t) ==
    /\ At(t, "block")
    /\ Goto(t, "sleep")
    /\ UNCHANGED <<env, cmd, command_mutex_, waiting_for_response_id_, loopVars, dongleVars, countVars>>

\* The answer to t's request is still to come.
AnswerOutstanding(t) ==
    \/ \E i \in DOMAIN pending : pending[i] = cmd[t]
    \/ \E i \in DOMAIN line : line[i] = cmd[t]
    \/ epc # "select" /\ handling = cmd[t]

\* Fault: pthread_cond_wait instead of pthread_cond_timedwait.
NoTimeOut(t) ==
    /\ At(t, "never")
    /\ UNCHANGED vars

\* pthread_cond_timedwait returns ETIMEDOUT after 5 seconds.
TimeOut(t) ==
    /\ At(t, "sleep")
    /\ LateAnswers \/ ~AnswerOutstanding(t)
    /\ Goto(t, "expired")
    /\ UNCHANGED <<env, cmd, command_mutex_, waiting_for_response_id_, loopVars, dongleVars, countVars>>

\* pthread_cond_timedwait may return 0 although nobody signalled.
SpuriousWakeup(t) ==
    /\ SpuriousWakeups
    /\ At(t, "sleep")
    /\ accepted' = accepted + 1
    /\ Goto(t, "woken")
    /\ UNCHANGED <<env, cmd, command_mutex_, waiting_for_response_id_, loopVars, dongleVars,
                   issued, succeeded>>

\* The wait returned true: response_ is decoded and the lock is released.
UseResponse(t) ==
    /\ At(t, "woken")
    /\ succeeded' = succeeded + 1
    /\ command_mutex_' = NoThread
    /\ Goto(t, "idle")
    /\ UNCHANGED <<env, cmd, waiting_for_response_id_, loopVars, dongleVars, issued, accepted>>

\* Fault: the id of the timed out request is not reset.
GiveUpKeepsId(t) ==
    /\ At(t, "expired")
    /\ command_mutex_' = NoThread
    /\ Goto(t, "idle")
    /\ UNCHANGED <<env, cmd, waiting_for_response_id_, loopVars, dongleVars, countVars>>

\* The wait returned false: the id is reset, the command fails.
GiveUp(t) ==
    /\ At(t, "expired")
    /\ waiting_for_response_id_' = 0
    /\ command_mutex_' = NoThread
    /\ Goto(t, "idle")
    /\ UNCHANGED <<env, cmd, loopVars, dongleVars, countVars>>

-----------------------------------------------------------------------------
(* The event loop thread.                                                   *)

\* processSerialData found a full frame with an answer: it replaces response_.
StoreResponse ==
    /\ LoopAt("select")
    /\ line # <<>>
    /\ handling' = Head(line)
    /\ response_' = Head(line)
    /\ line' = Tail(line)
    /\ epc' = "check"
    /\ UNCHANGED <<env, threadVars, waiting_for_response_id_, pending, countVars>>

\* notifyResponseIsHere: if (id != waiting_for_response_id_) return false;
CheckWaiter ==
    /\ LoopAt("check")
    /\ epc' = IF handling.id = waiting_for_response_id_ THEN "clear" ELSE "select"
    /\ UNCHANGED <<env, threadVars, waiting_for_response_id_, handling, response_, dongleVars, countVars>>

\* notifyResponseIsHere: waiting_for_response_id_ = 0;
ClearWaiter ==
    /\ LoopAt("clear")
    /\ waiting_for_response_id_' = 0
    /\ accepted' = accepted + 1
    /\ epc' = "signal"
    /\ UNCHANGED <<env, threadVars, handling, response_, dongleVars, issued, succeeded>>

\* Semaphore::notify: wakes a sleeping thread, is lost when none sleeps.
SignalWaiter ==
    /\ LoopAt("signal")
    /\ epc' = "select"
    /\ IF \E t \in Threads : pc[t] = "sleep"
         THEN \E t \in Threads : pc[t] = "sleep" /\ Goto(t, "woken")
         ELSE UNCHANGED pc
    /\ UNCHANGED <<env, cmd, command_mutex_, waiting_for_response_id_, handling, response_,
                   dongleVars, countVars>>

-----------------------------------------------------------------------------
(* The dongle (external): it serves its requests in order, answering a     *)
(* request or losing it.                                                    *)

DongleAnswers ==
    /\ ~Exited /\ pending # <<>>
    /\ line' = Append(line, Head(pending))
    /\ pending' = Tail(pending)
    /\ UNCHANGED <<env, threadVars, waiting_for_response_id_, loopVars, countVars>>

DongleIgnores ==
    /\ ~Exited /\ pending # <<>>
    /\ pending' = Tail(pending)
    /\ UNCHANGED <<env, threadVars, waiting_for_response_id_, loopVars, line, countVars>>

-----------------------------------------------------------------------------

CommandStep(t) ==
    \/ \E id \in Ids : LockCommand(t, id)
    \/ SendRequest(t)
    \/ SendFails(t)
    \/ ArmWait(t)
    \/ BlockOnSemaphore(t)
    \/ TimeOut(t)
    \/ SpuriousWakeup(t)
    \/ UseResponse(t)
    \/ GiveUp(t)

LoopStep == StoreResponse \/ CheckWaiter \/ ClearWaiter \/ SignalWaiter

DongleStep == DongleAnswers \/ DongleIgnores

Next ==
    \/ \E t \in Threads : CommandStep(t)
    \/ LoopStep
    \/ DongleStep

Spec == Init /\ [][Next]_vars

\* A thread that holds the lock keeps running, and its wait ends after 5 seconds.
CommandProceeds(t) ==
    \/ SendRequest(t) \/ SendFails(t) \/ ArmWait(t) \/ BlockOnSemaphore(t)
    \/ TimeOut(t) \/ UseResponse(t) \/ GiveUp(t)

\* The event loop keeps running and the dongle serves what it was sent.
Fairness ==
    /\ \A t \in Threads : WF_vars(CommandProceeds(t))
    /\ WF_vars(LoopStep)
    /\ WF_vars(DongleStep)

FairSpec == Spec /\ Fairness

-----------------------------------------------------------------------------

\* The variables have their types: in particular the registered id is that of a
\* response, or 0, and the lock belongs to a command thread or to nobody.
TypeOK ==
    /\ env \in Environments
    /\ pc \in [Threads -> ThreadStates]
    /\ cmd \in [Threads -> Requests \cup {NoRequest}]
    /\ command_mutex_ \in Threads \cup {NoThread}
    /\ waiting_for_response_id_ \in Ids \cup {0}
    /\ response_ \in Requests \cup {NoRequest}
    /\ epc \in LoopStates
    /\ handling \in Requests \cup {NoRequest}
    /\ pending \in Seq(Requests)
    /\ line \in Seq(Requests)
    /\ issued \in 0..MaxRequests
    /\ accepted \in Nat
    /\ succeeded \in Nat

\* A thread asleep in waitForResponse is registered under its own id, or has
\* been unregistered by an answer or by a late clear: never under the id of
\* another command (wmbus.cc waitForResponse under command_mutex_).
WaiterIsOwner ==
    \A t \in Threads : pc[t] \in {"block", "sleep"} =>
        waiting_for_response_id_ \in {cmd[t].id, 0}

\* Every wait that returned true was paid for by an answer matched in
\* notifyResponseIsHere or by a spurious wakeup; however late the answers are,
\* one answer never completes two commands and a timeout never completes one.
WakeupsArePaidFor ==
    succeeded + (IF \E t \in Threads : pc[t] = "woken" THEN 1 ELSE 0)
              + (IF epc = "signal" THEN 1 ELSE 0) <= accepted

\* waitForResponse is never entered while an older id is still registered:
\* the "bad internal state" exit of wmbus.cc is not taken.
NoBadInternalState == ~Exited

\* With a dongle that answers in time or not at all, waitForResponse is never
\* entered while an older id is registered; and when the wait has returned true,
\* response_ holds the answer to the request of this very command, and keeps
\* holding it until the lock is released.
TimelyIsServed ==
    env = "timely" =>
        /\ NoBadInternalState
        /\ \A t \in Threads : pc[t] = "woken" => response_ = cmd[t]

-----------------------------------------------------------------------------

\* What a driver's command promises its caller, whatever the dongle does.
Service == INSTANCE CommandService WITH
    owner <- command_mutex_,
    matched <- accepted,
    completed <- succeeded,
    alive <- ~Exited

\* The locks, the condition variable and the registered id implement the
\* service: commands are executed one at a time, a command reports success only
\* for a wakeup nobody else was given, and every command returns to its caller
\* unless the program exits (waitForResponse, notifyResponseIsHere).
ImplementsService == Service!FairSpec
=============================================================================
