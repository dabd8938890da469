------------------------ MODULE DongleCommandProofs ------------------------
(* Proofs about DongleCommand, for any number of threads, ids and requests. *)
EXTENDS DongleCommand, TLAPS

\* A thread that is executing a command owns command_mutex_.
LockInv ==
    \A t \in Threads : pc[t] # "idle" => command_mutex_ = t /\ cmd[t] \in Requests

\* Holds whatever the dongle and the condition variable do.
CommandInv == TypeOK /\ LockInv /\ WaiterIsOwner /\ WakeupsArePaidFor

\* Requests that are still to be answered, to be read or to be handled.
Outstanding == Len(pending) + Len(line) + (IF epc = "select" THEN 0 ELSE 1)

\* The answer a is one that the thread which owns the lock has not got yet.
Awaited(a) ==
    \E t \in Threads : /\ pc[t] \in {"arm", "block", "sleep"}
                       /\ a = cmd[t]

\* Holds when the dongle answers in time or not at all.
TimelyInv ==
    /\ env = "timely"
    /\ Outstanding <= 1
    /\ \A i \in DOMAIN pending : Awaited(pending[i])
    /\ \A i \in DOMAIN line : Awaited(line[i])
    /\ epc # "select" => Awaited(handling) /\ response_ = handling
    /\ epc = "clear" => waiting_for_response_id_ = handling.id
    /\ epc = "signal" => waiting_for_response_id_ = 0
    /\ waiting_for_response_id_ # 0 =>
         \E t \in Threads : pc[t] \in {"block", "sleep", "expired"}
    /\ \A t \in Threads : pc[t] \in {"woken", "expired"} => Outstanding = 0
    /\ \A t \in Threads : pc[t] = "woken" =>
         waiting_for_response_id_ = 0 /\ response_ = cmd[t]
    /\ ~Exited
    /\ epc = "signal" =>
         \A t \in Threads : pc[t] # "arm"

-----------------------------------------------------------------------------

\* Taking the first element off a queue.
LEMMA QueueFront ==
    ASSUME NEW S, NEW q \in Seq(S), q # <<>>
    PROVE  /\ Head(q) \in S
           /\ Tail(q) \in Seq(S)
           /\ Len(q) \in Nat \ {0}
           /\ Len(Tail(q)) = Len(q) - 1
           /\ Head(q) = q[1]
           /\ 1 \in DOMAIN q
           /\ \A i \in DOMAIN Tail(q) : i + 1 \in DOMAIN q /\ Tail(q)[i] = q[i + 1]
  OBVIOUS

\* Adding an element at the end of a queue.
LEMMA QueueBack ==
    ASSUME NEW S, NEW q \in Seq(S), NEW e \in S
    PROVE  /\ Append(q, e) \in Seq(S)
           /\ Len(q) \in Nat
           /\ Len(Append(q, e)) = Len(q) + 1
           /\ \A i \in DOMAIN Append(q, e) :
                \/ i \in DOMAIN q /\ Append(q, e)[i] = q[i]
                \/ Append(q, e)[i] = e
  OBVIOUS

\* Whatever the dongle does, a step of any thread keeps CommandInv: only the
\* owner of command_mutex_ registers an id, and only a matched answer wakes it.
LEMMA CommandStepKeepsInv == CommandInv /\ [Next]_vars => CommandInv'
<1> SUFFICES ASSUME CommandInv, [Next]_vars PROVE CommandInv'
  BY Zenon
<1> USE ThreadsAssumption, IdsAssumption, MaxRequestsAssumption, EnvironmentAssumption
        DEF CommandInv, TypeOK, LockInv, WaiterIsOwner, WakeupsArePaidFor,
            ThreadStates, LoopStates, At, LoopAt, Goto, Requests, NoRequest,
            threadVars, loopVars, dongleVars, countVars
<1>1. ASSUME NEW t \in Threads, NEW id \in Ids, LockCommand(t, id) PROVE CommandInv'
  BY <1>1 DEF LockCommand
<1>2. ASSUME NEW t \in Threads, SendRequest(t) PROVE CommandInv'
  BY <1>2 DEF SendRequest
<1>3. ASSUME NEW t \in Threads, SendFails(t) PROVE CommandInv'
  BY <1>3 DEF SendFails
<1>4. ASSUME NEW t \in Threads, ArmWait(t) PROVE CommandInv'
  BY <1>4, ZenonT(40) DEF ArmWait
<1>5. ASSUME NEW t \in Threads, BlockOnSemaphore(t) PROVE CommandInv'
  BY <1>5 DEF BlockOnSemaphore
<1>6. ASSUME NEW t \in Threads, TimeOut(t) PROVE CommandInv'
  BY <1>6 DEF TimeOut
<1>7. ASSUME NEW t \in Threads, SpuriousWakeup(t) PROVE CommandInv'
  BY <1>7 DEF SpuriousWakeup
<1>8. ASSUME NEW t \in Threads, UseResponse(t) PROVE CommandInv'
  BY <1>8 DEF UseResponse
<1>9. ASSUME NEW t \in Threads, GiveUp(t) PROVE CommandInv'
  BY <1>9, Zenon DEF GiveUp
<1>10. CASE StoreResponse
  <2>1. Head(line) \in Requests /\ Tail(line) \in Seq(Requests)
    BY <1>10, QueueFront, Zenon DEF StoreResponse
  <2> QED BY <1>10, <2>1, Zenon DEF StoreResponse
<1>11. CASE CheckWaiter
  BY <1>11, Zenon DEF CheckWaiter
<1>12. CASE ClearWaiter
  BY <1>12 DEF ClearWaiter
<1>13. CASE SignalWaiter
  <2>1. CASE \E t \in Threads : pc[t] = "sleep"
    <3>1. PICK t \in Threads : pc[t] = "sleep" /\ pc' = [pc EXCEPT ![t] = "woken"]
      BY <1>13, <2>1, Zenon DEF SignalWaiter
    <3>2. \A u \in Threads : pc[u] # "woken"
      BY <3>1, Zenon
    <3> QED BY <1>13, <3>1, <3>2 DEF SignalWaiter
  <2>2. CASE ~\E t \in Threads : pc[t] = "sleep"
    BY <1>13, <2>2 DEF SignalWaiter
  <2> QED BY <2>1, <2>2, Zenon
<1>14. CASE DongleAnswers
  <2>1. Head(pending) \in Requests /\ Tail(pending) \in Seq(Requests)
    BY <1>14, QueueFront, Zenon DEF DongleAnswers
  <2>2. Append(line, Head(pending)) \in Seq(Requests)
    BY <2>1, QueueBack, Zenon
  <2> QED BY <1>14, <2>1, <2>2, Zenon DEF DongleAnswers
<1>15. CASE DongleIgnores
  BY <1>15 DEF DongleIgnores
<1>16. CASE UNCHANGED vars
  BY <1>16, Zenon DEF vars
<1> QED
  BY <1>1, <1>2, <1>3, <1>4, <1>5, <1>6, <1>7, <1>8, <1>9, <1>10, <1>11, <1>12, <1>13, <1>14, <1>15,
     <1>16, Zenon
  DEF Next, CommandStep, LoopStep, DongleStep

\* The program starts with no command in progress.
LEMMA CommandInitially == Init => CommandInv
  BY ThreadsAssumption, IdsAssumption, MaxRequestsAssumption
     DEF Init, CommandInv, TypeOK, LockInv, WaiterIsOwner, WakeupsArePaidFor,
         ThreadStates, LoopStates

\* However late the answers are, a command is completed only by an answer that
\* notifyResponseIsHere matched with a waiting command (wmbus.cc).
THEOREM PaidFor == Spec => []WakeupsArePaidFor
<1>1. CommandInv => WakeupsArePaidFor
  BY Zenon DEF CommandInv
<1> QED BY <1>1, CommandInitially, CommandStepKeepsInv, PTL DEF Spec

\* A sleeping command thread is never registered under the id of another
\* command, and the variables keep their types (wmbus.cc waitForResponse).
THEOREM OwnerWaits == Spec => [](TypeOK /\ WaiterIsOwner)
<1>1. CommandInv => TypeOK /\ WaiterIsOwner
  BY Zenon DEF CommandInv
<1> QED BY <1>1, CommandInitially, CommandStepKeepsInv, PTL DEF Spec

\* With a dongle that answers in time or not at all, a step keeps TimelyInv:
\* at most one answer is under way, it belongs to the owner of the lock, and
\* nothing is left registered when the next command is armed.
LEMMA TimelyStepKeepsInv ==
    ASSUME CommandInv, CommandInv', TimelyInv, [Next]_vars
    PROVE  TimelyInv'
<1> USE ThreadsAssumption, IdsAssumption
        DEF CommandInv, TypeOK, LockInv, WaiterIsOwner, TimelyInv, Outstanding, Awaited,
            Exited, LateAnswers, SpuriousWakeups, ThreadStates, LoopStates, At, LoopAt, Goto,
            threadVars, loopVars, dongleVars, countVars
<1>1. ASSUME NEW t \in Threads, NEW id \in Ids, LockCommand(t, id) PROVE TimelyInv'
  BY <1>1 DEF LockCommand
<1>2. ASSUME NEW t \in Threads, SendRequest(t) PROVE TimelyInv'
  <2>1. \A u \in Threads : pc[u] \in {"idle", "send"}
    BY <1>2, Zenon DEF SendRequest
  <2>2. \A a : ~Awaited(a)
    BY <2>1, Zenon
  <2>3. pending = <<>> /\ line = <<>> /\ epc = "select" /\ waiting_for_response_id_ = 0
    <3> HIDE DEF Awaited
    <3>1. DOMAIN pending = {} /\ DOMAIN line = {} /\ epc = "select"
      BY <2>2, Zenon
    <3>2. waiting_for_response_id_ = 0
      BY <2>1, Zenon
    <3> QED BY <3>1, <3>2
  <2>4. /\ pending' = <<cmd[t]>> /\ UNCHANGED <<env, line, epc, cmd, waiting_for_response_id_>>
        /\ pc' = [pc EXCEPT ![t] = "arm"]
    BY <1>2, <2>3 DEF SendRequest
  <2>5. Awaited(cmd[t])'
    BY <2>4, Zenon
  <2>6. Outstanding' = 1
    BY <2>3, <2>4
  <2>7. \A u \in Threads : pc'[u] \in {"idle", "send", "arm"}
    BY <2>1, <2>4
  <2> QED
    <3> HIDE DEF Awaited, Outstanding
    <3>1. \A i \in DOMAIN pending' : Awaited(pending[i])'
      BY <2>4, <2>5
    <3> QED BY <2>3, <2>4, <2>6, <2>7, <3>1
<1>3. ASSUME NEW t \in Threads, SendFails(t) PROVE TimelyInv'
  BY <1>3 DEF SendFails
<1>4. ASSUME NEW t \in Threads, ArmWait(t) PROVE TimelyInv'
  BY <1>4 DEF ArmWait
<1>5. ASSUME NEW t \in Threads, BlockOnSemaphore(t) PROVE TimelyInv'
  BY <1>5 DEF BlockOnSemaphore
<1>6. ASSUME NEW t \in Threads, TimeOut(t) PROVE TimelyInv'
  <2>1. ~AnswerOutstanding(t)
    BY <1>6, Zenon DEF TimeOut
  <2>2. \A a : Awaited(a) => a = cmd[t]
    BY <1>6 DEF TimeOut
  <2>3. DOMAIN pending = {} /\ DOMAIN line = {} /\ epc = "select"
    <3> HIDE DEF Awaited
    <3>1. ASSUME NEW i \in DOMAIN pending PROVE FALSE
      BY <2>1, <2>2, <3>1, Zenon DEF AnswerOutstanding
    <3>2. ASSUME NEW i \in DOMAIN line PROVE FALSE
      BY <2>1, <2>2, <3>2, Zenon DEF AnswerOutstanding
    <3>3. epc = "select"
      BY <2>1, <2>2, Zenon DEF AnswerOutstanding
    <3> QED BY <3>1, <3>2, <3>3, Zenon
  <2>4. Outstanding = 0
    BY <2>3
  <2> QED BY <1>6, <2>3, <2>4 DEF TimeOut
<1>7. ASSUME NEW t \in Threads, SpuriousWakeup(t) PROVE TimelyInv'
  BY <1>7, Zenon DEF SpuriousWakeup
<1>8. ASSUME NEW t \in Threads, UseResponse(t) PROVE TimelyInv'
  BY <1>8 DEF UseResponse
<1>9. ASSUME NEW t \in Threads, GiveUp(t) PROVE TimelyInv'
  BY <1>9 DEF GiveUp
<1>10. CASE StoreResponse
  BY <1>10 DEF StoreResponse
<1>11. CASE CheckWaiter
  BY <1>11 DEF CheckWaiter
<1>12. CASE ClearWaiter
  <2>1. PICK u \in Threads : pc[u] \in {"arm", "block", "sleep"} /\ handling = cmd[u]
    BY <1>12, Zenon DEF ClearWaiter
  <2>2. waiting_for_response_id_ # 0
    BY <1>12, <2>1 DEF ClearWaiter, Requests
  <2>3. \A v \in Threads : pc[v] # "arm"
    BY <1>12, <2>2 DEF ClearWaiter
  <2> QED BY <1>12, <2>3 DEF ClearWaiter
<1>13. CASE SignalWaiter
  BY <1>13 DEF SignalWaiter
<1>14. CASE DongleAnswers
  BY <1>14 DEF DongleAnswers
<1>15. CASE DongleIgnores
  BY <1>15 DEF DongleIgnores
<1>16. CASE UNCHANGED vars
  BY <1>16 DEF vars
<1> QED
  BY <1>1, <1>2, <1>3, <1>4, <1>5, <1>6, <1>7, <1>8, <1>9, <1>10, <1>11, <1>12, <1>13, <1>14, <1>15,
     <1>16, Zenon
  DEF Next, CommandStep, LoopStep, DongleStep

\* With a dongle that answers in time or not at all, the "bad internal state"
\* exit of waitForResponse is never taken, and a command whose wait returned
\* true decodes the answer to its own request (wmbus.cc, wmbus_im871a.cc).
THEOREM TimelyDongle == Spec => []TimelyIsServed
<1> DEFINE Inv == CommandInv /\ (env = "timely" => TimelyInv)
<1>1. Init => Inv
  BY CommandInitially DEF Init, TimelyInv, Outstanding, Exited
<1>2. Inv /\ [Next]_vars => Inv'
  <2> SUFFICES ASSUME Inv, [Next]_vars PROVE Inv'
    BY Zenon
  <2>1. env' = env
    BY Zenon DEF Next, vars, CommandStep, LoopStep, DongleStep, LockCommand, SendRequest,
       SendFails, ArmWait, BlockOnSemaphore, TimeOut, SpuriousWakeup, UseResponse, GiveUp,
       StoreResponse, CheckWaiter, ClearWaiter, SignalWaiter, DongleAnswers, DongleIgnores
  <2> QED BY <2>1, CommandStepKeepsInv, TimelyStepKeepsInv, Zenon
<1>3. Inv => TimelyIsServed
  BY Zenon DEF TimelyInv, TimelyIsServed, NoBadInternalState
<1> QED BY <1>1, <1>2, <1>3, PTL DEF Spec

-----------------------------------------------------------------------------

\* A command thread holds the lock from LockCommand until it returns, so a
\* thread that is alive and past "idle" is the owner of the abstract command.
LEMMA ServiceStep ==
    ASSUME CommandInv, CommandInv', [Next]_vars
    PROVE  [Service!Next]_(Service!serviceVars)
<1> USE ThreadsAssumption
        DEF CommandInv, TypeOK, LockInv, WakeupsArePaidFor, At, LoopAt, Goto, Exited,
            Service!Next, Service!serviceVars, Service!Call, Service!Return,
            Service!ReturnTrue, Service!ReturnFalse, Service!Exit, Service!Match,
            ThreadStates, threadVars, loopVars, dongleVars, countVars
<1>1. ASSUME NEW t \in Threads, CommandStep(t) PROVE [Service!Next]_(Service!serviceVars)
  <2>1. ASSUME NEW id \in Ids, LockCommand(t, id) PROVE Service!Call(t)
    BY <2>1, Zenon DEF LockCommand
  <2>2. CASE SendFails(t)
    <3>1. Service!ReturnFalse(t)
      BY <2>2, Zenon DEF SendFails
    <3> QED BY <3>1, Zenon
  <2>3. CASE GiveUp(t)
    <3>1. Service!ReturnFalse(t)
      BY <2>3, Zenon DEF GiveUp
    <3> QED BY <3>1, Zenon
  <2>4. CASE UseResponse(t)
    <3>1. succeeded < accepted
      BY <2>4 DEF UseResponse
    <3>2. Service!ReturnTrue(t)
      BY <2>4, <3>1, Zenon DEF UseResponse
    <3> QED BY <3>2, Zenon
  <2>5. CASE ArmWait(t)
    <3>1. Service!Exit(t) \/ UNCHANGED (Service!serviceVars)
      BY <2>5, Zenon DEF ArmWait
    <3> QED BY <3>1, Zenon
  <2>6. CASE SpuriousWakeup(t)
    <3>1. Service!Match
      BY <2>6, Zenon DEF SpuriousWakeup
    <3> QED BY <3>1, Zenon
  <2>7. CASE SendRequest(t) \/ BlockOnSemaphore(t) \/ TimeOut(t)
    BY <2>7, Zenon DEF SendRequest, BlockOnSemaphore, TimeOut
  <2> QED BY <1>1, <2>1, <2>2, <2>3, <2>4, <2>5, <2>6, <2>7, Zenon DEF CommandStep
<1>2. CASE LoopStep
  <2>1. CASE ClearWaiter
    BY <2>1, Zenon DEF ClearWaiter
  <2>2. CASE StoreResponse \/ CheckWaiter \/ SignalWaiter
    BY <2>2, Zenon DEF StoreResponse, CheckWaiter, SignalWaiter
  <2> QED BY <1>2, <2>1, <2>2, Zenon DEF LoopStep
<1>3. CASE DongleStep
  BY <1>3, Zenon DEF DongleStep, DongleAnswers, DongleIgnores
<1>4. CASE UNCHANGED vars
  BY <1>4, Zenon DEF vars
<1> QED BY <1>1, <1>2, <1>3, <1>4, Zenon DEF Next

\* The command threads, the event loop and the condition variable implement the
\* safety part of the abstract command service: commands are executed one at a
\* time, and each that returns true has used up a wakeup of its own.
THEOREM ServiceImplemented == Spec => Service!Spec
<1>1. Init => Service!Init
  BY Zenon DEF Init, Service!Init, Exited
<1>2. CommandInv /\ CommandInv' /\ [Next]_vars => [Service!Next]_(Service!serviceVars)
  BY ServiceStep, Zenon
<1> QED BY <1>1, <1>2, CommandInitially, CommandStepKeepsInv, PTL DEF Spec, Service!Spec
=============================================================================
