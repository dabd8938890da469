--------------------------- MODULE CommandService ---------------------------
(* What sending a command to a dongle promises its caller, without the      *)
(* threads, the condition variable and the serial line behind it: one       *)
(* command at a time, each returns once, and it returns true only against a *)
(* wakeup that no other command has been given.                             *)
EXTENDS Naturals

CONSTANTS
    Threads,   \* the threads that send commands
    NoThread   \* no command is being executed

VARIABLES
    owner,      \* the thread that executes a command
    matched,    \* the number of wakeups given out
    completed,  \* the number of commands that returned true
    alive       \* the program has not exited on an internal error

serviceVars == <<owner, matched, completed, alive>>

Init ==
    /\ owner = NoThread
    /\ matched = 0
    /\ completed = 0
    /\ alive = TRUE

\* A thread starts executing a command.
Call(t) ==
    /\ alive /\ owner = NoThread
    /\ owner' = t
    /\ UNCHANGED <<matched, completed, alive>>

\* An answer is matched with the command that waits for it.
Match ==
    /\ alive
    /\ matched' = matched + 1
    /\ UNCHANGED <<owner, completed, alive>>

\* The command returns true: it uses up one wakeup.
ReturnTrue(t) ==
    /\ alive /\ owner = t
    /\ completed < matched
    /\ completed' = completed + 1
    /\ owner' = NoThread
    /\ UNCHANGED <<matched, alive>>

\* The command returns false.
ReturnFalse(t) ==
    /\ alive /\ owner = t
    /\ owner' = NoThread
    /\ UNCHANGED <<matched, completed, alive>>

\* The program exits in the middle of a command.
Exit(t) ==
    /\ alive /\ owner = t
    /\ alive' = FALSE
    /\ UNCHANGED <<owner, matched, completed>>

Return(t) == ReturnTrue(t) \/ ReturnFalse(t) \/ Exit(t)

Next ==
    \/ \E t \in Threads : Call(t) \/ Return(t)
    \/ Match

Spec == Init /\ [][Next]_serviceVars

\* A command that was started returns.
FairSpec == Spec /\ \A t \in Threads : WF_serviceVars(Return(t))
=============================================================================
