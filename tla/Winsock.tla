------------------------------ MODULE Winsock ------------------------------
(***************************************************************************)
(* The use the threads of one process make of Winsock, which counts the    *)
(* successful calls of WSAStartup and is shut down, with every socket of   *)
(* the process, when WSACleanup has been called as often.  CreateServer    *)
(* (CreateServer.cpp 273-331, 404) and CreateClient (CreateClient.cpp      *)
(* 37-43, 59, 74, 83, 99, 137) call WSACleanup at every end, and after a   *)
(* WSAStartup that failed too, which takes away another thread's count.    *)
(***************************************************************************)
EXTENDS Integers, FiniteSets

CONSTANTS
    Threads,       \* the threads of the process that use Winsock
    MaxFailures    \* bound on the calls of WSAStartup that fail

ASSUME WinsockAssumption == IsFiniteSet(Threads) /\ MaxFailures \in Nat

VARIABLES
    thread,     \* each thread: "new", "holding" Winsock, or "over"
    refs,       \* Winsock's reference count
    failures    \* calls of WSAStartup that failed

winsockVars == <<thread, refs, failures>>

\* WSACleanup fails, and changes nothing, when Winsock is not started.
WSACleanup == refs' = IF refs = 0 THEN 0 ELSE refs - 1

Startup(t) ==
    /\ thread[t] = "new"
    /\ thread' = [thread EXCEPT ![t] = "holding"]
    /\ refs' = refs + 1
    /\ UNCHANGED failures

\* WSAStartup failed; WSACleanup is called all the same.
StartupFails(t) ==
    /\ thread[t] = "new" /\ failures < MaxFailures
    /\ thread' = [thread EXCEPT ![t] = "over"]
    /\ WSACleanup
    /\ failures' = failures + 1

\* Every other end of a thread, late or early.
EndHoldsOn(t) ==
    /\ thread[t] = "holding"
    /\ thread' = [thread EXCEPT ![t] = "over"]
    /\ UNCHANGED <<refs, failures>>

EndCleansTwice(t) ==
    /\ thread[t] = "holding"
    /\ thread' = [thread EXCEPT ![t] = "over"]
    /\ refs' = IF refs < 2 THEN 0 ELSE refs - 2
    /\ UNCHANGED failures

End(t) ==
    /\ thread[t] = "holding"
    /\ thread' = [thread EXCEPT ![t] = "over"]
    /\ WSACleanup
    /\ UNCHANGED failures

WinsockInit ==
    /\ thread = [t \in Threads |-> "new"]
    /\ refs = 0 /\ failures = 0

WinsockNext == \E t \in Threads : Startup(t) \/ StartupFails(t) \/ End(t)

WinsockSpec == WinsockInit /\ [][WinsockNext]_winsockVars

Holders == {t \in Threads : thread[t] = "holding"}

\* Winsock's count is that of the threads that hold it, less at most one for
\* each WSAStartup that failed: as long as none has, no end of a thread, early
\* or late, takes Winsock away from a thread that still uses it.
RefsHeld ==
    /\ refs <= Cardinality(Holders)
    /\ Cardinality(Holders) <= refs + failures
=============================================================================
