------------------------------ MODULE DrainMutex ------------------------------
(***************************************************************************)
(* What drainhelper.Run promises its callers, without elections, leases,   *)
(* goroutines or retries: a daemon that asks to service its node waits     *)
(* until it is let in, at most one daemon is inside at any time, whoever   *)
(* is inside leaves, and whoever keeps waiting is let in.  A daemon that   *)
(* dies simply stops waiting or being inside.                              *)
(***************************************************************************)
CONSTANT Daemons

VARIABLES
    waiting,  \* daemons whose Run has joined and not been admitted
    inside    \* daemons whose callback is running

mutexVars == <<waiting, inside>>

MutexInit ==
    /\ waiting = {}
    /\ inside = {}

Request(d) ==
    /\ d \notin waiting
    /\ waiting' = waiting \cup {d}
    /\ UNCHANGED inside

Enter(d) ==
    /\ d \in waiting
    /\ inside = {}
    /\ waiting' = waiting \ {d}
    /\ inside' = {d}

Leave(d) ==
    /\ d \in inside
    /\ inside' = inside \ {d}
    /\ UNCHANGED waiting

GiveUp(d) ==
    /\ d \in waiting
    /\ waiting' = waiting \ {d}
    /\ UNCHANGED inside

MutexNext ==
    \E d \in Daemons : Request(d) \/ Enter(d) \/ Leave(d) \/ GiveUp(d)

MutexSpec == MutexInit /\ [][MutexNext]_mutexVars

\* Whoever is inside leaves, and nobody waits for ever.
MutexFairness ==
    \A d \in Daemons :
        /\ WF_mutexVars(Leave(d))
        /\ d \in waiting ~> d \notin waiting

MutexFairSpec == MutexSpec /\ MutexFairness

=============================================================================
