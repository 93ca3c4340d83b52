--------------------------- MODULE DrainHelperProofs ---------------------------
(***************************************************************************)
(* Theorems about DrainHelper, for any number of daemons, nodes, goroutine *)
(* slots and attempts.  The type invariant and the fact about orphaned     *)
(* callbacks hold under every fault; the mutual exclusion theorems assume  *)
(* Reliable (see DrainHelper).                                             *)
(***************************************************************************)
EXTENDS DrainHelper, TLAPS

USE DrainHelperAssumption

-----------------------------------------------------------------------------
(* What one step of a callback goroutine changes.                           *)

\* g is f but for the entry of the goroutine in slot s of daemon d.
ChangesAt(d, s, V, f, g) ==
    g = f \/ \E v \in V : g = [f EXCEPT ![d][s] = v]

\* A function changed in at most one place stays in its type.
LEMMA ChangesAtType ==
  ASSUME NEW V, NEW f \in [Daemons -> [Slots -> V]], NEW g,
         NEW d \in Daemons, NEW s \in Slots, ChangesAt(d, s, V, f, g)
  PROVE  g \in [Daemons -> [Slots -> V]]
  BY DEF ChangesAt

\* Every other goroutine's entry keeps its value.
LEMMA ChangesAtOthers ==
  ASSUME NEW V, NEW f \in [Daemons -> [Slots -> V]], NEW g,
         NEW d \in Daemons, NEW s \in Slots, ChangesAt(d, s, V, f, g),
         NEW e \in Daemons, NEW t \in Slots, e # d \/ t # s
  PROVE  g[e][t] = f[e][t]
  BY DEF ChangesAt

\* The attempt counter restarts at 0 or is incremented below the limit.
LEMMA TriesShape ==
  ASSUME TypeOK, NEW d \in Daemons, NEW s \in Slots,
         \/ UNCHANGED tries
         \/ tries' = [tries EXCEPT ![d][s] = 0]
         \/ /\ tries[d][s] + 1 < MaxAttempts
            /\ tries' = [tries EXCEPT ![d][s] = tries[d][s] + 1]
  PROVE  ChangesAt(d, s, 0..(MaxAttempts - 1), tries, tries')
  <1>1. CASE UNCHANGED tries
    BY <1>1 DEF ChangesAt
  <1>2. CASE tries' = [tries EXCEPT ![d][s] = 0]
    BY <1>2, 0 \in 0..(MaxAttempts - 1) DEF ChangesAt
  <1>3. CASE /\ tries[d][s] + 1 < MaxAttempts
             /\ tries' = [tries EXCEPT ![d][s] = tries[d][s] + 1]
    <2>1. tries[d][s] + 1 \in 0..(MaxAttempts - 1)
      BY <1>3 DEF TypeOK
    <2> QED
      BY <1>3, <2>1 DEF ChangesAt
  <1> QED
    BY <1>1, <1>2, <1>3

\* A step of a callback changes its own entries only, it writes no other
\* variable than its node's, and it cancels its context only by ending.
CallbackShape(d, s) ==
    /\ UNCHANGED <<lease, leaseRead, main, cur, ret, drain>>
    /\ pc[d][s] # "idle"
    /\ ChangesAt(d, s, CallbackStates, pc, pc')
    /\ ChangesAt(d, s, BOOLEAN, failed, failed')
    /\ ChangesAt(d, s, BOOLEAN, copy, copy')
    /\ ChangesAt(d, s, BOOLEAN, worked, worked')
    /\ ChangesAt(d, s, 0..(MaxAttempts - 1), tries, tries')
    /\ \/ UNCHANGED cancelled
       \/ /\ cancelled' = [cancelled EXCEPT ![d][s] = TRUE]
          /\ pc' = [pc EXCEPT ![d][s] = "idle"]
    /\ \/ UNCHANGED cordoned
       \/ \E v \in BOOLEAN : cordoned' = [cordoned EXCEPT ![NodeOf[d]] = v]
    /\ \/ UNCHANGED rebootDue
       \/ \E v \in BOOLEAN : rebootDue' = [rebootDue EXCEPT ![NodeOf[d]] = v]

\* A callback's step changes each variable of the node and of the callback at
\* its own place only.
LEMMA CallbackStepShape ==
  ASSUME TypeOK, NEW d \in Daemons, NEW s \in Slots, CallbackStep(d, s)
  PROVE  CallbackShape(d, s)
  <1>1. CASE GetForCordon(d, s)
    <2>1. /\ UNCHANGED <<lease, leaseRead, main, cur, ret, drain>>
          /\ pc[d][s] # "idle"
      BY <1>1 DEF GetForCordon, GiveUpDrain, electionVars, nodeVars, runVars
    <2>2. ChangesAt(d, s, CallbackStates, pc, pc')
      BY <1>1 DEF ChangesAt, GetForCordon, GiveUpDrain, CallbackStates
    <2>3. /\ ChangesAt(d, s, BOOLEAN, failed, failed')
          /\ ChangesAt(d, s, BOOLEAN, copy, copy')
          /\ ChangesAt(d, s, BOOLEAN, worked, worked')
      BY <1>1 DEF ChangesAt, GetForCordon, GiveUpDrain, TypeOK
    <2>4. ChangesAt(d, s, 0..(MaxAttempts - 1), tries, tries')
      BY <1>1, TriesShape DEF GetForCordon, GiveUpDrain
    <2>5. \/ UNCHANGED cancelled
          \/ /\ cancelled' = [cancelled EXCEPT ![d][s] = TRUE]
             /\ pc' = [pc EXCEPT ![d][s] = "idle"]
      BY <1>1 DEF GetForCordon, GiveUpDrain
    <2>6. /\ \/ UNCHANGED cordoned
             \/ \E v \in BOOLEAN : cordoned' = [cordoned EXCEPT ![NodeOf[d]] = v]
          /\ \/ UNCHANGED rebootDue
             \/ \E v \in BOOLEAN : rebootDue' = [rebootDue EXCEPT ![NodeOf[d]] = v]
      BY <1>1 DEF GetForCordon, GiveUpDrain, nodeVars
    <2> QED
      BY <2>1, <2>2, <2>3, <2>4, <2>5, <2>6 DEF CallbackShape
  <1>2. CASE Cordon(d, s)
    <2>1. /\ UNCHANGED <<lease, leaseRead, main, cur, ret, drain>>
          /\ pc[d][s] # "idle"
      BY <1>2 DEF Cordon, RetryDrain, GiveUpDrain, electionVars, nodeVars, runVars
    <2>2. ChangesAt(d, s, CallbackStates, pc, pc')
      BY <1>2 DEF ChangesAt, Cordon, RetryDrain, GiveUpDrain, CallbackStates
    <2>3. /\ ChangesAt(d, s, BOOLEAN, failed, failed')
          /\ ChangesAt(d, s, BOOLEAN, copy, copy')
          /\ ChangesAt(d, s, BOOLEAN, worked, worked')
      BY <1>2 DEF ChangesAt, Cordon, RetryDrain, GiveUpDrain, TypeOK
    <2>4. ChangesAt(d, s, 0..(MaxAttempts - 1), tries, tries')
      BY <1>2, TriesShape DEF Cordon, RetryDrain, GiveUpDrain
    <2>5. \/ UNCHANGED cancelled
          \/ /\ cancelled' = [cancelled EXCEPT ![d][s] = TRUE]
             /\ pc' = [pc EXCEPT ![d][s] = "idle"]
      BY <1>2 DEF Cordon, RetryDrain, GiveUpDrain
    <2>6. /\ \/ UNCHANGED cordoned
             \/ \E v \in BOOLEAN : cordoned' = [cordoned EXCEPT ![NodeOf[d]] = v]
          /\ \/ UNCHANGED rebootDue
             \/ \E v \in BOOLEAN : rebootDue' = [rebootDue EXCEPT ![NodeOf[d]] = v]
      BY <1>2 DEF Cordon, RetryDrain, GiveUpDrain, nodeVars
    <2> QED
      BY <2>1, <2>2, <2>3, <2>4, <2>5, <2>6 DEF CallbackShape
  <1>3. CASE Evict(d, s)
    <2>1. /\ UNCHANGED <<lease, leaseRead, main, cur, ret, drain>>
          /\ pc[d][s] # "idle"
      BY <1>3 DEF Evict, RetryDrain, GiveUpDrain, electionVars, nodeVars, runVars
    <2>2. ChangesAt(d, s, CallbackStates, pc, pc')
      BY <1>3 DEF ChangesAt, Evict, RetryDrain, GiveUpDrain, CallbackStates
    <2>3. /\ ChangesAt(d, s, BOOLEAN, failed, failed')
          /\ ChangesAt(d, s, BOOLEAN, copy, copy')
          /\ ChangesAt(d, s, BOOLEAN, worked, worked')
      BY <1>3 DEF ChangesAt, Evict, RetryDrain, GiveUpDrain, TypeOK
    <2>4. ChangesAt(d, s, 0..(MaxAttempts - 1), tries, tries')
      BY <1>3, TriesShape DEF Evict, RetryDrain, GiveUpDrain
    <2>5. \/ UNCHANGED cancelled
          \/ /\ cancelled' = [cancelled EXCEPT ![d][s] = TRUE]
             /\ pc' = [pc EXCEPT ![d][s] = "idle"]
      BY <1>3 DEF Evict, RetryDrain, GiveUpDrain
    <2>6. /\ \/ UNCHANGED cordoned
             \/ \E v \in BOOLEAN : cordoned' = [cordoned EXCEPT ![NodeOf[d]] = v]
          /\ \/ UNCHANGED rebootDue
             \/ \E v \in BOOLEAN : rebootDue' = [rebootDue EXCEPT ![NodeOf[d]] = v]
      BY <1>3 DEF Evict, RetryDrain, GiveUpDrain, nodeVars
    <2> QED
      BY <2>1, <2>2, <2>3, <2>4, <2>5, <2>6 DEF CallbackShape
  <1>4. ASSUME NEW p \in BOOLEAN, Work(d, s, p)
        PROVE  CallbackShape(d, s)
    <2>1. /\ UNCHANGED <<lease, leaseRead, main, cur, ret, drain>>
          /\ pc[d][s] # "idle"
      BY <1>4 DEF Work, electionVars, nodeVars, runVars
    <2>2. ChangesAt(d, s, CallbackStates, pc, pc')
      BY <1>4 DEF ChangesAt, Work, CallbackStates
    <2>3. /\ ChangesAt(d, s, BOOLEAN, failed, failed')
          /\ ChangesAt(d, s, BOOLEAN, copy, copy')
          /\ ChangesAt(d, s, BOOLEAN, worked, worked')
      BY <1>4 DEF ChangesAt, Work, TypeOK
    <2>4. ChangesAt(d, s, 0..(MaxAttempts - 1), tries, tries')
      BY <1>4, TriesShape DEF Work
    <2>5. \/ UNCHANGED cancelled
          \/ /\ cancelled' = [cancelled EXCEPT ![d][s] = TRUE]
             /\ pc' = [pc EXCEPT ![d][s] = "idle"]
      BY <1>4 DEF Work
    <2>6. /\ \/ UNCHANGED cordoned
             \/ \E v \in BOOLEAN : cordoned' = [cordoned EXCEPT ![NodeOf[d]] = v]
          /\ \/ UNCHANGED rebootDue
             \/ \E v \in BOOLEAN : rebootDue' = [rebootDue EXCEPT ![NodeOf[d]] = v]
      BY <1>4 DEF Work, nodeVars
    <2> QED
      BY <2>1, <2>2, <2>3, <2>4, <2>5, <2>6 DEF CallbackShape
  <1>5. CASE GetForUncordon(d, s)
    <2>1. /\ UNCHANGED <<lease, leaseRead, main, cur, ret, drain>>
          /\ pc[d][s] # "idle"
      BY <1>5 DEF GetForUncordon, FreeLeadership, electionVars, nodeVars, runVars
    <2>2. ChangesAt(d, s, CallbackStates, pc, pc')
      BY <1>5 DEF ChangesAt, GetForUncordon, FreeLeadership, CallbackStates, TypeOK
    <2>3. /\ ChangesAt(d, s, BOOLEAN, failed, failed')
          /\ ChangesAt(d, s, BOOLEAN, copy, copy')
          /\ ChangesAt(d, s, BOOLEAN, worked, worked')
      BY <1>5 DEF ChangesAt, GetForUncordon, FreeLeadership, TypeOK
    <2>4. ChangesAt(d, s, 0..(MaxAttempts - 1), tries, tries')
      BY <1>5, TriesShape DEF GetForUncordon, FreeLeadership
    <2>5. \/ UNCHANGED cancelled
          \/ /\ cancelled' = [cancelled EXCEPT ![d][s] = TRUE]
             /\ pc' = [pc EXCEPT ![d][s] = "idle"]
      BY <1>5 DEF GetForUncordon, FreeLeadership
    <2>6. /\ \/ UNCHANGED cordoned
             \/ \E v \in BOOLEAN : cordoned' = [cordoned EXCEPT ![NodeOf[d]] = v]
          /\ \/ UNCHANGED rebootDue
             \/ \E v \in BOOLEAN : rebootDue' = [rebootDue EXCEPT ![NodeOf[d]] = v]
      BY <1>5 DEF GetForUncordon, FreeLeadership, nodeVars
    <2> QED
      BY <2>1, <2>2, <2>3, <2>4, <2>5, <2>6 DEF CallbackShape
  <1>6. CASE Uncordon(d, s)
    <2>1. /\ UNCHANGED <<lease, leaseRead, main, cur, ret, drain>>
          /\ pc[d][s] # "idle"
      BY <1>6 DEF Uncordon, FreeLeadership, electionVars, nodeVars, runVars
    <2>2. ChangesAt(d, s, CallbackStates, pc, pc')
      BY <1>6 DEF ChangesAt, Uncordon, FreeLeadership, CallbackStates, TypeOK
    <2>3. /\ ChangesAt(d, s, BOOLEAN, failed, failed')
          /\ ChangesAt(d, s, BOOLEAN, copy, copy')
          /\ ChangesAt(d, s, BOOLEAN, worked, worked')
      BY <1>6 DEF ChangesAt, Uncordon, FreeLeadership, TypeOK
    <2>4. ChangesAt(d, s, 0..(MaxAttempts - 1), tries, tries')
      BY <1>6, TriesShape DEF Uncordon, FreeLeadership
    <2>5. \/ UNCHANGED cancelled
          \/ /\ cancelled' = [cancelled EXCEPT ![d][s] = TRUE]
             /\ pc' = [pc EXCEPT ![d][s] = "idle"]
      BY <1>6 DEF Uncordon, FreeLeadership
    <2>6. /\ \/ UNCHANGED cordoned
             \/ \E v \in BOOLEAN : cordoned' = [cordoned EXCEPT ![NodeOf[d]] = v]
          /\ \/ UNCHANGED rebootDue
             \/ \E v \in BOOLEAN : rebootDue' = [rebootDue EXCEPT ![NodeOf[d]] = v]
      BY <1>6 DEF Uncordon, FreeLeadership, nodeVars
    <2> QED
      BY <2>1, <2>2, <2>3, <2>4, <2>5, <2>6 DEF CallbackShape
  <1> QED
    BY <1>1, <1>2, <1>3, <1>4, <1>5, <1>6 DEF CallbackStep

-----------------------------------------------------------------------------
(* Type correctness.                                                        *)

\* The control states, the lease holder and the attempt counters stay in
\* their sets under every action and every fault.
LEMMA TypeStep == TypeOK /\ [Next]_vars => TypeOK'
  <1> SUFFICES ASSUME TypeOK, [Next]_vars
               PROVE  TypeOK'
    OBVIOUS
  <1>1. ASSUME NEW d \in Daemons, NEW dr \in DrainModes, Run(d, dr)
        PROVE  TypeOK'
    <2>1. PICK s \in Slots :
             /\ cur' = [cur EXCEPT ![d] = s]
             /\ drain' = [drain EXCEPT ![d][s] = dr]
             /\ cancelled' = [cancelled EXCEPT ![d][s] = FALSE]
             /\ failed' = [failed EXCEPT ![d][s] = FALSE]
             /\ tries' = [tries EXCEPT ![d][s] = 0]
             /\ copy' = [copy EXCEPT ![d][s] = FALSE]
             /\ worked' = [worked EXCEPT ![d][s] = FALSE]
      BY <1>1 DEF Run
    <2> QED
      BY <1>1, <2>1 DEF TypeOK, MainStates, Run, electionVars, nodeVars
  <1>2. ASSUME NEW d \in Daemons, RunRejected(d)
        PROVE  TypeOK'
    BY <1>2 DEF TypeOK, MainStates, CallbackStates, RunRejected, electionVars, nodeVars, callbackVars
  <1>3. ASSUME NEW d \in Daemons, Acquire(d)
        PROVE  TypeOK'
    BY <1>3 DEF TypeOK, MainStates, CallbackStates, Acquire, WriteLease, nodeVars
  <1>4. ASSUME NEW d \in Daemons, Renew(d)
        PROVE  TypeOK'
    BY <1>4 DEF TypeOK, MainStates, CallbackStates, Renew, WriteLease, nodeVars, runVars, callbackVars
  <1>5. ASSUME NEW d \in Daemons, LoseLease(d)
        PROVE  TypeOK'
    BY <1>5 DEF TypeOK, MainStates, CallbackStates, LoseLease, StopLeading, electionVars, nodeVars
  <1>6. ASSUME NEW d \in Daemons, Finish(d)
        PROVE  TypeOK'
    BY <1>6 DEF TypeOK, MainStates, CallbackStates, Finish, StopLeading, electionVars, nodeVars
  <1>7. ASSUME NEW d \in Daemons, ReleaseGet(d)
        PROVE  TypeOK'
    BY <1>7 DEF TypeOK, MainStates, CallbackStates, ReleaseGet, nodeVars, callbackVars
  <1>8. ASSUME NEW d \in Daemons, ReleaseUpdate(d)
        PROVE  TypeOK'
    BY <1>8 DEF TypeOK, MainStates, CallbackStates, ReleaseUpdate, WriteLease, electionVars, nodeVars, callbackVars
  <1>9. ASSUME NEW d \in Daemons, ReleaseFails(d)
        PROVE  TypeOK'
    BY <1>9 DEF TypeOK, MainStates, CallbackStates, ReleaseFails, nodeVars, callbackVars
  <1>10. ASSUME NEW d \in Daemons, Crash(d)
        PROVE  TypeOK'
    BY <1>10 DEF TypeOK, MainStates, CallbackStates, Crash, Kill
  <1>11. ASSUME NEW n \in Nodes, Reboot(n)
        PROVE  TypeOK'
    BY <1>11 DEF TypeOK, MainStates, CallbackStates, Reboot, Kill
  <1>12. ASSUME NEW d \in Daemons, NEW s \in Slots, CallbackStep(d, s)
        PROVE  TypeOK'
    <2>1. CallbackShape(d, s)
      BY <1>12, CallbackStepShape
    <2>2. /\ pc' \in [Daemons -> [Slots -> CallbackStates]]
          /\ failed' \in [Daemons -> [Slots -> BOOLEAN]]
          /\ copy' \in [Daemons -> [Slots -> BOOLEAN]]
          /\ worked' \in [Daemons -> [Slots -> BOOLEAN]]
          /\ tries' \in [Daemons -> [Slots -> 0..(MaxAttempts - 1)]]
      <3>1. pc' \in [Daemons -> [Slots -> CallbackStates]]
        BY <2>1, ChangesAtType, Zenon DEF CallbackShape, TypeOK
      <3>2. failed' \in [Daemons -> [Slots -> BOOLEAN]]
        BY <2>1, ChangesAtType, Zenon DEF CallbackShape, TypeOK
      <3>3. copy' \in [Daemons -> [Slots -> BOOLEAN]]
        BY <2>1, ChangesAtType, Zenon DEF CallbackShape, TypeOK
      <3>4. worked' \in [Daemons -> [Slots -> BOOLEAN]]
        BY <2>1, ChangesAtType, Zenon DEF CallbackShape, TypeOK
      <3>5. tries' \in [Daemons -> [Slots -> 0..(MaxAttempts - 1)]]
        BY <2>1, ChangesAtType, Zenon DEF CallbackShape, TypeOK
      <3> QED
        BY <3>1, <3>2, <3>3, <3>4, <3>5, Zenon
    <2>3. cancelled' \in [Daemons -> [Slots -> BOOLEAN]]
      <3>1. CASE UNCHANGED cancelled
        BY <3>1 DEF TypeOK
      <3>2. CASE cancelled' = [cancelled EXCEPT ![d][s] = TRUE]
        BY <3>2 DEF TypeOK
      <3> QED
        BY <2>1, <3>1, <3>2 DEF CallbackShape
    <2>4. cordoned' \in [Nodes -> BOOLEAN] /\ rebootDue' \in [Nodes -> BOOLEAN]
      BY <2>1 DEF CallbackShape, TypeOK
    <2> QED
      BY <2>1, <2>2, <2>3, <2>4 DEF CallbackShape, TypeOK
  <1>13. CASE UNCHANGED vars
    BY <1>13 DEF vars, TypeOK
  <1> QED
    BY <1>1, <1>2, <1>3, <1>4, <1>5, <1>6, <1>7, <1>8, <1>9, <1>10, <1>11, <1>12, <1>13 DEF Next, RunStep

\* The specification is type-correct, for all constants and faults.
THEOREM TypeCorrect == Spec => []TypeOK
  <1>1. Init => TypeOK
    BY DEF Init, TypeOK, MainStates, CallbackStates
  <1> QED
    BY <1>1, TypeStep, PTL DEF Spec

\* Read pointwise: a callback's step leaves the other goroutines alone, never
\* revives a context, and cancels its own only by ending.
LEMMA CallbackFrame ==
  ASSUME TypeOK, NEW d \in Daemons, NEW s \in Slots, CallbackStep(d, s)
  PROVE  /\ UNCHANGED <<lease, leaseRead, main, cur, ret, drain>>
         /\ pc[d][s] # "idle"
         /\ \A e \in Daemons, t \in Slots :
               e # d \/ t # s => /\ pc'[e][t] = pc[e][t]
                                /\ failed'[e][t] = failed[e][t]
                                /\ worked'[e][t] = worked[e][t]
                                /\ cancelled'[e][t] = cancelled[e][t]
         /\ cancelled[d][s] => cancelled'[d][s]
         /\ cancelled'[d][s] => cancelled[d][s] \/ pc'[d][s] = "idle"
  <1>1. CallbackShape(d, s)
    BY CallbackStepShape
  <1>2. ASSUME NEW e \in Daemons, NEW t \in Slots, e # d \/ t # s
        PROVE  /\ pc'[e][t] = pc[e][t]
               /\ failed'[e][t] = failed[e][t]
               /\ worked'[e][t] = worked[e][t]
    <2>1. pc'[e][t] = pc[e][t]
      <3>1. pc \in [Daemons -> [Slots -> CallbackStates]]
        BY DEF TypeOK
      <3>2. ChangesAt(d, s, CallbackStates, pc, pc')
        BY <1>1 DEF CallbackShape
      <3> QED
        BY <1>2, <3>1, <3>2 DEF ChangesAt
    <2>2. failed'[e][t] = failed[e][t]
      <3>1. failed \in [Daemons -> [Slots -> BOOLEAN]]
        BY DEF TypeOK
      <3>2. ChangesAt(d, s, BOOLEAN, failed, failed')
        BY <1>1 DEF CallbackShape
      <3> QED
        BY <1>2, <3>1, <3>2 DEF ChangesAt
    <2>3. worked'[e][t] = worked[e][t]
      <3>1. worked \in [Daemons -> [Slots -> BOOLEAN]]
        BY DEF TypeOK
      <3>2. ChangesAt(d, s, BOOLEAN, worked, worked')
        BY <1>1 DEF CallbackShape
      <3> QED
        BY <1>2, <3>1, <3>2 DEF ChangesAt
    <2> QED
      BY <2>1, <2>2, <2>3
  <1>3. ASSUME NEW e \in Daemons, NEW t \in Slots, e # d \/ t # s
        PROVE  cancelled'[e][t] = cancelled[e][t]
    BY <1>1, <1>3 DEF CallbackShape, TypeOK
  <1>4. /\ cancelled[d][s] => cancelled'[d][s]
        /\ cancelled'[d][s] => cancelled[d][s] \/ pc'[d][s] = "idle"
    BY <1>1 DEF CallbackShape, TypeOK
  <1> QED
    BY <1>1, <1>2, <1>3, <1>4 DEF CallbackShape

-----------------------------------------------------------------------------
(* Callbacks that outlive their Run, under every fault.                     *)

\* No step lets a callback outlive its Run with a context still uncancelled.
LEMMA OrphanStep ==
    TypeOK /\ OrphansAreCancelled /\ [Next]_vars => OrphansAreCancelled'
  <1> SUFFICES ASSUME TypeOK, OrphansAreCancelled, [Next]_vars
               PROVE  OrphansAreCancelled'
    OBVIOUS
  <1>1. ASSUME NEW d \in Daemons, NEW dr \in DrainModes, Run(d, dr)
        PROVE  OrphansAreCancelled'
    BY <1>1 DEF OrphansAreCancelled, TypeOK, Run, electionVars, nodeVars
  <1>2. ASSUME NEW d \in Daemons, RunRejected(d)
        PROVE  OrphansAreCancelled'
    BY <1>2 DEF OrphansAreCancelled, TypeOK, RunRejected, electionVars, nodeVars, callbackVars
  <1>3. ASSUME NEW d \in Daemons, Acquire(d)
        PROVE  OrphansAreCancelled'
    BY <1>3 DEF OrphansAreCancelled, TypeOK, Acquire, WriteLease, nodeVars
  <1>4. ASSUME NEW d \in Daemons, Renew(d)
        PROVE  OrphansAreCancelled'
    BY <1>4 DEF OrphansAreCancelled, TypeOK, Renew, WriteLease, nodeVars, runVars, callbackVars
  <1>5. ASSUME NEW d \in Daemons, LoseLease(d)
        PROVE  OrphansAreCancelled'
    BY <1>5 DEF OrphansAreCancelled, TypeOK, LoseLease, StopLeading, electionVars, nodeVars
  <1>6. ASSUME NEW d \in Daemons, Finish(d)
        PROVE  OrphansAreCancelled'
    BY <1>6 DEF OrphansAreCancelled, TypeOK, Finish, StopLeading, electionVars, nodeVars
  <1>7. ASSUME NEW d \in Daemons, ReleaseGet(d)
        PROVE  OrphansAreCancelled'
    BY <1>7 DEF OrphansAreCancelled, TypeOK, ReleaseGet, nodeVars, callbackVars
  <1>8. ASSUME NEW d \in Daemons, ReleaseUpdate(d)
        PROVE  OrphansAreCancelled'
    BY <1>8 DEF OrphansAreCancelled, TypeOK, ReleaseUpdate, WriteLease, electionVars, nodeVars, callbackVars
  <1>9. ASSUME NEW d \in Daemons, ReleaseFails(d)
        PROVE  OrphansAreCancelled'
    BY <1>9 DEF OrphansAreCancelled, TypeOK, ReleaseFails, nodeVars, callbackVars
  <1>10. ASSUME NEW d \in Daemons, Crash(d)
        PROVE  OrphansAreCancelled'
    BY <1>10 DEF OrphansAreCancelled, TypeOK, Crash, Kill
  <1>11. ASSUME NEW n \in Nodes, Reboot(n)
        PROVE  OrphansAreCancelled'
    BY <1>11 DEF OrphansAreCancelled, TypeOK, Reboot, Kill
  <1>12. ASSUME NEW d \in Daemons, NEW s \in Slots, CallbackStep(d, s)
        PROVE  OrphansAreCancelled'
    BY <1>12, CallbackFrame DEF OrphansAreCancelled
  <1>13. CASE UNCHANGED vars
    BY <1>13 DEF vars, OrphansAreCancelled, TypeOK
  <1> QED
    BY <1>1, <1>2, <1>3, <1>4, <1>5, <1>6, <1>7, <1>8, <1>9, <1>10, <1>11, <1>12, <1>13 DEF Next, RunStep

\* Under every fault (lost renewals, stalls, crashes, failing requests), a
\* callback whose Run is over has a cancelled context.
THEOREM OrphansCancelled == Spec => []OrphansAreCancelled
  <1>1. Init => OrphansAreCancelled
    BY DEF Init, OrphansAreCancelled
  <1> QED
    BY <1>1, OrphanStep, TypeCorrect, PTL DEF Spec

-----------------------------------------------------------------------------
(* Mutual exclusion when renewals are reliable.                             *)

\* With reliable renewals every step keeps the election's invariant.
LEMMA ElectionStep ==
    Reliable /\ ElectionInv /\ [Next]_vars => ElectionInv'
  <1> SUFFICES ASSUME Reliable, ElectionInv, [Next]_vars
               PROVE  ElectionInv'
    OBVIOUS
  <1>0. TypeOK'
    BY TypeStep DEF ElectionInv
  <1>1. ASSUME NEW d \in Daemons, NEW dr \in DrainModes, Run(d, dr)
        PROVE  ElectionInv'
    BY <1>0, <1>1 DEF ElectionInv, TypeOK, Reliable, Expired, Run, electionVars, nodeVars
  <1>2. ASSUME NEW d \in Daemons, RunRejected(d)
        PROVE  ElectionInv'
    BY <1>0, <1>2 DEF ElectionInv, TypeOK, Reliable, Expired, RunRejected, electionVars, nodeVars, callbackVars
  <1>3. ASSUME NEW d \in Daemons, Acquire(d)
        PROVE  ElectionInv'
    BY <1>0, <1>3 DEF ElectionInv, TypeOK, Reliable, Expired, Acquire, WriteLease, nodeVars
  <1>4. ASSUME NEW d \in Daemons, Renew(d)
        PROVE  ElectionInv'
    BY <1>0, <1>4 DEF ElectionInv, TypeOK, Reliable, Expired, Renew, WriteLease, nodeVars, runVars, callbackVars
  <1>5. ASSUME NEW d \in Daemons, LoseLease(d)
        PROVE  ElectionInv'
    BY <1>0, <1>5 DEF ElectionInv, TypeOK, Reliable, Expired, LoseLease, StopLeading, electionVars, nodeVars
  <1>6. ASSUME NEW d \in Daemons, Finish(d)
        PROVE  ElectionInv'
    BY <1>0, <1>6 DEF ElectionInv, TypeOK, Reliable, Expired, Finish, StopLeading, electionVars, nodeVars
  <1>7. ASSUME NEW d \in Daemons, ReleaseGet(d)
        PROVE  ElectionInv'
    BY <1>0, <1>7 DEF ElectionInv, TypeOK, Reliable, Expired, ReleaseGet, nodeVars, callbackVars
  <1>8. ASSUME NEW d \in Daemons, ReleaseUpdate(d)
        PROVE  ElectionInv'
    BY <1>0, <1>8 DEF ElectionInv, TypeOK, Reliable, Expired, ReleaseUpdate, WriteLease, electionVars, nodeVars, callbackVars
  <1>9. ASSUME NEW d \in Daemons, ReleaseFails(d)
        PROVE  ElectionInv'
    BY <1>0, <1>9 DEF ElectionInv, TypeOK, Reliable, Expired, ReleaseFails, nodeVars, callbackVars
  <1>10. ASSUME NEW d \in Daemons, Crash(d)
        PROVE  ElectionInv'
    BY <1>0, <1>10 DEF ElectionInv, TypeOK, Reliable, Expired, Crash, Kill
  <1>11. ASSUME NEW n \in Nodes, Reboot(n)
        PROVE  ElectionInv'
    BY <1>0, <1>11 DEF ElectionInv, TypeOK, Reliable, Expired, Reboot, Kill
  <1>12. ASSUME NEW d \in Daemons, NEW s \in Slots, CallbackStep(d, s)
        PROVE  ElectionInv'
    <2>1. /\ UNCHANGED <<lease, main, cur>>
          /\ pc[d][s] # "idle"
          /\ \A e \in Daemons, t \in Slots :
                e # d \/ t # s => /\ pc'[e][t] = pc[e][t]
                                 /\ cancelled'[e][t] = cancelled[e][t]
          /\ cancelled'[d][s] => cancelled[d][s] \/ pc'[d][s] = "idle"
      BY <1>12, CallbackFrame DEF ElectionInv
    <2>2. \A e \in Daemons :
             main'[e] \in {"renew", "release", "update"} => lease' = NodeOf[e]
      BY <2>1 DEF ElectionInv
    <2>3. s = cur[d] /\ main[d] = "renew" /\ ~cancelled[d][s]
      BY <2>1 DEF ElectionInv
    <2>4. ASSUME NEW e \in Daemons, NEW t \in Slots, pc'[e][t] # "idle"
          PROVE  t = cur'[e] /\ main'[e] = "renew" /\ ~cancelled'[e][t]
      <3>1. CASE e = d /\ t = s
        BY <2>1, <2>3, <2>4, <3>1
      <3>2. CASE e # d \/ t # s
        BY <2>1, <2>4, <3>2 DEF ElectionInv
      <3> QED
        BY <3>1, <3>2
    <2>5. ASSUME NEW e \in Daemons, main'[e] = "acquire"
          PROVE  ~cancelled'[e][cur'[e]]
      <3>1. e # d /\ cur[e] \in Slots /\ ~cancelled[e][cur[e]]
        BY <2>1, <2>3, <2>5 DEF ElectionInv, TypeOK
      <3> QED
        BY <2>1, <3>1
    <2> QED
      BY <1>0, <2>2, <2>4, <2>5 DEF ElectionInv
  <1>13. CASE UNCHANGED vars
    BY <1>0, <1>13 DEF vars, ElectionInv, TypeOK, Reliable, Expired
  <1> QED
    BY <1>1, <1>2, <1>3, <1>4, <1>5, <1>6, <1>7, <1>8, <1>9, <1>10, <1>11, <1>12, <1>13 DEF Next, RunStep

\* With reliable renewals, under crashes, failing requests and expiries, the
\* election's inductive invariant holds.
THEOREM ElectionCorrect == Reliable => (Spec => []ElectionInv)
  <1> SUFFICES ASSUME Reliable
               PROVE  Spec => []ElectionInv
    OBVIOUS
  <1>1. Init => ElectionInv
    BY DEF Init, ElectionInv, TypeOK, MainStates, CallbackStates
  <1>2. ElectionInv /\ [Next]_vars => ElectionInv'
    BY ElectionStep
  <1> QED
    BY <1>1, <1>2, PTL DEF Spec

\* A daemon touches its node only while the Lease carries its node's name.
THEOREM LeaderTheorem == Reliable => (Spec => []LeaderWhileBusy)
  <1>1. ElectionInv => LeaderWhileBusy
    BY DEF ElectionInv, LeaderWhileBusy, Busy
  <1> QED
    BY <1>1, ElectionCorrect, PTL

\* No two nodes are serviced at the same time.
THEOREM MutualExclusion == Reliable => (Spec => []OneNodeAtATime)
  <1>1. ElectionInv => OneNodeAtATime
    BY DEF ElectionInv, OneNodeAtATime, Busy
  <1> QED
    BY <1>1, ElectionCorrect, PTL

-----------------------------------------------------------------------------
(* What a nil result of Run means when renewals are reliable.               *)

\* A callback's step keeps "finished implies worked or failed" for its own
\* goroutine and forgets neither.
LEMMA CallbackOutcome ==
  ASSUME TypeOK, OutcomeInv, NEW d \in Daemons, NEW s \in Slots, CallbackStep(d, s)
  PROVE  /\ worked[d][s] => worked'[d][s]
         /\ failed[d][s] => failed'[d][s]
         /\ cancelled'[d][s] \/ pc'[d][s] \in {"getUncordon", "uncordon"}
              => worked'[d][s] \/ failed'[d][s]
  <1>1. ASSUME GetForCordon(d, s)
        PROVE  /\ worked[d][s] => worked'[d][s]
               /\ failed[d][s] => failed'[d][s]
               /\ cancelled'[d][s] \/ pc'[d][s] \in {"getUncordon", "uncordon"}
                    => worked'[d][s] \/ failed'[d][s]
    BY <1>1 DEF GetForCordon, GiveUpDrain, OutcomeInv, TypeOK
  <1>2. ASSUME Cordon(d, s)
        PROVE  /\ worked[d][s] => worked'[d][s]
               /\ failed[d][s] => failed'[d][s]
               /\ cancelled'[d][s] \/ pc'[d][s] \in {"getUncordon", "uncordon"}
                    => worked'[d][s] \/ failed'[d][s]
    BY <1>2 DEF Cordon, RetryDrain, GiveUpDrain, OutcomeInv, TypeOK
  <1>3. ASSUME Evict(d, s)
        PROVE  /\ worked[d][s] => worked'[d][s]
               /\ failed[d][s] => failed'[d][s]
               /\ cancelled'[d][s] \/ pc'[d][s] \in {"getUncordon", "uncordon"}
                    => worked'[d][s] \/ failed'[d][s]
    BY <1>3 DEF Evict, RetryDrain, GiveUpDrain, OutcomeInv, TypeOK
  <1>4. ASSUME NEW p \in BOOLEAN, Work(d, s, p)
        PROVE  /\ worked[d][s] => worked'[d][s]
               /\ failed[d][s] => failed'[d][s]
               /\ cancelled'[d][s] \/ pc'[d][s] \in {"getUncordon", "uncordon"}
                    => worked'[d][s] \/ failed'[d][s]
    BY <1>4 DEF Work, OutcomeInv, TypeOK
  <1>5. ASSUME GetForUncordon(d, s)
        PROVE  /\ worked[d][s] => worked'[d][s]
               /\ failed[d][s] => failed'[d][s]
               /\ cancelled'[d][s] \/ pc'[d][s] \in {"getUncordon", "uncordon"}
                    => worked'[d][s] \/ failed'[d][s]
    BY <1>5 DEF GetForUncordon, FreeLeadership, OutcomeInv, TypeOK
  <1>6. ASSUME Uncordon(d, s)
        PROVE  /\ worked[d][s] => worked'[d][s]
               /\ failed[d][s] => failed'[d][s]
               /\ cancelled'[d][s] \/ pc'[d][s] \in {"getUncordon", "uncordon"}
                    => worked'[d][s] \/ failed'[d][s]
    BY <1>6 DEF Uncordon, FreeLeadership, OutcomeInv, TypeOK
  <1> QED
    BY <1>1, <1>2, <1>3, <1>4, <1>5, <1>6 DEF CallbackStep

\* With reliable renewals every step keeps the invariant on what Run reports.
LEMMA OutcomeStep ==
    Reliable /\ ElectionInv /\ OutcomeInv /\ [Next]_vars => OutcomeInv'
  <1> SUFFICES ASSUME Reliable, ElectionInv, OutcomeInv, [Next]_vars
               PROVE  OutcomeInv'
    OBVIOUS
  <1>1. ASSUME NEW d \in Daemons, NEW dr \in DrainModes, Run(d, dr)
        PROVE  OutcomeInv'
    BY <1>1 DEF ElectionInv, OutcomeInv, OkMeansWorked, TypeOK, Reliable, Run, electionVars, nodeVars
  <1>2. ASSUME NEW d \in Daemons, RunRejected(d)
        PROVE  OutcomeInv'
    BY <1>2 DEF ElectionInv, OutcomeInv, OkMeansWorked, TypeOK, Reliable, RunRejected, electionVars, nodeVars, callbackVars
  <1>3. ASSUME NEW d \in Daemons, Acquire(d)
        PROVE  OutcomeInv'
    BY <1>3 DEF ElectionInv, OutcomeInv, OkMeansWorked, TypeOK, Reliable, Acquire, WriteLease, nodeVars
  <1>4. ASSUME NEW d \in Daemons, Renew(d)
        PROVE  OutcomeInv'
    BY <1>4 DEF ElectionInv, OutcomeInv, OkMeansWorked, TypeOK, Reliable, Renew, WriteLease, nodeVars, runVars, callbackVars
  <1>5. ASSUME NEW d \in Daemons, LoseLease(d)
        PROVE  OutcomeInv'
    BY <1>5 DEF ElectionInv, OutcomeInv, OkMeansWorked, TypeOK, Reliable, LoseLease, StopLeading, electionVars, nodeVars
  <1>6. ASSUME NEW d \in Daemons, Finish(d)
        PROVE  OutcomeInv'
    BY <1>6 DEF ElectionInv, OutcomeInv, OkMeansWorked, TypeOK, Reliable, Finish, StopLeading, electionVars, nodeVars
  <1>7. ASSUME NEW d \in Daemons, ReleaseGet(d)
        PROVE  OutcomeInv'
    BY <1>7 DEF ElectionInv, OutcomeInv, OkMeansWorked, TypeOK, Reliable, ReleaseGet, nodeVars, callbackVars
  <1>8. ASSUME NEW d \in Daemons, ReleaseUpdate(d)
        PROVE  OutcomeInv'
    BY <1>8 DEF ElectionInv, OutcomeInv, OkMeansWorked, TypeOK, Reliable, ReleaseUpdate, WriteLease, electionVars, nodeVars, callbackVars
  <1>9. ASSUME NEW d \in Daemons, ReleaseFails(d)
        PROVE  OutcomeInv'
    BY <1>9 DEF ElectionInv, OutcomeInv, OkMeansWorked, TypeOK, Reliable, ReleaseFails, nodeVars, callbackVars
  <1>10. ASSUME NEW d \in Daemons, Crash(d)
        PROVE  OutcomeInv'
    BY <1>10 DEF ElectionInv, OutcomeInv, OkMeansWorked, TypeOK, Reliable, Crash, Kill
  <1>11. ASSUME NEW n \in Nodes, Reboot(n)
        PROVE  OutcomeInv'
    BY <1>11 DEF ElectionInv, OutcomeInv, OkMeansWorked, TypeOK, Reliable, Reboot, Kill
  <1>12. ASSUME NEW d \in Daemons, NEW s \in Slots, CallbackStep(d, s)
        PROVE  OutcomeInv'
    <2>1. /\ UNCHANGED <<cur, ret>>
          /\ \A e \in Daemons, t \in Slots :
                e # d \/ t # s => /\ pc'[e][t] = pc[e][t]
                                 /\ failed'[e][t] = failed[e][t]
                                 /\ worked'[e][t] = worked[e][t]
                                 /\ cancelled'[e][t] = cancelled[e][t]
      BY <1>12, CallbackFrame DEF ElectionInv
    <2>2. /\ worked[d][s] => worked'[d][s]
          /\ cancelled'[d][s] \/ pc'[d][s] \in {"getUncordon", "uncordon"}
               => worked'[d][s] \/ failed'[d][s]
      BY <1>12, CallbackOutcome DEF ElectionInv
    <2>3. ASSUME NEW e \in Daemons, NEW t \in Slots,
                 cancelled'[e][t] \/ pc'[e][t] \in {"getUncordon", "uncordon"}
          PROVE  worked'[e][t] \/ failed'[e][t]
      <3>1. CASE e = d /\ t = s
        BY <2>2, <2>3, <3>1
      <3>2. CASE e # d \/ t # s
        BY <2>1, <2>3, <3>2 DEF OutcomeInv
      <3> QED
        BY <3>1, <3>2
    <2>4. ASSUME NEW e \in Daemons, ret'[e] = "ok"
          PROVE  worked'[e][cur'[e]]
      <3>1. cur[e] \in Slots /\ worked[e][cur[e]]
        BY <2>1, <2>4 DEF ElectionInv, TypeOK, OutcomeInv, OkMeansWorked
      <3> QED
        BY <2>1, <2>2, <3>1
    <2> QED
      BY <2>3, <2>4 DEF OutcomeInv, OkMeansWorked
  <1>13. CASE UNCHANGED vars
    BY <1>13 DEF vars, ElectionInv, OutcomeInv, OkMeansWorked, TypeOK, Reliable
  <1> QED
    BY <1>1, <1>2, <1>3, <1>4, <1>5, <1>6, <1>7, <1>8, <1>9, <1>10, <1>11, <1>12, <1>13 DEF Next, RunStep

\* With reliable renewals Run returns nil only after the worker function has
\* returned.
THEOREM OkMeansWorkedTheorem == Reliable => (Spec => []OkMeansWorked)
  <1> SUFFICES ASSUME Reliable
               PROVE  Spec => []OkMeansWorked
    OBVIOUS
  <1>1. Init => OutcomeInv
    BY DEF Init, OutcomeInv, OkMeansWorked
  <1>2. ElectionInv /\ OutcomeInv /\ [Next]_vars => OutcomeInv'
    BY OutcomeStep
  <1>3. OutcomeInv => OkMeansWorked
    BY DEF OutcomeInv
  <1>4. Spec => []ElectionInv
    BY ElectionCorrect
  <1> QED
    BY <1>1, <1>2, <1>3, <1>4, PTL DEF Spec

-----------------------------------------------------------------------------
(* Run implements the abstract mutual exclusion.                            *)

Waiting == {d \in Daemons : main[d] = "acquire"}
Inside == {d \in Daemons : Busy(d)}

\* A step that changes neither who waits nor who is busy stutters.
LEMMA MutexStutter ==
  ASSUME \A d \in Daemons : main'[d] = "acquire" <=> main[d] = "acquire",
         UNCHANGED pc
  PROVE  Waiting' = Waiting /\ Inside' = Inside
  BY DEF Waiting, Inside, Busy

\* Killing one daemon makes it stop waiting, leave, or changes nothing.
LEMMA MutexKill ==
  ASSUME ElectionInv, NEW D \in SUBSET Daemons, Kill(D),
         \A d, e \in D : d = e
  PROVE  \/ Waiting' = Waiting /\ Inside' = Inside
         \/ \E d \in Daemons : \/ /\ d \in Inside
                                /\ Inside' = Inside \ {d}
                                /\ Waiting' = Waiting
                             \/ /\ d \in Waiting
                                /\ Waiting' = Waiting \ {d}
                                /\ Inside' = Inside
  <1>1. Waiting' = Waiting \ D
    BY DEF Kill, Waiting
  <1>2. Inside' = Inside \ D
    BY DEF Kill, Inside, Busy
  <1>3. CASE D = {}
    BY <1>1, <1>2, <1>3
  <1>4. ASSUME NEW d \in D
        PROVE  D = {d} /\ ~(d \in Waiting /\ d \in Inside)
    BY <1>4 DEF ElectionInv, Waiting, Inside, Busy
  <1> QED
    BY <1>1, <1>2, <1>3, <1>4

\* Every step of Run is a step of the abstract specification or a stutter.
LEMMA MutexStep ==
    Reliable /\ ElectionInv /\ ElectionInv' /\ [Next]_vars
        => [Mutex!MutexNext]_(Mutex!mutexVars)
  <1> SUFFICES ASSUME Reliable, ElectionInv, ElectionInv', [Next]_vars
               PROVE  \/ Waiting' = Waiting /\ Inside' = Inside
                      \/ \E d \in Daemons :
                            \/ /\ d \notin Waiting
                               /\ Waiting' = Waiting \cup {d}
                               /\ Inside' = Inside
                            \/ /\ d \in Waiting
                               /\ Inside = {}
                               /\ Waiting' = Waiting \ {d}
                               /\ Inside' = {d}
                            \/ /\ d \in Inside
                               /\ Inside' = Inside \ {d}
                               /\ Waiting' = Waiting
                            \/ /\ d \in Waiting
                               /\ Waiting' = Waiting \ {d}
                               /\ Inside' = Inside
    BY DEF Mutex!MutexNext, Mutex!mutexVars, Mutex!Request, Mutex!Enter, Mutex!Leave,
           Mutex!GiveUp, Waiting, Inside
  <1>1. ASSUME NEW d \in Daemons, NEW dr \in DrainModes, Run(d, dr)
        PROVE  d \notin Waiting /\ Waiting' = Waiting \cup {d} /\ Inside' = Inside
    BY <1>1 DEF Run, Waiting, Inside, Busy, ElectionInv, TypeOK
  <1>2. ASSUME NEW d \in Daemons, Acquire(d)
        PROVE  /\ d \in Waiting /\ Inside = {}
               /\ Waiting' = Waiting \ {d} /\ Inside' = {d}
    <2>1. d \in Waiting /\ Waiting' = Waiting \ {d}
      BY <1>2 DEF Acquire, Waiting, ElectionInv, TypeOK
    <2>2. ASSUME NEW e \in Daemons, Busy(e)
          PROVE  FALSE
      <3>1. main[e] = "renew" /\ lease = NodeOf[e]
        BY <2>2 DEF Busy, ElectionInv
      <3>2. e # d
        BY <1>2, <3>1 DEF Acquire
      <3>3. ~Expired(lease)
        BY <3>1 DEF Expired, Reliable
      <3> QED
        BY <1>2, <3>1, <3>2, <3>3 DEF Acquire, Reliable
    <2>3. Busy(d)'
      BY <1>2 DEF Acquire, Busy, ElectionInv, TypeOK
    <2>4. ASSUME NEW e \in Daemons, e # d
          PROVE  ~Busy(e)'
      BY <1>2, <2>2, <2>4 DEF Acquire, Busy, ElectionInv, TypeOK
    <2> QED
      BY <2>1, <2>2, <2>3, <2>4 DEF Inside
  <1>3. ASSUME NEW d \in Daemons,
               \/ RunRejected(d) \/ Renew(d) \/ LoseLease(d) \/ Finish(d)
               \/ ReleaseGet(d) \/ ReleaseUpdate(d) \/ ReleaseFails(d)
        PROVE  Waiting' = Waiting /\ Inside' = Inside
    <2>1. UNCHANGED pc
      BY <1>3 DEF RunRejected, Renew, LoseLease, Finish, StopLeading, ReleaseGet,
                  ReleaseUpdate, ReleaseFails, callbackVars
    <2>2. \A e \in Daemons : main'[e] = "acquire" <=> main[e] = "acquire"
      BY <1>3 DEF RunRejected, Renew, LoseLease, Finish, StopLeading, ReleaseGet,
                  ReleaseUpdate, ReleaseFails, runVars, ElectionInv, TypeOK
    <2> QED
      BY <2>1, <2>2, MutexStutter
  <1>4. ASSUME NEW d \in Daemons, Crash(d)
        PROVE  \/ Waiting' = Waiting /\ Inside' = Inside
               \/ \E e \in Daemons : \/ /\ e \in Inside
                                      /\ Inside' = Inside \ {e}
                                      /\ Waiting' = Waiting
                                   \/ /\ e \in Waiting
                                      /\ Waiting' = Waiting \ {e}
                                      /\ Inside' = Inside
    <2>1. Kill({d}) /\ {d} \in SUBSET Daemons
      BY <1>4 DEF Crash
    <2> QED
      BY <2>1, MutexKill
  <1>5. ASSUME NEW n \in Nodes, Reboot(n)
        PROVE  \/ Waiting' = Waiting /\ Inside' = Inside
               \/ \E e \in Daemons : \/ /\ e \in Inside
                                      /\ Inside' = Inside \ {e}
                                      /\ Waiting' = Waiting
                                   \/ /\ e \in Waiting
                                      /\ Waiting' = Waiting \ {e}
                                      /\ Inside' = Inside
    <2> DEFINE D == {d \in Daemons : NodeOf[d] = n}
    <2>1. Kill(D) /\ D \in SUBSET Daemons
      BY <1>5 DEF Reboot
    <2>2. \A d, e \in D : d = e
      BY DEF Reliable
    <2> HIDE DEF D
    <2> QED
      BY <2>1, <2>2, MutexKill
  <1>6. ASSUME NEW d \in Daemons, NEW s \in Slots, CallbackStep(d, s)
        PROVE  \/ Waiting' = Waiting /\ Inside' = Inside
               \/ /\ d \in Inside
                  /\ Inside' = Inside \ {d}
                  /\ Waiting' = Waiting
    <2>1. /\ UNCHANGED <<main, cur>>
          /\ pc[d][s] # "idle"
          /\ \A e \in Daemons, t \in Slots :
                e # d \/ t # s => pc'[e][t] = pc[e][t]
      BY <1>6, CallbackFrame DEF ElectionInv
    <2>2. Waiting' = Waiting /\ d \in Inside
      BY <2>1 DEF Waiting, Inside, Busy
    <2>3. \A e \in Daemons : e # d => (Busy(e)' <=> Busy(e))
      BY <2>1 DEF Busy
    <2>4. CASE Busy(d)'
      BY <2>2, <2>3, <2>4 DEF Inside
    <2>5. CASE ~Busy(d)'
      BY <2>2, <2>3, <2>5 DEF Inside
    <2> QED
      BY <2>2, <2>4, <2>5
  <1>7. CASE UNCHANGED vars
    BY <1>7, MutexStutter DEF vars
  <1> QED
    BY <1>1, <1>2, <1>3, <1>4, <1>5, <1>6, <1>7 DEF Next, RunStep

\* With reliable renewals, Run implements the mutual exclusion service.
THEOREM Refinement == Reliable => (Spec => ImplementsMutex)
  <1> SUFFICES ASSUME Reliable
               PROVE  Spec => ImplementsMutex
    OBVIOUS
  <1>1. Init => Mutex!MutexInit
    BY DEF Init, Mutex!MutexInit, Busy
  <1>2. ElectionInv /\ ElectionInv' /\ [Next]_vars => [Mutex!MutexNext]_(Mutex!mutexVars)
    BY MutexStep
  <1>3. Spec => []ElectionInv
    BY ElectionCorrect
  <1> QED
    BY <1>1, <1>2, <1>3, PTL DEF Spec, ImplementsMutex, Mutex!MutexSpec

-----------------------------------------------------------------------------
(* The Lease is kept until a requested reboot has happened.                 *)

\* While a reboot of a node is due, the daemon that asked for it has left its
\* context uncancelled: its Run renews the Lease and will not end.
RebootInv ==
    \A n \in Nodes : rebootDue[n] =>
        \E d \in Daemons : /\ NodeOf[d] = n
                           /\ main[d] = "renew"
                           /\ pc[d][cur[d]] = "idle"
                           /\ ~cancelled[d][cur[d]]

\* The only step that makes a reboot due is the worker function's return; no
\* other one disturbs the Run that keeps the Lease for it.
LEMMA RebootStep ==
    Reliable /\ "crash" \notin Faults /\ ElectionInv /\ RebootInv /\ [Next]_vars
        => RebootInv'
  <1> SUFFICES ASSUME Reliable, "crash" \notin Faults, ElectionInv, RebootInv, [Next]_vars
               PROVE  RebootInv'
    OBVIOUS
  <1>0. TypeOK
    BY DEF ElectionInv
  <1>1. ASSUME NEW d \in Daemons, NEW dr \in DrainModes, Run(d, dr)
        PROVE  RebootInv'
    <2>1. \A n \in Nodes : rebootDue'[n] => rebootDue[n]
      BY <1>1 DEF Run, nodeVars
    <2>2. \A e \in Daemons :
            rebootDue'[NodeOf[e]] /\ main[e] = "renew" /\ ~cancelled[e][cur[e]]
               /\ pc[e][cur[e]] = "idle"
            => /\ main'[e] = "renew"
               /\ cur'[e] = cur[e]
               /\ pc'[e][cur[e]] = "idle"
               /\ ~cancelled'[e][cur[e]]
      BY <1>0, <1>1 DEF Run, TypeOK
    <2> QED
      BY <2>1, <2>2 DEF RebootInv
  <1>2. ASSUME NEW d \in Daemons,
               \/ RunRejected(d) \/ Acquire(d) \/ Renew(d) \/ LoseLease(d) \/ Finish(d)
               \/ ReleaseGet(d) \/ ReleaseUpdate(d) \/ ReleaseFails(d)
        PROVE  RebootInv'
    <2>1. \A n \in Nodes : rebootDue'[n] => rebootDue[n]
      BY <1>2 DEF RunRejected, Acquire, Renew, LoseLease, Finish, StopLeading, ReleaseGet,
                  ReleaseUpdate, ReleaseFails, nodeVars
    <2>2. ~(LoseLease(d) /\ main[d] = "renew")
      BY DEF LoseLease, Reliable, ElectionInv
    <2>3. ASSUME NEW e \in Daemons, main[e] = "renew", ~cancelled[e][cur[e]],
                 pc[e][cur[e]] = "idle"
          PROVE  /\ main'[e] = "renew"
                 /\ cur'[e] = cur[e]
                 /\ pc'[e][cur[e]] = "idle"
                 /\ ~cancelled'[e][cur[e]]
      <3>1. CASE RunRejected(d)
        BY <1>0, <2>3, <3>1 DEF RunRejected, callbackVars, TypeOK
      <3>2. CASE Acquire(d)
        BY <1>0, <2>3, <3>2 DEF Acquire, TypeOK
      <3>3. CASE Renew(d)
        BY <1>0, <2>3, <3>3 DEF Renew, runVars, callbackVars
      <3>4. CASE LoseLease(d)
        BY <2>2, <3>4 DEF LoseLease
      <3>5. CASE Finish(d)
        BY <1>0, <2>3, <3>5 DEF Finish, StopLeading, TypeOK
      <3>6. CASE ReleaseGet(d) \/ ReleaseUpdate(d) \/ ReleaseFails(d)
        BY <1>0, <2>3, <3>6 DEF ReleaseGet, ReleaseUpdate, ReleaseFails, callbackVars, TypeOK
      <3> QED
        BY <1>2, <3>1, <3>2, <3>3, <3>4, <3>5, <3>6
    <2> QED
      BY <2>1, <2>3 DEF RebootInv
  <1>3. ASSUME NEW d \in Daemons, Crash(d)
        PROVE  RebootInv'
    BY <1>3 DEF Crash
  <1>4. ASSUME NEW n \in Nodes, Reboot(n)
        PROVE  RebootInv'
    <2>1. \A m \in Nodes : rebootDue'[m] => rebootDue[m] /\ m # n
      BY <1>0, <1>4 DEF Reboot, TypeOK
    <2>2. \A e \in Daemons :
            rebootDue'[NodeOf[e]] /\ main[e] = "renew" /\ ~cancelled[e][cur[e]]
               /\ pc[e][cur[e]] = "idle"
            => /\ main'[e] = "renew"
               /\ cur'[e] = cur[e]
               /\ pc'[e][cur[e]] = "idle"
               /\ ~cancelled'[e][cur[e]]
      BY <2>1, <1>4 DEF Reboot, Kill
    <2> QED
      BY <2>1, <2>2 DEF RebootInv
  <1>5. ASSUME NEW d \in Daemons, NEW s \in Slots, CallbackStep(d, s)
        PROVE  RebootInv'
    <2>1. /\ UNCHANGED <<main, cur>>
          /\ pc[d][s] # "idle"
          /\ \A e \in Daemons, t \in Slots :
                e # d \/ t # s => /\ pc'[e][t] = pc[e][t]
                                 /\ cancelled'[e][t] = cancelled[e][t]
          /\ cancelled'[d][s] => cancelled[d][s] \/ pc'[d][s] = "idle"
      BY <1>0, <1>5, CallbackFrame
    <2>2. s = cur[d] /\ main[d] = "renew" /\ ~cancelled[d][s]
      BY <2>1 DEF ElectionInv
    <2>3. \A e \in Daemons :
             pc[e][cur[e]] = "idle" => /\ pc'[e][cur[e]] = "idle"
                                       /\ cancelled'[e][cur[e]] = cancelled[e][cur[e]]
      BY <1>0, <2>1, <2>2 DEF TypeOK
    <2>4. CASE rebootDue' = rebootDue
      <3>1. \A n \in Nodes : rebootDue'[n] => rebootDue[n]
        BY <2>4
      <3> QED
        BY <2>1, <2>3, <3>1 DEF RebootInv
    <2>5. CASE rebootDue' # rebootDue
      <3>1. PICK p \in BOOLEAN : Work(d, s, p)
        BY <1>5, <2>5 DEF CallbackStep, GetForCordon, Cordon, Evict, GetForUncordon, Uncordon,
                          nodeVars
      <3>2. ~p
        BY <1>0, <2>5, <3>1 DEF Work, TypeOK
      <3>3. /\ pc'[d][s] = "idle"
            /\ ~cancelled'[d][s]
            /\ \A n \in Nodes : n # NodeOf[d] => rebootDue'[n] = rebootDue[n]
        BY <1>0, <2>2, <3>1, <3>2 DEF Work, TypeOK
      <3>4. ASSUME NEW n \in Nodes, rebootDue'[n]
            PROVE  \E e \in Daemons : /\ NodeOf[e] = n
                                      /\ main'[e] = "renew"
                                      /\ pc'[e][cur'[e]] = "idle"
                                      /\ ~cancelled'[e][cur'[e]]
        <4>1. CASE n = NodeOf[d]
          BY <2>1, <2>2, <3>3, <4>1
        <4>2. CASE n # NodeOf[d]
          BY <2>1, <2>3, <3>3, <3>4, <4>2 DEF RebootInv
        <4> QED
          BY <4>1, <4>2
      <3> QED
        BY <3>4 DEF RebootInv
    <2> QED
      BY <2>4, <2>5
  <1>6. CASE UNCHANGED vars
    BY <1>6 DEF vars, RebootInv
  <1> QED
    BY <1>1, <1>2, <1>3, <1>4, <1>5, <1>6 DEF Next, RunStep

\* With reliable renewals and no crash, from the worker function's request of
\* a reboot to the reboot itself the Lease stays with the node.
THEOREM RebootKeepsLeaseTheorem ==
    Reliable /\ "crash" \notin Faults => (Spec => []RebootKeepsLease)
  <1> SUFFICES ASSUME Reliable, "crash" \notin Faults
               PROVE  Spec => []RebootKeepsLease
    OBVIOUS
  <1>1. Init => RebootInv
    BY DEF Init, RebootInv
  <1>2. ElectionInv /\ RebootInv /\ [Next]_vars => RebootInv'
    BY RebootStep
  <1>3. ElectionInv /\ RebootInv => RebootKeepsLease
    BY DEF ElectionInv, RebootInv, RebootKeepsLease
  <1>4. Spec => []ElectionInv
    BY ElectionCorrect
  <1> QED
    BY <1>1, <1>2, <1>3, <1>4, PTL DEF Spec

-----------------------------------------------------------------------------
(* The node's spec.unschedulable, when the patches that set it succeed.     *)

\* Past the cordon the node is cordoned, and the local object the attempts
\* share says no less than the API server's.
WhileCordoned(d, s) ==
    /\ pc[d][s] = "cordon" /\ copy[d][s] => cordoned[NodeOf[d]]
    /\ pc[d][s] = "evict" => cordoned[NodeOf[d]]
    /\ pc[d][s] = "work" /\ drain[d][s] => cordoned[NodeOf[d]]
    /\ pc[d][s] = "uncordon" /\ cordoned[NodeOf[d]] => copy[d][s]

\* A callback that has cancelled its context without an error has uncordoned
\* its node, and that is what a nil result of Run stands for.
AfterUncordon(d) ==
    /\ cancelled[d][cur[d]] /\ ~failed[d][cur[d]] => ~cordoned[NodeOf[d]]
    /\ ret[d] = "ok" => cancelled[d][cur[d]] /\ ~failed[d][cur[d]]

CordonInv ==
    /\ \A d \in Daemons, s \in Slots : WhileCordoned(d, s)
    /\ \A d \in Daemons : AfterUncordon(d)

\* A callback's step keeps both facts for its own goroutine, changes the
\* cordon of no other node, and writes nothing of the others.
LEMMA CallbackCordon ==
  ASSUME TypeOK, "patch" \notin Faults, NEW d \in Daemons, NEW s \in Slots,
         CallbackStep(d, s), WhileCordoned(d, s)
  PROVE  /\ WhileCordoned(d, s)'
         /\ cancelled'[d][s] /\ ~failed'[d][s] /\ ~cancelled[d][s]
               => ~cordoned'[NodeOf[d]]
         /\ \A n \in Nodes : n # NodeOf[d] => cordoned'[n] = cordoned[n]
         /\ \A e \in Daemons, t \in Slots : e # d \/ t # s => copy'[e][t] = copy[e][t]
  <1> DEFINE Goal == /\ WhileCordoned(d, s)'
                     /\ cancelled'[d][s] /\ ~failed'[d][s] /\ ~cancelled[d][s]
                           => ~cordoned'[NodeOf[d]]
                     /\ \A n \in Nodes : n # NodeOf[d] => cordoned'[n] = cordoned[n]
  <1>1. ASSUME GetForCordon(d, s)
        PROVE  Goal
    BY <1>1 DEF WhileCordoned, GetForCordon, GiveUpDrain, TypeOK, nodeVars
  <1>2. ASSUME Cordon(d, s)
        PROVE  Goal
    BY <1>2 DEF WhileCordoned, Cordon, TypeOK
  <1>3. ASSUME Evict(d, s)
        PROVE  Goal
    <2>1. /\ pc[d][s] = "evict"
          /\ pc' = [pc EXCEPT ![d][s] = pc'[d][s]]
          /\ pc'[d][s] \in {"work", "cordon", "getUncordon"}
      BY <1>3 DEF Evict, RetryDrain, GiveUpDrain, TypeOK
    <2>2. UNCHANGED <<cordoned, copy, drain, cancelled>>
      BY <1>3 DEF Evict, nodeVars
    <2>3. WhileCordoned(d, s)'
      <3>1. cordoned[NodeOf[d]]
        BY <2>1 DEF WhileCordoned
      <3>2. pc'[d][s] # "uncordon"
        BY <2>1
      <3> QED
        BY <2>2, <3>1, <3>2 DEF WhileCordoned
    <2> QED
      BY <2>2, <2>3
  <1>4. ASSUME NEW p \in BOOLEAN, Work(d, s, p)
        PROVE  Goal
    BY <1>4 DEF WhileCordoned, Work, TypeOK
  <1>5. ASSUME GetForUncordon(d, s)
        PROVE  Goal
    BY <1>5 DEF WhileCordoned, GetForUncordon, FreeLeadership, TypeOK, nodeVars
  <1>6. ASSUME Uncordon(d, s)
        PROVE  Goal
    BY <1>6 DEF WhileCordoned, Uncordon, FreeLeadership, TypeOK
  <1>7. Goal
    BY <1>1, <1>2, <1>3, <1>4, <1>5, <1>6 DEF CallbackStep
  <1>8. ASSUME NEW e \in Daemons, NEW t \in Slots, e # d \/ t # s
        PROVE  copy'[e][t] = copy[e][t]
    <2>1. ChangesAt(d, s, BOOLEAN, copy, copy')
      BY CallbackStepShape DEF CallbackShape
    <2>2. copy \in [Daemons -> [Slots -> BOOLEAN]]
      BY DEF TypeOK
    <2> QED
      BY <1>8, <2>1, <2>2 DEF ChangesAt
  <1> QED
    BY <1>7, <1>8

\* With reliable renewals nobody else writes the cordon of a node whose
\* callback is running, so every step keeps the invariant.
LEMMA CordonStep ==
    Reliable /\ "patch" \notin Faults /\ ElectionInv /\ CordonInv /\ [Next]_vars
        => CordonInv'
  <1> SUFFICES ASSUME Reliable, "patch" \notin Faults, ElectionInv, CordonInv, [Next]_vars
               PROVE  CordonInv'
    OBVIOUS
  <1>0. TypeOK
    BY DEF ElectionInv
  <1>1. ASSUME NEW d \in Daemons, NEW dr \in DrainModes, Run(d, dr)
        PROVE  CordonInv'
    <2>1. PICK r \in Slots :
             /\ pc[d][r] = "idle"
             /\ cur' = [cur EXCEPT ![d] = r]
             /\ drain' = [drain EXCEPT ![d][r] = dr]
             /\ cancelled' = [cancelled EXCEPT ![d][r] = FALSE]
             /\ failed' = [failed EXCEPT ![d][r] = FALSE]
             /\ copy' = [copy EXCEPT ![d][r] = FALSE]
      BY <1>1 DEF Run
    <2>2. ret' = [ret EXCEPT ![d] = "none"] /\ UNCHANGED <<cordoned, pc>>
      BY <1>1 DEF Run, nodeVars
    <2>3. \A e \in Daemons, s \in Slots : WhileCordoned(e, s)'
      BY <1>0, <2>1, <2>2 DEF CordonInv, WhileCordoned, TypeOK
    <2>4. \A e \in Daemons : AfterUncordon(e)'
      BY <1>0, <2>1, <2>2 DEF CordonInv, AfterUncordon, TypeOK
    <2> QED
      BY <2>3, <2>4 DEF CordonInv
  <1>2. ASSUME NEW d \in Daemons, RunRejected(d)
        PROVE  CordonInv'
    BY <1>2 DEF RunRejected, Reliable
  <1>3. ASSUME NEW d \in Daemons, Acquire(d)
        PROVE  CordonInv'
    <2>1. \A e \in Daemons, s \in Slots : WhileCordoned(e, s)'
      BY <1>0, <1>3 DEF Acquire, CordonInv, WhileCordoned, nodeVars, TypeOK
    <2>2. \A e \in Daemons : AfterUncordon(e)'
      BY <1>0, <1>3 DEF Acquire, CordonInv, AfterUncordon, nodeVars, TypeOK
    <2> QED
      BY <2>1, <2>2 DEF CordonInv
  <1>4. ASSUME NEW d \in Daemons,
               Renew(d) \/ ReleaseGet(d) \/ ReleaseUpdate(d) \/ ReleaseFails(d)
        PROVE  CordonInv'
    <2>1. UNCHANGED <<cordoned, cur, ret, pc, drain, cancelled, failed, copy>>
      BY <1>4 DEF Renew, ReleaseGet, ReleaseUpdate, ReleaseFails, nodeVars, runVars, callbackVars
    <2> QED
      BY <2>1 DEF CordonInv, WhileCordoned, AfterUncordon
  <1>5. ASSUME NEW d \in Daemons, LoseLease(d)
        PROVE  CordonInv'
    BY <1>5 DEF LoseLease, Reliable, ElectionInv
  <1>6. ASSUME NEW d \in Daemons, Finish(d)
        PROVE  CordonInv'
    <2>1. \A e \in Daemons, s \in Slots : WhileCordoned(e, s)'
      BY <1>0, <1>6 DEF Finish, StopLeading, CordonInv, WhileCordoned, nodeVars, TypeOK
    <2>2. \A e \in Daemons : AfterUncordon(e)'
      BY <1>0, <1>6 DEF Finish, StopLeading, CordonInv, AfterUncordon, nodeVars, TypeOK
    <2> QED
      BY <2>1, <2>2 DEF CordonInv
  <1>7. ASSUME NEW D \in SUBSET Daemons, Kill(D)
        PROVE  CordonInv'
    <2>1. \A e \in Daemons, s \in Slots : WhileCordoned(e, s)'
      BY <1>0, <1>7 DEF Kill, CordonInv, WhileCordoned
    <2>2. \A e \in Daemons : AfterUncordon(e)'
      BY <1>0, <1>7 DEF Kill, CordonInv, AfterUncordon
    <2> QED
      BY <2>1, <2>2 DEF CordonInv
  <1>8. ASSUME NEW d \in Daemons, NEW s \in Slots, CallbackStep(d, s)
        PROVE  CordonInv'
    <2>1. /\ UNCHANGED <<cur, ret, drain>>
          /\ pc[d][s] # "idle"
          /\ \A e \in Daemons, t \in Slots :
                e # d \/ t # s => /\ pc'[e][t] = pc[e][t]
                                 /\ failed'[e][t] = failed[e][t]
                                 /\ cancelled'[e][t] = cancelled[e][t]
      BY <1>0, <1>8, CallbackFrame
    <2>2. s = cur[d] /\ ~cancelled[d][s]
      BY <2>1 DEF ElectionInv
    <2>3. /\ WhileCordoned(d, s)'
          /\ cancelled'[d][s] /\ ~failed'[d][s] => ~cordoned'[NodeOf[d]]
          /\ \A n \in Nodes : n # NodeOf[d] => cordoned'[n] = cordoned[n]
          /\ \A e \in Daemons, t \in Slots : e # d \/ t # s => copy'[e][t] = copy[e][t]
      BY <1>0, <1>8, <2>2, CallbackCordon DEF CordonInv
    <2>4. \A e \in Daemons : e # d => cordoned'[NodeOf[e]] = cordoned[NodeOf[e]]
      BY <2>3 DEF Reliable
    <2>5. ASSUME NEW e \in Daemons, NEW t \in Slots
          PROVE  WhileCordoned(e, t)'
      <3>1. CASE e = d /\ t = s
        BY <2>3, <3>1
      <3>2. CASE e = d /\ t # s
        <4>1. pc'[e][t] = "idle"
          BY <2>1, <2>2, <3>2 DEF ElectionInv
        <4> QED
          BY <4>1 DEF WhileCordoned
      <3>3. CASE e # d
        BY <2>1, <2>3, <2>4, <3>3 DEF CordonInv, WhileCordoned
      <3> QED
        BY <3>1, <3>2, <3>3
    <2>6. ASSUME NEW e \in Daemons
          PROVE  AfterUncordon(e)'
      <3>1. CASE e = d
        BY <2>1, <2>2, <2>3, <3>1 DEF CordonInv, AfterUncordon
      <3>2. CASE e # d
        BY <1>0, <2>1, <2>4, <3>2 DEF CordonInv, AfterUncordon, TypeOK
      <3> QED
        BY <3>1, <3>2
    <2> QED
      BY <2>5, <2>6 DEF CordonInv
  <1>9. CASE UNCHANGED vars
    BY <1>9 DEF vars, CordonInv, WhileCordoned, AfterUncordon
  <1>10. ASSUME NEW d \in Daemons, Crash(d)
         PROVE  CordonInv'
    BY <1>7, <1>10 DEF Crash
  <1>11. ASSUME NEW n \in Nodes, Reboot(n)
         PROVE  CordonInv'
    BY <1>7, <1>11 DEF Reboot
  <1> QED
    BY <1>1, <1>2, <1>3, <1>4, <1>5, <1>6, <1>8, <1>9, <1>10, <1>11 DEF Next, RunStep

\* With reliable renewals and patches, crashes and failing requests included,
\* the invariant on the cordon holds.
THEOREM CordonCorrect ==
    Reliable /\ "patch" \notin Faults => (Spec => []CordonInv)
  <1> SUFFICES ASSUME Reliable, "patch" \notin Faults
               PROVE  Spec => []CordonInv
    OBVIOUS
  <1>1. Init => CordonInv
    BY DEF Init, CordonInv, WhileCordoned, AfterUncordon
  <1>2. ElectionInv /\ CordonInv /\ [Next]_vars => CordonInv'
    BY CordonStep
  <1>3. Spec => []ElectionInv
    BY ElectionCorrect
  <1> QED
    BY <1>1, <1>2, <1>3, PTL DEF Spec

\* The worker function of a Run with drain runs on a cordoned node.
THEOREM WorkOnCordonedNodeTheorem ==
    Reliable /\ "patch" \notin Faults => (Spec => []WorkOnCordonedNode)
  <1>1. CordonInv => WorkOnCordonedNode
    BY DEF CordonInv, WhileCordoned, WorkOnCordonedNode
  <1> QED
    BY <1>1, CordonCorrect, PTL

\* When Run has returned nil its node takes pods again, whatever crashed and
\* was taken over before.
THEOREM OkMeansSchedulableTheorem ==
    Reliable /\ "patch" \notin Faults => (Spec => []OkMeansSchedulable)
  <1>1. CordonInv => OkMeansSchedulable
    BY DEF CordonInv, AfterUncordon, OkMeansSchedulable
  <1> QED
    BY <1>1, CordonCorrect, PTL

=============================================================================
