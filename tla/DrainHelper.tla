----------------------------- MODULE DrainHelper -----------------------------
(***************************************************************************)
(* common/pkg/drainhelper/drainhelper.go: the procedure every daemon goes  *)
(* through before it touches its node's accelerator.                       *)
(*                                                                         *)
(* A daemon calls Run(f, drain).  Run joins a leader election on one Lease *)
(* shared by all daemons.  When it wins, client-go starts the callback     *)
(* OnStartedLeading in a goroutine of its own: cordon and drain the node,  *)
(* call the worker function f, uncordon, cancel the context.  Meanwhile    *)
(* Run's own goroutine renews the Lease until the context is cancelled or  *)
(* a renewal deadline passes; it does NOT wait for the callback.  Whatever *)
(* the reason it stops, a deferred function then reads the Lease and       *)
(* writes it back with an empty holder.                                    *)
(*                                                                         *)
(* main[d] is the control state of Run in daemon d, pc[d][s] the control   *)
(* state of the callback goroutine in slot s of daemon d.  A Run takes a   *)
(* free slot; the goroutine of an earlier Run may still occupy another.    *)
(***************************************************************************)
EXTENDS Naturals, FiniteSets

CONSTANTS
    Daemons,      \* the daemon processes: every pod of either operator
    Nodes,        \* the nodes; a node's name is the identity in the election
    NodeOf,       \* the node each daemon runs on (dh.nodeName)
    None,         \* the empty HolderIdentity
    Slots,        \* bound: goroutines of one daemon alive at the same time
    MaxAttempts,  \* Steps of both wait.Backoff (5 in the code)
    DrainModes,   \* values of Run's parameter drain the callers use
    ShortLease,   \* daemons whose LEASE_DURATION_SECONDS is not above RenewDeadline
    Faults        \* faults of the environment, see FaultKinds

\* "renew": the Lease cannot be renewed for RenewDeadline (15 s);
\* "stall": a process stands still for longer than the lease duration;
\* "crash": a daemon's process dies and is started again;
\* "api":   a request for a Node or for the Lease, or an eviction, fails;
\* "patch": the patch that sets or clears spec.unschedulable fails.
FaultKinds == {"renew", "stall", "crash", "api", "patch"}

ASSUME DrainHelperAssumption ==
    /\ NodeOf \in [Daemons -> Nodes]
    /\ None \notin Nodes
    /\ MaxAttempts \in Nat \ {0}
    /\ DrainModes \subseteq BOOLEAN
    /\ ShortLease \subseteq Daemons
    /\ Faults \subseteq FaultKinds

VARIABLES
    lease,      \* HolderIdentity of the Lease object
    leaseRead,  \* daemons whose copy of the Lease, read in the deferred function, is current
    cordoned,   \* spec.unschedulable of each Node object
    rebootDue,  \* nodes whose reboot the worker function has requested
    main,       \* control state of Run
    cur,        \* slot of the latest Run's callback
    ret,        \* what the latest Run returns
    pc,         \* control state of the callback
    drain,      \* Run's parameter, captured by the callback
    cancelled,  \* the callback's context is cancelled
    failed,     \* innerErr # nil
    tries,      \* attempts made by the current backoff loop
    copy,       \* spec.unschedulable of the *local* Node object the attempts share
    worked      \* history: f has returned

electionVars == <<lease, leaseRead>>
nodeVars == <<cordoned, rebootDue>>
runVars == <<main, cur, ret>>
callbackVars == <<pc, drain, cancelled, failed, tries, copy, worked>>
vars == <<lease, leaseRead, cordoned, rebootDue, main, cur, ret,
          pc, drain, cancelled, failed, tries, copy, worked>>

MainStates == {"idle", "acquire", "renew", "release", "update"}
CallbackStates == {"idle", "getCordon", "cordon", "evict", "work", "getUncordon", "uncordon"}

TypeOK ==
    /\ lease \in Nodes \cup {None}
    /\ leaseRead \subseteq Daemons
    /\ cordoned \in [Nodes -> BOOLEAN]
    /\ rebootDue \in [Nodes -> BOOLEAN]
    /\ main \in [Daemons -> MainStates]
    /\ cur \in [Daemons -> Slots]
    /\ ret \in [Daemons -> {"none", "ok", "error"}]
    /\ pc \in [Daemons -> [Slots -> CallbackStates]]
    /\ drain \in [Daemons -> [Slots -> BOOLEAN]]
    /\ cancelled \in [Daemons -> [Slots -> BOOLEAN]]
    /\ failed \in [Daemons -> [Slots -> BOOLEAN]]
    /\ tries \in [Daemons -> [Slots -> 0..(MaxAttempts - 1)]]
    /\ copy \in [Daemons -> [Slots -> BOOLEAN]]
    /\ worked \in [Daemons -> [Slots -> BOOLEAN]]

Init ==
    /\ lease = None
    /\ leaseRead = {}
    /\ cordoned = [n \in Nodes |-> FALSE]
    /\ rebootDue = [n \in Nodes |-> FALSE]
    /\ main = [d \in Daemons |-> "idle"]
    /\ cur \in [Daemons -> Slots]
    /\ ret = [d \in Daemons |-> "none"]
    /\ pc = [d \in Daemons |-> [s \in Slots |-> "idle"]]
    /\ drain = [d \in Daemons |-> [s \in Slots |-> FALSE]]
    /\ cancelled = [d \in Daemons |-> [s \in Slots |-> FALSE]]
    /\ failed = [d \in Daemons |-> [s \in Slots |-> FALSE]]
    /\ tries = [d \in Daemons |-> [s \in Slots |-> 0]]
    /\ copy = [d \in Daemons |-> [s \in Slots |-> FALSE]]
    /\ worked = [d \in Daemons |-> [s \in Slots |-> FALSE]]

-----------------------------------------------------------------------------
(* The Lease object and the elector's view of it.                          *)

\* A write of the Lease changes its resourceVersion: every copy is stale.
WriteLease(holder) ==
    /\ lease' = holder
    /\ leaseRead' = {}

\* The lease duration (600 s) has passed since the holder's last renewal, as
\* seen by another elector.  A holder that is renewing, or between its last
\* renewal (at most RenewDeadline ago) and the deferred function's write, is
\* not expired unless its process stalls.
Expired(holder) ==
    \/ "stall" \in Faults
    \/ \A e \in Daemons :
          NodeOf[e] = holder => main[e] \notin {"renew", "release", "update"}

-----------------------------------------------------------------------------
(* Run's own goroutine.                                                     *)

\* Run(f, dr): the context and innerErr are created, the election is joined.
Run(d, dr) ==
    /\ main[d] = "idle"
    /\ d \notin ShortLease
    /\ \E s \in Slots :
          /\ pc[d][s] = "idle"
          /\ cur' = [cur EXCEPT ![d] = s]
          /\ drain' = [drain EXCEPT ![d][s] = dr]
          /\ cancelled' = [cancelled EXCEPT ![d][s] = FALSE]
          /\ failed' = [failed EXCEPT ![d][s] = FALSE]
          /\ tries' = [tries EXCEPT ![d][s] = 0]
          /\ copy' = [copy EXCEPT ![d][s] = FALSE]
          /\ worked' = [worked EXCEPT ![d][s] = FALSE]
    /\ main' = [main EXCEPT ![d] = "acquire"]
    /\ ret' = [ret EXCEPT ![d] = "none"]
    /\ UNCHANGED <<electionVars, nodeVars, pc>>

\* NewLeaderElector rejects a LeaseDuration that is not above RenewDeadline.
\* Run returns the error, after the deferred function.
RunRejected(d) ==
    /\ main[d] = "idle"
    /\ d \in ShortLease
    /\ main' = [main EXCEPT ![d] = "release"]
    /\ ret' = [ret EXCEPT ![d] = "error"]
    /\ UNCHANGED <<electionVars, nodeVars, cur, callbackVars>>

\* le.acquire succeeds: the Lease is free, already carries this node's name,
\* or has expired.  The callback is started in its own goroutine.
Acquire(d) ==
    /\ main[d] = "acquire"
    /\ \/ lease \in {None, NodeOf[d]}
       \/ Expired(lease)
    /\ WriteLease(NodeOf[d])
    /\ main' = [main EXCEPT ![d] = "renew"]
    /\ pc' = [pc EXCEPT ![d][cur[d]] =
                 IF drain[d][cur[d]] THEN "getCordon" ELSE "work"]
    /\ UNCHANGED <<nodeVars, cur, ret, drain, cancelled, failed, tries, copy, worked>>

\* le.renew: a Lease that was cleared by somebody is taken back.
Renew(d) ==
    /\ main[d] = "renew"
    /\ lease \in {None, NodeOf[d]}
    /\ WriteLease(NodeOf[d])
    /\ UNCHANGED <<nodeVars, runVars, callbackVars>>

\* Mutant: without "defer cancel()" the callback's context stays alive.
StopLeadingKeepsContext(d) ==
    /\ main' = [main EXCEPT ![d] = "release"]
    /\ ret' = [ret EXCEPT ![d] = IF failed[d][cur[d]] THEN "error" ELSE "ok"]
    /\ UNCHANGED <<electionVars, nodeVars, cur, callbackVars>>

\* le.Run returns and cancels the callback's context; innerErr is evaluated
\* as the return value before the deferred functions run.
StopLeading(d) ==
    /\ main' = [main EXCEPT ![d] = "release"]
    /\ ret' = [ret EXCEPT ![d] = IF failed[d][cur[d]] THEN "error" ELSE "ok"]
    /\ cancelled' = [cancelled EXCEPT ![d][cur[d]] = TRUE]
    /\ UNCHANGED <<electionVars, nodeVars, cur, pc, drain, failed, tries, copy, worked>>

\* Mutant: Run does not wait in le.Run until the callback cancels the context.
FinishAtOnce(d) ==
    /\ main[d] = "renew"
    /\ StopLeading(d)

\* The callback has cancelled the context.
Finish(d) ==
    /\ main[d] = "renew"
    /\ cancelled[d][cur[d]]
    /\ StopLeading(d)

\* No renewal succeeded within RenewDeadline, because of a fault or because
\* another node holds the Lease.  The callback goes on.
LoseLease(d) ==
    /\ main[d] = "renew"
    /\ \/ "renew" \in Faults
       \/ lease \notin {None, NodeOf[d]}
    /\ StopLeading(d)

\* The deferred function: leaseLock.Get.
ReleaseGet(d) ==
    /\ main[d] = "release"
    /\ main' = [main EXCEPT ![d] = "update"]
    /\ leaseRead' = leaseRead \cup {d}
    /\ UNCHANGED <<lease, nodeVars, cur, ret, callbackVars>>

\* The deferred function: leaseLock.Update with an empty holder, whoever the
\* holder is.  A stale copy is refused with a conflict.
ReleaseUpdate(d) ==
    /\ main[d] = "update"
    /\ IF d \in leaseRead THEN WriteLease(None) ELSE UNCHANGED electionVars
    /\ main' = [main EXCEPT ![d] = "idle"]
    /\ UNCHANGED <<nodeVars, cur, ret, callbackVars>>

\* The deferred function's Get or Update fails: it logs and gives up.
ReleaseFails(d) ==
    /\ "api" \in Faults
    /\ main[d] \in {"release", "update"}
    /\ main' = [main EXCEPT ![d] = "idle"]
    /\ leaseRead' = leaseRead \ {d}
    /\ UNCHANGED <<lease, nodeVars, cur, ret, callbackVars>>

-----------------------------------------------------------------------------
(* The callback's goroutine.                                                *)

\* Mutant: "return" is missing after the failed drain, f is called.
GiveUpDrainGoesOn(d, s) ==
    /\ pc' = [pc EXCEPT ![d][s] = "work"]
    /\ failed' = [failed EXCEPT ![d][s] = TRUE]
    /\ tries' = [tries EXCEPT ![d][s] = 0]

\* Mutant: innerErr is not set when the drain has failed.
GiveUpDrainSilently(d, s) ==
    /\ pc' = [pc EXCEPT ![d][s] = "getUncordon"]
    /\ failed' = failed
    /\ tries' = [tries EXCEPT ![d][s] = 0]

\* Mutant: the failed drain returns without uncordonAndFreeLeadership.
GiveUpDrainReturns(d, s) ==
    /\ pc' = [pc EXCEPT ![d][s] = "idle"]
    /\ failed' = [failed EXCEPT ![d][s] = TRUE]
    /\ tries' = [tries EXCEPT ![d][s] = 0]

\* cordonAndDrain has failed: innerErr is set and uncordonAndFreeLeadership
\* is called.
GiveUpDrain(d, s) ==
    /\ pc' = [pc EXCEPT ![d][s] = "getUncordon"]
    /\ failed' = [failed EXCEPT ![d][s] = TRUE]
    /\ tries' = [tries EXCEPT ![d][s] = 0]

\* Mutant: one attempt more than Steps.
RetryDrainOnceMore(d, s) ==
    IF tries[d][s] < MaxAttempts
    THEN /\ pc' = [pc EXCEPT ![d][s] = "cordon"]
         /\ tries' = [tries EXCEPT ![d][s] = tries[d][s] + 1]
         /\ UNCHANGED failed
    ELSE GiveUpDrain(d, s)

\* An attempt of the drain loop has failed: try again, or give up after the
\* last one.
RetryDrain(d, s) ==
    IF tries[d][s] + 1 < MaxAttempts
    THEN /\ pc' = [pc EXCEPT ![d][s] = "cordon"]
         /\ tries' = [tries EXCEPT ![d][s] = tries[d][s] + 1]
         /\ UNCHANGED failed
    ELSE GiveUpDrain(d, s)

\* cordonAndDrain: the Node object is fetched once, before the attempts.
\* The request fails when the context is cancelled.
GetForCordon(d, s) ==
    /\ pc[d][s] = "getCordon"
    /\ \/ /\ ~cancelled[d][s]
          /\ pc' = [pc EXCEPT ![d][s] = "cordon"]
          /\ copy' = [copy EXCEPT ![d][s] = cordoned[NodeOf[d]]]
          /\ tries' = [tries EXCEPT ![d][s] = 0]
          /\ UNCHANGED failed
       \/ /\ cancelled[d][s] \/ "api" \in Faults
          /\ GiveUpDrain(d, s)
          /\ UNCHANGED copy
    /\ UNCHANGED <<electionVars, nodeVars, runVars, drain, cancelled, worked>>

\* RunCordonOrUncordon(node, TRUE): nothing to do if the local object is
\* already unschedulable; otherwise the local object is changed and patched.
Cordon(d, s) ==
    /\ pc[d][s] = "cordon"
    /\ copy' = [copy EXCEPT ![d][s] = TRUE]
    /\ \/ /\ pc' = [pc EXCEPT ![d][s] = "evict"]
          /\ cordoned' = [cordoned EXCEPT ![NodeOf[d]] = @ \/ ~copy[d][s]]
          /\ UNCHANGED <<tries, failed>>
       \/ /\ "patch" \in Faults
          /\ ~copy[d][s]
          /\ RetryDrain(d, s)
          /\ UNCHANGED cordoned
    /\ UNCHANGED <<electionVars, rebootDue, runVars, drain, cancelled, worked>>

\* RunNodeDrain evicts the pods.
Evict(d, s) ==
    /\ pc[d][s] = "evict"
    /\ \/ /\ pc' = [pc EXCEPT ![d][s] = "work"]
          /\ UNCHANGED <<tries, failed>>
       \/ /\ "api" \in Faults
          /\ RetryDrain(d, s)
    /\ UNCHANGED <<electionVars, nodeVars, runVars, drain, cancelled, copy, worked>>

\* Mutant: the context is cancelled before the node is uncordoned.
WorkCancelsFirst(d, s, performUncordon) ==
    /\ pc[d][s] = "work"
    /\ worked' = [worked EXCEPT ![d][s] = TRUE]
    /\ rebootDue' = [rebootDue EXCEPT ![NodeOf[d]] = @ \/ ~performUncordon]
    /\ pc' = [pc EXCEPT ![d][s] =
                 IF drain[d][s] /\ performUncordon THEN "getUncordon" ELSE "idle"]
    /\ cancelled' = [cancelled EXCEPT ![d][s] = TRUE]
    /\ UNCHANGED <<electionVars, cordoned, runVars, drain, failed, tries, copy>>

\* Mutant: f's result is ignored, the node is always uncordoned.
WorkAlwaysUncordons(d, s, performUncordon) ==
    /\ pc[d][s] = "work"
    /\ worked' = [worked EXCEPT ![d][s] = TRUE]
    /\ rebootDue' = [rebootDue EXCEPT ![NodeOf[d]] = @ \/ ~performUncordon]
    /\ pc' = [pc EXCEPT ![d][s] = IF drain[d][s] THEN "getUncordon" ELSE "idle"]
    /\ UNCHANGED <<electionVars, cordoned, runVars, drain, cancelled, failed, tries, copy>>

\* f returns performUncordon.  FALSE means that f has requested a reboot.
\* Unless both drain and performUncordon hold, the callback ends without
\* cancelling the context.
Work(d, s, performUncordon) ==
    /\ pc[d][s] = "work"
    /\ worked' = [worked EXCEPT ![d][s] = TRUE]
    /\ rebootDue' = [rebootDue EXCEPT ![NodeOf[d]] = @ \/ ~performUncordon]
    /\ pc' = [pc EXCEPT ![d][s] =
                 IF drain[d][s] /\ performUncordon THEN "getUncordon" ELSE "idle"]
    /\ UNCHANGED <<electionVars, cordoned, runVars, drain, cancelled, failed, tries, copy>>

\* Mutant: a failed uncordon does not set innerErr.
FreeLeadershipSilently(d, s, err) ==
    /\ pc' = [pc EXCEPT ![d][s] = "idle"]
    /\ failed' = failed
    /\ cancelled' = [cancelled EXCEPT ![d][s] = TRUE]

\* Mutant: "cancel()" is missing after the uncordon.
FreeLeadershipNever(d, s, err) ==
    /\ pc' = [pc EXCEPT ![d][s] = "idle"]
    /\ failed' = [failed EXCEPT ![d][s] = @ \/ err]
    /\ UNCHANGED cancelled

\* uncordonAndFreeLeadership's end: innerErr, then cancel().
FreeLeadership(d, s, err) ==
    /\ pc' = [pc EXCEPT ![d][s] = "idle"]
    /\ failed' = [failed EXCEPT ![d][s] = @ \/ err]
    /\ cancelled' = [cancelled EXCEPT ![d][s] = TRUE]

\* uncordon: the Node object is fetched once, with the callback's context.
GetForUncordon(d, s) ==
    /\ pc[d][s] = "getUncordon"
    /\ \/ /\ ~cancelled[d][s]
          /\ pc' = [pc EXCEPT ![d][s] = "uncordon"]
          /\ copy' = [copy EXCEPT ![d][s] = cordoned[NodeOf[d]]]
          /\ tries' = [tries EXCEPT ![d][s] = 0]
          /\ UNCHANGED <<failed, cancelled>>
       \/ /\ cancelled[d][s] \/ "api" \in Faults
          /\ FreeLeadership(d, s, TRUE)
          /\ UNCHANGED <<copy, tries>>
    /\ UNCHANGED <<electionVars, nodeVars, runVars, drain, worked>>

\* RunCordonOrUncordon(node, FALSE), with the same local object each time.
Uncordon(d, s) ==
    /\ pc[d][s] = "uncordon"
    /\ copy' = [copy EXCEPT ![d][s] = FALSE]
    /\ \/ /\ cordoned' = [cordoned EXCEPT ![NodeOf[d]] = @ /\ ~copy[d][s]]
          /\ FreeLeadership(d, s, FALSE)
          /\ UNCHANGED tries
       \/ /\ "patch" \in Faults
          /\ copy[d][s]
          /\ IF tries[d][s] + 1 < MaxAttempts
             THEN /\ tries' = [tries EXCEPT ![d][s] = tries[d][s] + 1]
                  /\ UNCHANGED <<pc, failed, cancelled>>
             ELSE /\ FreeLeadership(d, s, TRUE)
                  /\ UNCHANGED tries
          /\ UNCHANGED cordoned
    /\ UNCHANGED <<electionVars, rebootDue, runVars, drain, worked>>

-----------------------------------------------------------------------------
(* The processes' environment.                                              *)

\* The daemons of D lose all their goroutines; the Lease keeps its holder.
Kill(D) ==
    /\ main' = [d \in Daemons |-> IF d \in D THEN "idle" ELSE main[d]]
    /\ ret' = [d \in Daemons |-> IF d \in D THEN "none" ELSE ret[d]]
    /\ pc' = [d \in Daemons |-> IF d \in D THEN [s \in Slots |-> "idle"] ELSE pc[d]]
    /\ leaseRead' = leaseRead \ D
    /\ UNCHANGED <<lease, cordoned, cur, drain, cancelled, failed, tries, copy, worked>>

\* A daemon's process dies; its DaemonSet starts it again.
Crash(d) ==
    /\ "crash" \in Faults
    /\ Kill({d})
    /\ UNCHANGED rebootDue

\* The reboot f asked for: every daemon of the node goes down.
Reboot(n) ==
    /\ rebootDue[n]
    /\ rebootDue' = [rebootDue EXCEPT ![n] = FALSE]
    /\ Kill({d \in Daemons : NodeOf[d] = n})

-----------------------------------------------------------------------------
\* Steps of Run's own goroutine that need nobody else.
RunStep(d) ==
    \/ Finish(d)
    \/ ReleaseGet(d)
    \/ ReleaseUpdate(d)

CallbackStep(d, s) ==
    \/ GetForCordon(d, s)
    \/ Cordon(d, s)
    \/ Evict(d, s)
    \/ \E performUncordon \in BOOLEAN : Work(d, s, performUncordon)
    \/ GetForUncordon(d, s)
    \/ Uncordon(d, s)

Next ==
    \/ \E d \in Daemons :
          \/ \E dr \in DrainModes : Run(d, dr)
          \/ RunRejected(d)
          \/ Acquire(d)
          \/ Renew(d)
          \/ LoseLease(d)
          \/ RunStep(d)
          \/ ReleaseFails(d)
          \/ Crash(d)
          \/ \E s \in Slots : CallbackStep(d, s)
    \/ \E n \in Nodes : Reboot(n)

Spec == Init /\ [][Next]_vars

\* Every goroutine is scheduled and every command and request ends; a
\* requested reboot happens.  Electors poll with a random jitter (factor 1.2
\* on RetryPeriod), so one that finds the Lease free again and again gets it.
\* Nothing is assumed of callers, renewals and faults.
Fairness ==
    /\ \A d \in Daemons :
          /\ SF_vars(Acquire(d))
          /\ WF_vars(RunStep(d))
          /\ \A s \in Slots : WF_vars(CallbackStep(d, s))
    /\ \A n \in Nodes : WF_vars(Reboot(n))

FairSpec == Spec /\ Fairness

-----------------------------------------------------------------------------
(* Properties.                                                              *)

Busy(d) == \E s \in Slots : pc[d][s] # "idle"

\* The conditions under which the election protects the callbacks.
Reliable ==
    /\ Faults \cap {"renew", "stall"} = {}
    /\ ShortLease = {}
    /\ \A d, e \in Daemons : NodeOf[d] = NodeOf[e] => d = e

\* A daemon cordons, drains, works on or uncordons its node only while the
\* Lease carries its node's name, up to and including the uncordon: neither
\* the renewal loop nor anybody's deferred clean-up takes the Lease away from
\* a callback that is still running.
LeaderWhileBusy ==
    \A d \in Daemons : Busy(d) => lease = NodeOf[d]

\* "the programming will happen only one node at a time": at no time are the
\* callbacks of two daemons running, whatever crashes, conflicts, expiries
\* and retries happened before.
OneNodeAtATime ==
    \A d, e \in Daemons : Busy(d) /\ Busy(e) => NodeOf[d] = NodeOf[e]

\* f runs on a cordoned node when Run was called with drain.
WorkOnCordonedNode ==
    \A d \in Daemons, s \in Slots :
        pc[d][s] = "work" /\ drain[d][s] => cordoned[NodeOf[d]]

\* Run returns nil only after f has returned: the daemons report
\* "Succeeded" on the strength of that nil.
OkMeansWorked ==
    \A d \in Daemons : ret[d] = "ok" => worked[d][cur[d]]

\* When Run has returned nil the node takes pods again: nobody has to look
\* after it by hand.
OkMeansSchedulable ==
    \A d \in Daemons : ret[d] = "ok" => ~cordoned[NodeOf[d]]

\* "reboot must be performed without loosing the leadership": from f's
\* request to the reboot itself nobody else can become leader.
RebootKeepsLease ==
    \A n \in Nodes : rebootDue[n] => lease = n

\* Whatever faults happen, the callback of an earlier Run that outlives it
\* has a cancelled context, so that it cannot enter another loop of attempts;
\* only the latest Run's callback, during its leadership, has a live one.
OrphansAreCancelled ==
    \A d \in Daemons, s \in Slots :
        pc[d][s] # "idle" /\ ~cancelled[d][s] => s = cur[d] /\ main[d] = "renew"

\* A Run that has joined the election returns (or its process goes down):
\* no caller waits forever.
RunReturns ==
    \A d \in Daemons : main[d] = "acquire" ~> main[d] = "idle"

\* The inductive invariant behind the mutual exclusion: whoever renews the
\* Lease or is about to clear it holds it, a callback runs with a live
\* context, in the latest Run's slot, while that Run renews, and a Run joins
\* the election with a live context.
ElectionInv ==
    /\ TypeOK
    /\ \A d \in Daemons :
          main[d] \in {"renew", "release", "update"} => lease = NodeOf[d]
    /\ \A d \in Daemons, s \in Slots :
          pc[d][s] # "idle" => s = cur[d] /\ main[d] = "renew" /\ ~cancelled[d][s]
    /\ \A d \in Daemons : main[d] = "acquire" => ~cancelled[d][cur[d]]

\* What is known of a finished callback: it has worked or failed.
OutcomeInv ==
    /\ \A d \in Daemons, s \in Slots :
          cancelled[d][s] \/ pc[d][s] \in {"getUncordon", "uncordon"}
              => worked[d][s] \/ failed[d][s]
    /\ OkMeansWorked

\* Run implements the mutual exclusion its callers rely on.
Mutex == INSTANCE DrainMutex WITH
            waiting <- {d \in Daemons : main[d] = "acquire"},
            inside <- {d \in Daemons : Busy(d)}

\* Every behaviour of Run is one of the abstract service: Run's callbacks
\* are admitted one at a time.
ImplementsMutex == Mutex!MutexSpec

\* ... and everybody who waits is admitted, everybody inside leaves.
ImplementsFairMutex == Mutex!MutexFairSpec

=============================================================================
