------------------------------ MODULE NodeConfig ------------------------------
(***************************************************************************)
(* The sriov-fec daemon of one node: sriov-fec/pkg/daemon/daemon.go.       *)
(*                                                                         *)
(* The cluster controller writes this node's SriovFecNodeConfig object;    *)
(* the daemon's informer delivers it to a cache, its events (but for       *)
(* updates that leave the generation alone) put the object's key in a work *)
(* queue, and Reconcile reads the object from the cache, compares          *)
(* inventories and generations, writes "InProgress", runs the worker       *)
(* function under drainhelper.Run, and writes the outcome.  Status writes  *)
(* carry a resourceVersion and conflict when the object has changed.       *)
(*                                                                         *)
(* drainhelper.Run is taken as DrainHelper shows it to be: it admits the   *)
(* worker some time later, may fail before or after it, returns early when *)
(* the lease is lost, and does not return when the worker function asks to *)
(* stay leader or the node was not to be drained.                          *)
(***************************************************************************)
EXTENDS DeviceConfig

CONSTANTS
    Specs,       \* names of requested configurations (lists of physical functions)
    NoSpec,      \* the empty list of physical functions
    SkipSpecs,   \* the configurations requested with drainSkip
    Requested,   \* what each configuration asks for
    OSes,        \* the operating systems considered: "rhcos", "fedora", "other"
    NoObj,       \* the object does not exist
    NoInv,       \* the inventory of an object without a status
    Slots,       \* bound: worker goroutines alive at the same time
    MaxWrites,   \* bound: writes of the cluster controller
    MaxFaults,   \* bound: faults
    Faults       \* the faults that occur, see FaultKinds

\* "inventory": getSriovInventory fails, or the API server refuses a status;
\* "work": the worker function fails;  "drain": Run returns an error;
\* "lease": Run returns while the worker runs;  "crash": the daemon's process
\* or the node restarts;  "drift": a device loses its VFs;  "lag": the informer lags
\* behind for longer than resyncPeriod;  "delete": the cluster controller
\* deletes the object.
FaultKinds == {"inventory", "work", "drain", "lease", "crash", "drift", "lag", "delete"}

\* kernel_management.go; as a set and in their order.
kernelParams == <<"intel_iommu=on", "iommu=pt">>
Params == {kernelParams[i] : i \in DOMAIN kernelParams}

\* "none" stands for a status without the Configured condition.
Reasons == {"none", "Unknown", "InProgress", "Failed", "NotRequested", "Succeeded"}
Object == [gen : 1..(MaxWrites + 1), spec : Specs \cup {NoSpec}, reason : Reasons,
           obs : 0..(MaxWrites + 1), inv : Inventory \cup {NoInv}]

\* What NodeObject shows of an object: not the inventory.
Shown == [gen : Nat, spec : Specs \cup {NoSpec}, reason : Reasons, obs : Nat]

ASSUME NodeConfigAssumption ==
    /\ NoObj \notin Object \cup Shown
    /\ NoSpec \notin Specs
    /\ SkipSpecs \subseteq Specs
    /\ DOMAIN Requested = Specs
    /\ \A spec \in Specs : Requested[spec] \in Seq(Request) /\ Requested[spec] # <<>>
    /\ OSes \subseteq {"rhcos", "fedora", "other"} /\ OSes # {}
    /\ NoInv \notin Inventory
    /\ MaxWrites \in Nat /\ MaxFaults \in Nat
    /\ Faults \subseteq FaultKinds

VARIABLES
    obj,           \* the object in the API server
    cache,         \* the informer's copy
    sameObj,       \* no deletion of the object is still to be delivered
    cacheCurrent,  \* the informer's copy is the latest version
    queued,        \* the object's key is in the work queue
    timer,         \* a RequeueAfter is pending
    pc,            \* control state of Reconcile
    nc,            \* Reconcile's local nodeConfig
    ncCurrent,     \* its resourceVersion is the latest
    dhErr,         \* Run has returned an error
    cur,           \* slot of the latest Run's worker
    wpc,           \* control state of each worker
    wspec,         \* the configuration it applies
    cerr,          \* its configurationErr # nil
    skip,          \* its skipStatusUpdate
    wi,            \* applyConfig's position in the list
    had,           \* the devices that had VFs when applyConfig read the inventory
    os,            \* the node's operating system, as createKernelController saw it
    cmdline,       \* kernel parameters of this boot ...
    kargs,         \* ... and of the next
    rebootDue,     \* a reboot has been requested
    dev,           \* the devices
    writes,        \* how many writes have happened
    faults         \* the faults that have happened, in order

apiVars == <<obj, cache, sameObj, cacheCurrent>>
queueVars == <<queued, timer>>
reconcileVars == <<pc, nc, ncCurrent, dhErr, cur>>
applyVars == <<wi, had>>
workerVars == <<wpc, wspec, cerr, skip, wi, had>>
kernelVars == <<os, cmdline, kargs, rebootDue>>
nodeVars == <<os, cmdline, kargs, rebootDue, dev>>
boundVars == <<writes, faults>>
vars == <<obj, cache, sameObj, cacheCurrent, queued, timer, pc, nc, ncCurrent, dhErr, cur,
          wpc, wspec, cerr, skip, wi, had, os, cmdline, kargs, rebootDue, dev, writes, faults>>

WorkerStates == {"none", "wait", "drain", "check", "params", "rebind", "create", "bind", "setup",
                 "plugin", "done", "parked"}

TypeOK ==
    /\ obj \in Object \cup {NoObj}
    /\ cache \in Object \cup {NoObj}
    /\ nc \in Object \cup {NoObj}
    /\ {sameObj, cacheCurrent, queued, timer, ncCurrent, dhErr, rebootDue} \subseteq BOOLEAN
    /\ pc \in {"idle", "check", "run", "report"}
    /\ cur \in Slots
    /\ wpc \in [Slots -> WorkerStates]
    /\ wspec \in [Slots -> Specs \cup {NoSpec}]
    /\ cerr \in [Slots -> BOOLEAN]
    /\ skip \in [Slots -> BOOLEAN]
    /\ wi \in [Slots -> Nat]
    /\ \A s \in Slots : wi[s] = 0 \/ wi[s] \in DOMAIN Requested[wspec[s]]
    /\ had \in [Slots -> SUBSET PFs]
    /\ os \in OSes
    /\ cmdline \subseteq kargs /\ kargs \subseteq Params
    /\ dev \in [PFs -> Device]
    /\ writes \in 0..MaxWrites
    /\ faults \in Seq(Faults) /\ Len(faults) <= MaxFaults

\* A new object: generation 1 and an empty status.
NewObject(spec) == [gen |-> 1, spec |-> spec, reason |-> "none", obs |-> 0, inv |-> NoInv]

inventory == InventoryOf(dev)

\* The daemon's first start: main has created the object if needed, the
\* informer has listed it.
Init ==
    /\ obj = NewObject(NoSpec)
    /\ cache = obj
    /\ sameObj = TRUE
    /\ cacheCurrent = TRUE
    /\ queued = TRUE
    /\ timer = FALSE
    /\ pc = "idle"
    /\ nc = NoObj
    /\ ncCurrent = FALSE
    /\ dhErr = FALSE
    /\ cur \in Slots
    /\ wpc = [s \in Slots |-> "none"]
    /\ wspec = [s \in Slots |-> NoSpec]
    /\ cerr = [s \in Slots |-> FALSE]
    /\ skip = [s \in Slots |-> FALSE]
    /\ wi = [s \in Slots |-> 0]
    /\ had = [s \in Slots |-> {}]
    /\ os \in OSes
    /\ cmdline \in SUBSET Params
    /\ kargs = cmdline
    /\ rebootDue = FALSE
    /\ dev = [pf \in PFs |-> Bare]
    /\ writes = 0
    /\ faults = <<>>

Fault(kind) ==
    /\ kind \in Faults
    /\ Len(faults) < MaxFaults
    /\ faults' = Append(faults, kind)

\* No fault of these kinds has happened so far.
Without(kinds) == \A i \in DOMAIN faults : faults[i] \notin kinds

-----------------------------------------------------------------------------
(* The API server and the informer.                                         *)

\* The cluster controller creates the object or changes its spec.
SetSpec(spec) ==
    /\ writes < MaxWrites
    /\ writes' = writes + 1
    /\ \/ obj = NoObj /\ obj' = NewObject(spec)
       \/ /\ obj # NoObj
          /\ obj.spec # spec
          /\ obj' = [obj EXCEPT !.spec = spec, !.gen = @ + 1]
    /\ cacheCurrent' = FALSE
    /\ ncCurrent' = FALSE
    /\ UNCHANGED <<cache, sameObj, queueVars, pc, nc, dhErr, cur, workerVars, nodeVars, faults>>

\* The cluster controller deletes the object.
Delete ==
    /\ Fault("delete")
    /\ obj # NoObj
    /\ obj' = NoObj
    /\ sameObj' = FALSE
    /\ cacheCurrent' = FALSE
    /\ ncCurrent' = FALSE
    /\ UNCHANGED <<cache, queueVars, pc, nc, dhErr, cur, workerVars, nodeVars, writes>>

\* The informer delivers a deletion.
DeliverDelete ==
    /\ ~sameObj
    /\ cache' = NoObj
    /\ sameObj' = TRUE
    /\ cacheCurrent' = (obj = NoObj)
    /\ queued' = TRUE
    /\ UNCHANGED <<obj, timer, reconcileVars, workerVars, nodeVars, boundVars>>

\* Mutant: the event filter also drops updates of the generation.
DeliverDropsUpdates ==
    /\ sameObj
    /\ ~cacheCurrent
    /\ cache' = obj
    /\ cacheCurrent' = TRUE
    /\ queued' = (queued \/ cache = NoObj)
    /\ UNCHANGED <<obj, sameObj, timer, reconcileVars, workerVars, nodeVars, boundVars>>

\* The informer delivers a creation, or updates.  CreateFunc lets every
\* creation pass, UpdateFunc only a change of the generation.
Deliver ==
    /\ sameObj
    /\ ~cacheCurrent
    /\ cache' = obj
    /\ cacheCurrent' = TRUE
    /\ queued' = (queued \/ cache = NoObj \/ cache.gen # obj.gen)
    /\ UNCHANGED <<obj, sameObj, timer, reconcileVars, workerVars, nodeVars, boundVars>>

\* A pending RequeueAfter expires.
Expire ==
    /\ timer
    /\ timer' = FALSE
    /\ queued' = TRUE
    /\ UNCHANGED <<apiVars, reconcileVars, workerVars, nodeVars, writes>>

\* Usually the informer has caught up in that minute (resyncPeriod) ...
Resync == cacheCurrent /\ Expire /\ UNCHANGED faults

\* ... but it may lag.
ResyncTooSoon == ~cacheCurrent /\ Expire /\ Fault("lag")

-----------------------------------------------------------------------------
(* Reconcile.                                                               *)

\* Mutant: a conflict is resolved by writing to the object as it now is.
UpdateStatusForced(reason, obs) ==
    /\ obj # NoObj
    /\ obj' = [obj EXCEPT !.reason = reason, !.obs = IF obs = nc.gen THEN obj.gen ELSE obs,
                          !.inv = inventory]
    /\ nc' = obj'
    /\ ncCurrent' = TRUE
    /\ cacheCurrent' = FALSE

\* updateStatus: the inventory is read again, and the status written with the
\* local object's resourceVersion, which the answer renews.
UpdateStatus(reason, obs) ==
    /\ ncCurrent
    /\ obj' = [obj EXCEPT !.reason = reason, !.obs = obs, !.inv = inventory]
    /\ nc' = obj'
    /\ ncCurrent' = TRUE
    /\ cacheCurrent' = FALSE

\* The write is refused: the object has changed or is gone.
StatusConflict ==
    /\ ~ncCurrent
    /\ UNCHANGED <<obj, nc, ncCurrent, cacheCurrent>>

\* The inventory for the status cannot be read, or the write fails.
StatusFails == Fault("inventory") /\ UNCHANGED <<obj, nc, ncCurrent, cacheCurrent>>

\* Mutant: the generation reported is off by one.
UpdateConditionOfNext(reason) ==
    \/ (UpdateStatus(reason, nc.gen + 1) \/ StatusConflict) /\ UNCHANGED faults
    \/ StatusFails

\* updateCondition: the generation is the local object's; an error is logged.
UpdateCondition(reason) ==
    \/ (UpdateStatus(reason, nc.gen) \/ StatusConflict) /\ UNCHANGED faults
    \/ StatusFails

\* Get finds no object in the cache: CreateEmptyNodeConfigIfNeeded.  Create
\* fails if the object does exist, and the key is queued again.
CreateEmptyNodeConfig ==
    /\ pc = "idle"
    /\ queued
    /\ cache = NoObj
    /\ \/ /\ obj = NoObj
          /\ obj' = NewObject(NoSpec)
          /\ cacheCurrent' = FALSE
          /\ queued' = FALSE
       \/ /\ obj # NoObj
          /\ UNCHANGED <<obj, cacheCurrent, queued>>
    /\ UNCHANGED <<cache, sameObj, timer, reconcileVars, workerVars, nodeVars, boundVars>>

\* Get reads the object from the cache.
Get ==
    /\ pc = "idle"
    /\ queued
    /\ cache # NoObj
    /\ queued' = FALSE
    /\ pc' = "check"
    /\ nc' = cache
    /\ ncCurrent' = cacheCurrent
    /\ UNCHANGED <<apiVars, timer, dhErr, cur, workerVars, nodeVars, boundVars>>

\* No physical function is configured: "Nothing to do".
NothingToDo ==
    /\ pc = "check"
    /\ nc.spec = NoSpec
    /\ UpdateCondition("NotRequested")
    /\ pc' = "idle"
    /\ UNCHANGED <<cache, sameObj, queueVars, dhErr, cur, workerVars, nodeVars, writes>>

\* The inventory cannot be read: the error is returned, after the condition
\* has been set, unless reading it for the status fails as well.
InventoryFails ==
    /\ pc = "check"
    /\ nc.spec # NoSpec
    /\ Fault("inventory")
    /\ \/ UpdateStatus("Failed", nc.gen)
       \/ UNCHANGED <<obj, nc, ncCurrent, cacheCurrent>>
    /\ queued' = TRUE
    /\ pc' = "idle"
    /\ UNCHANGED <<cache, sameObj, timer, dhErr, cur, workerVars, nodeVars, writes>>

\* Mutant: no resync is asked for.
RequeueNever == UNCHANGED timer

\* Reconcile asks to be called again after resyncPeriod.
RequeueAfter == timer' = TRUE

\* Mutant: the generation is not compared.
UpToDateByInventory == nc.reason # "none" /\ inventory = nc.inv

\* The inventory is the one in the status and the condition is of this
\* generation, whatever its reason.
UpToDate == nc.reason # "none" /\ inventory = nc.inv /\ nc.obs = nc.gen

ReturnEarly ==
    /\ pc = "check"
    /\ nc.spec # NoSpec
    /\ UpToDate
    /\ RequeueAfter
    /\ pc' = "idle"
    /\ UNCHANGED <<apiVars, queued, nc, ncCurrent, dhErr, cur, workerVars, nodeVars, boundVars>>

\* drainHelper.Run is called with a worker for this specification.
CallRun ==
    /\ pc' = "run"
    /\ dhErr' = FALSE
    /\ \E s \in Slots :
          /\ wpc[s] = "none"
          /\ cur' = s
          /\ wpc' = [wpc EXCEPT ![s] = "wait"]
          /\ wspec' = [wspec EXCEPT ![s] = nc.spec]
          /\ cerr' = [cerr EXCEPT ![s] = FALSE]
          /\ skip' = [skip EXCEPT ![s] = FALSE]
          /\ UNCHANGED applyVars

\* An existing condition becomes "InProgress"; it keeps its observed
\* generation.  If that write fails the error is returned.
Configure ==
    /\ pc = "check"
    /\ nc.spec # NoSpec
    /\ ~UpToDate
    /\ \/ /\ nc.reason = "none"
          /\ CallRun
          /\ UNCHANGED <<obj, cacheCurrent, queued, nc, ncCurrent, faults>>
       \/ /\ nc.reason # "none"
          /\ UpdateStatus("InProgress", nc.obs)
          /\ CallRun
          /\ UNCHANGED <<queued, faults>>
       \/ /\ nc.reason # "none"
          /\ \/ StatusConflict /\ UNCHANGED faults
             \/ StatusFails
          /\ queued' = TRUE
          /\ pc' = "idle"
          /\ UNCHANGED <<dhErr, cur, workerVars>>
    /\ UNCHANGED <<cache, sameObj, timer, nodeVars, writes>>

\* The worker is done, the node uncordoned, the leadership given up.  Without
\* a drain the callback never cancels its context, and Run does not return.
RunReturns ==
    /\ pc = "run"
    /\ wpc[cur] = "done"
    /\ wspec[cur] \notin SkipSpecs
    /\ pc' = "report"
    /\ wpc' = [wpc EXCEPT ![cur] = "none"]
    /\ \/ dhErr' = FALSE /\ UNCHANGED faults
       \/ dhErr' = TRUE /\ Fault("drain")
    /\ UNCHANGED <<apiVars, queueVars, nc, ncCurrent, cur, wspec, cerr, skip, applyVars, nodeVars,
                   writes>>

\* The node cannot be drained: Run returns an error, the worker never runs.
DrainFails ==
    /\ pc = "run"
    /\ wpc[cur] = "drain"
    /\ wspec[cur] \notin SkipSpecs
    /\ Fault("drain")
    /\ pc' = "report"
    /\ dhErr' = TRUE
    /\ wpc' = [wpc EXCEPT ![cur] = "none"]
    /\ UNCHANGED <<apiVars, queueVars, nc, ncCurrent, cur, wspec, cerr, skip, applyVars, nodeVars,
                   writes>>

\* The lease is lost: Run returns nil, its callback goes on.
LoseLease ==
    /\ pc = "run"
    /\ wpc[cur] # "wait"
    /\ Fault("lease")
    /\ pc' = "report"
    /\ dhErr' = FALSE
    /\ UNCHANGED <<apiVars, queueVars, nc, ncCurrent, cur, workerVars, nodeVars, writes>>

\* After Run: the condition tells how it went.  Success is followed by a
\* resync; the errors returned for Run and the worker are nil, so nothing is
\* tried again; only updateInventory's error is returned.
Report ==
    /\ pc = "report"
    /\ pc' = "idle"
    /\ \/ /\ skip[cur]
          /\ UNCHANGED <<obj, nc, ncCurrent, cacheCurrent, queueVars, faults>>
       \/ /\ ~skip[cur] /\ dhErr
          /\ UpdateCondition("Unknown")
          /\ UNCHANGED queueVars
       \/ /\ ~skip[cur] /\ ~dhErr /\ cerr[cur]
          /\ UpdateCondition("Failed")
          /\ UNCHANGED queueVars
       \/ /\ ~skip[cur] /\ ~dhErr /\ ~cerr[cur]
          /\ UpdateCondition("Succeeded")
          /\ RequeueAfter
          /\ UNCHANGED queued
       \/ /\ ~skip[cur] /\ ~dhErr /\ ~cerr[cur]
          /\ Fault("inventory")
          /\ \/ UpdateStatus("Failed", nc.gen)
             \/ UNCHANGED <<obj, nc, ncCurrent, cacheCurrent>>
          /\ queued' = TRUE
          /\ UNCHANGED timer
    /\ UNCHANGED <<cache, sameObj, dhErr, cur, workerVars, nodeVars, writes>>

-----------------------------------------------------------------------------
(* The worker function, called by drainhelper.Run's callback.               *)

WorkerAt(s, from, to) ==
    /\ wpc[s] = from
    /\ wpc' = [wpc EXCEPT ![s] = to]
    /\ UNCHANGED <<apiVars, queueVars, reconcileVars, wspec, boundVars>>

\* The worker function ends with a configurationErr.
WorkerErrs(s) ==
    /\ wpc' = [wpc EXCEPT ![s] = "done"]
    /\ cerr' = [cerr EXCEPT ![s] = TRUE]
    /\ wi' = [wi EXCEPT ![s] = 0]
    /\ had' = [had EXCEPT ![s] = {}]
    /\ UNCHANGED <<apiVars, queueVars, reconcileVars, wspec, skip, writes>>

\* The election is won ...
Lead(s) ==
    /\ WorkerAt(s, "wait", "drain")
    /\ UNCHANGED <<cerr, skip, applyVars, nodeVars>>

\* ... and the node drained, unless drainSkip is set.
Drained(s) ==
    /\ WorkerAt(s, "drain", "check")
    /\ UNCHANGED <<cerr, skip, applyVars, nodeVars>>

\* isAnyKernelParamsMissing: a parameter is not in /proc/cmdline.
MissesKernelParams(s) ==
    /\ cmdline # Params
    /\ WorkerAt(s, "check", "params")
    /\ UNCHANGED <<cerr, skip, applyVars, nodeVars>>

\* grubby adds both parameters at once.
GrubbyAddsParams(s) ==
    /\ os = "fedora" /\ kargs # Params
    /\ WorkerAt(s, "params", "params")
    /\ kargs' = Params
    /\ UNCHANGED <<cerr, skip, applyVars, os, cmdline, rebootDue, dev>>

\* rpm-ostree is asked which are missing and appends them one by one.
RpmOstreeAppends(s) ==
    /\ os = "rhcos"
    /\ \E i \in DOMAIN kernelParams :
          /\ kernelParams[i] \notin kargs
          /\ \A j \in 1..(i - 1) : kernelParams[j] \in kargs
          /\ kargs' = kargs \cup {kernelParams[i]}
    /\ WorkerAt(s, "params", "params")
    /\ UNCHANGED <<cerr, skip, applyVars, os, cmdline, rebootDue, dev>>

\* The parameters are there for the next boot: request it, stay leader.
RequestReboot(s) ==
    /\ os # "other" /\ kargs = Params
    /\ WorkerAt(s, "params", "parked")
    /\ rebootDue' = TRUE
    /\ skip' = [skip EXCEPT ![s] = TRUE]
    /\ UNCHANGED <<cerr, applyVars, os, cmdline, kargs, dev>>

\* On another system no parameter can be added.
UnsupportedOS(s) ==
    /\ wpc[s] = "params"
    /\ os = "other"
    /\ WorkerErrs(s)
    /\ UNCHANGED <<nodeVars, faults>>

\* applyConfig reads the inventory ...
StartApply(s) ==
    /\ cmdline = Params
    /\ WorkerAt(s, "check", "rebind")
    /\ wi' = [wi EXCEPT ![s] = 1]
    /\ had' = [had EXCEPT ![s] = {pf \in PFs : inventory[pf].vfs.count > 0}]
    /\ UNCHANGED <<cerr, skip, nodeVars>>

\* ... and takes one physical function of the list after the other.
request(s) == Requested[wspec[s]][wi[s]]

\* One step for the device of the current request.
Apply(s, from, to, device) ==
    /\ WorkerAt(s, from, to)
    /\ dev' = [dev EXCEPT ![request(s).pf] = device]
    /\ UNCHANGED <<cerr, skip, kernelVars>>

RebindPF(s) ==
    /\ wpc[s] = "rebind" /\ request(s).pf \in PFs
    /\ Apply(s, "rebind", "create",
             Rebind(dev[request(s).pf], request(s), request(s).pf \in had[s]))
    /\ UNCHANGED applyVars

CreatePFsVFs(s) ==
    /\ wpc[s] = "create"
    /\ request(s).vfAmount \in {dev[request(s).pf].vfs.count} \cup 0..MaxVFs
    /\ Apply(s, "create", "bind", CreateVFs(dev[request(s).pf], request(s)))
    /\ UNCHANGED applyVars

BindPFsVFs(s) ==
    /\ wpc[s] = "bind"
    /\ Apply(s, "bind", "setup", BindVFs(dev[request(s).pf], request(s)))
    /\ UNCHANGED applyVars

\* The queues and the bus; then the next request.
SetUpPF(s) ==
    /\ wpc[s] = "setup" /\ CanConfigureQueues(request(s))
    /\ LET last == wi[s] = Len(Requested[wspec[s]])
       IN  /\ Apply(s, "setup", IF last THEN "plugin" ELSE "rebind",
                    SetUp(dev[request(s).pf], request(s)))
           /\ wi' = [wi EXCEPT ![s] = IF last THEN 0 ELSE @ + 1]
           /\ had' = [had EXCEPT ![s] = IF last THEN {} ELSE @]

\* The request cannot be carried out; the devices of those before it stay
\* configured.  The VFs are gone before their new number is refused.
RequestRefused(s) ==
    /\ \/ /\ wpc[s] = "rebind" /\ request(s).pf \notin PFs
          /\ UNCHANGED dev
       \/ /\ wpc[s] = "create"
          /\ request(s).vfAmount \notin {dev[request(s).pf].vfs.count} \cup 0..MaxVFs
          /\ dev' = [dev EXCEPT ![request(s).pf].vfs = NoVFs]
       \/ /\ wpc[s] = "setup" /\ ~CanConfigureQueues(request(s))
          /\ UNCHANGED dev
    /\ WorkerErrs(s)
    /\ UNCHANGED <<kernelVars, faults>>

\* restartDevicePlugin deletes this node's device plugin pod.
RestartDevicePlugin(s) ==
    /\ WorkerAt(s, "plugin", "done")
    /\ UNCHANGED <<cerr, skip, applyVars, nodeVars>>

\* What a failing step leaves of the device it works on.
Halfway(s) ==
    LET device == dev[request(s).pf]
    IN  CASE wpc[s] = "rebind" -> {device} \cup RebindHalfway(device, request(s).pf \in had[s])
          [] wpc[s] = "create" -> CreateVFsHalfway(device, request(s))
          [] wpc[s] = "bind" -> BindVFsHalfway(device)
          [] OTHER -> SetUpHalfway(device, request(s))

\* A command, a file or a request fails.
WorkFails(s) ==
    /\ Fault("work")
    /\ \/ /\ wpc[s] \in {"check", "params", "plugin"}
          /\ UNCHANGED dev
       \/ /\ wpc[s] \in {"rebind", "create", "bind", "setup"} /\ request(s).pf \in PFs
          /\ \E device \in Halfway(s) : dev' = [dev EXCEPT ![request(s).pf] = device]
    /\ WorkerErrs(s)
    /\ UNCHANGED kernelVars

\* The callback of a Run that has returned ends.
OrphanEnds(s) ==
    /\ s # cur \/ pc # "run"
    /\ wpc[s] \in {"done", "parked"}
    /\ wpc' = [wpc EXCEPT ![s] = "none"]
    /\ UNCHANGED <<apiVars, queueVars, reconcileVars, wspec, cerr, skip, applyVars, nodeVars,
                   boundVars>>

-----------------------------------------------------------------------------
(* Restarts and device failures.                                            *)

\* The process starts again: main creates the object if it is missing, the
\* informer lists it, which is a creation for the event filter.
Restart ==
    /\ obj' = IF obj = NoObj THEN NewObject(NoSpec) ELSE obj
    /\ cache' = obj'
    /\ sameObj' = TRUE
    /\ cacheCurrent' = TRUE
    /\ queued' = TRUE
    /\ timer' = FALSE
    /\ pc' = "idle"
    /\ nc' = NoObj
    /\ ncCurrent' = FALSE
    /\ dhErr' = FALSE
    /\ wpc' = [s \in Slots |-> "none"]
    /\ wi' = [s \in Slots |-> 0]
    /\ had' = [s \in Slots |-> {}]
    /\ UNCHANGED <<cur, wspec, cerr, skip, writes>>

\* A boot: the kernel parameters take effect, the devices lose everything.
Boot ==
    /\ cmdline' = kargs
    /\ rebootDue' = FALSE
    /\ dev' = [pf \in PFs |-> Bare]
    /\ Restart
    /\ UNCHANGED <<os, kargs>>

\* The daemon's process ends, or the node goes down.
Crash ==
    /\ Fault("crash")
    /\ \/ Restart /\ UNCHANGED nodeVars
       \/ Boot

\* The requested reboot.
Reboot ==
    /\ rebootDue
    /\ Boot
    /\ UNCHANGED faults

Drift ==
    /\ Fault("drift")
    /\ \E pf \in PFs : dev[pf].vfs # NoVFs /\ dev' = [dev EXCEPT ![pf].vfs = NoVFs]
    /\ UNCHANGED <<apiVars, queueVars, reconcileVars, workerVars, kernelVars, writes>>

-----------------------------------------------------------------------------
Inform == DeliverDelete \/ Deliver

Reconcile ==
    \/ CreateEmptyNodeConfig \/ Get \/ NothingToDo \/ ReturnEarly
    \/ Configure \/ RunReturns \/ Report

Worker(s) ==
    \/ Lead(s) \/ Drained(s)
    \/ MissesKernelParams(s) \/ GrubbyAddsParams(s) \/ RpmOstreeAppends(s) \/ RequestReboot(s)
    \/ UnsupportedOS(s) \/ StartApply(s) \/ RebindPF(s) \/ CreatePFsVFs(s) \/ BindPFsVFs(s)
    \/ SetUpPF(s) \/ RequestRefused(s) \/ RestartDevicePlugin(s) \/ OrphanEnds(s)

Next ==
    \/ \E spec \in Specs \cup {NoSpec} : SetSpec(spec)
    \/ Delete
    \/ Inform
    \/ Resync
    \/ ResyncTooSoon
    \/ Reconcile
    \/ InventoryFails
    \/ DrainFails
    \/ LoseLease
    \/ \E s \in Slots : Worker(s) \/ WorkFails(s)
    \/ Crash
    \/ Reboot
    \/ Drift

Spec == Init /\ [][Next]_vars

\* The informer delivers, the timer expires, the one reconciler goroutine and
\* the workers are scheduled, Run admits its worker (DrainHelper), a requested
\* reboot happens.  Nothing is assumed of the cluster controller and of faults.
Fairness ==
    /\ WF_vars(Inform)
    /\ WF_vars(Resync)
    /\ WF_vars(Reconcile)
    /\ \A s \in Slots : WF_vars(Worker(s))
    /\ WF_vars(Reboot)

FairSpec == Spec /\ Fairness

-----------------------------------------------------------------------------
(* Properties.                                                              *)

\* Nothing is to be delivered, queued or running, and no reboot is due.
Quiet ==
    /\ pc = "idle" /\ ~queued /\ ~rebootDue
    /\ sameObj /\ cacheCurrent
    /\ \A s \in Slots : wpc[s] \in {"none", "parked"}

\* Once all is quiet, "Succeeded" of the current generation is true, whatever
\* specs came and went while Reconcile was waiting in drainhelper.Run: the
\* devices are configured as this very generation asks, or the pending resync
\* will see by the inventory that they are not.  This is not so of a list that
\* asks one device for different queues: Reconcile may repeat an attempt from
\* a cached object that has no condition yet, the repetition may fail between
\* the two requests, and the inventory does not show the queues.
SucceededIsTrue ==
    Without({"lease", "drift", "lag"}) /\ Quiet /\ obj # NoObj /\ obj.reason = "Succeeded" /\ obj.obs = obj.gen
        => /\ obj.spec # NoSpec
           /\ QueuesAgree(Requested[obj.spec]) =>
                 AsAsked(dev, Requested[obj.spec]) \/ (timer /\ inventory # obj.inv)

\* No event is lost between the informer, the filter and the queue: once all
\* is quiet, the object exists and has an outcome for its latest generation.
QuietMeansHandled ==
    Without({"inventory", "crash"}) /\ Quiet =>
             /\ obj # NoObj
             /\ obj.obs = obj.gen
             /\ obj.reason \notin {"none", "InProgress"}

\* A late Reconcile never overwrites the outcome of a later generation: as
\* long as the object is not replaced, its observed generation does not fall.
ObservedNeverFalls ==
    [][obj # NoObj /\ obj' # NoObj => obj'.obs >= obj.obs]_vars

\* The object has its outcome: the devices are as it asks, or it says that
\* what it asks cannot be done here.
Settled ==
    /\ obj # NoObj
    /\ obj.obs = obj.gen
    /\ \/ obj.spec = NoSpec /\ obj.reason = "NotRequested"
       \/ /\ obj.spec # NoSpec
          /\ IF Feasible(Requested[obj.spec]) /\ (cmdline = Params \/ os # "other")
             THEN obj.reason = "Succeeded" /\ AsAsked(dev, Requested[obj.spec])
             ELSE obj.reason = "Failed"

\* When the cluster controller has stopped writing, the object comes to say
\* and keeps saying what has become of its latest request: "Succeeded" with the
\* devices as asked, whatever the daemon had to add, reboot and take apart, or
\* "Failed" if the request cannot be carried out.
Converges == <>[]Settled

\* Only lags, deletions and one crash have happened: no fault has ended an attempt
\* or undone its work, and no two crashes have interrupted a repair.
Undisturbed ==
    /\ Without(FaultKinds \ {"lag", "delete", "crash"})
    /\ \A i, j \in DOMAIN faults : faults[i] = "crash" /\ faults[j] = "crash" => i = j

\* ... unless it is disturbed.
ConvergesUndisturbed == <>[](Undisturbed => Settled)

\* The latest attempt has failed, or found nothing to do, and a status could not
\* be read or written: updateCondition only logs the error of its write and
\* Reconcile then returns nil without RequeueAfter, so this outcome is lost.
OutcomeLost ==
    /\ ~Without({"inventory"})
    /\ dhErr \/ cerr[cur] \/ (nc # NoObj /\ nc.spec = NoSpec)

\* No single fault, of whatever kind and at whatever step, leaves the object at
\* "InProgress" forever, unless it lost the outcome of the latest attempt: a crash
\* or a lost "Succeeded" is made up for by the next start or the resync.
InProgressEnds ==
    []<>(obj = NoObj \/ obj.reason # "InProgress") \/ <>[](OutcomeLost \/ Len(faults) > 1)

\* To its readers the object looks as NodeObject says, the inventory left aside: whatever is
\* cached, overtaken, repeated or interrupted, only status changes come from
\* the daemon once the object exists, and an outcome is written for the
\* generation of that moment or not at all.
Seen == INSTANCE NodeObject WITH
            Specs <- Specs,
            Outcomes <- Reasons \ {"none", "InProgress"},
            object <- IF obj = NoObj THEN NoObj
                      ELSE [gen |-> obj.gen, spec |-> obj.spec, reason |-> obj.reason, obs |-> obj.obs]

ImplementsNodeObject == Seen!ObjectSpec

=============================================================================
