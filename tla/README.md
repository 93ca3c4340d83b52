# TLA+ development of the OpenShift operators for Intel N3000 and SRIOV-FEC devices

The repository holds two Kubernetes operators. The user writes one *cluster
object* per operator; the operator's controller turns it into one *node object*
per node; a privileged daemon on each node takes the node out of service,
programs or configures its devices, puts it back into service and writes the
outcome to the node object's status. Before that, each operator deploys the
labeler, the drivers and the daemons. The modules in this directory model
the start and that path from the cluster object to the devices. TLC checks them
on small instances, and TLAPS proves every invariant and every action property of
these runs, refinements included, for all instances; the liveness properties are
left to TLC.

    user --> cluster object --> cluster controller --> node objects --> daemon --> devices
                                                                         |  ^
                                              drainhelper: Lease, cordon, |  | result
                                              drain, work, uncordon       v  |
                                                    Lease object shared by all daemons

## Inventory

| part | source | state | operations | interacts with |
|---|---|---|---|---|
| drainhelper | `common/pkg/drainhelper` | Lease, `Unschedulable` of the node, the context and `innerErr` of a Run | `Run`, `cordonAndDrain`, `uncordon`, the deferred release | called by both daemons; all daemons of a cluster meet at the Lease |
| sriov-fec daemon: reconciler | `sriov-fec/pkg/daemon/daemon.go`, `cmd/daemon/main.go` | node object and its cached copy, work queue, resync timer | `Reconcile`, `updateStatus`, `CreateEmptyNodeConfigIfNeeded`, `restartDevicePlugin` | node object, drainhelper, device configuration |
| sriov-fec daemon: devices | `node_management.go`, `bbdevconfig.go`, `inventory.go` | drivers and VFs of the physical functions, queue configuration | `applyConfig` and its helpers, `getSriovInventory` | called by the reconciler's worker |
| sriov-fec daemon: kernel | `kernel_management.go` | kernel arguments of the next boot | `isAnyKernelParamsMissing`, `addMissingKernelParams` | called by the worker; `rebootNode` follows |
| cluster controllers | `sriov-fec/controllers`, `N3000/controllers` | cluster object's status, the node objects | `Reconcile`: render, remove old, create or update, status | user, daemons (which write the same node objects) |
| N3000 daemon: reconciler | `N3000/pkg/daemon/daemon.go` | node object and its cached copy, `flashErr` and `err` shared with the worker | `Reconcile`, `updateStatus`, the event filter | node object, drainhelper, both managers |
| N3000 daemon: FPGA | `fpgamanager.go`, `common.go` | image files in the work directory, flash memory and running image of each card | `verifyPreconditions`, `ProgramFPGAs` | called before and inside the worker |
| N3000 daemon: Fortville | `fortvillemanager.go`, `deviceupdate.go` | downloaded package, NVM and running firmware of each NIC | `verifyPreconditions`, `flash`, `flashMac`, `powerCycle` | likewise |
| asset manager, start-up | `common/pkg/assets`, `main.go` of each operator | deployed objects, step of the start | `Load`, `Deploy`, `createOrUpdate`, `waitUntilReady` | runs before the controllers; the two operators write the same labeler |
| accelerator discovery | `labeler` | one label of the node | read, modify, write | its label decides where the other DaemonSets run, for which kernel the driver is built and which nodes the controllers consider |
| exporter | `prometheus_fpgainfo_exporter` | none | scrape | none |

What makes the code hard:

* every `Reconcile` works on a cached copy that may be old, writes with that
  copy's version, and waits for hours inside `drainhelper.Run` in between;
* a lost lease makes `Run` return while its callback goes on in its own
  goroutine, with the daemon's variables and files;
* crashes and reboots at any step, some of them part of the procedure;
* events are filtered by generation, deletions and creations included;
* commands, downloads and requests fail in the middle of a loop over devices or
  nodes, and most errors are only logged;
* the inventory, which decides whether there is anything to do, does not show
  all of a device's configuration;
* two operators deploy and own the same object, and an operator that does not
  succeed in time starts again from the beginning.

What has to be right, per part: *drainhelper*: one node at a time, on a drained
and cordoned node, an honest result, a schedulable node afterwards, nobody
waits for ever. *Daemons*: "Succeeded" is true, every generation gets an outcome,
a late outcome does not replace that of a later generation, the devices end up
as asked. *Cluster controllers*: at rest the node objects are what the cluster
object asks for and the status says so. *Start*: an operator whose controllers
run has deployed what it needs, one that can start does, the labels follow the
hardware and nothing else of the node object is lost.

## Modules

| module | models |
|---|---|
| `DrainHelper` | `Run` on every node, client-go's election, the Lease, the API requests and eviction attempts |
| `DrainMutex` | what `Run` promises: an abstract mutual exclusion service; `DrainHelper` implements it |
| `DeviceConfig` | a sriov-fec node's devices and the steps of `applyConfig` as operators on them |
| `NodeConfig` | the sriov-fec daemon of one node |
| `N3000Node` | the N3000 daemon of one node with FPGA programming and NIC flashing |
| `NodeObject` | what the readers of a node object may rely on: an abstract object; `NodeConfig` and `N3000Node` implement it |
| `ClusterConfig` | either cluster controller (`kind` tells them apart) with user, daemons, labels and informers |
| `OperatorStartup` | both operators' start, the DaemonSets they deploy, the labelers |
| `MC*` | the instances that TLC checks |
| `DrainHelperProofs` | theorems: election, mutual exclusion, result, cordon, reboot, refinement |
| `NodeConfigProofs`, `NodeConfigSuccessProofs` | theorems about the sriov-fec daemon; the second that "Succeeded" is true |
| `N3000NodeProofs`, `N3000NodeSuccessProofs` | likewise about the N3000 daemon |
| `ClusterConfigProofs` | theorems about the controllers |
| `OperatorStartupProofs` | theorems about the start and the labels |

**DrainHelper.** `main[d]` is where the goroutine that called `Run` is:
`acquire` and `renew` are inside `le.Run`, `release` and `update` are the two
requests of the deferred function. `pc[d][s]` is the callback's goroutine. It
has a slot of its own because it may outlive its `Run`; `cur[d]` is the slot of
the latest one. `cancelled`, `failed` and `worked` stand for the context,
`innerErr` and whether `f` has returned; `copy` is the in-memory node object
that `cordonAndDrain` and `uncordon` share between attempts; `leaseRead` is the
set of daemons whose copy of the Lease is still the latest version. Each API
request is one action and may fail (`api`), be applied only to the local copy
(`patch`), and each retry loop is bounded by `MaxAttempts`. An elector takes the
Lease if it is free, its own, or expired; it expires when the holder is neither
renewing nor releasing, unless the holder's process stalls (`stall`).

**NodeConfig.** `obj` is the node object, `cache` the informer's copy, `nc`
`Reconcile`'s local copy; `cacheCurrent` and `ncCurrent` tell whether a copy has
the latest version, `sameObj` whether a deletion is still to be delivered. `pc`
is `Reconcile`'s position at its blocking points, `wpc[s]` that of the worker
function, in slots for the same reason as above. `dev` are the devices and
`inventory` what `getSriovInventory` shows of them: two configurations that differ
only in their queues have the same inventory. The worker compares `cmdline` with
the kernel parameters, adds the missing ones to `kargs` (one by one on RHCOS, at
once with grubby, not at all elsewhere) and asks for a reboot, or goes through the
list of its request: `wi[s]` is the position, `had[s]` the devices that had VFs
when `applyConfig` read the inventory, and each device is rebound, gets its VFs, has
them bound, and is set up. A request that cannot be carried out ends the worker
at the step where the code finds out; a failing command leaves the device as it was
or halfway (`Halfway`). A boot leaves every device `Bare`.
`drainhelper.Run` appears through
what it does to its caller: it lets the worker in (`Lead`, `Drained`), fails
(`DrainFails`), is left early (`LoseLease`), or returns.

**N3000Node.** As above, without resync and with the event filter in two steps:
the informer replaces its copy (`Deliver`), the handler queues the key later
(`HandleEvent`). `files` are the downloaded images, named by position in the
list; `flash` and `running` an image in a card's memory and the one in use;
`nvm` and `active` likewise for a NIC, with the number of updates left; `bmcs`
the cards to be power-cycled; `flashErr` which manager has failed. The worker
loops over cards and NICs one device per step.

**NodeObject.** One variable, the object's generation, spec, reason and observed
generation. Its actions are all a reader can see: creation, a change of the spec,
removal, the beginning of an attempt, an outcome. `DaemonCreates` and
`DaemonTouches` of `ClusterConfig` are these actions as the controller sees them.

**ClusterConfig.** `cr`, `objs` and `sync` are the cluster object, the node
objects and the status; `cache` and `current` the controller's view of the node
objects. `local` tells whether `Reconcile`'s local cluster object is the latest
version, `list` is the list in it and `pos` the position of the next node config to be
written; `doomed` is what is still to be deleted. `NodeHasAccelerator` is asked when
an entry's turn comes, of the labels read at the beginning, which is what rendering
all entries beforehand comes to. A conflict is a write with a copy that is not current.
`labelled` are the nodes with the label, `read` those that had it when the latest
attempt began. Only the cluster object is watched, but the informer hands it over
again every ten hours (`Resync`).

**OperatorStartup.** `Program[op]` is the sequence of an operator's steps: put an
object, wait for it, look up a kernel; `at[op]` is where it is, and at the end the
controllers run. `held` is what it has read of the object it is to put, `polls`
how often its wait has looked. An error is `Exit`: back to the first step. `object`
is who wrote a DaemonSet last and for which kernel, `allUp` whether its status
says that no pod is unavailable, which a new one does as well, `ready` the nodes with
a pod of it. `copy[n]` is a labeler between its read and its write. When an
operator is uninstalled the garbage collector removes what it owns.

## Runs

All instances are in the `MC` modules; no cfg replaces a definition.

| run | checks | shows |
|---|---|---|
| `drain_safety` | TypeOK LeaderWhileBusy OneNodeAtATime OkMeansWorked RebootKeepsLease ImplementsMutex | two nodes, Runs with and without drain, failing requests and evictions: only the leader touches its node, one at a time; nil means `f` has returned; a requested reboot happens under the leadership; `Run` implements `DrainMutex` |
| `drain_takeover` | WorkOnCordonedNode OkMeansSchedulable RunReturns ImplementsFairMutex | crashes at any step as well: `f` runs on a cordoned node, after nil the node is schedulable, others take over from a dead holder, nobody waits for ever |
| `drain_orphans` | OrphansAreCancelled | every fault at once, two callbacks per daemon, a rejected lease configuration: a callback that outlives its Run has a cancelled context |
| `drain_lost_lease` | OneNodeAtATime, violated | see findings |
| `nodeconfig_safety` | TypeOK SucceededIsTrue QuietMeansHandled ObservedNeverFalls ImplementsNodeObject | any two of eight kinds of faults, worker slots for an orphan, `drainSkip`, steps of `applyConfig` that fail halfway, a reboot for kernel parameters |
| `nodeconfig_liveness` | ConvergesUndisturbed InProgressEnds | eight lists of requests, right and wrong (see below), the other two operating systems, one fault of any kind (a deletion is one): after a deletion, a crash or a lag, or with no fault, what can be configured is and what cannot is "Failed"; no fault leaves "InProgress" for ever, but for a lost outcome of a failed attempt or an empty list (`OutcomeLost`) |
| `nodeconfig_inventory_error` | Converges, violated | see findings |
| `n3000node_safety` | TypeOK HonestSuccess FilesAreIntact QuietMeansHandled ImplementsNodeObject | any two of ten kinds of faults, two requests that share a card and a file, one of them with `drainSkip` |
| `n3000node_liveness` | Converges | right and wrong requests (unknown card or NIC, missing URL, dry run), deletion as the only fault: the object comes to tell what becomes of such a request |
| `n3000node_power_cycle` | SucceededIsTrue, violated | see findings |
| `cluster` | TypeOK RequestedAreSynced OldAreRemoved AttemptsEndHonestly Converges | both controllers, stale caches, refused requests, restarts, labels that change, a list that names a node twice |
| `startup` | TypeOK RunningIsDeployed LabelsAreRight ForeignIsKept OperatorsStart LabelsConverge | both operators with a shared labeler: conflicts, time-outs and restarts, uninstalling, nodes written by others or rebooted with other hardware or kernels |

Several properties name in their premise the faults they do not survive
(`Without({...})`, over the sequence `faults` of what has happened): all faults
occur in one run, and the property says exactly what it needs. The premises are
not conservative: with any of the named kinds TLC finds a violation, listed
below under "Known limits of the code". `InProgressEnds` names two exceptions
instead: a second fault (`Len(faults) > 1`; which pairs break it is listed there), and
`OutcomeLost`, the one case in which a single fault does leave "InProgress" for ever.

**Bounds.** Two daemons are enough for the election, where all conflicts are between
a holder and one other; the theorems lift this to any number. Two slots allow one
orphan next to the current callback. `MaxAttempts` 2 or 3 allows a retry after each
kind of failure. `MaxWrites` 2 (3 for the controllers) gives a change during a
`Reconcile` and one after it; with a deletion also a recreation. `MaxFaults` 2 gives
the second fault during the handling of the first. Two configurations with the same
inventory are what makes the generation in `UpToDate` matter. The eight lists are
two that differ in queues, a device named twice, two devices, too many queue groups
(neither generation alone has too many), an unknown device after a known one, more
VFs than the device has, and queues for a device whose ID has no name for
`pf_bb_config`. Three nodes for the controllers: two with accelerator, one without;
labels change once per fault; two lists, of which one names both nodes and the one
without, and the other one node twice, so that a change from one to the other
removes a node (a list without entries removes the other in the same way). For the
start, two nodes, one with a card at first, either of which is rebooted or written
to; two kernels; two looks per wait. The sriov-fec daemon's safety run has
`grubby`'s operating system, the liveness run the one with `rpm-ostree` and an
unknown one. The safety runs of the two daemons take the worker slots as
interchangeable (`SlotSymmetry`); the liveness runs do not. Two cards with one NIC
each, two updates per NIC as in `flashMac`.

**Deadlock.** The daemons' and controllers' runs set `CHECK_DEADLOCK FALSE`:
these systems come to rest when the user stops writing. `DrainHelper` never
stops and is checked for deadlock.

**Fairness.** Weak fairness of the steps of a goroutine that needs nobody else
(the Go scheduler, and commands and requests that end), of the informer's
deliveries, of the work queue, of the resync timer and of a requested reboot.
The informer of the cluster controllers resynchronizes again and again
(controller-runtime's `SyncPeriod`, ten hours). In `OperatorStartup` each DaemonSet's
roll-out is fair on its own: it goes on however often another is changed. That is
needed: with fairness of the cluster as a whole only, the two operators can time
out in turn for ever, each rewriting the labeler while the other waits for it.
Strong fairness of `Acquire`: electors poll with a jittered period, so one that
finds the Lease free again and again gets it. Nothing is assumed of users, of
the cluster controller as seen by a daemon, of renewals and of faults. In
`NodeConfig` and `N3000Node` fairness of the worker's admission rests on what
`drain_takeover` shows of `Run`.

## Theorems

Every theorem holds for all values of the constants that the modules' `ASSUME`s
allow: any number of daemons, nodes, devices, worker slots, writes and faults, any
requests. The proofs of a module start from its type invariant in inductive form
(`TypeInvariance`), which names what the copies, positions and slots have to
do with each other. Each of the strengthened invariants was checked by TLC before it
was proved.

| property | theorem | module |
|---|---|---|
| LeaderWhileBusy, OneNodeAtATime, OkMeansWorked, OrphansAreCancelled | LeaderTheorem, MutualExclusion, OkMeansWorkedTheorem, OrphansCancelled | `DrainHelperProofs` |
| RebootKeepsLease, WorkOnCordonedNode, OkMeansSchedulable | RebootKeepsLeaseTheorem, WorkOnCordonedNodeTheorem, OkMeansSchedulableTheorem | `DrainHelperProofs` |
| ImplementsMutex | Refinement | `DrainHelperProofs` |
| ObservedNeverFalls, QuietMeansHandled, ImplementsNodeObject | OutcomesStayRecent, NoEventIsLost, NodeObjectImplemented | `NodeConfigProofs` |
| SucceededIsTrue | SuccessIsHonest | `NodeConfigSuccessProofs` |
| FilesAreIntact, QuietMeansHandled, ImplementsNodeObject | FilesStayIntact, NoEventIsLost, NodeObjectImplemented | `N3000NodeProofs` |
| HonestSuccess | SuccessIsHonest | `N3000NodeSuccessProofs` |
| RequestedAreSynced, OldAreRemoved, AttemptsEndHonestly | ListedNodesAreSynced, UnlistedNodesArePlain, StatusIsHonest | `ClusterConfigProofs` |
| RunningIsDeployed, LabelsAreRight, ForeignIsKept | RunningHasDeployed, LabelsStayRight, ForeignLabelsAreKept | `OperatorStartupProofs` |
| TypeOK | TypeCorrect | each but the two success modules |

**Assumptions of theorems.** All of `DrainHelperProofs` but `TypeCorrect` and
`OrphansCancelled` assume `Reliable`: no failed renewal, no stalled process, no
rejected lease configuration, one daemon per node; crashes, reboots, failing
requests, drainSkip are included. `RebootKeepsLeaseTheorem` further excludes
crashes, the two on the cordon the fault `patch`. `SuccessIsHonest` of the N3000 daemon
assumes `Updates <= 2`: `flashMac` makes at most two updates, and a NIC that needs
a third is left behind. The other theorems assume nothing but the modules' `ASSUME`s;
the faults that a property does not survive are in its own premise (`Without`), and
so are the lists that name a device twice (see "Known limits"). The `ASSUME`
that an operator looks up no kernel after it has put its driver is what both `main`
functions do (sriov-fec has no driver of its own); without it a restart could find
the driver of another kernel as its own.

**DrainHelper.** `OneNodeAtATime` is not inductive: nothing in it prevents a daemon
from clearing a Lease that it does not hold. `ElectionInv` adds what the code relies
on: whoever renews or is about to release holds the Lease, so at most one daemon is
in these states; a callback runs only while its own Run renews, with a live context,
in the current slot. Every action then either leaves the Lease alone or is taken by
its holder, or by an elector that finds it free, which by the invariant means that
no callback runs. `OrphansCancelled` needs only that a callback with a live context
sits in the current slot, and that the Run of that slot renews. `OutcomeInv` adds
what is known of a finished callback (it has worked or failed), from which
`OkMeansWorked` follows because a Run without lost renewals ends only through its
callback's cancellation. `RebootInv`: while a reboot is due, the Run of that node's
daemon renews with a live context and an ended callback, so no step ends it.
`CordonInv` relates a callback's position to the cordon and to its in-memory node:
from the drain to the uncordon the node is cordoned and both agree, and a context
cancelled without an error means that the node has been uncordoned; that no other
daemon changes a node's cordon comes from one daemon per node. The refinement maps
`waiting` to the daemons in `acquire` and `inside` to those with a callback; each
action becomes Request, Enter, Leave, GiveUp or a stutter, and only Enter needs the
invariant.

**Node daemons.** The core of both is in `ApiInv`: a copy that is current equals the
object, and a status write is accepted only from such a copy, so an outcome is one
of the present generation. `ImplementsNodeObject` and `ObservedNeverFalls` follow.
`QuietMeansHandled` needs `HandledInv`: a generation that the informer has delivered
is handled, or an event, a queued key, a due reboot or a Reconcile with a current
copy takes care of it; the daemon's own writes are ahead of the cache only in the
last case or when the generation is handled (the filter hides them); and
"InProgress" stands only while that Reconcile works. For sriov-fec it also takes
that an object read before a reboot cannot look up to date to the check after it
(`BareInv`). "Succeeded" is true by `SuccessInv`: at each state of the worker, what
the devices have so far of its request (`Progress`: for sriov-fec a prefix of the
list as later entries have left it; for N3000 the cards booted and the NICs flashed
and marked for the power cycle); a Reconcile that can write works on the spec that
the cache and the object have; and once the object says "Succeeded", whatever still
runs or is started from an old copy repeats the same request, which leaves the
devices as they are or, for sriov-fec, makes a difference that the resync sees.
`FilesInv` says which of the downloaded files are those of the current request,
position by position.

**ClusterConfig.** `LocalInv`: a Reconcile works on the latest list unless a newer
one is still to be delivered or handled. `SyncInv`: while it goes through the list,
every entry before `pos` that no later one before `pos` overrides has been written,
and what is not listed is removed or doomed; it survives the daemons, which create
objects only where there is none and touch only statuses. `RestInv` says the same of
the whole list at rest, with the status.

**OperatorStartup.** `DeployedInv`: each DaemonSet an operator has put so far is as
it wants it, or is there and shared, unless an operator has been uninstalled. What
others have written to a node is kept because a write back is accepted only from a
copy of the present version, which has it (`CopyInv`). `LabelsAreRight` is inductive
with the types: where the labeler's pod comes up it has just stored the label, and
whatever changes card or label takes the pod down or is the labeler itself.

**Only model-checked:** `RunReturns`, `ImplementsFairMutex`, `ConvergesUndisturbed`,
`InProgressEnds`, both `Converges`, `OperatorsStart` and `LabelsConverge`. They are
liveness properties under fairness, which are out of the prover's reach.

## Findings

Each is shown by a run that is expected to fail.

* `drain_lost_lease`: after a lost renewal `Run` returns and another node is
  taken out of service while the callback of the first is still at work.
* `nodeconfig_inventory_error`: one failed reading of the inventory writes
  "Failed" with the current generation; the retry takes that for done.
* `n3000node_power_cycle`: a failed power cycle is logged and nil returned, so
  the outcome is "Succeeded" while the NIC runs the old firmware.

### Known limits of the code

Met while modelling, and the reason for an assumption or a premise:

* with `drainSkip`, `Run` never returns and keeps the Lease (`RunReturns` is checked
  with `DrainModes = {TRUE}`);
* a rejected lease configuration clears the Lease of its holder; the daemons of the
  two operators on one node share Lease and identity (both outside `Reliable`);
* a failed uncordon patch is taken for done by the next attempt (fault `patch`);
* after a lost lease `Run` returns nil before `f` has, a pending reboot loses the
  leadership, and an N3000 worker may program a card from a file that a later
  request has replaced (fault `lease`);
* sriov-fec: devices that drift between the worker's end and the status write become
  the inventory to compare with (fault `drift`); a resync that finds an old copy
  configures again a node that is configured, and a failure of that attempt is not
  reported because its status conflicts (fault `lag`); a resync that expires during
  `Run` may lead to a needless second configuration without a lag; a second attempt
  made from a cached object that has no condition yet writes no "InProgress", and
  when it fails its status conflicts, so that of a list that asks a device for two
  different queue configurations the first may stay under "Succeeded"
  (`SucceededIsTrue` excludes such lists, `QueuesAgree`); the devices of a deleted
  object, and those no longer listed, stay configured, although a comment of the
  controller (`sriovfecclusterconfig_controller.go:246`) expects daemons to
  deconfigure them;
* sriov-fec leaves "InProgress" for ever in these cases, which `InProgressEnds`
  excludes. One fault is enough when the final status write of an attempt that has
  failed (a refused request, say), or the write of "NotRequested", fails itself: the
  error is logged (`daemon.go:53-55`) and Reconcile returns neither an error nor
  RequeueAfter (lines 174, 245, 251). Two faults are needed where an attempt is
  repeated for a generation that has an outcome already: "InProgress" then carries
  that generation, and is taken for an outcome once the attempt is interrupted by a
  crash, or its "Succeeded" could not be written, while the inventory is as stored
  (found for two crashes, drift and a crash, two faults `inventory`, and `lease` with
  `inventory`);
* N3000: after a crash while the status carries the current generation the object is
  ignored (`QuietMeansHandled` excludes crashes and failed status writes); a NIC
  that vanishes between check and flash is passed over, a truncated result file is
  taken for a complete one (faults `gone`, `xml`); a card that runs the requested
  image is programmed again, and a second attempt from a cached object without a
  condition does so while the status says "Succeeded", so that a list that names a
  card with two images has the first one running meanwhile (`HonestSuccess` excludes
  such lists, `ImagesAgree`);
* cluster controllers: a node object that the cache does not show is not deleted,
  and a changed label not noticed, before the next resynchronization
  (`OldAreRemoved` excludes `lag`); the N3000 controller never writes a failure to
  its status (`AttemptsEndHonestly` is stated for sriov-fec); a list that names a
  node twice rewrites that node's object twice in every attempt; status writes and
  the daemons' recreation of deleted objects trigger each other;
* start: `waitUntilReady` is satisfied by a DaemonSet that has just been created,
  whose status is still empty, so what follows may be deployed before the driver is
  up, while the release notes (`spec/openshift-operator-release-notes.md:88`) speak
  of confirmed driver initialization; the driver is for the kernel of the first
  labelled node, as of the operator's start; uninstalling the operator that wrote
  the shared labeler last takes it from the other.

## Not modelled

* Cluster objects of other names: they only get the status "Ignored".
* The single VFs of a device (they are bound to their driver in one step), the
  contents of queue configuration files beyond the queue groups, the matching
  of PCI identifiers and of substrings of the kernel command line.
* The parsing of `fpgainfo`, `fpgadiag`, `ethtool`, `lspci` and `update.xml`,
  temperatures and checksums: a command or check that fails, or a result that is
  misread.
* Asset templates, and assets' objects without a status, which are deployed like
  the others and waited for by nobody. Flags and manager set-up.
* The exporter: pure input and output. Manifests, images, scripts, generated
  code: data.

## Plan

1. `SriovNodes`: several `NodeConfig` daemons with `DrainHelper` instead of the
   steps that stand for it, so that the premises about `lease` come from the
   election, and the theorem that each of them still implements its `NodeObject`.
2. Lemmas on the operators of `DeviceConfig` on their own: a list with one request
   per device, carried out without failures, makes `AsAsked` true, and carried out
   again changes nothing that the inventory shows.
3. That `DaemonCreates` and `DaemonTouches` of `ClusterConfig` are the steps of
   `NodeObject` that the daemons can take, as a refinement of the pair.
