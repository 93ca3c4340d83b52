------------------------ MODULE NodeConfigSuccessProofs ------------------------
(***************************************************************************)
(* "Succeeded" is true: the theorem about NodeConfig that relates what the *)
(* object says to what the devices are, for every number of devices, every *)
(* list of requests, every number of writes and faults.                    *)
(***************************************************************************)
EXTENDS NodeConfigProofs

-----------------------------------------------------------------------------
(* What a list asks for, in the inventory and beyond it.                    *)

\* The list's last request for its device.
Last(R, i) == \A j \in DOMAIN R : j > i => R[j].pf # R[i].pf

\* The list's last request that configures the queues of its device.
LastQueues(R, i) ==
    /\ QueuesOf(R[i]) # Nil
    /\ \A j \in DOMAIN R : j > i /\ R[j].pf = R[i].pf => QueuesOf(R[j]) = Nil

\* What an inventory shows of the list.
AskedShown(inv, R) ==
    \A i \in DOMAIN R :
        /\ R[i].pf \in PFs
        /\ Last(R, i) =>
              /\ inv[R[i].pf].driver = R[i].pfDriver
              /\ inv[R[i].pf].vfs.count = R[i].vfAmount
              /\ inv[R[i].pf].vfs.count > 0 => inv[R[i].pf].vfs.driver = R[i].vfDriver

\* What it does not show.
AskedHidden(devices, R) ==
    \A i \in DOMAIN R :
        /\ Last(R, i) /\ R[i].pfDriver \in StubDrivers => devices[R[i].pf].bus
        /\ LastQueues(R, i) => devices[R[i].pf].queues = QueuesOf(R[i])

LEMMA AsAskedSplit ==
  ASSUME NEW R, NEW devices, AskedShown(InventoryOf(devices), R), AskedHidden(devices, R)
  PROVE  AsAsked(devices, R)
  <1> SUFFICES ASSUME NEW i \in DOMAIN R
               PROVE  LET later == {j \in DOMAIN R : j > i /\ R[j].pf = R[i].pf}
                          device == devices[R[i].pf]
                      IN  /\ R[i].pf \in PFs
                          /\ later = {} =>
                                /\ device.driver = R[i].pfDriver
                                /\ device.vfs.count = R[i].vfAmount
                                /\ device.vfs.count > 0 => device.vfs.driver = R[i].vfDriver
                                /\ R[i].pfDriver \in StubDrivers => device.bus
                          /\ QueuesOf(R[i]) # Nil /\ (\A j \in later : QueuesOf(R[j]) = Nil) =>
                                device.queues = QueuesOf(R[i])
    BY DEF AsAsked
  <1> DEFINE later == {j \in DOMAIN R : j > i /\ R[j].pf = R[i].pf}
  <1>1. R[i].pf \in PFs
    BY DEF AskedShown
  <1>2. later = {} => Last(R, i)
    BY DEF Last
  <1>3. QueuesOf(R[i]) # Nil /\ (\A j \in later : QueuesOf(R[j]) = Nil) => LastQueues(R, i)
    BY DEF LastQueues
  <1>4. /\ InventoryOf(devices)[R[i].pf].driver = devices[R[i].pf].driver
        /\ InventoryOf(devices)[R[i].pf].vfs = devices[R[i].pf].vfs
    BY <1>1 DEF InventoryOf
  <1> QED
    BY <1>1, <1>2, <1>3, <1>4 DEF AskedShown, AskedHidden

-----------------------------------------------------------------------------
(* The requests that a worker has carried out.                              *)

\* A device is as a request asks, its queues left aside.
ConfiguredFor(device, r) ==
    /\ device.driver = r.pfDriver
    /\ device.vfs.count = r.vfAmount
    /\ device.vfs.count > 0 => device.vfs.driver = r.vfDriver
    /\ r.pfDriver \in StubDrivers => device.bus

\* The first k requests have been carried out, but for the devices in S, on
\* which work goes on.
Prefix(devices, R, k, S) ==
    \A i \in 1..k :
        /\ R[i].pf \in PFs
        /\ R[i].pf \notin S /\ (\A j \in 1..k : j > i => R[j].pf # R[i].pf) =>
              ConfiguredFor(devices[R[i].pf], R[i])
        /\ QueuesOf(R[i]) # Nil
           /\ (\A j \in 1..k : j > i /\ R[j].pf = R[i].pf => QueuesOf(R[j]) = Nil) =>
              devices[R[i].pf].queues = QueuesOf(R[i])

\* Once all have been carried out the devices are as asked.
LEMMA PrefixOfAll ==
  ASSUME NEW R \in Seq(Request), NEW devices, Prefix(devices, R, Len(R), {})
  PROVE  AskedShown(InventoryOf(devices), R) /\ AskedHidden(devices, R)
  <1>1. DOMAIN R = 1..Len(R)
    BY LenProperties
  <1>2. ASSUME NEW i \in DOMAIN R
        PROVE  /\ R[i].pf \in PFs
               /\ Last(R, i) => ConfiguredFor(devices[R[i].pf], R[i])
               /\ LastQueues(R, i) => devices[R[i].pf].queues = QueuesOf(R[i])
    BY <1>1 DEF Prefix, Last, LastQueues
  <1>3. ASSUME NEW i \in DOMAIN R
        PROVE  /\ InventoryOf(devices)[R[i].pf].driver = devices[R[i].pf].driver
               /\ InventoryOf(devices)[R[i].pf].vfs = devices[R[i].pf].vfs
    BY <1>2 DEF InventoryOf
  <1> QED
    BY <1>2, <1>3 DEF AskedShown, AskedHidden, ConfiguredFor

\* Work on a device that leaves its queues alone disturbs no other request.
LEMMA PrefixWork ==
  ASSUME NEW devices \in [PFs -> Device], NEW pf \in PFs, NEW device \in Device,
         device.queues = devices[pf].queues, NEW R, NEW k,
         Prefix(devices, R, k, {}) \/ Prefix(devices, R, k, {pf})
  PROVE  Prefix([devices EXCEPT ![pf] = device], R, k, {pf})
  BY DEF Prefix

\* The last step for a request: it is carried out as well.
LEMMA PrefixGrows ==
  ASSUME NEW R \in Seq(Request), NEW i \in 1..Len(R), NEW devices \in [PFs -> Device],
         R[i].pf \in PFs, Prefix(devices, R, i - 1, {R[i].pf}),
         NEW device \in Device, ConfiguredFor(device, R[i]),
         device.queues = IF QueuesOf(R[i]) = Nil THEN devices[R[i].pf].queues ELSE QueuesOf(R[i])
  PROVE  Prefix([devices EXCEPT ![R[i].pf] = device], R, i, {})
  <1> DEFINE new == [devices EXCEPT ![R[i].pf] = device]
  <1>1. i \in Nat /\ Len(R) \in Nat
    BY LenProperties
  <1>2. ASSUME NEW h \in 1..i
        PROVE  /\ R[h].pf \in PFs
               /\ (\A j \in 1..i : j > h => R[j].pf # R[h].pf) => ConfiguredFor(new[R[h].pf], R[h])
               /\ QueuesOf(R[h]) # Nil
                  /\ (\A j \in 1..i : j > h /\ R[j].pf = R[h].pf => QueuesOf(R[j]) = Nil) =>
                     new[R[h].pf].queues = QueuesOf(R[h])
    <2>1. CASE h = i
      BY <2>1
    <2>2. CASE h # i
      <3>1. h \in 1..(i - 1) /\ i > h /\ i \in 1..i
        BY <1>1, <2>2
      <3>2. \A j \in 1..(i - 1) : j \in 1..i
        BY <1>1
      <3>3. CASE R[h].pf = R[i].pf
        BY <3>1, <3>2, <3>3 DEF Prefix
      <3>4. CASE R[h].pf # R[i].pf
        <4>1. R[h].pf \in PFs /\ new[R[h].pf] = devices[R[h].pf]
          BY <3>1, <3>4 DEF Prefix
        <4> QED
          BY <3>1, <3>2, <3>4, <4>1 DEF Prefix
      <3> QED
        BY <3>3, <3>4
    <2> QED
      BY <2>1, <2>2
  <1> QED
    BY <1>2 DEF Prefix

-----------------------------------------------------------------------------
(* The invariant.                                                           *)

\* No fault that leaves a worker without its Reconcile, changes a device behind
\* the daemon's back, or lets a resync see an old object.
NoLag == Without({"lease", "drift", "lag"})

\* Only the worker of the Run that Reconcile waits in is alive.
OneWorker == NoLag => \A s \in Slots : wpc[s] # "none" => s = cur /\ pc = "run"

\* A Reconcile that can write works on what the cache holds, but for the status;
\* its worker applies the configuration it has read.
CopyInv ==
    /\ ncCurrent => Fresh /\ cache.spec = obj.spec
    /\ pc \in {"run", "report"} => wspec[cur] = nc.spec /\ nc.spec \in Specs

\* How far the worker in slot s is, state by state.
Progress(s) ==
    LET R == Requested[wspec[s]]
        r == request(s)
        device == dev[r.pf]
    IN  /\ wpc[s] = "rebind" => Prefix(dev, R, wi[s] - 1, {})
        /\ wpc[s] \in {"create", "bind", "setup"} =>
              r.pf \in PFs /\ Prefix(dev, R, wi[s] - 1, {r.pf}) /\ device.driver = r.pfDriver
        /\ wpc[s] \in {"bind", "setup"} => device.vfs.count = r.vfAmount
        /\ wpc[s] = "setup" /\ device.vfs.count > 0 => device.vfs.driver = r.vfDriver
        /\ wpc[s] = "plugin" \/ (wpc[s] = "done" /\ ~cerr[s]) => Prefix(dev, R, Len(R), {})

ProgressInv ==
    NoLag => /\ \A s \in Slots : Progress(s)
             /\ pc = "report" /\ ~dhErr /\ ~cerr[cur] =>
                   Prefix(dev, Requested[nc.spec], Len(Requested[nc.spec]), {})

\* The object says "Succeeded" of its generation.
SaysSucceeded == obj # NoObj /\ obj.reason = "Succeeded" /\ obj.obs = obj.gen

\* Then it says so of a configuration with the inventory that was asked for,
\* its generation is the cached and the local one, it will be looked at again,
\* and what the inventory does not show is as asked, unless the devices have
\* lost everything and the object as it is now is about to be compared with them.
Backed ==
    /\ obj.spec \in Specs /\ Fresh /\ cache.spec = obj.spec
    /\ AskedShown(obj.inv, Requested[obj.spec])
    /\ pc # "idle" => nc.gen = obj.gen /\ nc.spec = obj.spec
    /\ cacheCurrent \/ timer
    /\ timer \/ queued \/ (pc = "check" /\ ncCurrent)
    /\ QueuesAgree(Requested[obj.spec]) =>
          \/ AskedHidden(dev, Requested[obj.spec])
          \/ /\ inventory # obj.inv /\ cacheCurrent
             /\ (pc = "idle" /\ queued) \/ (pc = "check" /\ ncCurrent)

SucceededInv == NoLag /\ SaysSucceeded => Backed

SuccessInv == OneWorker /\ CopyInv /\ ProgressInv /\ SucceededInv

-----------------------------------------------------------------------------
(* Its first two parts.                                                     *)

\* Faults that the property excludes have not happened before either.
LEMMA NoLagStep ==
  ASSUME TypeInv, Next, NoLag'
  PROVE  NoLag /\ ~Fault("lease") /\ ~Fault("drift") /\ ~Fault("lag")
  BY WithoutStep, WithoutFault DEF NoLag, TypeInv

LEMMA OneWorkerStep ==
  ASSUME TypeInv, OneWorker, Next
  PROVE  OneWorker'
  <1> SUFFICES ASSUME NoLag'
               PROVE  \A s \in Slots : wpc'[s] # "none" => s = cur' /\ pc' = "run"
    BY DEF OneWorker
  <1>0. /\ NoLag /\ ~Fault("lease") /\ ~Fault("drift")
        /\ \A s \in Slots : wpc[s] # "none" => s = cur /\ pc = "run"
        /\ wpc \in [Slots -> WorkerStates] /\ cur \in Slots
    BY NoLagStep DEF OneWorker, TypeInv, WorkerInv
  <1>1. CASE UNCHANGED <<wpc, cur>> /\ (pc = "run" => pc' = "run")
    BY <1>0, <1>1
  <1>2. ASSUME NEW t \in Slots, Worker(t) \/ WorkFails(t)
        PROVE  \A s \in Slots : wpc'[s] # "none" => s = cur' /\ pc' = "run"
    <2>1. UNCHANGED <<pc, cur>>
      BY <1>2, WorkerFrame DEF reconcileVars
    <2>2. wpc[t] # "none" /\ \A s \in Slots : s # t => wpc'[s] = wpc[s]
      BY <1>0, <1>2 DEF Worker, WorkFails, WorkerErrs, WorkerAt, Apply, Lead, Drained,
         MissesKernelParams, GrubbyAddsParams, RpmOstreeAppends, RequestReboot, UnsupportedOS,
         StartApply, RebindPF, CreatePFsVFs, BindPFsVFs, SetUpPF, RequestRefused,
         RestartDevicePlugin, OrphanEnds
    <2> QED
      BY <1>0, <2>1, <2>2
  <1>3. CASE CallRun /\ pc = "check"
    BY <1>0, <1>3 DEF CallRun
  <1>4. CASE RunReturns \/ DrainFails
    BY <1>0, <1>4 DEF RunReturns, DrainFails
  <1>5. CASE Crash \/ Reboot
    BY <1>5 DEF Crash, Reboot, Boot, Restart
  <1>6. ~LoseLease /\ ~Drift
    BY <1>0 DEF LoseLease, Drift
  <1>7. CASE Inform \/ Resync \/ ResyncTooSoon
    BY <1>1, <1>7 DEF Inform, Deliver, DeliverDelete, Resync, ResyncTooSoon, Expire, reconcileVars,
                      workerVars
  <1>8. CASE CreateEmptyNodeConfig \/ Get \/ NothingToDo \/ ReturnEarly \/ Report \/ InventoryFails
    BY <1>1, <1>8 DEF CreateEmptyNodeConfig, Get, NothingToDo, ReturnEarly, Report, InventoryFails,
                      reconcileVars, workerVars
  <1>9. CASE (\E spec \in Specs \cup {NoSpec} : SetSpec(spec)) \/ Delete
    BY <1>1, <1>9 DEF SetSpec, Delete, workerVars
  <1>10. CASE Configure
    BY <1>1, <1>3, <1>10 DEF Configure, workerVars
  <1> QED
    BY <1>2, <1>4, <1>5, <1>6, <1>7, <1>8, <1>9, <1>10 DEF Next, Reconcile

LEMMA CopyInvStep ==
  ASSUME TypeInv, CopyInv, Next
  PROVE  CopyInv'
  <1>0. ApiInv /\ ApiInv' /\ InventoryOf(dev) \in Inventory
    BY ApiInvStep, InventoryType DEF TypeInv, NodeInv
  <1>1. CASE UNCHANGED <<obj, cache, sameObj, wspec>> /\ (ncCurrent' => ncCurrent)
             /\ (pc' \in {"run", "report"} => pc \in {"run", "report"} /\ UNCHANGED <<nc, cur>>)
    BY <1>1 DEF CopyInv, Fresh
  <1>2. ASSUME NEW reason \in Reasons, NEW obs \in 0..(MaxWrites + 1), UpdateStatus(reason, obs),
               UNCHANGED <<cache, sameObj>>
        PROVE  Fresh' /\ cache'.spec = obj'.spec /\ nc'.spec = nc.spec
    BY <1>0, <1>2, UpdateStatusShape DEF CopyInv, Fresh
  <1>3. ASSUME NEW reason \in Reasons, nc # NoObj, UNCHANGED <<cache, sameObj>>, pc' = "idle",
               UpdateCondition(reason) \/ UpdateStatus(reason, nc.gen)
        PROVE  CopyInv'
    <2>1. nc.gen \in 0..(MaxWrites + 1)
      BY <1>0, <1>3 DEF ApiInv, Object
    <2>2. CASE UpdateStatus(reason, nc.gen)
      BY <1>2, <1>3, <2>1, <2>2 DEF CopyInv
    <2>3. CASE UNCHANGED <<obj, nc, ncCurrent>>
      BY <1>3, <2>3 DEF CopyInv, Fresh
    <2> QED
      BY <1>0, <1>3, <2>2, <2>3, UpdateConditionShape
  <1>4. CASE (\E spec \in Specs \cup {NoSpec} : SetSpec(spec)) \/ Delete
    BY <1>4 DEF SetSpec, Delete, CopyInv, workerVars
  <1>5. CASE DeliverDelete
    BY <1>5 DEF DeliverDelete, CopyInv, Fresh, reconcileVars, workerVars
  <1>6. CASE Deliver
    BY <1>0, <1>6 DEF Deliver, CopyInv, Fresh, ApiInv, reconcileVars, workerVars
  <1>7. CASE Resync \/ ResyncTooSoon
    BY <1>1, <1>7 DEF Resync, ResyncTooSoon, Expire, apiVars, reconcileVars, workerVars
  <1>8. CASE CreateEmptyNodeConfig
    BY <1>8 DEF CreateEmptyNodeConfig, CopyInv, Fresh, reconcileVars, workerVars
  <1>9. CASE Get
    BY <1>0, <1>9 DEF Get, CopyInv, Fresh, ApiInv, apiVars
  <1>10. CASE NothingToDo
    <2>1. nc # NoObj /\ "NotRequested" \in Reasons
      BY <1>0, <1>10 DEF NothingToDo, ApiInv, Reasons
    <2> QED
      BY <1>3, <1>10, <2>1 DEF NothingToDo
  <1>11. CASE ReturnEarly
    BY <1>1, <1>11 DEF ReturnEarly, apiVars, workerVars
  <1>12. CASE Configure
    <2>1. nc \in Object /\ nc.spec \in Specs /\ UNCHANGED <<cache, sameObj>>
      BY <1>0, <1>12 DEF Configure, ApiInv, Object
    <2>2. CASE CallRun
      <3>1. pc' = "run" /\ wspec'[cur'] = nc.spec
        BY <2>2 DEF CallRun, TypeInv, WorkerInv
      <3>2. CASE UNCHANGED <<obj, nc, ncCurrent>>
        BY <2>1, <3>1, <3>2 DEF CopyInv, Fresh
      <3>3. CASE UpdateStatus("InProgress", nc.obs)
        <4>1. "InProgress" \in Reasons /\ nc.obs \in 0..(MaxWrites + 1)
          BY <2>1 DEF Object, Reasons
        <4> QED
          BY <1>2, <2>1, <3>1, <3>3, <4>1 DEF CopyInv
      <3> QED
        BY <1>12, <2>2, <3>1, <3>2, <3>3 DEF Configure
    <2>3. CASE pc' = "idle" /\ UNCHANGED <<obj, ncCurrent>>
      BY <2>1, <2>3 DEF CopyInv, Fresh
    <2> QED
      BY <1>12, <2>2, <2>3 DEF Configure, StatusConflict, StatusFails
  <1>13. CASE RunReturns \/ DrainFails \/ LoseLease
    BY <1>1, <1>13 DEF RunReturns, DrainFails, LoseLease, apiVars, workerVars
  <1>14. CASE Report
    <2>1. nc # NoObj /\ {"Unknown", "Failed", "Succeeded"} \subseteq Reasons
      BY <1>0, <1>14 DEF Report, ApiInv, Reasons
    <2>2. UNCHANGED <<cache, sameObj>> /\ pc' = "idle"
      BY <1>14 DEF Report
    <2>3. CASE UNCHANGED <<obj, nc, ncCurrent>>
      BY <2>2, <2>3 DEF CopyInv, Fresh
    <2> QED
      BY <1>3, <1>14, <2>1, <2>2, <2>3 DEF Report
  <1>15. CASE InventoryFails
    <2>1. nc # NoObj /\ "Failed" \in Reasons
      BY <1>0, <1>15 DEF InventoryFails, ApiInv, Reasons
    <2>2. CASE UNCHANGED <<obj, nc, ncCurrent>>
      BY <1>15, <2>2 DEF InventoryFails, CopyInv, Fresh
    <2> QED
      BY <1>3, <1>15, <2>1, <2>2 DEF InventoryFails
  <1>16. ASSUME NEW s \in Slots, Worker(s) \/ WorkFails(s)
         PROVE  CopyInv'
    BY <1>1, <1>16, WorkerFrame DEF apiVars, reconcileVars
  <1>17. CASE Crash \/ Reboot
    BY <1>17 DEF Crash, Reboot, Boot, Restart, CopyInv
  <1>18. CASE Drift
    BY <1>1, <1>18 DEF Drift, apiVars, reconcileVars, workerVars
  <1> QED
    BY <1>4, <1>5, <1>6, <1>7, <1>8, <1>9, <1>10, <1>11, <1>12, <1>13, <1>14, <1>15, <1>16,
       <1>17, <1>18 DEF Next, Reconcile, Inform

-----------------------------------------------------------------------------
(* How far a worker is.                                                     *)

\* What each step for a request achieves, and that it keeps what the steps
\* before it have achieved.
LEMMA RebindDoes ==
  ASSUME NEW device \in Device, NEW r \in Request, NEW hadVFs \in BOOLEAN
  PROVE  /\ Rebind(device, r, hadVFs).driver = r.pfDriver
         /\ Rebind(device, r, hadVFs).queues = device.queues
  BY DEF Rebind, Device

LEMMA CreateVFsDoes ==
  ASSUME NEW device \in Device, NEW r \in Request
  PROVE  /\ CreateVFs(device, r).vfs.count = r.vfAmount
         /\ CreateVFs(device, r).driver = device.driver
         /\ CreateVFs(device, r).queues = device.queues
  BY DEF CreateVFs, Device

LEMMA BindVFsDoes ==
  ASSUME NEW device \in Device, NEW r \in Request
  PROVE  /\ BindVFs(device, r).vfs.count = device.vfs.count
         /\ BindVFs(device, r).vfs.count > 0 => BindVFs(device, r).vfs.driver = r.vfDriver
         /\ BindVFs(device, r).driver = device.driver
         /\ BindVFs(device, r).queues = device.queues
  <1>1. CASE device.vfs.count = 0
    BY <1>1 DEF BindVFs
  <1>2. CASE device.vfs.count # 0
    <2>1. BindVFs(device, r) = [device EXCEPT !.vfs = [device.vfs EXCEPT !.driver = r.vfDriver]]
      BY <1>2 DEF BindVFs
    <2>2. device.vfs \in VFs
      BY DEF Device
    <2> QED
      BY <2>1, <2>2 DEF Device, VFs
  <1> QED
    BY <1>1, <1>2

LEMMA SetUpDoes ==
  ASSUME NEW device \in Device, NEW r \in Request
  PROVE  /\ SetUp(device, r).vfs = device.vfs
         /\ SetUp(device, r).driver = device.driver
         /\ SetUp(device, r).queues = IF QueuesOf(r) = Nil THEN device.queues ELSE QueuesOf(r)
         /\ r.pfDriver \in StubDrivers => SetUp(device, r).bus
  BY DEF SetUp, Device

LEMMA WorkerKeepsProgress ==
  ASSUME TypeInv, NEW s \in Slots, Progress(s), Worker(s) \/ WorkFails(s)
  PROVE  Progress(s)'
  <1> DEFINE R == Requested[wspec[s]]
             i == wi[s]
             r == request(s)
             device == dev[r.pf]
  <1>0. /\ wspec[s] \in Specs /\ UNCHANGED wspec
        /\ R \in Seq(Request) /\ dev \in [PFs -> Device] /\ wpc \in [Slots -> WorkerStates]
        /\ wi \in [Slots -> Nat] /\ cerr \in [Slots -> BOOLEAN]
    <2>1. wpc[s] # "none"
      BY DEF Worker, WorkFails, WorkerErrs, WorkerAt, Apply, Lead, Drained,
         MissesKernelParams, GrubbyAddsParams, RpmOstreeAppends, RequestReboot, UnsupportedOS,
         StartApply, RebindPF, CreatePFsVFs, BindPFsVFs, SetUpPF, RequestRefused,
         RestartDevicePlugin, OrphanEnds
    <2>2. wspec[s] \in Specs
      BY <2>1 DEF TypeInv, WorkerInv
    <2> QED
      BY <2>2, WorkerFrame, NodeConfigAssumption DEF TypeInv, WorkerInv, NodeInv
  <1>1. ASSUME wpc[s] \in Working
        PROVE  /\ r \in Request /\ r = R[i] /\ i \in 1..Len(R)
               /\ r.pf \in PFs => device \in Device
    <2>1. i \in DOMAIN R
      BY <1>1 DEF TypeInv, WorkerInv
    <2> QED
      BY <1>0, <1>1, <2>1, RequestType, LenProperties DEF request, TypeInv
  <1>2. CASE wpc'[s] \in {"none", "wait", "drain", "check", "params", "parked"}
    BY <1>2 DEF Progress
  <1>3. CASE WorkerErrs(s)
    <2>1. wpc'[s] = "done" /\ cerr'[s]
      BY <1>0, <1>3 DEF WorkerErrs
    <2> QED
      BY <2>1 DEF Progress
  <1>4. CASE Lead(s) \/ Drained(s) \/ MissesKernelParams(s) \/ GrubbyAddsParams(s)
             \/ RpmOstreeAppends(s) \/ RequestReboot(s) \/ OrphanEnds(s)
    <2>1. wpc'[s] \in {"none", "wait", "drain", "check", "params", "parked"}
      BY <1>0, <1>4 DEF WorkerAt, Lead, Drained, MissesKernelParams, GrubbyAddsParams,
                        RpmOstreeAppends, RequestReboot, OrphanEnds
    <2> QED
      BY <1>2, <2>1
  <1>5. CASE UnsupportedOS(s) \/ RequestRefused(s) \/ WorkFails(s)
    BY <1>3, <1>5 DEF UnsupportedOS, RequestRefused, WorkFails
  <1>6. CASE StartApply(s)
    <2>1. wpc'[s] = "rebind" /\ wi'[s] = 1
      BY <1>0, <1>6 DEF StartApply, WorkerAt
    <2>2. Prefix(dev', R, wi'[s] - 1, {})
      BY <2>1 DEF Prefix
    <2> QED
      BY <1>0, <2>1, <2>2 DEF Progress
  <1>7. CASE RebindPF(s)
    <2> DEFINE h == r.pf \in had[s]
               new == Rebind(device, r, h)
    <2>1. /\ wpc[s] = "rebind" /\ wpc'[s] = "create" /\ UNCHANGED wi /\ r.pf \in PFs
          /\ dev' = [dev EXCEPT ![r.pf] = new]
      BY <1>0, <1>7 DEF RebindPF, Apply, WorkerAt, applyVars
    <2>2. h \in BOOLEAN /\ r \in Request /\ device \in Device
      BY <1>1, <2>1 DEF Working
    <2>3. new \in Device /\ new.driver = r.pfDriver /\ new.queues = device.queues
      <3> HIDE DEF h, r, device
      <3> QED
        BY <2>2, RebindType, RebindDoes
    <2>4. Prefix(dev, R, i - 1, {})
      BY <2>1 DEF Progress
    <2>5. Prefix(dev', R, i - 1, {r.pf})
      <3> HIDE DEF r, new
      <3> QED
        BY <1>0, <2>1, <2>3, <2>4, PrefixWork
    <2>6. dev'[r.pf] = new
      BY <1>0, <2>1
    <2>7. request(s)' = r
      BY <1>0, <2>1 DEF request
    <2> HIDE DEF r, new
    <2> QED
      BY <1>0, <2>1, <2>3, <2>5, <2>6, <2>7 DEF Progress
  <1>8. CASE CreatePFsVFs(s)
    <2> DEFINE new == CreateVFs(device, r)
    <2>1. /\ wpc[s] = "create" /\ wpc'[s] = "bind" /\ UNCHANGED wi
          /\ dev' = [dev EXCEPT ![r.pf] = new]
          /\ r.vfAmount \in {device.vfs.count} \cup 0..MaxVFs
      BY <1>0, <1>8 DEF CreatePFsVFs, Apply, WorkerAt, applyVars
    <2>2. r.pf \in PFs /\ device.driver = r.pfDriver /\ Prefix(dev, R, i - 1, {r.pf})
      BY <2>1 DEF Progress
    <2>3. r \in Request /\ device \in Device
      BY <1>1, <2>1, <2>2 DEF Working
    <2>4. /\ new \in Device /\ new.driver = device.driver /\ new.queues = device.queues
          /\ new.vfs.count = r.vfAmount
      BY <2>1, <2>3, CreateVFsType, CreateVFsDoes
    <2>5. Prefix(dev', R, i - 1, {r.pf})
      <3> HIDE DEF r, new
      <3> QED
        BY <1>0, <2>1, <2>2, <2>4, PrefixWork
    <2>6. dev'[r.pf] = new
      BY <1>0, <2>1, <2>2
    <2>7. request(s)' = r
      BY <1>0, <2>1 DEF request
    <2> HIDE DEF r, new
    <2> QED
      BY <1>0, <2>1, <2>2, <2>4, <2>5, <2>6, <2>7 DEF Progress
  <1>9. CASE BindPFsVFs(s)
    <2> DEFINE new == BindVFs(device, r)
    <2>1. /\ wpc[s] = "bind" /\ wpc'[s] = "setup" /\ UNCHANGED wi
          /\ dev' = [dev EXCEPT ![r.pf] = new]
      BY <1>0, <1>9 DEF BindPFsVFs, Apply, WorkerAt, applyVars
    <2>2. /\ r.pf \in PFs /\ device.driver = r.pfDriver /\ Prefix(dev, R, i - 1, {r.pf})
          /\ device.vfs.count = r.vfAmount
      BY <2>1 DEF Progress
    <2>3. r \in Request /\ device \in Device
      BY <1>1, <2>1, <2>2 DEF Working
    <2>4. /\ new \in Device /\ new.driver = device.driver /\ new.queues = device.queues
          /\ new.vfs.count = device.vfs.count
          /\ new.vfs.count > 0 => new.vfs.driver = r.vfDriver
      BY <2>1, <2>3, BindVFsType, BindVFsDoes
    <2>5. Prefix(dev', R, i - 1, {r.pf})
      <3> HIDE DEF r, new
      <3> QED
        BY <1>0, <2>1, <2>2, <2>4, PrefixWork
    <2>6. dev'[r.pf] = new
      BY <1>0, <2>1, <2>2
    <2>7. request(s)' = r
      BY <1>0, <2>1 DEF request
    <2> HIDE DEF r, new
    <2> QED
      BY <1>0, <2>1, <2>2, <2>4, <2>5, <2>6, <2>7 DEF Progress
  <1>10. CASE SetUpPF(s)
    <2> DEFINE new == SetUp(device, r)
    <2>1. wpc[s] = "setup" /\ dev' = [dev EXCEPT ![r.pf] = new]
      BY <1>0, <1>10 DEF SetUpPF, Apply, WorkerAt
    <2>2. /\ r.pf \in PFs /\ device.driver = r.pfDriver /\ Prefix(dev, R, i - 1, {r.pf})
          /\ device.vfs.count = r.vfAmount
          /\ device.vfs.count > 0 => device.vfs.driver = r.vfDriver
      BY <2>1 DEF Progress
    <2>3. r \in Request /\ r = R[i] /\ i \in 1..Len(R) /\ device \in Device
      BY <1>1, <2>1, <2>2 DEF Working
    <2>4. new \in Device /\ ConfiguredFor(new, r)
      BY <2>2, <2>3, SetUpType, SetUpDoes DEF ConfiguredFor
    <2>5. new.queues = IF QueuesOf(r) = Nil THEN device.queues ELSE QueuesOf(r)
      BY <2>3, SetUpDoes
    <2>6. Prefix(dev', R, i, {})
      <3>1. ASSUME NEW q, q = r
            PROVE  Prefix([dev EXCEPT ![q.pf] = new], R, i, {})
        <4>1. q = R[i]
          BY <2>3, <3>1
        <4> HIDE DEF r, new, R
        <4> QED
          BY <1>0, <2>2, <2>3, <2>4, <2>5, <3>1, <4>1, PrefixGrows
      <3> QED
        BY <2>1, <3>1
    <2>7. CASE i = Len(R)
      <3>1. wpc'[s] = "plugin"
        BY <1>0, <1>10, <2>7 DEF SetUpPF, Apply, WorkerAt
      <3> QED
        BY <1>0, <2>6, <2>7, <3>1 DEF Progress
    <2>8. CASE i # Len(R)
      <3>1. wpc'[s] = "rebind" /\ wi'[s] = i + 1
        BY <1>0, <1>10, <2>8 DEF SetUpPF, Apply, WorkerAt
      <3>2. wi'[s] - 1 = i
        BY <1>0, <3>1
      <3> QED
        BY <1>0, <2>6, <3>1, <3>2 DEF Progress
    <2> QED
      BY <2>7, <2>8
  <1>11. CASE RestartDevicePlugin(s)
    <2>1. wpc[s] = "plugin" /\ wpc'[s] = "done" /\ UNCHANGED dev
      BY <1>0, <1>11 DEF RestartDevicePlugin, WorkerAt, nodeVars
    <2> QED
      BY <1>0, <2>1 DEF Progress
  <1> QED
    BY <1>4, <1>5, <1>6, <1>7, <1>8, <1>9, <1>10, <1>11 DEF Worker

LEMMA ProgressInvStep ==
  ASSUME TypeInv, OneWorker, CopyInv, ProgressInv, Next
  PROVE  ProgressInv'
  <1> DEFINE Complete == Prefix(dev, Requested[nc.spec], Len(Requested[nc.spec]), {})
  <1> SUFFICES ASSUME NoLag'
               PROVE  /\ \A s \in Slots : Progress(s)'
                      /\ pc' = "report" /\ ~dhErr' /\ ~cerr'[cur'] => Complete'
    BY DEF ProgressInv
  <1>0. /\ NoLag /\ ~Fault("lease") /\ ~Fault("drift")
        /\ \A s \in Slots : wpc[s] # "none" => s = cur /\ pc = "run"
        /\ \A s \in Slots : wpc'[s] # "none" => s = cur' /\ pc' = "run"
        /\ wpc \in [Slots -> WorkerStates] /\ cur \in Slots
        /\ \A s \in Slots : Progress(s)
        /\ pc = "report" /\ ~dhErr /\ ~cerr[cur] => Complete
    BY NoLagStep, OneWorkerStep DEF OneWorker, ProgressInv, TypeInv, WorkerInv
  <1>a. ASSUME NEW s \in Slots, wpc'[s] \in {"none", "wait"}
        PROVE  Progress(s)'
    BY <1>a DEF Progress
  <1>1. ASSUME UNCHANGED <<wpc, wspec, wi, cerr, dev>>,
               pc' = "report" => pc = "report" /\ UNCHANGED <<nc, dhErr, cur>>
        PROVE  /\ \A s \in Slots : Progress(s)'
               /\ pc' = "report" /\ ~dhErr' /\ ~cerr'[cur'] => Complete'
    <2>1. ASSUME NEW s \in Slots
          PROVE  Progress(s)'
      <3>1. Progress(s) /\ request(s)' = request(s)
        BY <1>0, <1>1 DEF request
      <3> QED
        BY <1>1, <3>1 DEF Progress
    <2> QED
      BY <1>0, <1>1, <2>1
  <1>2. ASSUME NEW t \in Slots, Worker(t) \/ WorkFails(t)
        PROVE  /\ \A s \in Slots : Progress(s)'
               /\ pc' = "report" /\ ~dhErr' /\ ~cerr'[cur'] => Complete'
    <2>1. wpc[t] # "none"
      BY <1>2 DEF Worker, WorkFails, WorkerErrs, WorkerAt, Apply, Lead, Drained,
         MissesKernelParams, GrubbyAddsParams, RpmOstreeAppends, RequestReboot, UnsupportedOS,
         StartApply, RebindPF, CreatePFsVFs, BindPFsVFs, SetUpPF, RequestRefused,
         RestartDevicePlugin, OrphanEnds
    <2>2. t = cur /\ pc = "run" /\ UNCHANGED <<pc, cur>>
      BY <1>0, <1>2, <2>1, WorkerFrame DEF reconcileVars
    <2>3. Progress(t)'
      BY <1>0, <1>2, WorkerKeepsProgress
    <2>4. \A s \in Slots : s # t => wpc'[s] = "none"
      BY <1>0, <2>2
    <2> QED
      BY <1>a, <2>2, <2>3, <2>4
  <1>3. CASE CallRun
    <2>1. pc' = "run" /\ wpc'[cur'] = "wait"
      BY <1>0, <1>3 DEF CallRun
    <2> QED
      BY <1>0, <1>a, <2>1
  <1>4. CASE RunReturns \/ DrainFails
    <2>1. pc' = "report" /\ UNCHANGED <<nc, cur, cerr, dev>>
      BY <1>4 DEF RunReturns, DrainFails, nodeVars
    <2>2. \A s \in Slots : Progress(s)'
      BY <1>0, <1>a, <2>1
    <2>3. ASSUME ~dhErr', ~cerr[cur]
          PROVE  Complete
      <3>1. wpc[cur] = "done" /\ pc = "run"
        BY <1>4, <2>3 DEF RunReturns, DrainFails
      <3>2. Progress(cur) /\ wspec[cur] = nc.spec
        BY <1>0, <3>1 DEF CopyInv
      <3> QED
        BY <2>3, <3>1, <3>2 DEF Progress
    <2> QED
      BY <2>1, <2>2, <2>3
  <1>5. CASE Crash \/ Reboot
    <2>1. pc' = "idle" /\ \A s \in Slots : wpc'[s] = "none"
      BY <1>5 DEF Crash, Reboot, Boot, Restart
    <2> QED
      BY <1>a, <2>1
  <1>6. ~LoseLease /\ ~Drift
    BY <1>0 DEF LoseLease, Drift
  <1>7. CASE Inform \/ Resync \/ ResyncTooSoon
    BY <1>1, <1>7 DEF Inform, Deliver, DeliverDelete, Resync, ResyncTooSoon, Expire, reconcileVars,
                      workerVars, applyVars, nodeVars
  <1>8. CASE CreateEmptyNodeConfig \/ Get \/ NothingToDo \/ ReturnEarly \/ Report \/ InventoryFails
    BY <1>1, <1>8 DEF CreateEmptyNodeConfig, Get, NothingToDo, ReturnEarly, Report, InventoryFails,
                      reconcileVars, workerVars, nodeVars
  <1>9. CASE (\E spec \in Specs \cup {NoSpec} : SetSpec(spec)) \/ Delete
    <2>1. UNCHANGED <<workerVars, nodeVars, pc, nc, dhErr, cur>>
      <3>1. ASSUME NEW spec, SetSpec(spec)
            PROVE  UNCHANGED <<workerVars, nodeVars, pc, nc, dhErr, cur>>
        BY <3>1, Zenon DEF SetSpec
      <3> QED
        BY <1>9, <3>1, Zenon DEF Delete
    <2> QED
      BY <1>1, <2>1 DEF workerVars, nodeVars
  <1>10. CASE Configure
    <2>1. CASE CallRun
      BY <1>3, <2>1
    <2>2. CASE pc' = "idle" /\ UNCHANGED <<workerVars, nodeVars>>
      BY <1>1, <2>2 DEF workerVars, nodeVars
    <2> QED
      BY <1>10, <2>1, <2>2 DEF Configure
  <1> QED
    BY <1>2, <1>4, <1>5, <1>6, <1>7, <1>8, <1>9, <1>10 DEF Next, Reconcile

-----------------------------------------------------------------------------
(* What the inventory does not show.                                        *)

\* A step for a request sets the bit and the queues as it asks, or leaves them.
Advances(old, new, r) ==
    /\ old.bus => new.bus
    /\ new.queues = old.queues \/ (QueuesOf(r) # Nil /\ new.queues = QueuesOf(r))

LEMMA StepsAdvance ==
  ASSUME NEW device \in Device, NEW r \in Request, NEW hadVFs \in BOOLEAN
  PROVE  /\ Advances(device, device, r)
         /\ Advances(device, [device EXCEPT !.vfs = NoVFs], r)
         /\ Advances(device, Rebind(device, r, hadVFs), r)
         /\ Advances(device, CreateVFs(device, r), r)
         /\ Advances(device, BindVFs(device, r), r)
         /\ Advances(device, SetUp(device, r), r)
         /\ \A new \in RebindHalfway(device, hadVFs) : Advances(device, new, r)
         /\ \A new \in CreateVFsHalfway(device, r) : Advances(device, new, r)
         /\ \A new \in BindVFsHalfway(device) : Advances(device, new, r)
         /\ \A new \in SetUpHalfway(device, r) : Advances(device, new, r)
  <1>1. /\ Advances(device, device, r)
        /\ Advances(device, [device EXCEPT !.vfs = NoVFs], r)
        /\ Advances(device, Rebind(device, r, hadVFs), r)
        /\ \A new \in RebindHalfway(device, hadVFs) : Advances(device, new, r)
    BY DEF Advances, Device, Rebind, RebindHalfway
  <1>2. /\ Advances(device, CreateVFs(device, r), r)
        /\ \A new \in CreateVFsHalfway(device, r) : Advances(device, new, r)
    BY DEF Advances, Device, CreateVFs, CreateVFsHalfway
  <1>3. /\ Advances(device, BindVFs(device, r), r)
        /\ \A new \in BindVFsHalfway(device) : Advances(device, new, r)
    BY DEF Advances, Device, BindVFs, BindVFsHalfway
  <1>4. /\ Advances(device, SetUp(device, r), r)
        /\ \A new \in SetUpHalfway(device, r) : Advances(device, new, r)
    BY DEF Advances, Device, SetUp, SetUpHalfway
  <1> QED
    BY <1>1, <1>2, <1>3, <1>4

\* So does every step of a worker.
LEMMA WorkerAdvances ==
  ASSUME TypeInv, NEW s \in Slots, Worker(s) \/ WorkFails(s), wpc[s] \in Working => request(s).pf \in PFs
  PROVE  \/ UNCHANGED dev
         \/ /\ wpc[s] \in Working
            /\ \E device \in Device : /\ dev' = [dev EXCEPT ![request(s).pf] = device]
                                      /\ Advances(dev[request(s).pf], device, request(s))
  <1> DEFINE r == request(s)
             h == r.pf \in had[s]
             old == dev[r.pf]
  <1>1. ASSUME wpc[s] \in Working
        PROVE  r \in Request /\ h \in BOOLEAN /\ old \in Device
    BY <1>1, RequestType DEF TypeInv, NodeInv
  <1> HIDE DEF r, h
  <1>2. CASE RebindPF(s)
    <2>1. wpc[s] \in Working /\ dev' = [dev EXCEPT ![r.pf] = Rebind(old, r, h)]
      BY <1>2 DEF RebindPF, Apply, Working, r, h
    <2>2. Rebind(old, r, h) \in Device /\ Advances(old, Rebind(old, r, h), r)
      BY <1>1, <2>1, RebindType, StepsAdvance
    <2> QED
      BY <2>1, <2>2 DEF r
  <1>3. CASE CreatePFsVFs(s)
    <2>1. /\ wpc[s] \in Working /\ dev' = [dev EXCEPT ![r.pf] = CreateVFs(old, r)]
          /\ r.vfAmount \in {old.vfs.count} \cup 0..MaxVFs
      BY <1>3 DEF CreatePFsVFs, Apply, Working, r
    <2>2. CreateVFs(old, r) \in Device /\ Advances(old, CreateVFs(old, r), r)
      BY <1>1, <2>1, CreateVFsType, StepsAdvance
    <2> QED
      BY <2>1, <2>2 DEF r
  <1>4. CASE BindPFsVFs(s)
    <2>1. wpc[s] \in Working /\ dev' = [dev EXCEPT ![r.pf] = BindVFs(old, r)]
      BY <1>4 DEF BindPFsVFs, Apply, Working, r
    <2>2. BindVFs(old, r) \in Device /\ Advances(old, BindVFs(old, r), r)
      BY <1>1, <2>1, BindVFsType, StepsAdvance
    <2> QED
      BY <2>1, <2>2 DEF r
  <1>5. CASE SetUpPF(s)
    <2>1. wpc[s] \in Working /\ dev' = [dev EXCEPT ![r.pf] = SetUp(old, r)]
      BY <1>5 DEF SetUpPF, Apply, Working, r
    <2>2. SetUp(old, r) \in Device /\ Advances(old, SetUp(old, r), r)
      BY <1>1, <2>1, SetUpType, StepsAdvance
    <2> QED
      BY <2>1, <2>2 DEF r
  <1>6. CASE RequestRefused(s)
    <2>1. CASE wpc[s] = "create" /\ dev' = [dev EXCEPT ![request(s).pf].vfs = NoVFs]
      <3> DEFINE new == [old EXCEPT !.vfs = NoVFs]
      <3>1. wpc[s] \in Working /\ dev' = [dev EXCEPT ![r.pf] = new]
        BY <2>1 DEF Working, r
      <3>2. new \in Device /\ Advances(old, new, r)
        BY <1>1, <3>1, NoVFsType, StepsAdvance
      <3> QED
        BY <3>1, <3>2 DEF r
    <2> QED
      BY <1>6, <2>1 DEF RequestRefused
  <1>7. CASE WorkFails(s)
    <2>1. CASE /\ wpc[s] \in {"rebind", "create", "bind", "setup"} /\ request(s).pf \in PFs
               /\ \E device \in Halfway(s) : dev' = [dev EXCEPT ![request(s).pf] = device]
      <3>1. PICK new \in Halfway(s) : dev' = [dev EXCEPT ![r.pf] = new]
        BY <2>1 DEF r
      <3>2. wpc[s] \in Working /\ r \in Request /\ h \in BOOLEAN /\ old \in Device
        BY <1>1, <2>1 DEF Working
      <3>3. new \in Device /\ Advances(old, new, r)
        <4>1. CASE wpc[s] = "rebind"
          <5>1. new \in {old} \cup RebindHalfway(old, h)
            BY <3>1, <4>1 DEF Halfway, r, h
          <5> QED
            BY <3>2, <5>1, RebindType, StepsAdvance
        <4>2. CASE wpc[s] = "create"
          <5>1. new \in CreateVFsHalfway(old, r)
            BY <3>1, <4>2 DEF Halfway, r
          <5> QED
            BY <3>2, <5>1, CreateVFsType, StepsAdvance
        <4>3. CASE wpc[s] = "bind"
          <5>1. new \in BindVFsHalfway(old)
            BY <3>1, <4>3 DEF Halfway, r
          <5> QED
            BY <3>2, <5>1, BindVFsType, StepsAdvance
        <4>4. CASE wpc[s] = "setup"
          <5>1. new \in SetUpHalfway(old, r)
            BY <3>1, <4>4 DEF Halfway, r
          <5> QED
            BY <3>2, <5>1, SetUpType, StepsAdvance
        <4> QED
          BY <2>1, <4>1, <4>2, <4>3, <4>4
      <3> QED
        BY <3>1, <3>2, <3>3 DEF r
    <2> QED
      BY <1>7, <2>1 DEF WorkFails
  <1>8. CASE \/ Lead(s) \/ Drained(s) \/ MissesKernelParams(s) \/ GrubbyAddsParams(s)
             \/ RpmOstreeAppends(s) \/ RequestReboot(s) \/ UnsupportedOS(s)
             \/ StartApply(s) \/ RestartDevicePlugin(s) \/ OrphanEnds(s)
    BY <1>8 DEF Lead, Drained, MissesKernelParams, GrubbyAddsParams, RpmOstreeAppends, RequestReboot,
                UnsupportedOS, StartApply, RestartDevicePlugin, OrphanEnds, nodeVars
  <1> QED
    BY <1>2, <1>3, <1>4, <1>5, <1>6, <1>7, <1>8 DEF Worker

\* Work for a list whose queues agree, on devices that have what it asks for
\* and the inventory does not show, takes none of this away.
LEMMA WorkerKeepsHidden ==
  ASSUME TypeInv, NEW s \in Slots, Worker(s) \/ WorkFails(s), wspec[s] \in Specs,
         NEW R, R = Requested[wspec[s]], \A i \in DOMAIN R : R[i].pf \in PFs,
         QueuesAgree(R), AskedHidden(dev, R)
  PROVE  AskedHidden(dev', R)
  <1>1. dev \in [PFs -> Device]
    BY DEF TypeInv, NodeInv
  <1>2. ASSUME wpc[s] \in Working
        PROVE  wi[s] \in DOMAIN R /\ request(s) = R[wi[s]]
    BY <1>2 DEF TypeInv, WorkerInv, request
  <1>3. CASE UNCHANGED dev
    BY <1>3
  <1>4. ASSUME NEW device \in Device, wpc[s] \in Working,
               dev' = [dev EXCEPT ![request(s).pf] = device],
               Advances(dev[request(s).pf], device, request(s))
        PROVE  AskedHidden(dev', R)
    <2> DEFINE k == wi[s]
    <2>1. k \in DOMAIN R /\ request(s) = R[k] /\ R[k].pf \in PFs
      BY <1>2, <1>4
    <2>2. ASSUME NEW i \in DOMAIN R
          PROVE  /\ Last(R, i) /\ R[i].pfDriver \in StubDrivers => dev'[R[i].pf].bus
                 /\ LastQueues(R, i) => dev'[R[i].pf].queues = QueuesOf(R[i])
      <3>1. CASE R[i].pf # R[k].pf
        BY <1>1, <1>4, <2>1, <3>1 DEF AskedHidden
      <3>2. CASE R[i].pf = R[k].pf
        <4>1. dev'[R[i].pf] = device
          BY <1>1, <1>4, <2>1, <3>2
        <4>2. LastQueues(R, i) => QueuesOf(R[k]) \in {Nil, QueuesOf(R[i])}
          BY <2>1, <3>2 DEF QueuesAgree, LastQueues
        <4> QED
          BY <1>4, <2>1, <3>2, <4>1, <4>2 DEF AskedHidden, Advances
      <3> QED
        BY <3>1, <3>2
    <2> QED
      BY <2>2 DEF AskedHidden
  <1>5. wpc[s] \in Working => request(s).pf \in PFs
    BY <1>2
  <1> QED
    BY <1>3, <1>4, <1>5, WorkerAdvances

-----------------------------------------------------------------------------
(* "Succeeded".                                                             *)

\* A step after which the object says "Succeeded" has written that, or has
\* left it as it was.
LEMMA SaysSucceededBefore ==
  ASSUME TypeInv, Next, SaysSucceeded'
  PROVE  \/ UNCHANGED obj /\ SaysSucceeded
         \/ Concludes /\ obj'.reason = "Succeeded"
  <1>1. obj' # NoObj /\ obj'.reason = "Succeeded" /\ obj'.obs = obj'.gen
    BY DEF SaysSucceeded
  <1>2. ~Begins /\ ~Deleted
    BY <1>1 DEF Begins, Deleted
  <1>3. ~Created
    BY <1>1 DEF Created, NewObject
  <1>4. ~Changed
    <2> SUFFICES ASSUME Changed PROVE FALSE
      OBVIOUS
    <2>1. obj \in Object /\ obj # NoObj /\ obj'.gen = obj.gen + 1 /\ obj'.obs = obj.obs
      BY NodeConfigAssumption DEF Changed
    <2>2. obj.gen \in Nat /\ obj.obs \in Nat /\ obj.obs <= obj.gen
      BY <2>1, MaxWritesType DEF Object, TypeInv, ApiInv
    <2> QED
      BY <1>1, <2>1, <2>2
  <1> QED
    BY <1>1, <1>2, <1>3, <1>4, ObjectSteps DEF SaysSucceeded

\* A node that has booted shows an inventory that no list asks for.
LEMMA BareIsNotAsked ==
  ASSUME NEW spec \in Specs, NEW inv, AskedShown(inv, Requested[spec])
  PROVE  InventoryOf([pf \in PFs |-> Bare]) # inv
  <1> DEFINE R == Requested[spec]
             n == Len(R)
  <1>1. R \in Seq(Request) /\ R # <<>>
    BY NodeConfigAssumption
  <1>2. n \in Nat /\ DOMAIN R = 1..n /\ n # 0
    BY <1>1, LenProperties, EmptySeq
  <1>3. n \in DOMAIN R /\ Last(R, n)
    BY <1>2 DEF Last
  <1>4. R[n] \in Request /\ R[n].pf \in PFs /\ inv[R[n].pf].driver = R[n].pfDriver
    <2>1. R[n] \in Request
      BY <1>1, <1>3, ElementOfSeq, <1>2
    <2> QED
      BY <1>3, <2>1 DEF AskedShown
  <1>5. InventoryOf([pf \in PFs |-> Bare])[R[n].pf].driver = NoDriver
    BY <1>4 DEF InventoryOf, Bare
  <1> QED
    BY <1>4, <1>5, DeviceAssumption DEF Request

LEMMA SucceededInvStep ==
  ASSUME TypeInv, SuccessInv, Next
  PROVE  SucceededInv'
  <1> SUFFICES ASSUME NoLag', SaysSucceeded'
               PROVE  Backed'
    BY DEF SucceededInv
  <1> DEFINE R == Requested[obj.spec]
  <1>0. /\ ApiInv /\ ApiInv' /\ CopyInv /\ CopyInv' /\ NoLag
        /\ ~Fault("lease") /\ ~Fault("drift") /\ ~Fault("lag")
        /\ InventoryOf(dev) \in Inventory
    BY NoLagStep, ApiInvStep, CopyInvStep, InventoryType DEF SuccessInv, TypeInv, NodeInv
  <1>1. ASSUME UNCHANGED obj
        PROVE  SaysSucceeded /\ Backed /\ obj # NoObj /\ obj.reason = "Succeeded" /\ obj.spec \in Specs
               /\ obj.spec # NoSpec
    BY <1>0, <1>1, SaysSucceededBefore, NodeConfigAssumption
       DEF SuccessInv, SucceededInv, SaysSucceeded, Backed
  <1>2. obj'.reason = "Succeeded"
    BY DEF SaysSucceeded
  <1>3. ASSUME UNCHANGED <<obj, cache, sameObj, dev>>,
               pc' # "idle" => nc'.gen = obj.gen /\ nc'.spec = obj.spec,
               cacheCurrent' \/ timer',
               timer' \/ queued' \/ (pc' = "check" /\ ncCurrent'),
               \/ QueuesAgree(R) => AskedHidden(dev, R)
               \/ cacheCurrent' /\ ((pc' = "idle" /\ queued') \/ (pc' = "check" /\ ncCurrent'))
        PROVE  Backed'
    BY <1>1, <1>3 DEF Backed, Fresh, inventory
  <1>4. CASE (\E spec \in Specs \cup {NoSpec} : SetSpec(spec)) \/ Delete
    <2>1. CASE UNCHANGED obj
      <3>1. obj \in Object /\ obj # NoObj
        BY <1>0, <1>1, <2>1 DEF ApiInv
      <3>2. ASSUME NEW spec \in Specs \cup {NoSpec}, SetSpec(spec)
            PROVE  FALSE
        <4>1. obj.spec # spec /\ obj' = [obj EXCEPT !.spec = spec, !.gen = @ + 1]
          BY <3>1, <3>2, Zenon DEF SetSpec
        <4> QED
          BY <2>1, <3>1, <4>1 DEF Object
      <3> QED
        BY <1>4, <2>1, <3>1, <3>2 DEF Delete
    <2>2. CASE Concludes
      <3>1. obj \in Object /\ obj' \in Object /\ obj'.spec = obj.spec /\ obj'.gen = obj.gen
            /\ obj # NoObj /\ obj' # NoObj
        BY <2>2, NodeConfigAssumption DEF Concludes
      <3>2. ASSUME NEW spec \in Specs \cup {NoSpec}, SetSpec(spec)
            PROVE  FALSE
        <4>1. obj.spec # spec /\ obj' = [obj EXCEPT !.spec = spec, !.gen = @ + 1]
          BY <3>1, <3>2, Zenon DEF SetSpec
        <4> QED
          BY <3>1, <4>1 DEF Object
      <3> QED
        BY <1>4, <3>1, <3>2 DEF Delete
    <2> QED
      BY <2>1, <2>2, SaysSucceededBefore
  <1>5. CASE DeliverDelete
    <2>1. UNCHANGED obj /\ ~sameObj
      BY <1>5 DEF DeliverDelete
    <2> QED
      BY <1>1, <2>1 DEF Backed, Fresh
  <1>6. CASE Deliver
    <2>1. /\ UNCHANGED obj /\ ~cacheCurrent /\ sameObj /\ cache' = obj /\ cacheCurrent' = TRUE
          /\ queued => queued'
          /\ UNCHANGED <<sameObj, timer, dev, pc, nc, ncCurrent>>
      BY <1>6 DEF Deliver, reconcileVars, nodeVars
    <2> QED
      BY <1>1, <2>1 DEF Backed, Fresh, inventory
  <1>7. CASE Resync \/ ResyncTooSoon
    <2>1. /\ UNCHANGED <<obj, cache, sameObj, cacheCurrent, dev, pc, nc, ncCurrent>>
          /\ cacheCurrent /\ queued' = TRUE
      BY <1>0, <1>7 DEF Resync, ResyncTooSoon, Expire, apiVars, reconcileVars, nodeVars
    <2> QED
      BY <1>1, <1>3, <2>1 DEF Backed
  <1>8. CASE CreateEmptyNodeConfig
    <2>1. CASE UNCHANGED obj
      BY <1>1, <1>8, <2>1 DEF CreateEmptyNodeConfig, Backed, Fresh
    <2>2. CASE obj' = NewObject(NoSpec)
      BY <1>2, <2>2 DEF NewObject
    <2> QED
      BY <1>8, <2>1, <2>2 DEF CreateEmptyNodeConfig
  <1>9. CASE Get
    <2>1. /\ UNCHANGED <<obj, cache, sameObj, cacheCurrent, timer, dev>>
          /\ pc = "idle" /\ pc' = "check" /\ nc' = cache /\ ncCurrent' = cacheCurrent
      BY <1>9 DEF Get, apiVars, nodeVars
    <2>2. nc'.gen = obj.gen /\ nc'.spec = obj.spec
      BY <1>1, <2>1 DEF Backed, Fresh
    <2> QED
      BY <1>1, <1>3, <2>1, <2>2 DEF Backed
  <1>10. CASE NothingToDo
    <2>1. pc = "check" /\ nc.spec = NoSpec /\ nc # NoObj /\ "NotRequested" \in Reasons
          /\ UpdateCondition("NotRequested")
      BY <1>0, <1>10 DEF NothingToDo, ApiInv, Reasons
    <2>2. CASE UNCHANGED obj
      BY <1>1, <2>1, <2>2 DEF Backed
    <2>3. CASE UpdateStatus("NotRequested", nc.gen)
      <3>1. nc.gen \in 0..(MaxWrites + 1)
        BY <1>0, <2>1 DEF ApiInv, Object
      <3> QED
        BY <1>0, <1>2, <2>1, <2>3, <3>1, UpdateStatusShape
    <2> QED
      BY <1>0, <2>1, <2>2, <2>3, UpdateConditionShape
  <1>11. CASE ReturnEarly
    <2>1. /\ UNCHANGED <<obj, cache, sameObj, cacheCurrent, queued, nc, ncCurrent, dev>>
          /\ pc = "check" /\ pc' = "idle" /\ timer' = TRUE /\ inventory = nc.inv
      BY <1>11 DEF ReturnEarly, RequeueAfter, apiVars, nodeVars, UpToDate
    <2>2. ncCurrent => nc = obj
      BY <1>0 DEF ApiInv
    <2> QED
      BY <1>1, <1>3, <2>1, <2>2 DEF Backed
  <1>12. CASE Configure
    <2>1. nc \in Object /\ pc = "check" /\ UNCHANGED <<cache, sameObj, timer, dev>>
      BY <1>0, <1>12 DEF Configure, ApiInv, nodeVars
    <2>2. CASE CallRun /\ nc.reason = "none" /\ UNCHANGED <<obj, cacheCurrent, queued, nc, ncCurrent>>
      <3>1. pc' = "run"
        BY <2>2 DEF CallRun
      <3>2. ~ncCurrent
        BY <1>0, <1>1, <2>2 DEF ApiInv
      <3> QED
        BY <1>1, <1>3, <2>1, <2>2, <3>1, <3>2 DEF Backed
    <2>3. CASE UpdateStatus("InProgress", nc.obs)
      <3>1. "InProgress" \in Reasons /\ nc.obs \in 0..(MaxWrites + 1)
        BY <2>1 DEF Object, Reasons
      <3> QED
        BY <1>0, <1>2, <2>3, <3>1, UpdateStatusShape
    <2>4. CASE UNCHANGED <<obj, nc, ncCurrent, cacheCurrent>> /\ queued' = TRUE /\ pc' = "idle"
      BY <1>1, <1>3, <2>1, <2>4 DEF Backed
    <2> QED
      BY <1>12, <2>2, <2>3, <2>4 DEF Configure, StatusConflict, StatusFails
  <1>13. CASE RunReturns \/ DrainFails
    <2>1. /\ pc = "run" /\ pc' = "report"
          /\ UNCHANGED <<obj, cache, sameObj, cacheCurrent, queued, timer, nc, ncCurrent, dev>>
      BY <1>13 DEF RunReturns, DrainFails, apiVars, queueVars, nodeVars
    <2> QED
      BY <1>1, <1>3, <2>1 DEF Backed
  <1>14. CASE Report
    <2>1. /\ pc = "report" /\ pc' = "idle" /\ UNCHANGED <<cache, sameObj, dev>>
          /\ queued => queued'
          /\ timer => timer'
          /\ nc \in Object /\ nc # NoObj /\ {"Unknown", "Failed", "Succeeded"} \subseteq Reasons
          /\ nc.gen \in 0..(MaxWrites + 1)
      BY <1>0, <1>14, NodeConfigAssumption
         DEF Report, RequeueAfter, ApiInv, Reasons, nodeVars, queueVars, Object
    <2>2. CASE UNCHANGED <<obj, nc, ncCurrent, cacheCurrent>>
      BY <1>1, <1>3, <2>1, <2>2 DEF Backed
    <2>3. CASE UpdateStatus("Unknown", nc.gen) \/ UpdateStatus("Failed", nc.gen)
      BY <1>0, <1>2, <2>1, <2>3, UpdateStatusShape
    <2>4. CASE UpdateStatus("Succeeded", nc.gen) /\ ~dhErr /\ ~cerr[cur] /\ timer' = TRUE
      <3>1. /\ nc = obj /\ obj'.spec = obj.spec /\ ncCurrent' /\ obj'.inv = InventoryOf(dev)
        BY <1>0, <2>1, <2>4, UpdateStatusShape
      <3>2. Fresh' /\ cache'.spec = obj'.spec
        BY <1>0, <3>1 DEF CopyInv
      <3>3. obj.spec \in Specs /\ R \in Seq(Request)
        BY <1>0, <2>1, <3>1, NodeConfigAssumption DEF CopyInv
      <3>4. Prefix(dev, R, Len(R), {})
        BY <1>0, <2>1, <2>4, <3>1 DEF SuccessInv, ProgressInv
      <3>5. AskedShown(InventoryOf(dev), R) /\ AskedHidden(dev, R)
        BY <3>3, <3>4, PrefixOfAll
      <3> QED
        BY <2>1, <2>4, <3>1, <3>2, <3>3, <3>5 DEF Backed
    <2> QED
      BY <1>0, <1>14, <2>1, <2>2, <2>3, <2>4, UpdateConditionShape DEF Report, RequeueAfter
  <1>15. CASE InventoryFails
    <2>1. /\ UNCHANGED <<cache, sameObj, timer, dev>>
          /\ queued' = TRUE /\ pc' = "idle" /\ pc = "check"
          /\ nc \in Object /\ "Failed" \in Reasons /\ nc.gen \in 0..(MaxWrites + 1)
      BY <1>0, <1>15 DEF InventoryFails, nodeVars, ApiInv, Object, Reasons
    <2>2. CASE UNCHANGED <<obj, nc, ncCurrent, cacheCurrent>>
      BY <1>1, <1>3, <2>1, <2>2 DEF Backed
    <2>3. CASE UpdateStatus("Failed", nc.gen)
      BY <1>0, <1>2, <2>1, <2>3, UpdateStatusShape
    <2> QED
      BY <1>15, <2>2, <2>3 DEF InventoryFails
  <1>16. ASSUME NEW t \in Slots, Worker(t) \/ WorkFails(t)
         PROVE  Backed'
    <2>1. wpc[t] # "none"
      BY <1>16 DEF Worker, WorkFails, WorkerErrs, WorkerAt, Apply, Lead, Drained,
         MissesKernelParams, GrubbyAddsParams, RpmOstreeAppends, RequestReboot, UnsupportedOS,
         StartApply, RebindPF, CreatePFsVFs, BindPFsVFs, SetUpPF, RequestRefused,
         RestartDevicePlugin, OrphanEnds
    <2>2. /\ t = cur /\ pc = "run"
          /\ UNCHANGED <<obj, cache, sameObj, cacheCurrent, queued, timer, pc, nc, ncCurrent>>
      BY <1>0, <1>16, <2>1, WorkerFrame DEF SuccessInv, OneWorker, apiVars, queueVars, reconcileVars
    <2>3. wspec[t] = obj.spec /\ obj.spec \in Specs /\ \A i \in DOMAIN R : R[i].pf \in PFs
      BY <1>0, <1>1, <2>2 DEF CopyInv, Backed, AskedShown
    <2>4. QueuesAgree(R) => AskedHidden(dev, R)
      BY <1>1, <2>2 DEF Backed
    <2>5. QueuesAgree(R) => AskedHidden(dev', R)
      BY <1>16, <2>3, <2>4, WorkerKeepsHidden
    <2> QED
      BY <1>1, <2>2, <2>5 DEF Backed, Fresh
  <1>17. CASE Crash \/ Reboot
    <2>1. Restart /\ (UNCHANGED dev \/ dev' = [pf \in PFs |-> Bare])
      BY <1>17 DEF Crash, Reboot, Boot, nodeVars
    <2>2. UNCHANGED obj
      <3>1. CASE obj = NoObj
        BY <1>2, <2>1, <3>1 DEF Restart, NewObject
      <3> QED
        BY <2>1, <3>1 DEF Restart
    <2>3. /\ cache' = obj /\ sameObj' = TRUE /\ cacheCurrent' = TRUE /\ queued' = TRUE
          /\ pc' = "idle"
      BY <2>1, <2>2 DEF Restart
    <2>4. QueuesAgree(R) => AskedHidden(dev', R) \/ InventoryOf(dev') # obj.inv
      <3>1. CASE UNCHANGED dev
        BY <1>1, <2>2, <3>1 DEF Backed, inventory
      <3>2. CASE dev' = [pf \in PFs |-> Bare]
        BY <1>1, <2>2, <3>2, BareIsNotAsked DEF Backed
      <3> QED
        BY <2>1, <3>1, <3>2
    <2> QED
      BY <1>1, <2>2, <2>3, <2>4 DEF Backed, Fresh, inventory
  <1>18. ~LoseLease /\ ~Drift
    BY <1>0 DEF LoseLease, Drift
  <1> QED
    BY <1>4, <1>5, <1>6, <1>7, <1>8, <1>9, <1>10, <1>11, <1>12, <1>13, <1>14, <1>15, <1>16,
       <1>17, <1>18 DEF Next, Reconcile, Inform

-----------------------------------------------------------------------------
LEMMA SuccessInvInit == Init => SuccessInv
  <1> SUFFICES ASSUME Init PROVE SuccessInv
    OBVIOUS
  <1>1. /\ obj = NewObject(NoSpec) /\ obj.reason = "none" /\ pc = "idle" /\ ncCurrent = FALSE
        /\ wpc = [s \in Slots |-> "none"]
    BY DEF Init, NewObject
  <1>2. OneWorker /\ CopyInv
    BY <1>1 DEF OneWorker, CopyInv
  <1>3. ProgressInv
    BY <1>1 DEF ProgressInv, Progress
  <1>4. SucceededInv
    BY <1>1 DEF SucceededInv, SaysSucceeded
  <1> QED
    BY <1>2, <1>3, <1>4 DEF SuccessInv

LEMMA SuccessInvStep == TypeInv /\ SuccessInv /\ [Next]_vars => SuccessInv'
  <1> SUFFICES ASSUME TypeInv, SuccessInv, [Next]_vars PROVE SuccessInv'
    OBVIOUS
  <1>1. CASE Next
    BY <1>1, OneWorkerStep, CopyInvStep, ProgressInvStep, SucceededInvStep DEF SuccessInv
  <1>2. CASE UNCHANGED vars
    <2>1. OneWorker' /\ CopyInv'
      BY <1>2 DEF vars, SuccessInv, OneWorker, CopyInv, NoLag, Without, Fresh
    <2>2. ProgressInv'
      <3>1. \A s \in Slots : Progress(s) => Progress(s)'
        BY <1>2 DEF vars, Progress, request
      <3> QED
        BY <1>2, <3>1 DEF vars, SuccessInv, ProgressInv, NoLag, Without
    <2>3. SucceededInv'
      BY <1>2 DEF vars, SuccessInv, SucceededInv, NoLag, Without, SaysSucceeded, Backed, Fresh,
                  inventory
    <2> QED
      BY <2>1, <2>2, <2>3 DEF SuccessInv
  <1> QED
    BY <1>1, <1>2

\* Once all is quiet, "Succeeded" of the current generation is true: the
\* devices are as this generation asks, or the pending resync will see by the
\* inventory that they are not.
THEOREM SuccessIsHonest == Spec => []SucceededIsTrue
  <1>1. TypeInv /\ SuccessInv => SucceededIsTrue
    <2> SUFFICES ASSUME TypeInv, SuccessInv, Without({"lease", "drift", "lag"}), Quiet, obj # NoObj,
                        obj.reason = "Succeeded", obj.obs = obj.gen
                 PROVE  /\ obj.spec # NoSpec
                        /\ QueuesAgree(Requested[obj.spec]) =>
                              AsAsked(dev, Requested[obj.spec]) \/ (timer /\ inventory # obj.inv)
      BY DEF SucceededIsTrue
    <2>1. Backed
      BY DEF SuccessInv, SucceededInv, NoLag, SaysSucceeded
    <2>2. pc = "idle" /\ ~queued
      BY DEF Quiet
    <2>3. timer /\ (QueuesAgree(Requested[obj.spec]) => AskedHidden(dev, Requested[obj.spec]))
      BY <2>1, <2>2 DEF Backed
    <2>4. inventory = obj.inv => AskedShown(InventoryOf(dev), Requested[obj.spec])
      BY <2>1 DEF Backed, inventory
    <2> QED
      BY <2>1, <2>3, <2>4, AsAskedSplit, NodeConfigAssumption DEF Backed
  <1>2. Spec => []SuccessInv
    BY SuccessInvInit, SuccessInvStep, TypeInvariance, PTL DEF Spec
  <1> QED
    BY <1>1, <1>2, TypeInvariance, PTL

=============================================================================
