--------------------------- MODULE NodeConfigProofs ---------------------------
(***************************************************************************)
(* Theorems about NodeConfig, for every number of devices, specs, worker   *)
(* slots, writes and faults.                                               *)
(***************************************************************************)
EXTENDS NodeConfig, TLAPS, SequenceTheorems


-----------------------------------------------------------------------------
(* The steps of applyConfig turn devices into devices.                      *)

\* Without VFs or after a boot a device is still a device.
LEMMA BareType == Bare \in Device /\ NoVFs \in VFs
  BY DeviceAssumption DEF Bare, NoVFs, Device, VFs

\* bindDeviceToDriver leaves a device, wherever it fails.
LEMMA RebindType ==
  ASSUME NEW device \in Device, NEW r \in Request, NEW hadVFs \in BOOLEAN
  PROVE  /\ Rebind(device, r, hadVFs) \in Device
         /\ RebindHalfway(device, hadVFs) \subseteq Device
  BY BareType DEF Rebind, RebindHalfway, Device, VFs, Request

\* changeAmountOfVFs does, for a number that the device can have.
LEMMA CreateVFsType ==
  ASSUME NEW device \in Device, NEW r \in Request
  PROVE  /\ r.vfAmount \in {device.vfs.count} \cup 0..MaxVFs => CreateVFs(device, r) \in Device
         /\ CreateVFsHalfway(device, r) \subseteq Device
  BY BareType DEF CreateVFs, CreateVFsHalfway, Device, VFs, Request

\* Binding the VFs does.
LEMMA BindVFsType ==
  ASSUME NEW device \in Device, NEW r \in Request
  PROVE  /\ BindVFs(device, r) \in Device
         /\ BindVFsHalfway(device) \subseteq Device
  <1>1. ASSUME NEW driver \in Drivers \cup {NoDriver}
        PROVE  [device EXCEPT !.vfs.driver = driver] \in Device
    <2>1. [device.vfs EXCEPT !.driver = driver] \in VFs
      BY DEF Device, VFs
    <2> QED
      BY <2>1 DEF Device
  <1>2. r.vfDriver \in Drivers
    BY DEF Request
  <1> QED
    BY <1>1, <1>2 DEF BindVFs, BindVFsHalfway

\* So does pf_bb_config with the queues of a request.
LEMMA SetUpType ==
  ASSUME NEW device \in Device, NEW r \in Request
  PROVE  /\ SetUp(device, r) \in Device
         /\ SetUpHalfway(device, r) \subseteq Device
  <1>1. QueuesOf(r) \in Queues \cup {Nil}
    BY DEF QueuesOf, Request, Queues
  <1> QED
    BY <1>1 DEF SetUp, SetUpHalfway, Device

\* The inventory of devices is an inventory.
LEMMA InventoryType ==
  ASSUME NEW devices \in [PFs -> Device]
  PROVE  InventoryOf(devices) \in Inventory
  BY DEF InventoryOf, Inventory, Device

-----------------------------------------------------------------------------
(* Type correctness, in three parts: the object and its copies, the         *)
(* workers, the node.                                                       *)

\* The object and its copies have their types; a copy held to be the latest
\* is the object; no outcome is of a later generation.
ApiInv ==
    /\ obj \in Object \cup {NoObj}
    /\ cache \in Object \cup {NoObj}
    /\ nc \in Object \cup {NoObj}
    /\ pc \in {"idle", "check", "run", "report"}
    /\ writes \in 0..MaxWrites
    /\ pc # "idle" => nc # NoObj
    /\ cacheCurrent => sameObj /\ cache = obj
    /\ ncCurrent => obj # NoObj /\ nc = obj
    /\ obj # NoObj => obj.obs <= obj.gen /\ obj.gen <= writes + 1

FlagsType ==
    /\ sameObj \in BOOLEAN /\ cacheCurrent \in BOOLEAN /\ ncCurrent \in BOOLEAN
    /\ queued \in BOOLEAN /\ timer \in BOOLEAN /\ dhErr \in BOOLEAN /\ rebootDue \in BOOLEAN

\* The states in which a worker has a current request.
Working == {"rebind", "create", "bind", "setup"}

\* The position in the list of requests is that of the current request, if
\* there is one, and 0 if not.
WorkerInv ==
    /\ cur \in Slots
    /\ wpc \in [Slots -> WorkerStates]
    /\ wspec \in [Slots -> Specs \cup {NoSpec}]
    /\ cerr \in [Slots -> BOOLEAN]
    /\ skip \in [Slots -> BOOLEAN]
    /\ wi \in [Slots -> Nat]
    /\ had \in [Slots -> SUBSET PFs]
    /\ \A s \in Slots : wpc[s] # "none" => wspec[s] \in Specs
    /\ \A s \in Slots : IF wpc[s] \in Working THEN wi[s] \in DOMAIN Requested[wspec[s]]
                        ELSE wi[s] = 0

NodeInv ==
    /\ os \in OSes
    /\ cmdline \subseteq kargs /\ kargs \subseteq Params
    /\ dev \in [PFs -> Device]

FaultsType == faults \in Seq(Faults) /\ Len(faults) <= MaxFaults

TypeInv == ApiInv /\ FlagsType /\ WorkerInv /\ NodeInv /\ FaultsType

LEMMA TypeInvImpliesTypeOK == TypeInv => TypeOK
  BY DEF TypeInv, ApiInv, FlagsType, WorkerInv, NodeInv, FaultsType, TypeOK

\* What a worker's step leaves alone.
LEMMA WorkerFrame ==
  ASSUME NEW s \in Slots, Worker(s) \/ WorkFails(s)
  PROVE  UNCHANGED <<apiVars, queueVars, reconcileVars, wspec, writes>>
  BY DEF Worker, WorkFails, WorkerErrs, WorkerAt, Apply, Lead, Drained, MissesKernelParams,
         GrubbyAddsParams, RpmOstreeAppends, RequestReboot, UnsupportedOS, StartApply, RebindPF,
         CreatePFsVFs, BindPFsVFs, SetUpPF, RequestRefused, RestartDevicePlugin, OrphanEnds,
         boundVars

\* The bound on writes is a number.
LEMMA MaxWritesType == MaxWrites \in Nat
  BY NodeConfigAssumption

\* A new object is one.
LEMMA NewObjectType ==
  ASSUME NEW spec \in Specs \cup {NoSpec}
  PROVE  NewObject(spec) \in Object
  BY NodeConfigAssumption DEF NewObject, Object, Reasons

\* A status that is written changes the status of the object and nothing else.
LEMMA UpdateStatusShape ==
  ASSUME ApiInv, InventoryOf(dev) \in Inventory,
         NEW reason \in Reasons, NEW obs \in 0..(MaxWrites + 1), UpdateStatus(reason, obs)
  PROVE  /\ obj \in Object /\ nc = obj /\ ncCurrent
         /\ obj' \in Object /\ nc' = obj' /\ ncCurrent' = TRUE /\ cacheCurrent' = FALSE
         /\ obj'.gen = obj.gen /\ obj'.spec = obj.spec
         /\ obj'.reason = reason /\ obj'.obs = obs /\ obj'.inv = InventoryOf(dev)
         /\ obj' # NoObj
  BY NodeConfigAssumption DEF ApiInv, UpdateStatus, Object, inventory

\* updateCondition writes an outcome of the local object's generation, or nothing.
LEMMA UpdateConditionShape ==
  ASSUME ApiInv, InventoryOf(dev) \in Inventory, nc # NoObj,
         NEW reason \in Reasons, UpdateCondition(reason)
  PROVE  \/ /\ UpdateStatus(reason, nc.gen)
            /\ nc.gen \in 0..(MaxWrites + 1)
            /\ UNCHANGED faults
         \/ ~ncCurrent /\ UNCHANGED <<obj, nc, ncCurrent, cacheCurrent, faults>>
         \/ Fault("inventory") /\ UNCHANGED <<obj, nc, ncCurrent, cacheCurrent>>
  BY DEF UpdateCondition, StatusConflict, StatusFails, ApiInv, Object

\* ApiInv is kept by a step that writes an outcome and ends the attempt.
LEMMA OutcomeKeepsApiInv ==
  ASSUME ApiInv, InventoryOf(dev) \in Inventory, nc # NoObj, NEW reason \in Reasons,
         \/ UpdateCondition(reason)
         \/ UpdateStatus(reason, nc.gen)
         \/ UNCHANGED <<obj, nc, ncCurrent, cacheCurrent>>,
         pc' = "idle", UNCHANGED <<cache, sameObj, dhErr, writes>>
  PROVE  ApiInv'
  <1>1. nc.gen \in 0..(MaxWrites + 1)
    BY DEF ApiInv, Object
  <1>2. CASE UpdateStatus(reason, nc.gen)
    <2>1. /\ obj \in Object /\ obj' \in Object /\ nc' = obj' /\ cacheCurrent' = FALSE /\ obj' # NoObj
          /\ nc = obj /\ obj'.gen = obj.gen /\ obj'.obs = obj.gen
      BY <1>1, <1>2, UpdateStatusShape
    <2>2. obj'.obs <= obj'.gen /\ obj'.gen <= writes + 1
      BY <2>1, MaxWritesType DEF ApiInv, Object
    <2> QED
      BY <2>1, <2>2 DEF ApiInv
  <1>3. CASE UNCHANGED <<obj, nc, ncCurrent, cacheCurrent>>
    BY <1>3 DEF ApiInv
  <1> QED
    BY <1>2, <1>3, UpdateConditionShape

LEMMA ApiInvStep ==
  ASSUME TypeInv, Next
  PROVE  ApiInv'
  <1> USE DEF TypeInv
  <1>0. InventoryOf(dev) \in Inventory
    BY InventoryType DEF NodeInv
  <1>1. ASSUME NEW spec \in Specs \cup {NoSpec}, SetSpec(spec)
        PROVE  ApiInv'
    <2>1. NewObject(spec) \in Object /\ NewObject(spec).gen = 1 /\ NewObject(spec).obs = 0
      BY NewObjectType DEF NewObject
    <2>2. /\ obj' \in Object /\ obj'.obs <= obj'.gen /\ obj'.gen <= writes' + 1
      <3>1. CASE obj = NoObj
        BY <1>1, <2>1, <3>1 DEF SetSpec, ApiInv
      <3>2. CASE obj # NoObj
        <4>1. obj' \in Object /\ obj'.gen = obj.gen + 1 /\ obj'.obs = obj.obs /\ writes' = writes + 1
          <5>1. /\ obj' = [obj EXCEPT !.spec = spec, !.gen = obj.gen + 1] /\ writes' = writes + 1
                /\ writes \in 0..MaxWrites /\ writes < MaxWrites
                /\ obj \in Object /\ obj.gen <= writes + 1
            BY <1>1, <3>2 DEF SetSpec, ApiInv
          <5>2. obj.gen + 1 \in 1..(MaxWrites + 1)
            BY <5>1, MaxWritesType DEF Object
          <5> QED
            BY <5>1, <5>2 DEF Object
        <4> QED
          BY <3>2, <4>1 DEF ApiInv, Object
      <3> QED
        BY <3>1, <3>2
    <2> QED
      BY <1>1, <2>2, MaxWritesType DEF SetSpec, ApiInv, queueVars
  <1>2. CASE Delete
    BY <1>2 DEF Delete, ApiInv, queueVars
  <1>3. CASE Inform
    <2>1. CASE DeliverDelete
      BY <2>1 DEF DeliverDelete, ApiInv, reconcileVars, boundVars
    <2>2. CASE Deliver
      BY <2>2 DEF Deliver, ApiInv, reconcileVars, boundVars
    <2> QED
      BY <1>3, <2>1, <2>2 DEF Inform
  <1>4. CASE Resync \/ ResyncTooSoon
    BY <1>4 DEF Resync, ResyncTooSoon, Expire, ApiInv, apiVars, reconcileVars
  <1>5. CASE CreateEmptyNodeConfig
    <2>1. NewObject(NoSpec) \in Object /\ NewObject(NoSpec).gen = 1 /\ NewObject(NoSpec).obs = 0
      BY NewObjectType DEF NewObject
    <2>2. CASE obj = NoObj
      <3>1. obj' = NewObject(NoSpec) /\ ~cacheCurrent' /\ ~ncCurrent'
        BY <1>5, <2>2 DEF CreateEmptyNodeConfig, ApiInv, reconcileVars
      <3> QED
        BY <1>5, <2>1, <3>1, MaxWritesType DEF CreateEmptyNodeConfig, ApiInv, reconcileVars, boundVars
    <2>3. CASE obj # NoObj
      <3>1. UNCHANGED <<obj, cache, nc, sameObj, cacheCurrent, ncCurrent, pc, writes>>
        BY <1>5, <2>3 DEF CreateEmptyNodeConfig, reconcileVars, boundVars
      <3> QED
        BY <3>1 DEF ApiInv
    <2> QED
      BY <2>2, <2>3
  <1>6. CASE Get
    BY <1>6 DEF Get, ApiInv, apiVars, boundVars
  <1>7. CASE NothingToDo
    <2>1. nc # NoObj /\ "NotRequested" \in Reasons
      BY <1>7 DEF NothingToDo, ApiInv, Reasons
    <2> QED
      BY <1>0, <1>7, <2>1, OutcomeKeepsApiInv DEF NothingToDo
  <1>8. CASE ReturnEarly
    BY <1>8 DEF ReturnEarly, ApiInv, apiVars, boundVars
  <1>9. CASE Configure
    <2>1. nc \in Object
      BY <1>9 DEF Configure, ApiInv
    <2>2. CASE nc.reason = "none"
      BY <1>9, <2>1, <2>2 DEF Configure, CallRun, ApiInv
    <2>3. CASE UpdateStatus("InProgress", nc.obs) /\ CallRun
      <3>1. "InProgress" \in Reasons /\ nc.obs \in 0..(MaxWrites + 1)
        BY <2>1 DEF Object, Reasons
      <3> QED
        BY <1>0, <1>9, <2>1, <2>3, <3>1, UpdateStatusShape DEF Configure, CallRun, ApiInv
    <2>4. CASE pc' = "idle"
      BY <1>9, <2>1, <2>4 DEF Configure, CallRun, StatusConflict, StatusFails, ApiInv
    <2> QED
      BY <1>9, <2>2, <2>3, <2>4 DEF Configure
  <1>10. CASE RunReturns \/ DrainFails \/ LoseLease
    BY <1>10 DEF RunReturns, DrainFails, LoseLease, ApiInv, apiVars, queueVars
  <1>11. CASE Report
    <2>1. nc # NoObj /\ {"Unknown", "Failed", "Succeeded"} \subseteq Reasons
      BY <1>11 DEF Report, ApiInv, Reasons
    <2>3. \E reason \in Reasons :
             \/ UpdateCondition(reason)
             \/ UpdateStatus(reason, nc.gen)
             \/ UNCHANGED <<obj, nc, ncCurrent, cacheCurrent>>
      BY <1>11, <2>1 DEF Report
    <2> QED
      BY <1>0, <1>11, <2>1, <2>3, OutcomeKeepsApiInv DEF Report
  <1>12. CASE InventoryFails
    <2>1. nc # NoObj /\ "Failed" \in Reasons
      BY <1>12 DEF InventoryFails, ApiInv, Reasons
    <2> QED
      BY <1>0, <1>12, <2>1, OutcomeKeepsApiInv DEF InventoryFails
  <1>13. ASSUME NEW s \in Slots, Worker(s) \/ WorkFails(s)
         PROVE  ApiInv'
    BY <1>13, WorkerFrame DEF ApiInv, apiVars, queueVars, reconcileVars
  <1>14. CASE Crash \/ Reboot
    <2>1. Restart
      BY <1>14 DEF Crash, Reboot, Boot
    <2>2. NewObject(NoSpec) \in Object /\ NewObject(NoSpec).gen = 1 /\ NewObject(NoSpec).obs = 0
      BY NewObjectType DEF NewObject
    <2> QED
      BY <2>1, <2>2 DEF Restart, ApiInv
  <1>15. CASE Drift
    BY <1>15 DEF Drift, ApiInv, apiVars, queueVars, reconcileVars
  <1> QED
    BY <1>1, <1>2, <1>3, <1>4, <1>5, <1>6, <1>7, <1>8, <1>9, <1>10, <1>11, <1>12, <1>13,
       <1>14, <1>15 DEF Next, Reconcile

-----------------------------------------------------------------------------
(* The workers. *)

\* A worker goes to a state, with its position in the list.
WorkerMove(s, to, n) ==
    /\ wpc[s] # "none"
    /\ wpc' = [wpc EXCEPT ![s] = to]
    /\ wi' = [wi EXCEPT ![s] = n]
    /\ UNCHANGED <<cur, wspec>>
    /\ cerr' \in [Slots -> BOOLEAN]
    /\ skip' \in [Slots -> BOOLEAN]
    /\ had' \in [Slots -> SUBSET PFs]

\* A move keeps the invariant if the position fits the new state.
LEMMA WorkerMoveType ==
  ASSUME WorkerInv, NEW s \in Slots, NEW to \in WorkerStates, NEW n \in Nat, WorkerMove(s, to, n),
         IF to \in Working THEN n \in DOMAIN Requested[wspec[s]] ELSE n = 0
  PROVE  WorkerInv'
  <1>1. /\ wpc' \in [Slots -> WorkerStates] /\ wpc'[s] = to
        /\ wi' \in [Slots -> Nat] /\ wi'[s] = n
        /\ \A t \in Slots : t # s => wpc'[t] = wpc[t] /\ wi'[t] = wi[t]
    BY DEF WorkerMove, WorkerInv
  <1>2. ASSUME NEW t \in Slots
        PROVE  /\ wpc'[t] # "none" => wspec'[t] \in Specs
               /\ IF wpc'[t] \in Working THEN wi'[t] \in DOMAIN Requested[wspec'[t]]
                  ELSE wi'[t] = 0
    <2>1. CASE t = s
      BY <1>1, <2>1 DEF WorkerMove, WorkerInv
    <2>2. CASE t # s
      BY <1>1, <2>2 DEF WorkerMove, WorkerInv
    <2> QED
      BY <2>1, <2>2
  <1> QED
    BY <1>1, <1>2 DEF WorkerMove, WorkerInv

\* The current request is one.
LEMMA RequestType ==
  ASSUME WorkerInv, NEW s \in Slots, wpc[s] \in Working
  PROVE  request(s) \in Request
  <1>1. wspec[s] \in Specs /\ wi[s] \in DOMAIN Requested[wspec[s]]
    BY DEF WorkerInv, Working
  <1>2. Requested[wspec[s]] \in Seq(Request)
    BY <1>1, NodeConfigAssumption
  <1> QED
    BY <1>1, <1>2 DEF request

\* A worker that ends with an error is done, with no current request.
LEMMA WorkerErrsMove ==
  ASSUME WorkerInv, NEW s \in Slots, wpc[s] # "none", WorkerErrs(s)
  PROVE  WorkerInv'
  <1>1. WorkerMove(s, "done", 0)
    BY DEF WorkerMove, WorkerErrs, WorkerInv, reconcileVars
  <1> QED
    BY <1>1, WorkerMoveType DEF Working, WorkerStates

LEMMA WorkerKeepsWorkerInv ==
  ASSUME WorkerInv, NEW s \in Slots, Worker(s) \/ WorkFails(s)
  PROVE  WorkerInv'
  <1> USE DEF reconcileVars, applyVars
  <1>1. CASE Lead(s)
    <2>1. WorkerMove(s, "drain", 0)
      BY <1>1 DEF Lead, WorkerAt, WorkerMove, WorkerInv, Working
    <2> QED
      BY <2>1, WorkerMoveType DEF Working, WorkerStates
  <1>2. CASE Drained(s)
    <2>1. WorkerMove(s, "check", 0)
      BY <1>2 DEF Drained, WorkerAt, WorkerMove, WorkerInv, Working
    <2> QED
      BY <2>1, WorkerMoveType DEF Working, WorkerStates
  <1>3. CASE MissesKernelParams(s)
    <2>1. WorkerMove(s, "params", 0)
      BY <1>3 DEF MissesKernelParams, WorkerAt, WorkerMove, WorkerInv, Working
    <2> QED
      BY <2>1, WorkerMoveType DEF Working, WorkerStates
  <1>4. CASE GrubbyAddsParams(s) \/ RpmOstreeAppends(s)
    <2>1. WorkerMove(s, "params", 0)
      BY <1>4 DEF GrubbyAddsParams, RpmOstreeAppends, WorkerAt, WorkerMove, WorkerInv, Working
    <2> QED
      BY <2>1, WorkerMoveType DEF Working, WorkerStates
  <1>5. CASE RequestReboot(s)
    <2>1. WorkerMove(s, "parked", 0)
      BY <1>5 DEF RequestReboot, WorkerAt, WorkerMove, WorkerInv, Working
    <2> QED
      BY <2>1, WorkerMoveType DEF Working, WorkerStates
  <1>6. CASE UnsupportedOS(s)
    BY <1>6, WorkerErrsMove DEF UnsupportedOS
  <1>7. CASE StartApply(s)
    <2>1. WorkerMove(s, "rebind", 1)
      BY <1>7 DEF StartApply, WorkerAt, WorkerMove, WorkerInv
    <2>2. Requested[wspec[s]] \in Seq(Request) /\ Requested[wspec[s]] # <<>>
      BY <1>7, NodeConfigAssumption DEF StartApply, WorkerAt, WorkerInv
    <2>3. 1 \in DOMAIN Requested[wspec[s]]
      BY <2>2, EmptySeq, LenProperties
    <2> QED
      BY <2>1, <2>3, WorkerMoveType DEF Working, WorkerStates
  <1>8. CASE RebindPF(s)
    <2>1. WorkerMove(s, "create", wi[s])
      BY <1>8 DEF RebindPF, Apply, WorkerAt, WorkerMove, WorkerInv
    <2>2. wi[s] \in DOMAIN Requested[wspec[s]] /\ wi[s] \in Nat
      BY <1>8 DEF RebindPF, WorkerInv, Working
    <2> QED
      BY <2>1, <2>2, WorkerMoveType DEF Working, WorkerStates
  <1>9. CASE CreatePFsVFs(s)
    <2>1. WorkerMove(s, "bind", wi[s])
      BY <1>9 DEF CreatePFsVFs, Apply, WorkerAt, WorkerMove, WorkerInv
    <2>2. wi[s] \in DOMAIN Requested[wspec[s]] /\ wi[s] \in Nat
      BY <1>9 DEF CreatePFsVFs, WorkerInv, Working
    <2> QED
      BY <2>1, <2>2, WorkerMoveType DEF Working, WorkerStates
  <1>10. CASE BindPFsVFs(s)
    <2>1. WorkerMove(s, "setup", wi[s])
      BY <1>10 DEF BindPFsVFs, Apply, WorkerAt, WorkerMove, WorkerInv
    <2>2. wi[s] \in DOMAIN Requested[wspec[s]] /\ wi[s] \in Nat
      BY <1>10 DEF BindPFsVFs, WorkerInv, Working
    <2> QED
      BY <2>1, <2>2, WorkerMoveType DEF Working, WorkerStates
  <1>11. CASE SetUpPF(s)
    <2>1. wpc[s] = "setup" /\ wspec[s] \in Specs /\ wi[s] \in DOMAIN Requested[wspec[s]]
      BY <1>11 DEF SetUpPF, WorkerInv, Working
    <2>2. Requested[wspec[s]] \in Seq(Request)
      BY <2>1, NodeConfigAssumption
    <2>3. CASE wi[s] = Len(Requested[wspec[s]])
      <3>1. WorkerMove(s, "plugin", 0)
        BY <1>11, <2>1, <2>3 DEF SetUpPF, Apply, WorkerAt, WorkerMove, WorkerInv
      <3> QED
        BY <3>1, WorkerMoveType DEF Working, WorkerStates
    <2>4. CASE wi[s] # Len(Requested[wspec[s]])
      <3>1. WorkerMove(s, "rebind", wi[s] + 1)
        BY <1>11, <2>1, <2>4 DEF SetUpPF, Apply, WorkerAt, WorkerMove, WorkerInv
      <3>2. wi[s] + 1 \in DOMAIN Requested[wspec[s]] /\ wi[s] + 1 \in Nat
        BY <2>1, <2>2, <2>4, LenProperties
      <3> QED
        BY <3>1, <3>2, WorkerMoveType DEF Working, WorkerStates
    <2> QED
      BY <2>3, <2>4
  <1>12. CASE RequestRefused(s)
    BY <1>12, WorkerErrsMove DEF RequestRefused
  <1>13. CASE RestartDevicePlugin(s)
    <2>1. WorkerMove(s, "done", 0)
      BY <1>13 DEF RestartDevicePlugin, WorkerAt, WorkerMove, WorkerInv, Working
    <2> QED
      BY <2>1, WorkerMoveType DEF Working, WorkerStates
  <1>14. CASE OrphanEnds(s)
    <2>1. WorkerMove(s, "none", 0)
      BY <1>14 DEF OrphanEnds, WorkerMove, WorkerInv, Working
    <2> QED
      BY <2>1, WorkerMoveType DEF Working, WorkerStates
  <1>15. CASE WorkFails(s)
    BY <1>15, WorkerErrsMove DEF WorkFails
  <1> QED
    BY <1>1, <1>2, <1>3, <1>4, <1>5, <1>6, <1>7, <1>8, <1>9, <1>10, <1>11, <1>12, <1>13,
       <1>14, <1>15 DEF Worker

LEMMA WorkerInvStep ==
  ASSUME TypeInv, Next
  PROVE  WorkerInv'
  <1> USE DEF TypeInv
  <1>1. CASE UNCHANGED <<cur, workerVars>>
    BY <1>1 DEF WorkerInv, workerVars
  <1>2. ASSUME NEW s \in Slots, Worker(s) \/ WorkFails(s)
        PROVE  WorkerInv'
    BY <1>2, WorkerKeepsWorkerInv
  <1>3. CASE CallRun /\ Configure
    <2>1. PICK s \in Slots :
             /\ wpc[s] = "none"
             /\ cur' = s
             /\ wpc' = [wpc EXCEPT ![s] = "wait"]
             /\ wspec' = [wspec EXCEPT ![s] = nc.spec]
             /\ cerr' = [cerr EXCEPT ![s] = FALSE]
             /\ skip' = [skip EXCEPT ![s] = FALSE]
             /\ UNCHANGED applyVars
      BY <1>3 DEF CallRun
    <2>2. nc.spec \in Specs
      BY <1>3 DEF Configure, ApiInv, Object
    <2>3. /\ wpc' \in [Slots -> WorkerStates] /\ wspec' \in [Slots -> Specs \cup {NoSpec}]
          /\ cerr' \in [Slots -> BOOLEAN] /\ skip' \in [Slots -> BOOLEAN]
          /\ UNCHANGED <<wi, had>>
      BY <2>1, <2>2 DEF WorkerInv, WorkerStates, applyVars
    <2>4. ASSUME NEW t \in Slots
          PROVE  /\ wpc'[t] # "none" => wspec'[t] \in Specs
                 /\ IF wpc'[t] \in Working THEN wi'[t] \in DOMAIN Requested[wspec'[t]]
                    ELSE wi'[t] = 0
      BY <2>1, <2>2, <2>3 DEF WorkerInv, Working
    <2> QED
      BY <2>1, <2>3, <2>4 DEF WorkerInv
  <1>4. CASE RunReturns \/ DrainFails
    <2>1. WorkerMove(cur, "none", 0)
      BY <1>4 DEF RunReturns, DrainFails, WorkerMove, WorkerInv, Working, applyVars
    <2> QED
      BY <2>1, WorkerMoveType DEF Working, WorkerStates, WorkerInv
  <1>5. CASE Restart
    BY <1>5 DEF Restart, WorkerInv, WorkerStates, Working
  <1>6. CASE Configure
    BY <1>1, <1>3, <1>6 DEF Configure
  <1>7. CASE Crash \/ Reboot
    BY <1>5, <1>7 DEF Crash, Reboot, Boot
  <1>8. CASE Inform \/ Resync \/ ResyncTooSoon
    BY <1>1, <1>8 DEF Inform, Deliver, DeliverDelete, Resync, ResyncTooSoon, Expire, reconcileVars
  <1>9. CASE CreateEmptyNodeConfig \/ Get \/ NothingToDo \/ ReturnEarly \/ Report
    BY <1>1, <1>9 DEF CreateEmptyNodeConfig, Get, NothingToDo, ReturnEarly, Report, reconcileVars
  <1>10. CASE (\E spec \in Specs \cup {NoSpec} : SetSpec(spec)) \/ Delete
    BY <1>1, <1>10 DEF SetSpec, Delete
  <1>11. CASE InventoryFails \/ LoseLease \/ Drift
    BY <1>1, <1>11 DEF InventoryFails, LoseLease, Drift, reconcileVars
  <1> QED
    BY <1>2, <1>4, <1>6, <1>7, <1>8, <1>9, <1>10, <1>11 DEF Next, Reconcile

-----------------------------------------------------------------------------
(* The node, the flags and the faults.                                      *)

\* The devices stay devices when one of them is replaced by a device.
LEMMA DevType ==
  ASSUME dev \in [PFs -> Device], NEW pf, NEW device, pf \in PFs => device \in Device,
         dev' = [dev EXCEPT ![pf] = device]
  PROVE  dev' \in [PFs -> Device]
  OBVIOUS

\* A device without its VFs is a device.
LEMMA NoVFsType ==
  ASSUME NEW device \in Device
  PROVE  [device EXCEPT !.vfs = NoVFs] \in Device
  BY BareType DEF Device

\* What a worker does to the node: it adds kernel parameters for the next boot
\* and requests a reboot, or it works on a device.
LEMMA WorkerKeepsNodeInv ==
  ASSUME WorkerInv, NodeInv, NEW s \in Slots, Worker(s) \/ WorkFails(s)
  PROVE  NodeInv'
  <1> USE DEF nodeVars, kernelVars
  <1>1. CASE GrubbyAddsParams(s)
    BY <1>1 DEF GrubbyAddsParams, NodeInv
  <1>2. CASE RpmOstreeAppends(s)
    BY <1>2 DEF RpmOstreeAppends, NodeInv, Params
  <1>3. CASE RequestReboot(s)
    BY <1>3 DEF RequestReboot, NodeInv
  <1>4. ASSUME NEW device, request(s) \in Request /\ request(s).pf \in PFs => device \in Device,
               wpc[s] \in Working, dev' = [dev EXCEPT ![request(s).pf] = device],
               UNCHANGED kernelVars
        PROVE  NodeInv'
    <2>1. request(s) \in Request
      BY <1>4, RequestType
    <2> QED
      BY <1>4, <2>1, DevType DEF NodeInv
  <1>5. CASE RebindPF(s)
    <2> DEFINE device == Rebind(dev[request(s).pf], request(s), request(s).pf \in had[s])
    <2>1. ASSUME request(s) \in Request, request(s).pf \in PFs
          PROVE  device \in Device
      <3>1. (request(s).pf \in had[s]) \in BOOLEAN
        OBVIOUS
      <3>2. dev[request(s).pf] \in Device
        BY <2>1 DEF NodeInv
      <3> QED
        BY <2>1, <3>1, <3>2, RebindType
    <2>2. /\ wpc[s] \in Working /\ dev' = [dev EXCEPT ![request(s).pf] = device]
          /\ UNCHANGED kernelVars
      BY <1>5 DEF RebindPF, Apply, Working
    <2> QED
      BY <1>4, <2>1, <2>2
  <1>6. CASE CreatePFsVFs(s)
    <2> DEFINE device == CreateVFs(dev[request(s).pf], request(s))
    <2>1. request(s) \in Request /\ request(s).pf \in PFs => device \in Device
      BY <1>6, CreateVFsType DEF NodeInv, CreatePFsVFs
    <2>2. /\ wpc[s] \in Working /\ dev' = [dev EXCEPT ![request(s).pf] = device]
          /\ UNCHANGED kernelVars
      BY <1>6 DEF CreatePFsVFs, Apply, Working
    <2> QED
      BY <1>4, <2>1, <2>2
  <1>7. CASE BindPFsVFs(s)
    <2> DEFINE device == BindVFs(dev[request(s).pf], request(s))
    <2>1. request(s) \in Request /\ request(s).pf \in PFs => device \in Device
      BY BindVFsType DEF NodeInv
    <2>2. /\ wpc[s] \in Working /\ dev' = [dev EXCEPT ![request(s).pf] = device]
          /\ UNCHANGED kernelVars
      BY <1>7 DEF BindPFsVFs, Apply, Working
    <2> QED
      BY <1>4, <2>1, <2>2
  <1>8. CASE SetUpPF(s)
    <2> DEFINE device == SetUp(dev[request(s).pf], request(s))
    <2>1. request(s) \in Request /\ request(s).pf \in PFs => device \in Device
      BY SetUpType DEF NodeInv
    <2>2. /\ wpc[s] \in Working /\ dev' = [dev EXCEPT ![request(s).pf] = device]
          /\ UNCHANGED kernelVars
      BY <1>8 DEF SetUpPF, Apply, Working
    <2> QED
      BY <1>4, <2>1, <2>2
  <1>9. CASE RequestRefused(s)
    <2>1. CASE UNCHANGED dev
      BY <1>9, <2>1 DEF RequestRefused, NodeInv
    <2>2. CASE wpc[s] = "create" /\ dev' = [dev EXCEPT ![request(s).pf].vfs = NoVFs]
      <3> DEFINE device == [dev[request(s).pf] EXCEPT !.vfs = NoVFs]
      <3>1. request(s) \in Request /\ request(s).pf \in PFs => device \in Device
        BY NoVFsType DEF NodeInv
      <3>2. /\ wpc[s] \in Working /\ dev' = [dev EXCEPT ![request(s).pf] = device]
            /\ UNCHANGED kernelVars
        BY <1>9, <2>2 DEF RequestRefused, Working
      <3> QED
        BY <1>4, <3>1, <3>2
    <2> QED
      BY <1>9, <2>1, <2>2 DEF RequestRefused
  <1>10. CASE WorkFails(s)
    <2>1. CASE UNCHANGED dev
      BY <1>10, <2>1 DEF WorkFails, NodeInv
    <2>2. CASE /\ wpc[s] \in {"rebind", "create", "bind", "setup"} /\ request(s).pf \in PFs
               /\ \E device \in Halfway(s) : dev' = [dev EXCEPT ![request(s).pf] = device]
      <3>1. PICK device \in Halfway(s) : dev' = [dev EXCEPT ![request(s).pf] = device]
        BY <2>2
      <3>2. request(s) \in Request
        BY <2>2, RequestType DEF Working
      <3>3. dev[request(s).pf] \in Device
        BY <2>2 DEF NodeInv
      <3>4. device \in Device
        <4> DEFINE d == dev[request(s).pf]
        <4>1. CASE wpc[s] = "rebind"
          <5>1. (request(s).pf \in had[s]) \in BOOLEAN
            OBVIOUS
          <5>2. RebindHalfway(d, request(s).pf \in had[s]) \subseteq Device
            BY <3>2, <3>3, <5>1, RebindType
          <5> QED
            BY <3>1, <3>3, <4>1, <5>2 DEF Halfway
        <4>2. CASE wpc[s] = "create"
          BY <3>1, <3>2, <3>3, <4>2, CreateVFsType DEF Halfway
        <4>3. CASE wpc[s] = "bind"
          BY <3>1, <3>2, <3>3, <4>3, BindVFsType DEF Halfway
        <4>4. CASE wpc[s] = "setup"
          BY <3>1, <3>2, <3>3, <4>4, SetUpType DEF Halfway
        <4> QED
          BY <2>2, <4>1, <4>2, <4>3, <4>4
      <3>5. wpc[s] \in Working /\ UNCHANGED kernelVars
        BY <1>10, <2>2 DEF WorkFails, Working
      <3> QED
        BY <1>4, <3>1, <3>4, <3>5
    <2> QED
      BY <1>10, <2>1, <2>2 DEF WorkFails
  <1>11. CASE UNCHANGED nodeVars
    BY <1>11 DEF NodeInv
  <1>12. CASE \/ Lead(s) \/ Drained(s) \/ MissesKernelParams(s) \/ UnsupportedOS(s)
              \/ StartApply(s) \/ RestartDevicePlugin(s) \/ OrphanEnds(s)
    BY <1>11, <1>12 DEF Lead, Drained, MissesKernelParams, UnsupportedOS, StartApply,
                        RestartDevicePlugin, OrphanEnds
  <1> QED
    BY <1>1, <1>2, <1>3, <1>5, <1>6, <1>7, <1>8, <1>9, <1>10, <1>12 DEF Worker

LEMMA NodeInvStep ==
  ASSUME TypeInv, Next
  PROVE  NodeInv'
  <1> USE DEF TypeInv
  <1>1. CASE UNCHANGED nodeVars
    BY <1>1 DEF NodeInv, nodeVars
  <1>2. ASSUME NEW s \in Slots, Worker(s) \/ WorkFails(s)
        PROVE  NodeInv'
    BY <1>2, WorkerKeepsNodeInv
  <1>3. CASE Boot
    BY <1>3, BareType DEF Boot, NodeInv
  <1>4. CASE Drift
    <2>1. PICK pf \in PFs : dev' = [dev EXCEPT ![pf].vfs = NoVFs]
      BY <1>4 DEF Drift
    <2>2. [dev[pf] EXCEPT !.vfs = NoVFs] \in Device
      BY NoVFsType DEF NodeInv
    <2> QED
      BY <1>4, <2>1, <2>2 DEF Drift, NodeInv, kernelVars
  <1>5. CASE Crash \/ Reboot
    BY <1>1, <1>3, <1>5 DEF Crash, Reboot
  <1>6. CASE (\E spec \in Specs \cup {NoSpec} : SetSpec(spec)) \/ Delete \/ Inform
    BY <1>1, <1>6 DEF SetSpec, Delete, Inform, Deliver, DeliverDelete
  <1>7. CASE Resync \/ ResyncTooSoon
    BY <1>1, <1>7 DEF Resync, ResyncTooSoon, Expire
  <1>8. CASE Reconcile \/ InventoryFails \/ DrainFails \/ LoseLease
    BY <1>1, <1>8 DEF Reconcile, CreateEmptyNodeConfig, Get, NothingToDo, ReturnEarly, Configure,
                      RunReturns, Report, InventoryFails, DrainFails, LoseLease
  <1> QED
    BY <1>2, <1>4, <1>5, <1>6, <1>7, <1>8 DEF Next

\* A fault is added to the record of faults, which stays within its bound.
LEMMA FaultType ==
  ASSUME FaultsType, NEW kind, Fault(kind)
  PROVE  FaultsType'
  <1>1. /\ Append(faults, kind) \in Seq(Faults)
        /\ Len(Append(faults, kind)) = Len(faults) + 1
    BY AppendProperties DEF FaultsType, Fault
  <1>2. Len(faults) \in Nat /\ MaxFaults \in Nat
    BY LenProperties, NodeConfigAssumption DEF FaultsType
  <1> QED
    BY <1>1, <1>2 DEF FaultsType, Fault

\* A step records one fault or none.
LEMMA FaultStep ==
  ASSUME Next
  PROVE  UNCHANGED faults \/ \E kind \in FaultKinds : Fault(kind)
  <1>1. CASE (\E spec \in Specs \cup {NoSpec} : SetSpec(spec)) \/ Inform
    BY <1>1 DEF SetSpec, Inform, Deliver, DeliverDelete, boundVars
  <1>2. CASE Delete \/ Resync \/ ResyncTooSoon
    BY <1>2 DEF Delete, Resync, ResyncTooSoon, FaultKinds
  <1>3. CASE CreateEmptyNodeConfig \/ Get \/ ReturnEarly
    BY <1>3 DEF CreateEmptyNodeConfig, Get, ReturnEarly, boundVars
  <1>4. CASE NothingToDo \/ Report
    BY <1>4 DEF NothingToDo, Report, UpdateCondition, StatusFails, FaultKinds
  <1>5. CASE Configure \/ RunReturns
    BY <1>5 DEF Configure, StatusFails, RunReturns, FaultKinds
  <1>6. CASE InventoryFails \/ DrainFails \/ LoseLease \/ Drift \/ Crash \/ Reboot
    BY <1>6 DEF InventoryFails, DrainFails, LoseLease, Drift, Crash, Reboot, FaultKinds
  <1>7. ASSUME NEW s \in Slots, Worker(s) \/ WorkFails(s)
        PROVE  UNCHANGED faults \/ Fault("work")
    BY <1>7 DEF Worker, WorkFails, WorkerAt, Apply, Lead, Drained, MissesKernelParams,
         GrubbyAddsParams, RpmOstreeAppends, RequestReboot, UnsupportedOS, StartApply, RebindPF,
         CreatePFsVFs, BindPFsVFs, SetUpPF, RequestRefused, RestartDevicePlugin, OrphanEnds,
         boundVars
  <1>8. "work" \in FaultKinds
    BY DEF FaultKinds
  <1> QED
    BY <1>1, <1>2, <1>3, <1>4, <1>5, <1>6, <1>7, <1>8 DEF Next, Reconcile

\* The flags stay Booleans.
LEMMA FlagsStep ==
  ASSUME ApiInv, FlagsType, Next
  PROVE  FlagsType'
  <1> USE DEF FlagsType
  <1>1. CASE (\E spec \in Specs \cup {NoSpec} : SetSpec(spec)) \/ Delete
    BY <1>1 DEF SetSpec, Delete, queueVars, nodeVars
  <1>2. CASE Deliver
    BY <1>2 DEF Deliver, nodeVars, reconcileVars
  <1>3. CASE DeliverDelete
    BY <1>3 DEF DeliverDelete, nodeVars, reconcileVars
  <1>4. CASE Resync \/ ResyncTooSoon
    BY <1>4 DEF Resync, ResyncTooSoon, Expire, apiVars, nodeVars, reconcileVars
  <1>5. CASE CreateEmptyNodeConfig
    BY <1>5 DEF CreateEmptyNodeConfig, nodeVars, reconcileVars
  <1>6. CASE Get \/ ReturnEarly
    BY <1>6 DEF Get, ReturnEarly, RequeueAfter, apiVars, nodeVars
  <1>7. CASE NothingToDo
    BY <1>7 DEF NothingToDo, UpdateCondition, UpdateStatus, StatusConflict, StatusFails,
                queueVars, nodeVars
  <1>8. CASE Configure
    BY <1>8 DEF Configure, CallRun, UpdateStatus, StatusConflict, StatusFails, nodeVars
  <1>9. CASE RunReturns \/ DrainFails \/ LoseLease
    BY <1>9 DEF RunReturns, DrainFails, LoseLease, apiVars, queueVars, nodeVars
  <1>10. CASE Report
    BY <1>10 DEF Report, RequeueAfter, UpdateCondition, UpdateStatus, StatusConflict, StatusFails,
                 queueVars, nodeVars
  <1>11. CASE InventoryFails
    BY <1>11 DEF InventoryFails, UpdateStatus, nodeVars
  <1>12. CASE Crash \/ Reboot
    BY <1>12 DEF Crash, Reboot, Boot, Restart, nodeVars
  <1>13. CASE Drift
    BY <1>13 DEF Drift, apiVars, queueVars, reconcileVars, kernelVars
  <1>14. ASSUME NEW s \in Slots, Worker(s) \/ WorkFails(s)
         PROVE  FlagsType'
    <2>1. UNCHANGED <<sameObj, cacheCurrent, ncCurrent, queued, timer, dhErr>>
      BY <1>14, WorkerFrame DEF apiVars, queueVars, reconcileVars
    <2>2. rebootDue' \in BOOLEAN
      BY <1>14 DEF Worker, WorkFails, WorkerAt, Apply, Lead, Drained, MissesKernelParams,
         GrubbyAddsParams, RpmOstreeAppends, RequestReboot, UnsupportedOS, StartApply, RebindPF,
         CreatePFsVFs, BindPFsVFs, SetUpPF, RequestRefused, RestartDevicePlugin, OrphanEnds,
         nodeVars, kernelVars
    <2> QED
      BY <2>1, <2>2
  <1> QED
    BY <1>1, <1>2, <1>3, <1>4, <1>5, <1>6, <1>7, <1>8, <1>9, <1>10, <1>11, <1>12, <1>13, <1>14
       DEF Next, Reconcile, Inform

LEMMA TypeInvInit == Init => TypeInv
  <1> SUFFICES ASSUME Init PROVE TypeInv
    OBVIOUS
  <1>1. NewObject(NoSpec) \in Object /\ NewObject(NoSpec).gen = 1 /\ NewObject(NoSpec).obs = 0
    BY NewObjectType DEF NewObject
  <1>2. ApiInv
    BY <1>1, MaxWritesType, NodeConfigAssumption DEF Init, ApiInv
  <1>3. WorkerInv
    BY DEF Init, WorkerInv, WorkerStates, Working
  <1>4. NodeInv
    BY BareType DEF Init, NodeInv
  <1>5. FaultsType
    BY NodeConfigAssumption DEF Init, FaultsType
  <1> QED
    BY <1>2, <1>3, <1>4, <1>5 DEF TypeInv, FlagsType, Init

LEMMA TypeInvStep == TypeInv /\ [Next]_vars => TypeInv'
  <1> SUFFICES ASSUME TypeInv, [Next]_vars PROVE TypeInv'
    OBVIOUS
  <1>1. CASE Next
    <2>1. ApiInv' /\ WorkerInv' /\ NodeInv'
      BY <1>1, ApiInvStep, WorkerInvStep, NodeInvStep
    <2>2. FlagsType'
      BY <1>1, FlagsStep DEF TypeInv
    <2>3. FaultsType'
      <3>1. CASE UNCHANGED faults
        BY <3>1 DEF TypeInv, FaultsType
      <3>2. CASE \E kind \in FaultKinds : Fault(kind)
        BY <3>2, FaultType DEF TypeInv
      <3> QED
        BY <1>1, <3>1, <3>2, FaultStep
    <2> QED
      BY <2>1, <2>2, <2>3 DEF TypeInv
  <1>2. CASE UNCHANGED vars
    BY <1>2 DEF vars, TypeInv, ApiInv, WorkerInv, NodeInv, FlagsType, FaultsType
  <1> QED
    BY <1>1, <1>2

\* The invariant holds in every state.
THEOREM TypeInvariance == Spec => []TypeInv
  BY TypeInvInit, TypeInvStep, PTL DEF Spec

\* Every variable keeps its type, in every state of every instance.
THEOREM TypeCorrect == Spec => []TypeOK
  BY TypeInvariance, TypeInvImpliesTypeOK, PTL

-----------------------------------------------------------------------------
(* What a step does to the object: NodeObject's view of it.                 *)

Outcomes == Reasons \ {"none", "InProgress"}

\* The object as NodeObject shows it.
View(o) == IF o = NoObj THEN NoObj
           ELSE [gen |-> o.gen, spec |-> o.spec, reason |-> o.reason, obs |-> o.obs]

\* The daemon begins with the object, or concludes its latest generation.
Begins == /\ obj \in Object /\ obj' \in Object /\ obj.reason # "none" /\ obj'.reason = "InProgress"
          /\ obj'.gen = obj.gen /\ obj'.spec = obj.spec /\ obj'.obs = obj.obs
Concludes == /\ obj \in Object /\ obj' \in Object /\ obj'.reason \in Outcomes
             /\ obj'.gen = obj.gen /\ obj'.spec = obj.spec /\ obj'.obs = obj.gen

\* The object is created, its spec is changed, or it is deleted.
Created == obj = NoObj /\ \E spec \in Specs \cup {NoSpec} : obj' = NewObject(spec)
Changed == /\ obj \in Object /\ obj' \in Object
           /\ obj'.spec \in Specs \cup {NoSpec} /\ obj'.spec # obj.spec
           /\ obj'.gen = obj.gen + 1 /\ obj'.reason = obj.reason /\ obj'.obs = obj.obs
Deleted == obj \in Object /\ obj' = NoObj

\* A condition other than "InProgress" is an outcome, of the generation of the
\* object as it is when it is written.
LEMMA OutcomeConcludes ==
  ASSUME TypeInv, nc # NoObj, NEW reason \in Outcomes,
         UpdateCondition(reason) \/ UpdateStatus(reason, nc.gen)
  PROVE  Concludes \/ UNCHANGED obj
  <1>1. InventoryOf(dev) \in Inventory
    BY InventoryType DEF TypeInv, NodeInv
  <1>2. reason \in Reasons /\ nc.gen \in 0..(MaxWrites + 1)
    BY DEF Outcomes, TypeInv, ApiInv, Object
  <1>3. CASE UpdateStatus(reason, nc.gen)
    BY <1>1, <1>2, <1>3, UpdateStatusShape DEF Concludes, TypeInv
  <1> QED
    BY <1>1, <1>2, <1>3, UpdateConditionShape DEF TypeInv

LEMMA SetSpecSteps ==
  ASSUME TypeInv, NEW spec \in Specs \cup {NoSpec}, SetSpec(spec), ApiInv'
  PROVE  Created \/ Changed
  <1>1. CASE obj = NoObj
    BY <1>1 DEF SetSpec, Created
  <1>2. CASE obj # NoObj
    <2>1. obj \in Object /\ obj' = [obj EXCEPT !.spec = spec, !.gen = obj.gen + 1]
          /\ spec # obj.spec
      BY <1>2 DEF SetSpec, TypeInv, ApiInv
    <2>2. obj' # NoObj
      <3>1. obj.gen \in 1..(MaxWrites + 1) /\ obj.gen <= writes + 1 /\ writes < MaxWrites
            /\ writes \in 0..MaxWrites
        BY <1>2, <2>1 DEF SetSpec, TypeInv, ApiInv, Object
      <3>2. obj.gen + 1 \in 1..(MaxWrites + 1)
        BY <3>1, MaxWritesType
      <3> QED
        BY <2>1, <3>2, NodeConfigAssumption DEF Object
    <2>3. obj' \in Object
      BY <2>2 DEF ApiInv
    <2> QED
      BY <2>1, <2>3 DEF Changed, Object
  <1> QED
    BY <1>1, <1>2

LEMMA ObjectSteps ==
  ASSUME TypeInv, Next
  PROVE  Begins \/ Concludes \/ Created \/ Changed \/ Deleted \/ UNCHANGED obj
  <1>1. ApiInv /\ ApiInv' /\ InventoryOf(dev) \in Inventory
    BY ApiInvStep, InventoryType DEF TypeInv, NodeInv
  <1>2. ASSUME NEW spec \in Specs \cup {NoSpec}, SetSpec(spec)
        PROVE  Created \/ Changed
    BY <1>1, <1>2, SetSpecSteps
  <1>3. CASE Delete
    BY <1>1, <1>3 DEF Delete, Deleted, ApiInv
  <1>4. CASE Inform \/ Resync \/ ResyncTooSoon
    BY <1>4 DEF Inform, Deliver, DeliverDelete, Resync, ResyncTooSoon, Expire, apiVars
  <1>5. CASE CreateEmptyNodeConfig
    BY <1>5 DEF CreateEmptyNodeConfig, Created
  <1>6. CASE Get \/ ReturnEarly \/ RunReturns \/ DrainFails \/ LoseLease \/ Drift
    BY <1>6 DEF Get, ReturnEarly, RunReturns, DrainFails, LoseLease, Drift, apiVars
  <1>7. CASE NothingToDo
    <2>1. nc # NoObj /\ UpdateCondition("NotRequested") /\ "NotRequested" \in Outcomes
      BY <1>1, <1>7 DEF NothingToDo, ApiInv, Outcomes, Reasons
    <2> QED
      BY <2>1, OutcomeConcludes
  <1>8. CASE Configure
    <2>1. nc \in Object
      BY <1>1, <1>8 DEF Configure, ApiInv
    <2>2. CASE UpdateStatus("InProgress", nc.obs) /\ nc.reason # "none"
      <3>1. "InProgress" \in Reasons /\ nc.obs \in 0..(MaxWrites + 1)
        BY <2>1 DEF Object, Reasons
      <3> QED
        BY <1>1, <2>2, <3>1, UpdateStatusShape DEF Begins
    <2>3. CASE UNCHANGED obj
      BY <2>3
    <2> QED
      BY <1>8, <2>2, <2>3 DEF Configure, StatusConflict, StatusFails
  <1>9. CASE Report
    <2>1. nc # NoObj /\ {"Unknown", "Failed", "Succeeded"} \subseteq Outcomes
      BY <1>1, <1>9 DEF Report, ApiInv, Outcomes, Reasons
    <2>2. \/ UNCHANGED obj
          \/ \E reason \in Outcomes : UpdateCondition(reason) \/ UpdateStatus(reason, nc.gen)
      BY <1>9, <2>1 DEF Report
    <2> QED
      BY <2>1, <2>2, OutcomeConcludes
  <1>10. CASE InventoryFails
    <2>1. nc # NoObj /\ "Failed" \in Outcomes
      BY <1>1, <1>10 DEF InventoryFails, ApiInv, Outcomes, Reasons
    <2> QED
      BY <1>10, <2>1, OutcomeConcludes DEF InventoryFails
  <1>11. ASSUME NEW s \in Slots, Worker(s) \/ WorkFails(s)
         PROVE  UNCHANGED obj
    BY <1>11, WorkerFrame DEF apiVars
  <1>12. CASE Crash \/ Reboot
    BY <1>12 DEF Crash, Reboot, Boot, Restart, Created
  <1> QED
    BY <1>2, <1>3, <1>4, <1>5, <1>6, <1>7, <1>8, <1>9, <1>10, <1>11, <1>12 DEF Next, Reconcile

\* A late Reconcile never overwrites the outcome of a later generation.
THEOREM OutcomesStayRecent == Spec => ObservedNeverFalls
  <1>1. ASSUME TypeInv, Next
        PROVE  obj # NoObj /\ obj' # NoObj => obj'.obs >= obj.obs
    <2> SUFFICES ASSUME obj # NoObj, obj' # NoObj
                 PROVE  obj'.obs >= obj.obs
      OBVIOUS
    <2>1. obj.obs \in Nat /\ obj.gen \in Nat /\ obj.obs <= obj.gen
      BY <1>1, MaxWritesType DEF TypeInv, ApiInv, Object
    <2> QED
      BY <1>1, <2>1, ObjectSteps DEF Begins, Concludes, Created, Changed, Deleted
  <1>2. TypeInv /\ [Next]_vars => [obj # NoObj /\ obj' # NoObj => obj'.obs >= obj.obs]_vars
    BY <1>1
  <1> QED
    BY <1>2, TypeInvariance, PTL DEF Spec, ObservedNeverFalls

\* An object is not mistaken for none when it is shown.
LEMMA ShownIsNotNoObj ==
  ASSUME NEW o \in Object
  PROVE  /\ View(o) # NoObj /\ View(o) \in Shown
         /\ View(o) = [gen |-> o.gen, spec |-> o.spec, reason |-> o.reason, obs |-> o.obs]
  <1>1. o # NoObj
    BY NodeConfigAssumption
  <1>2. [gen |-> o.gen, spec |-> o.spec, reason |-> o.reason, obs |-> o.obs] \in Shown
    BY MaxWritesType DEF Object, Shown
  <1> QED
    BY <1>1, <1>2, NodeConfigAssumption DEF View

\* A record that differs in the fields that a step of NodeObject changes.
LEMMA ShownExcept ==
  ASSUME NEW old \in Shown, NEW new \in Shown
  PROVE  /\ new.gen = old.gen /\ new.spec = old.spec /\ new.obs = old.gen =>
               new = [old EXCEPT !.reason = new.reason, !.obs = old.gen]
         /\ new.gen = old.gen + 1 /\ new.reason = old.reason /\ new.obs = old.obs =>
               new = [old EXCEPT !.spec = new.spec, !.gen = old.gen + 1]
  BY DEF Shown

\* Every step is one of NodeObject's, or leaves alone what it shows.
LEMMA StepIsSeen ==
  ASSUME TypeInv, Next
  PROVE  [Seen!ObjectNext]_(View(obj))
  <1> DEFINE object == View(obj)
  <1>1. CASE Begins
    <2>1. Seen!Begin
      BY <1>1, ShownIsNotNoObj DEF Begins, Seen!Begin, View
    <2> QED
      BY <2>1 DEF Seen!ObjectNext
  <1>2. CASE Concludes
    <2>1. Seen!Conclude(obj'.reason)
      <3> DEFINE old == View(obj)
                 new == View(obj')
      <3>1. old # NoObj /\ old \in Shown /\ new \in Shown
        BY <1>2, ShownIsNotNoObj DEF Concludes
      <3>2. new = [old EXCEPT !.reason = obj'.reason, !.obs = old.gen]
        <4>1. /\ old.gen = obj.gen /\ old.spec = obj.spec /\ old.reason = obj.reason /\ old.obs = obj.obs
              /\ new.gen = obj'.gen /\ new.spec = obj'.spec /\ new.reason = obj'.reason /\ new.obs = obj'.obs
              /\ obj'.gen = obj.gen /\ obj'.spec = obj.spec /\ obj'.obs = obj.gen
          BY <1>2, ShownIsNotNoObj DEF Concludes
        <4>2. new.gen = old.gen /\ new.spec = old.spec /\ new.obs = old.gen
          BY <4>1
        <4> HIDE DEF old, new
        <4>3. new = [old EXCEPT !.reason = new.reason, !.obs = old.gen]
          BY <3>1, <4>2, ShownExcept, Zenon
        <4> QED
          BY <4>1, <4>3, Zenon
      <3> QED
        BY <3>1, <3>2, Zenon DEF Seen!Conclude, View
    <2> QED
      BY <1>2, <2>1 DEF Seen!ObjectNext, Concludes, Outcomes
  <1>3. CASE Created
    <2>1. PICK spec \in Specs \cup {NoSpec} : obj' = NewObject(spec)
      BY <1>3 DEF Created
    <2>2. Seen!Create(spec)
      BY <1>3, <2>1, NewObjectType, ShownIsNotNoObj
         DEF Created, Seen!Create, Seen!Fresh, View, NewObject
    <2> QED
      BY <2>2 DEF Seen!ObjectNext
  <1>4. CASE Changed
    <2>1. Seen!Change(obj'.spec)
      <3> DEFINE old == View(obj)
                 new == View(obj')
      <3>1. old # NoObj /\ old \in Shown /\ new \in Shown
        BY <1>4, ShownIsNotNoObj DEF Changed
      <3>2. new = [old EXCEPT !.spec = obj'.spec, !.gen = old.gen + 1] /\ obj'.spec # old.spec
        <4>1. /\ old.gen = obj.gen /\ old.spec = obj.spec /\ old.reason = obj.reason /\ old.obs = obj.obs
              /\ new.gen = obj'.gen /\ new.spec = obj'.spec /\ new.reason = obj'.reason /\ new.obs = obj'.obs
              /\ obj'.spec # obj.spec /\ obj'.gen = obj.gen + 1 /\ obj'.reason = obj.reason /\ obj'.obs = obj.obs
          BY <1>4, ShownIsNotNoObj DEF Changed
        <4>2. new.gen = old.gen + 1 /\ new.reason = old.reason /\ new.obs = old.obs
          BY <4>1
        <4> HIDE DEF old, new
        <4>3. new = [old EXCEPT !.spec = new.spec, !.gen = old.gen + 1]
          BY <3>1, <4>2, ShownExcept, Zenon
        <4> QED
          BY <4>1, <4>3, Zenon
      <3> QED
        BY <3>1, <3>2, Zenon DEF Seen!Change, View
    <2> QED
      BY <1>4, <2>1 DEF Seen!ObjectNext, Changed
  <1>5. CASE Deleted
    <2>1. Seen!Remove
      BY <1>5, ShownIsNotNoObj DEF Deleted, Seen!Remove, View
    <2> QED
      BY <2>1 DEF Seen!ObjectNext
  <1>6. CASE UNCHANGED obj
    BY <1>6 DEF View
  <1> QED
    BY <1>1, <1>2, <1>3, <1>4, <1>5, <1>6, ObjectSteps

\* To its readers the object looks as NodeObject says.
THEOREM NodeObjectImplemented == Spec => ImplementsNodeObject
  <1>1. Init => Seen!ObjectInit
    <2> SUFFICES ASSUME Init PROVE Seen!ObjectInit
      OBVIOUS
    <2>1. NewObject(NoSpec) \in Object
      BY NewObjectType
    <2> QED
      BY <2>1, ShownIsNotNoObj DEF Init, Seen!ObjectInit, Seen!Fresh, View, NewObject
  <1>2. TypeInv /\ [Next]_vars => [Seen!ObjectNext]_(View(obj))
    <2>1. CASE UNCHANGED vars
      BY <2>1 DEF vars, View
    <2> QED
      BY <2>1, StepIsSeen
  <1> QED
    BY <1>1, <1>2, TypeInvariance, PTL
       DEF Spec, ImplementsNodeObject, Seen!ObjectSpec, View

-----------------------------------------------------------------------------
(* The record of faults.                                                    *)

\* A fault that is recorded stays recorded.
LEMMA WithoutFault ==
  ASSUME FaultsType, NEW kinds, NEW kind, Fault(kind)
  PROVE  /\ Without(kinds)' => Without(kinds)
         /\ kind \in kinds => ~Without(kinds)'
  <1>1. /\ faults \in Seq(Faults) /\ kind \in Faults /\ faults' = Append(faults, kind)
    BY DEF FaultsType, Fault
  <1>2. /\ Len(faults) \in Nat /\ DOMAIN faults = 1..Len(faults)
        /\ DOMAIN faults' = 1..(Len(faults) + 1)
        /\ \A i \in 1..Len(faults) : faults'[i] = faults[i]
        /\ faults'[Len(faults) + 1] = kind
    <2>1. faults' \in Seq(Faults) /\ Len(faults') = Len(faults) + 1
      BY <1>1, AppendProperties
    <2> QED
      BY <1>1, <2>1, AppendProperties, LenProperties
  <1> QED
    BY <1>2 DEF Without

LEMMA WithoutStep ==
  ASSUME FaultsType, NEW kinds, Next, Without(kinds)'
  PROVE  Without(kinds)
  <1>1. CASE UNCHANGED faults
    BY <1>1 DEF Without
  <1> QED
    BY <1>1, FaultStep, WithoutFault

-----------------------------------------------------------------------------
(* The cache.                                                               *)

\* A cached object exists until its deletion is delivered, in the cached
\* version or a later one; a missing one is in the queue.
CacheInv ==
    /\ sameObj /\ cache # NoObj => obj # NoObj /\ cache.gen <= obj.gen
    /\ sameObj /\ cache = NoObj /\ obj = NoObj => queued

LEMMA CacheInvStep ==
  ASSUME TypeInv, CacheInv, Next
  PROVE  CacheInv'
  <1>0. ApiInv /\ ApiInv'
    BY ApiInvStep DEF TypeInv
  <1>gen. ASSUME obj # NoObj, obj' # NoObj
          PROVE  obj'.gen >= obj.gen
    <2>1. obj.gen \in Nat
      BY <1>gen, <1>0, MaxWritesType DEF ApiInv, Object
    <2> QED
      BY <1>gen, <2>1, ObjectSteps DEF Begins, Concludes, Created, Changed, Deleted
  <1>num. /\ obj # NoObj => obj.gen \in Nat
          /\ obj' # NoObj => obj'.gen \in Nat
          /\ cache # NoObj => cache.gen \in Nat
    BY <1>0, MaxWritesType DEF ApiInv, Object
  <1>1. CASE UNCHANGED <<cache, sameObj>> /\ (obj # NoObj => obj' # NoObj) /\ (queued => queued')
    BY <1>1, <1>gen, <1>num DEF CacheInv
  <1>2. ASSUME NEW spec \in Specs \cup {NoSpec}, SetSpec(spec)
        PROVE  CacheInv'
    <2>1. obj' # NoObj
      BY <1>0, <1>2, SetSpecSteps, NewObjectType, NodeConfigAssumption DEF Created, Changed
    <2> QED
      BY <1>1, <1>2, <2>1 DEF SetSpec, queueVars
  <1>3. CASE Delete
    BY <1>3 DEF Delete, CacheInv
  <1>4. CASE DeliverDelete
    BY <1>4 DEF DeliverDelete, CacheInv
  <1>5. CASE Deliver
    <2>1. sameObj /\ cache' = obj /\ UNCHANGED obj /\ (cache = NoObj => queued')
      BY <1>5 DEF Deliver
    <2>2. obj = NoObj => queued'
      BY <2>1 DEF CacheInv
    <2> QED
      BY <2>1, <2>2, <1>num DEF CacheInv
  <1>6. CASE Resync \/ ResyncTooSoon
    BY <1>1, <1>6 DEF Resync, ResyncTooSoon, Expire, apiVars
  <1>7. CASE CreateEmptyNodeConfig
    BY <1>7, NewObjectType, NodeConfigAssumption DEF CreateEmptyNodeConfig, CacheInv
  <1>8. CASE Get
    BY <1>8 DEF Get, CacheInv, apiVars
  <1>9. CASE ReturnEarly \/ RunReturns \/ DrainFails \/ LoseLease \/ Drift
    BY <1>1, <1>9 DEF ReturnEarly, RunReturns, DrainFails, LoseLease, Drift, apiVars, queueVars
  <1>10. CASE NothingToDo \/ Report \/ InventoryFails \/ Configure
    <2>1. obj # NoObj => obj' # NoObj
      BY <1>10, <1>0, NodeConfigAssumption
         DEF NothingToDo, Report, InventoryFails, Configure, UpdateCondition, UpdateStatus,
             StatusConflict, StatusFails, ApiInv, Object
    <2>2. UNCHANGED <<cache, sameObj>> /\ (queued => queued')
      BY <1>10 DEF NothingToDo, Report, InventoryFails, Configure, CallRun, queueVars
    <2> QED
      BY <1>1, <2>1, <2>2
  <1>11. ASSUME NEW s \in Slots, Worker(s) \/ WorkFails(s)
         PROVE  CacheInv'
    BY <1>1, <1>11, WorkerFrame DEF apiVars, queueVars
  <1>12. CASE Crash \/ Reboot
    <2>1. Restart
      BY <1>12 DEF Crash, Reboot, Boot
    <2>2. obj' # NoObj /\ cache' = obj'
      BY <2>1, NewObjectType, NodeConfigAssumption DEF Restart
    <2> QED
      BY <2>2, <1>num DEF CacheInv
  <1> QED
    BY <1>2, <1>3, <1>4, <1>5, <1>6, <1>7, <1>8, <1>9, <1>10, <1>11, <1>12
       DEF Next, Reconcile, Inform

-----------------------------------------------------------------------------
(* The kernel parameters.                                                   *)

\* A reboot is due, or a worker at its parameters, only while some are missing;
\* workers configure devices only while none is; a Reconcile that is not to
\* write its outcome waits for a reboot.
RebootInv ==
    /\ rebootDue => cmdline # Params
    /\ pc \in {"run", "report"} /\ skip[cur] => rebootDue
    /\ \A s \in Slots : /\ wpc[s] \in {"params", "parked"} => cmdline # Params
                        /\ wpc[s] \in Working \cup {"plugin"} => cmdline = Params

\* A worker's move keeps it, if the state it goes to fits the parameters.
LEMMA MoveKeepsRebootInv ==
  ASSUME TypeInv, RebootInv, NEW s \in Slots, NEW to,
         wpc' = [wpc EXCEPT ![s] = to], UNCHANGED <<pc, cur, skip, cmdline, rebootDue>>,
         to \in {"params", "parked"} => cmdline # Params,
         to \in Working \cup {"plugin"} => cmdline = Params
  PROVE  RebootInv'
  BY DEF RebootInv, TypeInv, WorkerInv

LEMMA WorkerKeepsRebootInv ==
  ASSUME TypeInv, RebootInv, NEW s \in Slots, Worker(s) \/ WorkFails(s)
  PROVE  RebootInv'
  <1> USE DEF WorkerAt, reconcileVars, applyVars, nodeVars, kernelVars, Working
  <1>1. UNCHANGED <<pc, cur>>
    BY WorkerFrame
  <1>2. CASE Lead(s)
    BY <1>1, <1>2, MoveKeepsRebootInv DEF Lead
  <1>3. CASE Drained(s)
    BY <1>1, <1>3, MoveKeepsRebootInv DEF Drained
  <1>4. CASE MissesKernelParams(s)
    BY <1>1, <1>4, MoveKeepsRebootInv DEF MissesKernelParams
  <1>5. CASE GrubbyAddsParams(s)
    BY <1>1, <1>5, MoveKeepsRebootInv DEF GrubbyAddsParams, RebootInv
  <1>6. CASE RpmOstreeAppends(s)
    BY <1>1, <1>6, MoveKeepsRebootInv DEF RpmOstreeAppends, RebootInv
  <1>7. CASE RequestReboot(s)
    <2>1. cmdline # Params
      BY <1>7 DEF RequestReboot, RebootInv
    <2> QED
      BY <1>1, <1>7, <2>1 DEF RequestReboot, RebootInv, TypeInv, WorkerInv
  <1>8. CASE StartApply(s)
    BY <1>1, <1>8, MoveKeepsRebootInv DEF StartApply
  <1>9. CASE RebindPF(s) \/ CreatePFsVFs(s) \/ BindPFsVFs(s)
    <2>1. PICK to \in {"create", "bind", "setup"} : wpc' = [wpc EXCEPT ![s] = to]
      BY <1>9 DEF RebindPF, CreatePFsVFs, BindPFsVFs, Apply
    <2>2. cmdline = Params /\ UNCHANGED <<skip, cmdline, rebootDue>>
      BY <1>9 DEF RebindPF, CreatePFsVFs, BindPFsVFs, Apply, RebootInv
    <2> QED
      BY <1>1, <2>1, <2>2, MoveKeepsRebootInv
  <1>10. CASE SetUpPF(s)
    <2>1. PICK to \in {"plugin", "rebind"} : wpc' = [wpc EXCEPT ![s] = to]
      BY <1>10 DEF SetUpPF, Apply
    <2>2. cmdline = Params /\ UNCHANGED <<skip, cmdline, rebootDue>>
      BY <1>10 DEF SetUpPF, Apply, RebootInv
    <2> QED
      BY <1>1, <2>1, <2>2, MoveKeepsRebootInv
  <1>11. CASE RestartDevicePlugin(s)
    BY <1>1, <1>11, MoveKeepsRebootInv DEF RestartDevicePlugin
  <1>12. CASE OrphanEnds(s)
    BY <1>1, <1>12, MoveKeepsRebootInv DEF OrphanEnds
  <1>13. CASE UnsupportedOS(s) \/ RequestRefused(s) \/ WorkFails(s)
    BY <1>1, <1>13, MoveKeepsRebootInv DEF UnsupportedOS, RequestRefused, WorkFails, WorkerErrs
  <1> QED
    BY <1>2, <1>3, <1>4, <1>5, <1>6, <1>7, <1>8, <1>9, <1>10, <1>11, <1>12, <1>13 DEF Worker

LEMMA RebootInvStep ==
  ASSUME TypeInv, RebootInv, Next
  PROVE  RebootInv'
  <1> USE DEF TypeInv
  <1>1. CASE UNCHANGED <<cur, workerVars, nodeVars>> /\ pc' \in {pc, "idle", "check"}
    BY <1>1 DEF RebootInv, workerVars, nodeVars
  <1>2. ASSUME NEW s \in Slots, Worker(s) \/ WorkFails(s)
        PROVE  RebootInv'
    BY <1>2, WorkerKeepsRebootInv
  <1>3. CASE CallRun /\ Configure
    <2>1. PICK s \in Slots :
             /\ wpc[s] = "none" /\ cur' = s
             /\ wpc' = [wpc EXCEPT ![s] = "wait"] /\ skip' = [skip EXCEPT ![s] = FALSE]
      BY <1>3 DEF CallRun
    <2>2. UNCHANGED <<cmdline, rebootDue>>
      BY <1>3 DEF Configure, nodeVars
    <2>3. ~skip'[cur']
      BY <2>1 DEF WorkerInv
    <2> QED
      BY <2>1, <2>2, <2>3 DEF RebootInv, WorkerInv, Working
  <1>4. CASE RunReturns \/ DrainFails
    <2>1. /\ wpc' = [wpc EXCEPT ![cur] = "none"] /\ pc = "run" /\ cur \in Slots
          /\ UNCHANGED <<cur, skip, cmdline, rebootDue>>
      BY <1>4 DEF RunReturns, DrainFails, nodeVars, WorkerInv
    <2> QED
      BY <2>1 DEF RebootInv, WorkerInv, Working
  <1>5. CASE LoseLease
    BY <1>5 DEF LoseLease, RebootInv, workerVars, nodeVars
  <1>6. CASE Crash \/ Reboot
    <2>1. Restart /\ (UNCHANGED <<cmdline, rebootDue>> \/ ~rebootDue')
      BY <1>6 DEF Crash, Reboot, Boot, nodeVars
    <2> QED
      BY <2>1 DEF Restart, RebootInv, Working
  <1>7. CASE Drift
    BY <1>7 DEF Drift, RebootInv, workerVars, kernelVars, reconcileVars
  <1>8. CASE Inform \/ Resync \/ ResyncTooSoon
    BY <1>1, <1>8 DEF Inform, Deliver, DeliverDelete, Resync, ResyncTooSoon, Expire, reconcileVars
  <1>9. CASE CreateEmptyNodeConfig \/ Get \/ NothingToDo \/ ReturnEarly \/ Report
    BY <1>1, <1>9 DEF CreateEmptyNodeConfig, Get, NothingToDo, ReturnEarly, Report, reconcileVars
  <1>10. CASE (\E spec \in Specs \cup {NoSpec} : SetSpec(spec)) \/ Delete
    BY <1>1, <1>10 DEF SetSpec, Delete
  <1>11. CASE InventoryFails
    BY <1>1, <1>11 DEF InventoryFails
  <1>12. CASE Configure
    BY <1>1, <1>3, <1>12 DEF Configure
  <1> QED
    BY <1>2, <1>4, <1>5, <1>6, <1>7, <1>8, <1>9, <1>10, <1>11, <1>12 DEF Next, Reconcile

-----------------------------------------------------------------------------
(* The devices and their inventory while parameters are missing.            *)

BareDev == [pf \in PFs |-> Bare]

\* An object's inventory is that of bare devices.
ShowsBare(o) == o # NoObj => o.inv \in {NoInv, InventoryOf(BareDev)}

\* An object with a condition has an inventory.
HasInv(o) == o # NoObj /\ o.reason # "none" => o.inv # NoInv

\* While parameters are missing nothing has happened to the devices since
\* they lost everything: every inventory that a status shows is the present one.
BareInv ==
    /\ cmdline # Params => dev = BareDev /\ ShowsBare(obj) /\ ShowsBare(cache) /\ ShowsBare(nc)
    /\ HasInv(obj) /\ HasInv(cache) /\ HasInv(nc)

\* Where the objects of a step come from: copies, a new one, a changed spec
\* or a status.
StatusWritten(o) == o \in Object /\ o.inv = InventoryOf(dev)

LEMMA CopiesStep ==
  ASSUME TypeInv, Next
  PROVE  /\ \/ obj' \in {obj, NoObj}
            \/ \E spec \in Specs \cup {NoSpec} : obj' = NewObject(spec)
            \/ obj \in Object /\ obj' \in Object /\ obj'.inv = obj.inv /\ obj'.reason = obj.reason
            \/ StatusWritten(obj')
         /\ cache' \in {cache, obj, obj', NoObj}
         /\ nc' \in {nc, cache, obj', NoObj}
  <1>0. ApiInv /\ ApiInv' /\ InventoryOf(dev) \in Inventory
    BY ApiInvStep, InventoryType DEF TypeInv, NodeInv
  <1>1. ASSUME NEW reason \in Reasons, nc # NoObj,
               UpdateCondition(reason) \/ UpdateStatus(reason, nc.gen)
        PROVE  (StatusWritten(obj') \/ obj' = obj) /\ nc' \in {nc, obj'}
    <2>1. nc.gen \in 0..(MaxWrites + 1)
      BY <1>0, <1>1 DEF ApiInv, Object
    <2>2. CASE UpdateStatus(reason, nc.gen)
      BY <1>0, <1>1, <2>1, <2>2, UpdateStatusShape DEF StatusWritten
    <2> QED
      BY <1>0, <1>1, <2>2, UpdateConditionShape
  <1>2. ASSUME NEW spec \in Specs \cup {NoSpec}, SetSpec(spec)
        PROVE  /\ \/ \E sp \in Specs \cup {NoSpec} : obj' = NewObject(sp)
                  \/ /\ obj \in Object /\ obj' \in Object
                     /\ obj'.inv = obj.inv /\ obj'.reason = obj.reason
               /\ UNCHANGED <<cache, nc>>
    <2>1. CASE obj = NoObj
      BY <1>2, <2>1 DEF SetSpec
    <2>2. CASE obj # NoObj
      <3>1. obj \in Object /\ obj' \in Object
        BY <1>0, <1>2, <2>2, SetSpecSteps DEF ApiInv, Created, Changed
      <3> QED
        BY <1>2, <2>2, <3>1 DEF SetSpec, Object
    <2> QED
      BY <1>2, <2>1, <2>2 DEF SetSpec
  <1>3. CASE Delete \/ Inform \/ Resync \/ ResyncTooSoon
    BY <1>3 DEF Delete, Inform, Deliver, DeliverDelete, Resync, ResyncTooSoon, Expire, apiVars,
                reconcileVars
  <1>4. CASE CreateEmptyNodeConfig \/ Get \/ ReturnEarly
    BY <1>4 DEF CreateEmptyNodeConfig, Get, ReturnEarly, apiVars, reconcileVars
  <1>5. CASE NothingToDo
    <2>1. nc # NoObj /\ "NotRequested" \in Reasons
      BY <1>0, <1>5 DEF NothingToDo, ApiInv, Reasons
    <2> QED
      BY <1>1, <1>5, <2>1 DEF NothingToDo
  <1>6. CASE Configure
    <2>1. nc \in Object
      BY <1>0, <1>6 DEF Configure, ApiInv
    <2>2. CASE UpdateStatus("InProgress", nc.obs)
      <3>1. "InProgress" \in Reasons /\ nc.obs \in 0..(MaxWrites + 1)
        BY <2>1 DEF Object, Reasons
      <3> QED
        BY <1>0, <1>6, <2>2, <3>1, UpdateStatusShape DEF Configure, StatusWritten
    <2>3. CASE UNCHANGED <<obj, nc>>
      BY <1>6, <2>3 DEF Configure
    <2> QED
      BY <1>6, <2>2, <2>3 DEF Configure, StatusConflict, StatusFails
  <1>7. CASE RunReturns \/ DrainFails \/ LoseLease \/ Drift
    BY <1>7 DEF RunReturns, DrainFails, LoseLease, Drift, apiVars, reconcileVars
  <1>8. CASE Report
    <2>1. nc # NoObj /\ {"Unknown", "Failed", "Succeeded"} \subseteq Reasons
      BY <1>0, <1>8 DEF Report, ApiInv, Reasons
    <2>2. \/ UNCHANGED <<obj, nc>>
          \/ \E reason \in Reasons : UpdateCondition(reason) \/ UpdateStatus(reason, nc.gen)
      BY <1>8, <2>1 DEF Report
    <2>3. UNCHANGED cache
      BY <1>8 DEF Report
    <2> QED
      BY <1>1, <2>1, <2>2, <2>3
  <1>9. CASE InventoryFails
    <2>1. nc # NoObj /\ "Failed" \in Reasons
      BY <1>0, <1>9 DEF InventoryFails, ApiInv, Reasons
    <2> QED
      BY <1>1, <1>9, <2>1 DEF InventoryFails
  <1>10. ASSUME NEW s \in Slots, Worker(s) \/ WorkFails(s)
         PROVE  UNCHANGED <<obj, cache, nc>>
    BY <1>10, WorkerFrame DEF apiVars, reconcileVars
  <1>11. CASE Crash \/ Reboot
    BY <1>11 DEF Crash, Reboot, Boot, Restart
  <1> QED
    BY <1>2, <1>3, <1>4, <1>5, <1>6, <1>7, <1>8, <1>9, <1>10, <1>11 DEF Next, Reconcile

\* While parameters are missing no worker and no drift changes a device.
LEMMA BareDevStep ==
  ASSUME TypeInv, RebootInv, Next, cmdline # Params, dev = BareDev
  PROVE  Boot \/ UNCHANGED <<dev, cmdline>>
  <1>1. ASSUME NEW s \in Slots, Worker(s) \/ WorkFails(s)
        PROVE  UNCHANGED <<dev, cmdline>>
    <2>1. wpc[s] \notin Working \cup {"plugin"}
      BY DEF RebootInv
    <2> QED
      BY <1>1, <2>1 DEF Worker, WorkFails, WorkerErrs, WorkerAt, Apply, Lead, Drained,
         MissesKernelParams, GrubbyAddsParams, RpmOstreeAppends, RequestReboot, UnsupportedOS,
         StartApply, RebindPF, CreatePFsVFs, BindPFsVFs, SetUpPF, RequestRefused,
         RestartDevicePlugin, OrphanEnds, nodeVars, kernelVars, Working
  <1>2. ~Drift
    BY DEF Drift, BareDev, Bare
  <1>3. CASE Crash \/ Reboot
    BY <1>3 DEF Crash, Reboot, nodeVars
  <1>4. CASE (\E spec \in Specs \cup {NoSpec} : SetSpec(spec)) \/ Delete \/ Inform
    BY <1>4 DEF SetSpec, Delete, Inform, Deliver, DeliverDelete, nodeVars
  <1>5. CASE Resync \/ ResyncTooSoon
    BY <1>5 DEF Resync, ResyncTooSoon, Expire, nodeVars
  <1>6. CASE Reconcile \/ InventoryFails \/ DrainFails \/ LoseLease
    BY <1>6 DEF Reconcile, CreateEmptyNodeConfig, Get, NothingToDo, ReturnEarly, Configure,
                RunReturns, Report, InventoryFails, DrainFails, LoseLease, nodeVars
  <1> QED
    BY <1>1, <1>2, <1>3, <1>4, <1>5, <1>6 DEF Next

\* Parameters that the kernel has are there after every boot.
LEMMA ParamsStay ==
  ASSUME TypeInv, Next, cmdline = Params
  PROVE  cmdline' = Params
  <1>1. CASE Boot
    BY <1>1 DEF Boot, TypeInv, NodeInv
  <1>2. CASE Crash \/ Reboot
    BY <1>1, <1>2 DEF Crash, Reboot, nodeVars
  <1>3. ASSUME NEW s \in Slots, Worker(s) \/ WorkFails(s)
        PROVE  UNCHANGED cmdline
    BY <1>3 DEF Worker, WorkFails, WorkerErrs, WorkerAt, Apply, Lead, Drained,
         MissesKernelParams, GrubbyAddsParams, RpmOstreeAppends, RequestReboot, UnsupportedOS,
         StartApply, RebindPF, CreatePFsVFs, BindPFsVFs, SetUpPF, RequestRefused,
         RestartDevicePlugin, OrphanEnds, nodeVars, kernelVars
  <1>4. CASE (\E spec \in Specs \cup {NoSpec} : SetSpec(spec)) \/ Delete \/ Inform
    BY <1>4 DEF SetSpec, Delete, Inform, Deliver, DeliverDelete, nodeVars
  <1>5. CASE Resync \/ ResyncTooSoon \/ Drift
    BY <1>5 DEF Resync, ResyncTooSoon, Expire, Drift, nodeVars, kernelVars
  <1>6. CASE Reconcile \/ InventoryFails \/ DrainFails \/ LoseLease
    BY <1>6 DEF Reconcile, CreateEmptyNodeConfig, Get, NothingToDo, ReturnEarly, Configure,
                RunReturns, Report, InventoryFails, DrainFails, LoseLease, nodeVars
  <1> QED
    BY <1>2, <1>3, <1>4, <1>5, <1>6 DEF Next

LEMMA BareInvStep ==
  ASSUME TypeInv, RebootInv, BareInv, Next
  PROVE  BareInv'
  <1>0. InventoryOf(dev) # NoInv /\ NoInv \notin Inventory
    BY InventoryType, NodeConfigAssumption DEF TypeInv, NodeInv
  <1>1. HasInv(obj') /\ HasInv(cache') /\ HasInv(nc')
    <2>1. HasInv(NoObj)
      BY DEF HasInv
    <2>2. HasInv(obj')
      <3>1. ASSUME NEW spec, obj' = NewObject(spec) PROVE HasInv(obj')
        BY <3>1 DEF HasInv, NewObject
      <3>2. CASE obj \in Object /\ obj'.inv = obj.inv /\ obj'.reason = obj.reason
        BY <3>2, NodeConfigAssumption DEF HasInv, BareInv
      <3>3. CASE StatusWritten(obj')
        BY <3>3, <1>0 DEF HasInv, StatusWritten
      <3> QED
        BY <2>1, <3>1, <3>2, <3>3, CopiesStep DEF BareInv
    <2> QED
      BY <2>1, <2>2, CopiesStep DEF BareInv
  <1>2. ASSUME cmdline' # Params
        PROVE  dev' = BareDev /\ ShowsBare(obj') /\ ShowsBare(cache') /\ ShowsBare(nc')
    <2>1. cmdline # Params /\ dev = BareDev
      BY <1>2, ParamsStay DEF BareInv
    <2>2. dev' = BareDev
      BY <2>1, BareDevStep DEF Boot, BareDev
    <2>3. ShowsBare(NoObj)
      BY DEF ShowsBare
    <2>4. ShowsBare(obj')
      <3>1. ASSUME NEW spec, obj' = NewObject(spec) PROVE ShowsBare(obj')
        BY <3>1 DEF ShowsBare, NewObject
      <3>2. CASE obj \in Object /\ obj'.inv = obj.inv
        BY <2>1, <3>2, NodeConfigAssumption DEF ShowsBare, BareInv
      <3>3. CASE StatusWritten(obj')
        BY <2>1, <3>3 DEF ShowsBare, StatusWritten
      <3> QED
        BY <2>1, <2>3, <3>1, <3>2, <3>3, CopiesStep DEF BareInv
    <2> QED
      BY <2>1, <2>2, <2>3, <2>4, CopiesStep DEF BareInv
  <1> QED
    BY <1>1, <1>2 DEF BareInv, HasInv, ShowsBare, BareDev, Bare, InventoryOf

-----------------------------------------------------------------------------
(* No event is lost.                                                        *)

\* The object has an outcome of its generation.
Handled == obj.obs = obj.gen /\ obj.reason \notin {"none", "InProgress"}

\* The informer has delivered the object's generation.
Fresh == sameObj /\ cache # NoObj /\ obj # NoObj /\ cache.gen = obj.gen

\* A delivered generation is handled, or queued, or a Reconcile that can write
\* to the object works on it, or a reboot is due, which queues it again.  The
\* daemon's own writes, which the filter hides, are ahead of the cache only
\* while that Reconcile works or once the generation is handled.  "InProgress"
\* with the object's generation observed stands only while Reconcile works:
\* one that ends so would be taken for up to date.
HandledInv ==
    Without({"inventory", "crash"}) =>
        /\ Fresh => Handled \/ queued \/ rebootDue \/ (pc # "idle" /\ ncCurrent)
        /\ Fresh => Handled \/ rebootDue \/ cacheCurrent \/ (pc \in {"run", "report"} /\ ncCurrent)
        /\ obj # NoObj /\ obj.reason = "InProgress" /\ obj.obs = obj.gen =>
               pc \in {"run", "report"} /\ ncCurrent /\ ~skip[cur] /\ cmdline = Params

QuietInv == CacheInv /\ RebootInv /\ BareInv /\ HandledInv

\* A status written with the outcome of the object's generation handles it.
LEMMA OutcomeHandles ==
  ASSUME TypeInv, nc # NoObj, NEW reason \in Outcomes, UpdateCondition(reason)
  PROVE  \/ /\ obj' # NoObj /\ obj'.obs = obj'.gen /\ obj'.reason \notin {"none", "InProgress"}
            /\ UNCHANGED faults
         \/ ~ncCurrent /\ UNCHANGED <<obj, ncCurrent, cacheCurrent, faults>>
         \/ Fault("inventory")
  <1>1. ApiInv /\ InventoryOf(dev) \in Inventory
    BY InventoryType DEF TypeInv, NodeInv
  <1>2. reason \in Reasons /\ nc.gen \in 0..(MaxWrites + 1)
    BY <1>1 DEF Outcomes, ApiInv, Object
  <1>3. CASE UpdateStatus(reason, nc.gen) /\ UNCHANGED faults
    BY <1>1, <1>2, <1>3, UpdateStatusShape DEF Outcomes
  <1> QED
    BY <1>1, <1>2, <1>3, UpdateConditionShape

LEMMA HandledInvStep ==
  ASSUME TypeInv, QuietInv, Next
  PROVE  HandledInv'
  <1> SUFFICES ASSUME Without({"inventory", "crash"})'
               PROVE  /\ Fresh' => \/ Handled' \/ queued' \/ rebootDue'
                                   \/ (pc' # "idle" /\ ncCurrent')
                      /\ Fresh' => \/ Handled' \/ rebootDue' \/ cacheCurrent'
                                   \/ (pc' \in {"run", "report"} /\ ncCurrent')
                      /\ obj' # NoObj /\ obj'.reason = "InProgress" /\ obj'.obs = obj'.gen =>
                            pc' \in {"run", "report"} /\ ncCurrent' /\ ~skip'[cur'] /\ cmdline' = Params
    BY DEF HandledInv, Handled, Fresh
  <1> DEFINE Goal == /\ Fresh' => \/ Handled' \/ queued' \/ rebootDue'
                                  \/ (pc' # "idle" /\ ncCurrent')
                     /\ Fresh' => \/ Handled' \/ rebootDue' \/ cacheCurrent'
                                  \/ (pc' \in {"run", "report"} /\ ncCurrent')
                     /\ obj' # NoObj /\ obj'.reason = "InProgress" /\ obj'.obs = obj'.gen =>
                           pc' \in {"run", "report"} /\ ncCurrent' /\ ~skip'[cur'] /\ cmdline' = Params
  <1>0. /\ ApiInv /\ ApiInv' /\ CacheInv /\ RebootInv /\ BareInv
        /\ Without({"inventory", "crash"})
    BY ApiInvStep, WithoutStep DEF TypeInv, QuietInv
  <1>inv. /\ Fresh => Handled \/ queued \/ rebootDue \/ (pc # "idle" /\ ncCurrent)
          /\ Fresh => Handled \/ rebootDue \/ cacheCurrent \/ (pc \in {"run", "report"} /\ ncCurrent)
          /\ obj # NoObj /\ obj.reason = "InProgress" /\ obj.obs = obj.gen =>
                pc \in {"run", "report"} /\ ncCurrent /\ ~skip[cur] /\ cmdline = Params
    BY <1>0 DEF QuietInv, HandledInv
  <1>nofault. ~Fault("inventory") /\ ~Fault("crash")
    BY WithoutFault DEF TypeInv
  <1>num. /\ obj # NoObj => obj.gen \in Nat /\ obj.obs \in Nat /\ obj.obs <= obj.gen
          /\ obj' # NoObj => obj'.gen \in Nat
          /\ cache # NoObj => cache.gen \in Nat
    BY <1>0, MaxWritesType DEF ApiInv, Object
  \* Nothing changes but for what only helps.
  <1>frame. CASE /\ UNCHANGED <<obj, cache, sameObj, cacheCurrent, ncCurrent, pc, cmdline>>
                 /\ (queued => queued') /\ (rebootDue => rebootDue')
                 /\ (cmdline = Params /\ pc \in {"run", "report"} /\ ~skip[cur] => ~skip'[cur'])
    BY <1>frame, <1>inv DEF Fresh, Handled
  <1>1. ASSUME NEW spec \in Specs \cup {NoSpec}, SetSpec(spec)
        PROVE  Goal
    <2>1. ~Fresh'
      <3>1. CASE Created
        BY <1>0, <1>1, <3>1 DEF Created, SetSpec, Fresh, CacheInv
      <3>2. CASE Changed
        BY <1>0, <1>1, <1>num, <3>2, NodeConfigAssumption DEF Changed, SetSpec, Fresh, CacheInv
      <3> QED
        BY <1>0, <1>1, <3>1, <3>2, SetSpecSteps
    <2>2. obj' # NoObj => ~(obj'.reason = "InProgress" /\ obj'.obs = obj'.gen)
      <3>1. CASE Created
        BY <3>1 DEF Created, NewObject
      <3>2. CASE Changed
        BY <1>num, <3>2, NodeConfigAssumption DEF Changed
      <3> QED
        BY <1>0, <1>1, <3>1, <3>2, SetSpecSteps
    <2> QED
      BY <2>1, <2>2
  <1>2. CASE Delete
    BY <1>2 DEF Delete, Fresh
  <1>3. CASE DeliverDelete
    BY <1>3, <1>inv DEF DeliverDelete, reconcileVars, workerVars, nodeVars, Fresh
  <1>4. CASE Deliver
    <2>1. /\ sameObj /\ cache' = obj /\ cacheCurrent' /\ (queued => queued')
          /\ (cache = NoObj \/ cache.gen # obj.gen => queued')
          /\ UNCHANGED <<obj, sameObj, pc, ncCurrent, rebootDue, skip, cur, cmdline>>
      BY <1>4 DEF Deliver, reconcileVars, workerVars, nodeVars
    <2> QED
      BY <2>1, <1>inv DEF Fresh, Handled
  <1>5. CASE Resync \/ ResyncTooSoon
    BY <1>frame, <1>5 DEF Resync, ResyncTooSoon, Expire, apiVars, reconcileVars, workerVars, nodeVars
  <1>6. CASE CreateEmptyNodeConfig
    <2>1. ~Fresh'
      BY <1>6 DEF CreateEmptyNodeConfig, Fresh
    <2>2. CASE obj = NoObj
      BY <1>6, <2>1, <2>2 DEF CreateEmptyNodeConfig, NewObject
    <2>3. CASE obj # NoObj
      BY <1>6, <1>inv, <2>1, <2>3 DEF CreateEmptyNodeConfig, reconcileVars, workerVars, nodeVars
    <2> QED
      BY <2>2, <2>3
  <1>7. CASE Get
    <2>1. /\ pc = "idle" /\ pc' = "check" /\ (cacheCurrent => ncCurrent')
          /\ UNCHANGED <<obj, cache, sameObj, cacheCurrent, rebootDue>>
      BY <1>7 DEF Get, apiVars, nodeVars
    <2> QED
      BY <2>1, <1>inv DEF Fresh, Handled
  <1>8. CASE NothingToDo
    <2>1. nc # NoObj /\ UpdateCondition("NotRequested") /\ "NotRequested" \in Outcomes
      BY <1>0, <1>8 DEF NothingToDo, ApiInv, Outcomes, Reasons
    <2>2. CASE /\ obj' # NoObj /\ obj'.obs = obj'.gen
               /\ obj'.reason \notin {"none", "InProgress"}
      BY <2>2 DEF Handled
    <2>3. CASE ~ncCurrent /\ UNCHANGED <<obj, ncCurrent, cacheCurrent, faults>>
      BY <1>8, <2>3, <1>inv DEF NothingToDo, queueVars, nodeVars, Fresh, Handled
    <2> QED
      BY <2>1, <2>2, <2>3, <1>nofault, OutcomeHandles
  <1>9. CASE ReturnEarly
    <2>1. /\ pc = "check" /\ nc.reason # "none" /\ nc.obs = nc.gen
          /\ UNCHANGED <<obj, cache, sameObj, cacheCurrent, queued, ncCurrent, rebootDue>>
      BY <1>9 DEF ReturnEarly, UpToDate, apiVars, nodeVars
    <2>2. ncCurrent => Handled
      BY <1>0, <1>inv, <2>1 DEF ApiInv, Handled
    <2> QED
      BY <2>1, <2>2, <1>inv DEF Fresh, Handled
  <1>10. CASE Configure
    <2>1. /\ pc = "check" /\ ~UpToDate /\ nc \in Object
          /\ UNCHANGED <<cache, sameObj, rebootDue, cmdline>>
      BY <1>0, <1>10 DEF Configure, ApiInv, nodeVars
    <2>2. CASE CallRun /\ UNCHANGED <<obj, cacheCurrent, ncCurrent, queued>>
      <3>1. pc' = "run"
        BY <2>2 DEF CallRun
      <3> QED
        BY <2>1, <2>2, <3>1, <1>inv DEF Fresh, Handled
    <2>3. CASE nc.reason # "none" /\ UpdateStatus("InProgress", nc.obs) /\ CallRun
      <3>1. "InProgress" \in Reasons /\ nc.obs \in 0..(MaxWrites + 1)
        BY <2>1 DEF Object, Reasons
      <3>2. InventoryOf(dev) \in Inventory
        BY InventoryType DEF TypeInv, NodeInv
      <3>3. /\ obj \in Object /\ nc = obj /\ ncCurrent' = TRUE
            /\ obj'.gen = obj.gen /\ obj'.obs = obj.obs
        BY <1>0, <2>3, <3>1, <3>2, UpdateStatusShape
      <3>4. pc' = "run" /\ ~skip'[cur']
        BY <2>3 DEF CallRun, TypeInv, WorkerInv
      <3>5. obj.obs = obj.gen => cmdline = Params
        <4>1. obj # NoObj /\ nc.inv # NoInv
          BY <1>0, <2>3, <3>3, NodeConfigAssumption DEF BareInv, HasInv
        <4>2. cmdline # Params => nc.inv = InventoryOf(dev)
          BY <1>0, <3>3, <4>1 DEF BareInv, ShowsBare
        <4> QED
          BY <2>1, <2>3, <3>3, <4>2 DEF UpToDate, inventory
      <3> QED
        BY <2>1, <3>3, <3>4, <3>5
    <2>4. CASE ~ncCurrent /\ queued' /\ UNCHANGED <<obj, ncCurrent, cacheCurrent>> /\ pc' = "idle"
      BY <2>1, <2>4, <1>inv DEF Fresh, Handled
    <2> QED
      BY <1>10, <1>nofault, <2>2, <2>3, <2>4 DEF Configure, StatusConflict, StatusFails
  <1>11. CASE RunReturns \/ DrainFails \/ LoseLease
    <2>1. /\ pc = "run" /\ pc' = "report"
          /\ UNCHANGED <<obj, cache, sameObj, cacheCurrent, queued, ncCurrent, cur, skip,
                         rebootDue, cmdline>>
      BY <1>11 DEF RunReturns, DrainFails, LoseLease, apiVars, queueVars, workerVars, nodeVars
    <2> QED
      BY <2>1, <1>inv DEF Fresh, Handled
  <1>12. CASE Report
    <2>1. /\ pc = "report" /\ nc # NoObj /\ {"Unknown", "Failed", "Succeeded"} \subseteq Outcomes
          /\ UNCHANGED <<cache, sameObj, rebootDue, cmdline, skip, cur>>
      BY <1>0, <1>12 DEF Report, ApiInv, Outcomes, Reasons, nodeVars, workerVars
    <2>2. CASE skip[cur] /\ UNCHANGED <<obj, ncCurrent, cacheCurrent, queued>>
      <3>1. rebootDue
        BY <1>0, <2>1, <2>2 DEF RebootInv
      <3> QED
        BY <2>1, <2>2, <3>1, <1>inv
    <2>3. ASSUME NEW reason \in Outcomes, UpdateCondition(reason), UNCHANGED queued, pc' = "idle"
          PROVE  Goal
      <3>1. CASE /\ obj' # NoObj /\ obj'.obs = obj'.gen
                 /\ obj'.reason \notin {"none", "InProgress"}
        BY <3>1 DEF Handled
      <3>2. CASE ~ncCurrent /\ UNCHANGED <<obj, ncCurrent, cacheCurrent, faults>>
        BY <2>1, <2>3, <3>2, <1>inv DEF Fresh, Handled
      <3> QED
        BY <2>1, <2>3, <3>1, <3>2, <1>nofault, OutcomeHandles
    <2> QED
      BY <1>12, <2>1, <2>2, <2>3, <1>nofault DEF Report, queueVars
  <1>13. ~InventoryFails /\ ~Crash
    BY <1>nofault DEF InventoryFails, Crash
  <1>14. ASSUME NEW s \in Slots, Worker(s) \/ WorkFails(s)
         PROVE  Goal
    <2>1. UNCHANGED <<obj, cache, sameObj, cacheCurrent, queued, ncCurrent, pc, cur>>
      BY <1>14, WorkerFrame DEF apiVars, queueVars, reconcileVars
    <2>2. /\ UNCHANGED cmdline
          /\ UNCHANGED <<rebootDue, skip>> \/ RequestReboot(s)
      BY <1>14 DEF Worker, WorkFails, WorkerErrs, WorkerAt, Apply, Lead, Drained,
         MissesKernelParams, GrubbyAddsParams, RpmOstreeAppends, UnsupportedOS, StartApply,
         RebindPF, CreatePFsVFs, BindPFsVFs, SetUpPF, RequestRefused, RestartDevicePlugin,
         OrphanEnds, RequestReboot, nodeVars, kernelVars
    <2>3. RequestReboot(s) => rebootDue' /\ cmdline # Params
      BY <1>0 DEF RequestReboot, WorkerAt, RebootInv
    <2> QED
      BY <1>frame, <2>1, <2>2, <2>3
  <1>15. CASE Reboot
    <2>1. /\ rebootDue /\ queued' /\ cacheCurrent'
          /\ obj' = IF obj = NoObj THEN NewObject(NoSpec) ELSE obj
      BY <1>15 DEF Reboot, Boot, Restart
    <2>2. cmdline # Params
      BY <1>0, <2>1 DEF RebootInv
    <2> QED
      BY <2>1, <2>2, <1>inv DEF NewObject
  <1>16. CASE Drift
    BY <1>16, <1>frame DEF Drift, apiVars, queueVars, reconcileVars, workerVars, kernelVars
  <1> QED
    BY <1>1, <1>2, <1>3, <1>4, <1>5, <1>6, <1>7, <1>8, <1>9, <1>10, <1>11, <1>12, <1>13, <1>14,
       <1>15, <1>16 DEF Next, Reconcile, Inform

LEMMA QuietInvInit == Init => QuietInv
  <1> SUFFICES ASSUME Init PROVE QuietInv
    OBVIOUS
  <1>1. /\ obj = NewObject(NoSpec) /\ cache = obj /\ nc = NoObj /\ queued /\ pc = "idle"
        /\ obj.reason = "none" /\ obj.inv = NoInv /\ obj.gen = 1 /\ obj # NoObj
        /\ ~rebootDue /\ dev = BareDev /\ wpc = [s \in Slots |-> "none"]
    BY NewObjectType, NodeConfigAssumption DEF Init, NewObject, BareDev
  <1>2. CacheInv
    BY <1>1 DEF CacheInv
  <1>3. RebootInv
    BY <1>1 DEF RebootInv, Working
  <1>4. BareInv
    BY <1>1 DEF BareInv, ShowsBare, HasInv
  <1>5. HandledInv
    BY <1>1 DEF HandledInv, Init
  <1> QED
    BY <1>2, <1>3, <1>4, <1>5 DEF QuietInv

LEMMA QuietInvStep == TypeInv /\ QuietInv /\ [Next]_vars => QuietInv'
  <1> SUFFICES ASSUME TypeInv, QuietInv, [Next]_vars PROVE QuietInv'
    OBVIOUS
  <1>1. CASE Next
    BY <1>1, CacheInvStep, RebootInvStep, BareInvStep, HandledInvStep DEF QuietInv
  <1>2. CASE UNCHANGED vars
    <2>1. CacheInv' /\ RebootInv'
      BY <1>2 DEF vars, QuietInv, CacheInv, RebootInv
    <2>2. BareInv'
      BY <1>2 DEF vars, QuietInv, BareInv, ShowsBare, HasInv, BareDev, InventoryOf, Bare
    <2>3. HandledInv'
      BY <1>2 DEF vars, QuietInv, HandledInv, Without, Fresh, Handled
    <2> QED
      BY <2>1, <2>2, <2>3 DEF QuietInv
  <1> QED
    BY <1>1, <1>2

\* Once all is quiet, the object exists and has an outcome for its latest
\* generation: the filter drops no event that was needed.
THEOREM NoEventIsLost == Spec => []QuietMeansHandled
  <1>1. TypeInv /\ QuietInv => QuietMeansHandled
    <2> SUFFICES ASSUME TypeInv, QuietInv, Without({"inventory", "crash"}), Quiet
                 PROVE  /\ obj # NoObj
                        /\ obj.obs = obj.gen
                        /\ obj.reason \notin {"none", "InProgress"}
      BY DEF QuietMeansHandled
    <2>1. /\ pc = "idle" /\ ~queued /\ ~rebootDue /\ sameObj /\ cache = obj
      BY DEF Quiet, TypeInv, ApiInv
    <2>2. obj # NoObj
      BY <2>1 DEF QuietInv, CacheInv
    <2> QED
      BY <2>1, <2>2 DEF QuietInv, HandledInv, Fresh, Handled
  <1>2. Spec => []QuietInv
    BY QuietInvInit, QuietInvStep, TypeInvariance, PTL DEF Spec
  <1> QED
    BY <1>1, <1>2, TypeInvariance, PTL

=============================================================================
