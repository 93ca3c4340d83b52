----------------------------- MODULE DeviceConfig -----------------------------
(***************************************************************************)
(* The devices of a sriov-fec node and what NodeConfigurator.applyConfig   *)
(* does to one of them: sriov-fec/pkg/daemon/node_management.go,           *)
(* bbdevconfig.go and inventory.go.                                        *)
(*                                                                         *)
(* A device is a physical function (PF) with a driver, virtual functions   *)
(* (VFs) with theirs, queues programmed by pf_bb_config, and a bit that    *)
(* lets it be master of the bus.  The inventory shows drivers and VFs, not *)
(* queues nor the bit.  VFs are bound to their driver one after the other; *)
(* here a device has either all of its VFs bound or none.                  *)
(***************************************************************************)
EXTENDS Naturals, Sequences
LOCAL INSTANCE Functions

CONSTANTS
    PFs,           \* PCI addresses of the node's accelerators
    OtherPFs,      \* other PCI addresses a request may name
    Drivers,
    StubDrivers,   \* the drivers that match pci[-_]pf[-_]stub
    NoDriver,
    NamedPFs,      \* the accelerators whose device ID has a name that pf_bb_config knows
    N3000Queues,   \* configurations of an N3000's queues
    Nil,           \* no configuration
    MaxVFs         \* how many VFs a device can have

maxQueueGroups == 8

\* Queue groups of an ACC100: 4G up and down, 5G up and down.
ACC100Queues == [1..4 -> 0..maxQueueGroups]

Queues == ACC100Queues \cup N3000Queues

VFs == [count : 0..MaxVFs, driver : Drivers \cup {NoDriver}]
NoVFs == [count |-> 0, driver |-> NoDriver]

Device == [driver : Drivers \cup {NoDriver}, vfs : VFs, queues : Queues \cup {Nil}, bus : BOOLEAN]
Inventory == [PFs -> [driver : Drivers \cup {NoDriver}, vfs : VFs]]

\* PhysicalFunctionConfig; the two members of its BBDevConfig may be nil.
Request == [pf : PFs \cup OtherPFs, pfDriver : Drivers, vfDriver : Drivers, vfAmount : Nat,
            acc100 : ACC100Queues \cup {Nil}, n3000 : N3000Queues \cup {Nil}]

ASSUME DeviceAssumption ==
    /\ OtherPFs \cap PFs = {} /\ NamedPFs \subseteq PFs
    /\ StubDrivers \subseteq Drivers /\ NoDriver \notin Drivers
    /\ Nil \notin Queues
    /\ MaxVFs \in Nat

\* A device as it is after a boot.
Bare == [driver |-> NoDriver, vfs |-> NoVFs, queues |-> Nil, bus |-> FALSE]

\* getSriovInventory
InventoryOf(devices) ==
    [pf \in PFs |-> [driver |-> devices[pf].driver, vfs |-> devices[pf].vfs]]

-----------------------------------------------------------------------------
(* The steps for one request, in their order.                               *)

\* changeAmountOfVFs(0) and bindDeviceToDriver.  Only VFs that the inventory
\* shows, which was read before the first request, are removed first.
Rebind(device, request, hadVFs) ==
    [device EXCEPT !.vfs = IF hadVFs THEN NoVFs ELSE @, !.driver = request.pfDriver]

\* ... or as far as it gets: the VFs removed, the device unbound.
RebindHalfway(device, hadVFs) ==
    { [device EXCEPT !.vfs = IF hadVFs THEN NoVFs ELSE @],
      [device EXCEPT !.vfs = IF hadVFs THEN NoVFs ELSE @, !.driver = NoDriver] }

\* changeAmountOfVFs: the right number is left alone, any other is first zero.
CreateVFs(device, request) ==
    IF device.vfs.count = request.vfAmount THEN device
    ELSE [device EXCEPT !.vfs = [count |-> request.vfAmount, driver |-> NoDriver]]

CreateVFsHalfway(device, request) ==
    IF device.vfs.count = request.vfAmount THEN {device}
    ELSE {device, [device EXCEPT !.vfs = NoVFs]}

\* Every VF is unbound and bound to its driver.
BindVFs(device, request) ==
    IF device.vfs.count = 0 THEN device ELSE [device EXCEPT !.vfs.driver = request.vfDriver]

BindVFsHalfway(device) ==
    {device, [device EXCEPT !.vfs.driver = NoDriver]}

\* generateBBDevConfigFile: the configuration of an ACC100 is preferred.
QueuesOf(request) == IF request.acc100 # Nil THEN request.acc100 ELSE request.n3000

\* generateACC100BBDevConfigFile: the file is written for at most eight groups.
Fits(request) ==
    request.acc100 # Nil =>
        request.acc100[1] + request.acc100[2] + request.acc100[3] + request.acc100[4]
            <= maxQueueGroups

\* runPFConfig has a name for the device; no queues, no file and no call.
CanConfigureQueues(request) ==
    QueuesOf(request) # Nil => Fits(request) /\ request.pf \in NamedPFs

\* runPFConfig, unless no queues are requested; enableMasterBus for a stub driver.
SetUp(device, request) ==
    [device EXCEPT !.queues = IF QueuesOf(request) = Nil THEN @ ELSE QueuesOf(request),
                   !.bus = @ \/ request.pfDriver \in StubDrivers]

SetUpHalfway(device, request) ==
    {device, [device EXCEPT !.queues = IF QueuesOf(request) = Nil THEN @ ELSE QueuesOf(request)]}

-----------------------------------------------------------------------------
(* What a list of requests asks for.                                        *)

\* The hardware and its tool can do what the list asks: known devices, no more
\* VFs than a device has, queues only for a device that the tool knows and, on
\* an ACC100, in no more groups than the device has.
Feasible(requests) ==
    \A i \in DOMAIN requests :
        LET request == requests[i]
        IN  /\ request.pf \in PFs
            /\ request.vfAmount <= MaxVFs
            /\ QueuesOf(request) # Nil => request.pf \in NamedPFs
            /\ request.acc100 # Nil => FoldFunction(+, 0, request.acc100) <= maxQueueGroups

\* The devices are as the list asks: each one it names as its last request says,
\* with the queues of the last request that says anything about them.
AsAsked(devices, requests) ==
    \A i \in DOMAIN requests :
        LET request == requests[i]
            device == devices[request.pf]
            later == {j \in DOMAIN requests : j > i /\ requests[j].pf = request.pf}
        IN  /\ request.pf \in PFs
            /\ later = {} =>
                  /\ device.driver = request.pfDriver
                  /\ device.vfs.count = request.vfAmount
                  /\ device.vfs.count > 0 => device.vfs.driver = request.vfDriver
                  /\ request.pfDriver \in StubDrivers => device.bus
            /\ QueuesOf(request) # Nil /\ (\A j \in later : QueuesOf(requests[j]) = Nil) =>
                  device.queues = QueuesOf(request)

\* The list does not ask one device for two configurations of its queues.
QueuesAgree(requests) ==
    \A i, j \in DOMAIN requests :
        requests[i].pf = requests[j].pf =>
            \/ QueuesOf(requests[i]) = QueuesOf(requests[j])
            \/ Nil \in {QueuesOf(requests[i]), QueuesOf(requests[j])}

=============================================================================
