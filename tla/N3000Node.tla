------------------------------ MODULE N3000Node ------------------------------
(***************************************************************************)
(* The N3000 daemon of one node: N3000/pkg/daemon/daemon.go, with          *)
(* fpgamanager.go (programming of FPGA cards) and fortvillemanager.go      *)
(* (firmware of the cards' NICs).                                          *)
(*                                                                         *)
(* The cluster controller writes this node's N3000Node object.  Reconcile  *)
(* reads it from the informer's cache, writes "InProgress", verifies the   *)
(* devices and downloads images to files named by position, then flashes   *)
(* the devices one by one under drainhelper.Run and writes the outcome.    *)
(* Whatever is wrong with the request, the devices or Run is an outcome    *)
(* too: only errors of the object's Get, Create and first status write are *)
(* tried again.                                                            *)
(*                                                                         *)
(* drainhelper.Run is taken as in NodeConfig: it admits the worker some    *)
(* time later, may fail before or after it, returns early when the lease   *)
(* is lost, and does not return when the node was not to be drained.       *)
(***************************************************************************)
EXTENDS Naturals, Sequences

CONSTANTS
    Cards,       \* installed FPGA cards
    NoCard,      \* an address with no card
    Nics,        \* the NICs on the cards
    NoNic,       \* a MAC that no NIC has
    CardOf,      \* the card of each NIC
    Images,      \* user images
    Garbled,     \* the flash after a failed update
    NoURL,       \* an empty URL; also: no file
    Firmwares,   \* NIC firmware packages
    NoFortville, \* the request has no fortville section
    Requests,    \* what the cluster controller may write
    NoObj,       \* the object does not exist
    Updates,     \* how many updates lead a NIC to a package's version
    Slots,       \* bound: worker goroutines alive at the same time
    MaxWrites,   \* bound: writes of the cluster controller
    MaxFaults,   \* bound: faults
    Faults       \* the faults that occur, see FaultKinds

\* "status": a status cannot be written;  "check": a verification or download
\* fails;  "work": a flashing command fails;  "xml": its result is cut off;
\* "cycle": a power cycle fails;  "gone": a NIC is missing from an inventory;
\* "drain": Run returns an error;  "lease": Run returns while the worker runs;
\* "crash": the daemon's process restarts;  "delete": the cluster controller
\* deletes the object.
FaultKinds ==
    {"status", "check", "work", "xml", "cycle", "gone", "drain", "lease", "crash", "delete"}

FpgaEntry == [card : Cards \cup {NoCard}, image : Images \cup {NoURL}]
Fortville == [nics : Seq(Nics \cup {NoNic}), firmware : Firmwares \cup {NoURL}]
NodeSpec == [fpga : Seq(FpgaEntry), fortville : Fortville \cup {NoFortville},
             dryRun : BOOLEAN, drainSkip : BOOLEAN]

\* The object a daemon creates.
NoSpec == [fpga |-> <<>>, fortville |-> NoFortville, dryRun |-> FALSE, drainSkip |-> FALSE]

\* "none" stands for a status without the Flashed condition.
Reasons == {"none", "Unknown", "InProgress", "Failed", "NotRequested", "Succeeded"}
Specs == Requests \cup {NoSpec}
Object == [gen : 1..(MaxWrites + 1), spec : Specs, reason : Reasons, obs : 0..(MaxWrites + 1)]

ASSUME N3000NodeAssumption ==
    /\ NoCard \notin Cards /\ NoNic \notin Nics
    /\ CardOf \in [Nics -> Cards]
    /\ NoURL \notin Images \cup Firmwares
    /\ Garbled \notin Images
    /\ Requests \subseteq NodeSpec
    /\ NoObj \notin Object
    /\ Updates \in Nat \ {0}
    /\ MaxWrites \in Nat /\ MaxFaults \in Nat
    /\ Faults \subseteq FaultKinds

VARIABLES
    obj,           \* the object in the API server
    cache,         \* the informer's copy
    sameObj,       \* no deletion of the object is still to be delivered
    cacheCurrent,  \* the informer's copy is the latest version
    event,         \* an event that passed the filter is still to be handled
    queued,        \* the object's key is in the work queue
    pc,            \* control state of Reconcile
    nc,            \* Reconcile's local n3000node
    ncCurrent,     \* its resourceVersion is the latest
    next,          \* position of the next image to download
    run,           \* how the latest Run ended: "ok", "error" or "lost"
    cur,           \* slot of the latest Run's worker
    files,         \* the image in each file fpga0.bin, fpga1.bin, ...
    package,       \* the firmware in nvmInstallDest
    wpc,           \* control state of each worker
    wspec,         \* its n3000node.Spec
    wi,            \* position in its list of cards or of NICs
    step,          \* flashMac's step
    bmcs,          \* flash's list of cards to power cycle
    flashErr,      \* where its flashErr comes from, or "none"
    flash,         \* the image in each card's flash
    running,       \* the image each card has booted
    nvm,           \* firmware and updates left in each NIC's memory
    active,        \* the same since the NIC's last power cycle
    writes,        \* how many writes have happened
    faults         \* the faults that have happened, in order

apiVars == <<obj, cache, sameObj, cacheCurrent>>
queueVars == <<event, queued>>
reconcileVars == <<pc, nc, ncCurrent, next, run, cur>>
fileVars == <<files, package>>
workerVars == <<wpc, wspec, wi, step, bmcs, flashErr>>
deviceVars == <<flash, running, nvm, active>>
boundVars == <<writes, faults>>
vars == <<obj, cache, sameObj, cacheCurrent, event, queued, pc, nc, ncCurrent, next, run, cur,
          files, package, wpc, wspec, wi, step, bmcs, flashErr, flash, running, nvm,
          active, writes, faults>>

\* The positions of the longest list of cards, or of NICs, and the next one.
Positions == (UNION {1..(Len(r.fpga) + 1) : r \in Specs}) \cup
             (UNION {1..(Len(r.fortville.nics) + 1) : r \in {q \in Specs : q.fortville # NoFortville}})

Memory == [firmware : Firmwares \cup {NoURL}, left : 0..(Updates - 1)]

\* The type of every variable; the devices only ever hold what their tools write.
TypeOK ==
    /\ {obj, cache, nc} \subseteq Object \cup {NoObj}
    /\ {sameObj, cacheCurrent, event, queued, ncCurrent} \subseteq BOOLEAN
    /\ pc \in {"idle", "check", "cards", "images", "nics", "run", "report"}
    /\ next \in Positions
    /\ run \in {"ok", "error", "lost"}
    /\ cur \in Slots
    /\ files \in [Positions -> Images \cup {NoURL}]
    /\ package \in Firmwares \cup {NoURL}
    /\ wpc \in [Slots -> {"none", "wait", "drain", "program", "rsu", "flash", "cycle", "done"}]
    /\ wspec \in [Slots -> Specs]
    /\ wi \in [Slots -> Positions]
    /\ step \in [Slots -> 0..1]
    /\ bmcs \in [Slots -> SUBSET Cards]
    /\ flashErr \in [Slots -> {"none", "fpga", "fortville"}]
    /\ flash \in [Cards -> Images \cup {NoURL, Garbled}]
    /\ running \in [Cards -> Images \cup {NoURL, Garbled}]
    /\ nvm \in [Nics -> Memory]
    /\ active \in [Nics -> Memory]
    /\ writes \in 0..MaxWrites
    /\ faults \in Seq(Faults) /\ Len(faults) <= MaxFaults

\* A new object: generation 1 and an empty status.
NewObject(spec) == [gen |-> 1, spec |-> spec, reason |-> "none", obs |-> 0]

\* The daemon's first start: main has created the object if needed, the
\* informer has listed it; the devices are as they left the factory.
Init ==
    /\ obj = NewObject(NoSpec)
    /\ cache = obj
    /\ sameObj = TRUE
    /\ cacheCurrent = TRUE
    /\ event = TRUE
    /\ queued = FALSE
    /\ pc = "idle"
    /\ nc = NoObj
    /\ ncCurrent = FALSE
    /\ next = 1
    /\ run = "ok"
    /\ cur \in Slots
    /\ files = [i \in Positions |-> NoURL]
    /\ package = NoURL
    /\ wpc = [s \in Slots |-> "none"]
    /\ wspec = [s \in Slots |-> NoSpec]
    /\ wi = [s \in Slots |-> 1]
    /\ step = [s \in Slots |-> 0]
    /\ bmcs = [s \in Slots |-> {}]
    /\ flashErr = [s \in Slots |-> "none"]
    /\ flash = [c \in Cards |-> NoURL]
    /\ running = flash
    /\ nvm = [n \in Nics |-> [firmware |-> NoURL, left |-> 0]]
    /\ active = nvm
    /\ writes = 0
    /\ faults = <<>>

Fault(kind) ==
    /\ kind \in Faults
    /\ Len(faults) < MaxFaults
    /\ faults' = Append(faults, kind)

\* No fault of these kinds has happened so far.
Without(kinds) == \A i \in DOMAIN faults : faults[i] \notin kinds

-----------------------------------------------------------------------------
(* The API server and the informer.                                         *)

\* The cluster controller creates the object or changes its spec.
SetSpec(spec) ==
    /\ writes < MaxWrites
    /\ writes' = writes + 1
    /\ \/ obj = NoObj /\ obj' = NewObject(spec)
       \/ /\ obj # NoObj
          /\ obj.spec # spec
          /\ obj' = [obj EXCEPT !.spec = spec, !.gen = @ + 1]
    /\ cacheCurrent' = FALSE
    /\ ncCurrent' = FALSE
    /\ UNCHANGED <<cache, sameObj, queueVars, pc, nc, next, run, cur, fileVars, workerVars,
                   deviceVars, faults>>

\* The cluster controller deletes the object.
Delete ==
    /\ Fault("delete")
    /\ obj # NoObj
    /\ obj' = NoObj
    /\ sameObj' = FALSE
    /\ cacheCurrent' = FALSE
    /\ ncCurrent' = FALSE
    /\ UNCHANGED <<cache, queueVars, pc, nc, next, run, cur, fileVars, workerVars,
                   deviceVars, writes>>

\* The informer delivers a deletion.
DeliverDelete ==
    /\ ~sameObj
    /\ cache' = NoObj
    /\ sameObj' = TRUE
    /\ cacheCurrent' = (obj = NoObj)
    /\ event' = TRUE
    /\ UNCHANGED <<obj, queued, reconcileVars, fileVars, workerVars, deviceVars, boundVars>>

\* Mutant: the event filter drops all updates.
PassesCreationsOnly(old, new) ==
    IF old = NoObj THEN new.reason = "none" \/ new.obs # new.gen ELSE FALSE

\* CreateFunc ignores an object whose condition is of its generation,
\* UpdateFunc an update that leaves the generation alone.
Passes(old, new) ==
    IF old = NoObj THEN new.reason = "none" \/ new.obs # new.gen ELSE old.gen # new.gen

\* The informer delivers a creation, or updates: first to the cache ...
Deliver ==
    /\ sameObj
    /\ ~cacheCurrent
    /\ cache' = obj
    /\ cacheCurrent' = TRUE
    /\ event' = (event \/ Passes(cache, obj))
    /\ UNCHANGED <<obj, sameObj, queued, reconcileVars, fileVars, workerVars, deviceVars, boundVars>>

\* ... then to the event handler, which queues the key.
HandleEvent ==
    /\ event
    /\ event' = FALSE
    /\ queued' = TRUE
    /\ UNCHANGED <<apiVars, reconcileVars, fileVars, workerVars, deviceVars, boundVars>>

-----------------------------------------------------------------------------
(* Reconcile.                                                               *)

\* updateStatus with the local object's resourceVersion, which the answer
\* renews; the conditions in the object are replaced by this one.
UpdateStatus(reason, obs) ==
    /\ ncCurrent
    /\ obj' = [obj EXCEPT !.reason = reason, !.obs = obs]
    /\ nc' = obj'
    /\ ncCurrent' = TRUE
    /\ cacheCurrent' = FALSE

\* The write is refused because the object has changed or is gone, or it
\* fails, or the inventory for it does.
StatusFails ==
    /\ \/ ~ncCurrent /\ UNCHANGED faults
       \/ ncCurrent /\ Fault("status")
    /\ UNCHANGED <<obj, nc, ncCurrent, cacheCurrent>>

\* Mutant: the generation reported is the object's latest.
UpdateFlashConditionForced(reason) ==
    /\ obj # NoObj
    /\ obj' = [obj EXCEPT !.reason = reason, !.obs = obj.gen]
    /\ nc' = obj'
    /\ ncCurrent' = TRUE
    /\ cacheCurrent' = FALSE
    /\ UNCHANGED faults

\* Mutant: a refused outcome is written again, to the object as it now is.
UpdateFlashConditionAgain(reason) ==
    /\ obj # NoObj
    /\ obj' = [obj EXCEPT !.reason = reason, !.obs = nc.gen]
    /\ nc' = obj'
    /\ ncCurrent' = TRUE
    /\ cacheCurrent' = FALSE
    /\ UNCHANGED faults

\* updateFlashCondition: the generation is the local object's; an error is
\* logged and forgotten.
UpdateFlashCondition(reason) ==
    \/ UpdateStatus(reason, nc.gen) /\ UNCHANGED faults
    \/ StatusFails

\* Reconcile ends with a condition, and nil.
End(reason) ==
    /\ UpdateFlashCondition(reason)
    /\ pc' = "idle"

\* Get finds no object in the cache: CreateEmptyN3000NodeIfNeeded.  Create
\* fails if the object does exist, and the key is queued again.
CreateEmptyN3000Node ==
    /\ pc = "idle"
    /\ queued
    /\ cache = NoObj
    /\ \/ /\ obj = NoObj
          /\ obj' = NewObject(NoSpec)
          /\ cacheCurrent' = FALSE
          /\ queued' = FALSE
       \/ /\ obj # NoObj
          /\ UNCHANGED <<obj, cacheCurrent, queued>>
    /\ UNCHANGED <<cache, sameObj, event, reconcileVars, fileVars, workerVars, deviceVars, boundVars>>

\* Get reads the object from the cache.
Get ==
    /\ pc = "idle"
    /\ queued
    /\ cache # NoObj
    /\ queued' = FALSE
    /\ pc' = "check"
    /\ nc' = cache
    /\ ncCurrent' = cacheCurrent
    /\ UNCHANGED <<apiVars, event, next, run, cur, fileVars, workerVars, deviceVars, boundVars>>

\* verifySpec: a URL is missing.
Invalid(spec) ==
    \/ \E i \in DOMAIN spec.fpga : spec.fpga[i].image = NoURL
    \/ /\ spec.fortville # NoFortville
       /\ spec.fortville.nics # <<>>
       /\ spec.fortville.firmware = NoURL

Nothing(spec) == spec.fpga = <<>> /\ spec.fortville = NoFortville

\* The request is refused, or empty.
CheckSpec ==
    /\ pc = "check"
    /\ \/ Invalid(nc.spec) /\ End("Failed")
       \/ ~Invalid(nc.spec) /\ Nothing(nc.spec) /\ End("NotRequested")
    /\ UNCHANGED <<cache, sameObj, queueVars, next, run, cur, fileVars, workerVars, deviceVars, writes>>

\* An existing condition becomes "InProgress" and keeps its observed
\* generation.  If that write fails the error is returned.
StartFlash ==
    /\ pc = "check"
    /\ ~Invalid(nc.spec) /\ ~Nothing(nc.spec)
    /\ \/ /\ nc.reason = "none"
          /\ pc' = "cards"
          /\ UNCHANGED <<obj, cacheCurrent, queued, nc, ncCurrent, faults>>
       \/ /\ nc.reason # "none"
          /\ UpdateStatus("InProgress", nc.obs)
          /\ pc' = "cards"
          /\ UNCHANGED <<queued, faults>>
       \/ /\ nc.reason # "none"
          /\ StatusFails
          /\ pc' = "idle"
          /\ queued' = TRUE
    /\ next' = 1
    /\ UNCHANGED <<cache, sameObj, event, run, cur, fileVars, workerVars, deviceVars, writes>>

\* verifyPreconditions, verifyPCIAddrs: the cards of the request are there.
VerifyCards ==
    /\ pc = "cards"
    /\ IF \A i \in DOMAIN nc.spec.fpga : nc.spec.fpga[i].card \in Cards
       THEN pc' = "images" /\ UNCHANGED <<obj, nc, ncCurrent, cacheCurrent, faults>>
       ELSE End("Failed")
    /\ UNCHANGED <<cache, sameObj, queueVars, next, run, cur, fileVars, workerVars, deviceVars, writes>>

\* Mutant: a file that is there is not downloaded again.
GetImageOnce ==
    /\ pc = "images"
    /\ next <= Len(nc.spec.fpga)
    /\ files' = [files EXCEPT ![next] = IF @ # NoURL THEN @ ELSE nc.spec.fpga[next].image]
    /\ next' = next + 1
    /\ UNCHANGED <<apiVars, queueVars, pc, nc, ncCurrent, run, cur, package, workerVars,
                   deviceVars, boundVars>>

\* getImage: a file with another image, or without a checksum to compare, is
\* removed and downloaded again.
GetImage ==
    /\ pc = "images"
    /\ next <= Len(nc.spec.fpga)
    /\ files' = [files EXCEPT ![next] = nc.spec.fpga[next].image]
    /\ next' = next + 1
    /\ UNCHANGED <<apiVars, queueVars, pc, nc, ncCurrent, run, cur, package, workerVars,
                   deviceVars, boundVars>>

GotImages ==
    /\ pc = "images"
    /\ next > Len(nc.spec.fpga)
    /\ pc' = "nics"
    /\ UNCHANGED <<apiVars, queueVars, nc, ncCurrent, next, run, cur, fileVars, workerVars,
                   deviceVars, boundVars>>

\* drainHelper.Run is called with a worker for this object.
CallRun ==
    /\ pc' = "run"
    /\ \E s \in Slots :
          /\ wpc[s] = "none"
          /\ cur' = s
          /\ wpc' = [wpc EXCEPT ![s] = "wait"]
          /\ wspec' = [wspec EXCEPT ![s] = nc.spec]
          /\ wi' = [wi EXCEPT ![s] = 1]
          /\ step' = [step EXCEPT ![s] = 0]
          /\ bmcs' = [bmcs EXCEPT ![s] = {}]
          /\ flashErr' = [flashErr EXCEPT ![s] = "none"]

\* Fortville's verifyPreconditions: a firmware, NICs that are there, and the
\* package, which getNVMUpdate downloads and extracts.
VerifyNics ==
    /\ pc = "nics"
    /\ LET fortville == nc.spec.fortville IN
          \/ /\ fortville = NoFortville
             /\ CallRun
             /\ UNCHANGED <<obj, nc, ncCurrent, cacheCurrent, package, faults>>
          \/ /\ fortville # NoFortville
             /\ fortville.firmware # NoURL
             /\ \A i \in DOMAIN fortville.nics : fortville.nics[i] \in Nics
             /\ package' = fortville.firmware
             /\ CallRun
             /\ UNCHANGED <<obj, nc, ncCurrent, cacheCurrent, faults>>
          \/ /\ fortville # NoFortville
             /\ \/ fortville.firmware = NoURL
                \/ \E i \in DOMAIN fortville.nics : fortville.nics[i] \notin Nics
             /\ End("Failed")
             /\ UNCHANGED <<cur, package, workerVars>>
    /\ UNCHANGED <<cache, sameObj, queueVars, next, run, files, deviceVars, writes>>

\* The inventory cannot be read, a card is too hot, a download fails or its
\* checksum is wrong: "Failed" is written, if it can be.
CheckFails ==
    /\ \/ pc = "cards" /\ nc.spec.fpga # <<>>
       \/ pc = "images" /\ next <= Len(nc.spec.fpga)
       \/ pc = "nics" /\ nc.spec.fortville # NoFortville
    /\ Fault("check")
    /\ \/ UpdateStatus("Failed", nc.gen)
       \/ ~ncCurrent /\ UNCHANGED <<obj, nc, ncCurrent, cacheCurrent>>
    /\ pc' = "idle"
    /\ \/ UNCHANGED fileVars
       \/ /\ pc = "images"
          /\ files' = [files EXCEPT ![next] = NoURL]
          /\ UNCHANGED package
    /\ UNCHANGED <<cache, sameObj, queueVars, next, run, cur, workerVars, deviceVars, writes>>

\* The worker is done, the node uncordoned, the leadership given up.  Without
\* a drain the callback never cancels its context, and Run does not return.
RunReturns ==
    /\ pc = "run"
    /\ wpc[cur] = "done"
    /\ ~wspec[cur].drainSkip
    /\ pc' = "report"
    /\ wpc' = [wpc EXCEPT ![cur] = "none"]
    /\ \/ run' = "ok" /\ UNCHANGED faults
       \/ run' = "error" /\ Fault("drain")
    /\ UNCHANGED <<apiVars, queueVars, nc, ncCurrent, next, cur, fileVars, wspec, wi, step,
                   bmcs, flashErr, deviceVars, writes>>

\* The node cannot be drained: Run returns an error, the worker never runs.
DrainFails ==
    /\ pc = "run"
    /\ wpc[cur] = "drain"
    /\ ~wspec[cur].drainSkip
    /\ Fault("drain")
    /\ pc' = "report"
    /\ run' = "error"
    /\ wpc' = [wpc EXCEPT ![cur] = "none"]
    /\ UNCHANGED <<apiVars, queueVars, nc, ncCurrent, next, cur, fileVars, wspec, wi, step,
                   bmcs, flashErr, deviceVars, writes>>

\* The lease is lost: Run returns nil, its callback goes on.
LoseLease ==
    /\ pc = "run"
    /\ wpc[cur] # "wait"
    /\ Fault("lease")
    /\ pc' = "report"
    /\ run' = "lost"
    /\ UNCHANGED <<apiVars, queueVars, nc, ncCurrent, next, cur, fileVars, workerVars,
                   deviceVars, writes>>

\* After Run the condition tells how it went.  The worker shares err, as well
\* as flashErr, with Reconcile: one that outlives Run and fails in Fortville
\* may write err after Run's result has been stored there.
Report ==
    /\ pc = "report"
    /\ \/ run = "error" /\ End("Unknown")
       \/ run = "lost" /\ flashErr[cur] = "fortville" /\ End("Unknown")
       \/ run # "error" /\ flashErr[cur] # "none" /\ End("Failed")
       \/ run # "error" /\ flashErr[cur] = "none" /\ End("Succeeded")
    /\ UNCHANGED <<cache, sameObj, queueVars, next, run, cur, fileVars, workerVars, deviceVars, writes>>

-----------------------------------------------------------------------------
(* The worker function, called by drainhelper.Run's callback.               *)

WorkerAt(s, from, to) ==
    /\ wpc[s] = from
    /\ wpc' = [wpc EXCEPT ![s] = to]
    /\ UNCHANGED <<apiVars, queueVars, reconcileVars, fileVars, wspec, boundVars>>

\* The election is won ...
Lead(s) ==
    /\ WorkerAt(s, "wait", "drain")
    /\ UNCHANGED <<wi, step, bmcs, flashErr, deviceVars>>

\* ... and the node drained, unless drainSkip is set.
Drained(s) ==
    /\ WorkerAt(s, "drain", "program")
    /\ UNCHANGED <<wi, step, bmcs, flashErr, deviceVars>>

Entry(s) == wspec[s].fpga[wi[s]]

\* ProgramFPGA: fpgasupdate writes the file to the card's flash, ...
Program(s) ==
    /\ wi[s] <= Len(wspec[s].fpga)
    /\ WorkerAt(s, "program", "rsu")
    /\ IF wspec[s].dryRun
       THEN UNCHANGED flash
       ELSE flash' = [flash EXCEPT ![Entry(s).card] = files[wi[s]]]
    /\ UNCHANGED <<wi, step, bmcs, flashErr, running, nvm, active>>

\* A power cycle of cards: FPGA and NICs boot from their memories.
PowerCycled(cards) ==
    /\ running' = [c \in Cards |-> IF c \in cards THEN flash[c] ELSE running[c]]
    /\ active' = [n \in Nics |-> IF CardOf[n] \in cards THEN nvm[n] ELSE active[n]]

\* ... and rsu power cycles the card; then the next one.
Rsu(s) ==
    /\ WorkerAt(s, "rsu", "program")
    /\ PowerCycled(IF wspec[s].dryRun THEN {} ELSE {Entry(s).card})
    /\ wi' = [wi EXCEPT ![s] = @ + 1]
    /\ UNCHANGED <<step, bmcs, flashErr, flash, nvm>>

\* All cards are programmed; the NICs are next, if asked for.
ProgramDone(s) ==
    /\ wi[s] > Len(wspec[s].fpga)
    /\ WorkerAt(s, "program", IF wspec[s].fortville = NoFortville THEN "done" ELSE "flash")
    /\ wi' = [wi EXCEPT ![s] = 1]
    /\ UNCHANGED <<step, bmcs, flashErr, deviceVars>>

Nic(s) == wspec[s].fortville.nics[wi[s]]

\* Mutant: the updates left are off by one.
UpdatedOneLess(memory) ==
    IF memory.firmware # package
    THEN [firmware |-> package, left |-> Updates]
    ELSE [memory EXCEPT !.left = IF @ = 0 THEN 0 ELSE @ - 1]

\* What one nvmupdate makes of a NIC's memory.
Updated(memory) ==
    IF memory.firmware # package
    THEN [firmware |-> package, left |-> Updates - 1]
    ELSE [memory EXCEPT !.left = IF @ = 0 THEN 0 ELSE @ - 1]

NextNic(s) ==
    /\ wi' = [wi EXCEPT ![s] = @ + 1]
    /\ step' = [step EXCEPT ![s] = 0]

\* Mutant: one update is enough.
FlashMacOnce(s) ==
    /\ wpc[s] = "flash"
    /\ wi[s] <= Len(wspec[s].fortville.nics)
    /\ WorkerAt(s, "flash", "flash")
    /\ bmcs' = [bmcs EXCEPT ![s] = @ \cup {CardOf[Nic(s)]}]
    /\ IF wspec[s].dryRun
       THEN UNCHANGED nvm
       ELSE nvm' = [nvm EXCEPT ![Nic(s)] = Updated(@)]
    /\ NextNic(s)
    /\ UNCHANGED <<flashErr, flash, running, active>>

\* flashMac: an update, and a second one if it makes another available
\* (updateStepCount); a third is left undone.
FlashMac(s) ==
    /\ wpc[s] = "flash"
    /\ wi[s] <= Len(wspec[s].fortville.nics)
    /\ WorkerAt(s, "flash", "flash")
    /\ bmcs' = [bmcs EXCEPT ![s] = @ \cup {CardOf[Nic(s)]}]
    /\ IF wspec[s].dryRun
       THEN NextNic(s) /\ UNCHANGED nvm
       ELSE /\ nvm' = [nvm EXCEPT ![Nic(s)] = Updated(@)]
            /\ IF nvm'[Nic(s)].left > 0 /\ step[s] = 0
               THEN step' = [step EXCEPT ![s] = 1] /\ UNCHANGED wi
               ELSE NextNic(s)
    /\ UNCHANGED <<flashErr, flash, running, active>>

\* update.xml is cut off between two elements: getDeviceUpdateFromFile returns
\* what it has read so far, as if no further update were available.
FlashMacMisread(s) ==
    /\ wpc[s] = "flash"
    /\ wi[s] <= Len(wspec[s].fortville.nics)
    /\ ~wspec[s].dryRun
    /\ Fault("xml")
    /\ bmcs' = [bmcs EXCEPT ![s] = @ \cup {CardOf[Nic(s)]}]
    /\ nvm' = [nvm EXCEPT ![Nic(s)] = Updated(@)]
    /\ NextNic(s)
    /\ UNCHANGED <<apiVars, queueVars, reconcileVars, fileVars, wpc, wspec, flashErr,
                   flash, running, active, writes>>

\* A NIC that flash's own inventory does not list is passed over.
PassOver(s) ==
    /\ wpc[s] = "flash"
    /\ wi[s] <= Len(wspec[s].fortville.nics)
    /\ step[s] = 0
    /\ Fault("gone")
    /\ NextNic(s)
    /\ UNCHANGED <<apiVars, queueVars, reconcileVars, fileVars, wpc, wspec, bmcs, flashErr,
                   deviceVars, writes>>

\* A power cycle follows if some NIC was found.
FlashDone(s) ==
    /\ wpc[s] = "flash"
    /\ wi[s] > Len(wspec[s].fortville.nics)
    /\ WorkerAt(s, "flash", IF bmcs[s] = {} THEN "done" ELSE "cycle")
    /\ UNCHANGED <<wi, step, bmcs, flashErr, deviceVars>>

\* powerCycle: the cards of the NICs are power cycled.
PowerCycle(s) ==
    /\ WorkerAt(s, "cycle", "done")
    /\ PowerCycled(IF wspec[s].dryRun THEN {} ELSE bmcs[s])
    /\ UNCHANGED <<wi, step, bmcs, flashErr, flash, nvm>>

\* A card's power cycle fails: that is logged, and powerCycle returns nil.
PowerCycleFails(s) ==
    /\ wpc[s] = "cycle"
    /\ ~wspec[s].dryRun
    /\ Fault("cycle")
    /\ \E c \in bmcs[s] : PowerCycled(bmcs[s] \ {c})
    /\ wpc' = [wpc EXCEPT ![s] = "done"]
    /\ UNCHANGED <<apiVars, queueVars, reconcileVars, fileVars, wspec, wi, step, bmcs, flashErr,
                   flash, nvm, writes>>

\* A card is too hot, or a command or the inventory fails: flashErr is set, the
\* rest is not done.
WorkFails(s) ==
    /\ Fault("work")
    /\ \/ /\ wpc[s] = "program" /\ wi[s] <= Len(wspec[s].fpga)
          /\ \/ UNCHANGED flash
             \/ ~wspec[s].dryRun /\ flash' = [flash EXCEPT ![Entry(s).card] = Garbled]
          /\ UNCHANGED nvm
       \/ wpc[s] = "rsu" /\ ~wspec[s].dryRun /\ UNCHANGED <<flash, nvm>>
       \/ wpc[s] = "flash" /\ wi[s] = 1 /\ step[s] = 0 /\ UNCHANGED <<flash, nvm>>
       \/ /\ wpc[s] = "flash" /\ wi[s] <= Len(wspec[s].fortville.nics)
          /\ ~wspec[s].dryRun
          /\ UNCHANGED nvm \/ nvm' = [nvm EXCEPT ![Nic(s)] = Updated(@)]
          /\ UNCHANGED flash
    /\ flashErr' = [flashErr EXCEPT ![s] = IF wpc[s] = "flash" THEN "fortville" ELSE "fpga"]
    /\ wpc' = [wpc EXCEPT ![s] = "done"]
    /\ UNCHANGED <<apiVars, queueVars, reconcileVars, fileVars, wspec, wi, step, bmcs, running,
                   active, writes>>

\* The callback of a Run that has returned ends.
OrphanEnds(s) ==
    /\ s # cur \/ pc # "run"
    /\ WorkerAt(s, "done", "none")
    /\ UNCHANGED <<wi, step, bmcs, flashErr, deviceVars>>

-----------------------------------------------------------------------------
\* The process starts again: main creates the object if it is missing, the
\* informer lists it, which is a creation for the event filter.
Crash ==
    /\ Fault("crash")
    /\ obj' = IF obj = NoObj THEN NewObject(NoSpec) ELSE obj
    /\ cache' = obj'
    /\ sameObj' = TRUE
    /\ cacheCurrent' = TRUE
    /\ event' = Passes(NoObj, obj')
    /\ queued' = FALSE
    /\ pc' = "idle"
    /\ nc' = NoObj
    /\ ncCurrent' = FALSE
    /\ wpc' = [s \in Slots |-> "none"]
    /\ UNCHANGED <<next, run, cur, fileVars, wspec, wi, step, bmcs, flashErr, deviceVars, writes>>

-----------------------------------------------------------------------------
Inform == DeliverDelete \/ Deliver \/ HandleEvent

Reconcile ==
    \/ CreateEmptyN3000Node \/ Get \/ CheckSpec \/ StartFlash \/ VerifyCards \/ GetImage
    \/ GotImages \/ VerifyNics \/ RunReturns \/ Report

Worker(s) ==
    \/ Lead(s) \/ Drained(s) \/ Program(s) \/ Rsu(s) \/ ProgramDone(s) \/ FlashMac(s)
    \/ FlashDone(s) \/ PowerCycle(s) \/ OrphanEnds(s)

Next ==
    \/ \E spec \in Specs : SetSpec(spec)
    \/ Delete
    \/ Inform
    \/ Reconcile
    \/ CheckFails
    \/ DrainFails
    \/ LoseLease
    \/ \E s \in Slots :
          \/ Worker(s) \/ FlashMacMisread(s) \/ PassOver(s) \/ PowerCycleFails(s)
          \/ WorkFails(s)
    \/ Crash

Spec == Init /\ [][Next]_vars

\* The informer delivers, the reconciler goroutine and the workers are
\* scheduled, Run admits its worker.  Nothing is assumed of faults.
Fairness ==
    /\ WF_vars(Inform)
    /\ WF_vars(Reconcile)
    /\ \A s \in Slots : WF_vars(Worker(s))

FairSpec == Spec /\ Fairness

-----------------------------------------------------------------------------
(* Properties.                                                              *)

\* Nothing is to be delivered, queued or running.
Quiet ==
    /\ pc = "idle" /\ ~queued /\ ~event
    /\ sameObj /\ cacheCurrent
    /\ \A s \in Slots : wpc[s] = "none"

\* No card is named with two images.
ImagesAgree(fpga) ==
    \A i, j \in DOMAIN fpga : fpga[i].card = fpga[j].card => fpga[i].image = fpga[j].image

\* The devices run what a request asks for.
Runs(spec) ==
    /\ \A i \in DOMAIN spec.fpga : running[spec.fpga[i].card] = spec.fpga[i].image
    /\ spec.fortville # NoFortville =>
          \A i \in DOMAIN spec.fortville.nics :
             active[spec.fortville.nics[i]] = [firmware |-> spec.fortville.firmware, left |-> 0]

\* "Succeeded" of the current generation is true at any time, whatever
\* requests came and went while Reconcile was waiting in drainhelper.Run: the
\* cards run the images asked for and the NICs the firmware.  (A request that
\* names a card twice with different images is repeated, from a cached copy
\* older than its "Succeeded", through the first of them.)
SucceededIsTrue ==
    obj # NoObj /\ obj.reason = "Succeeded" /\ obj.obs = obj.gen /\ ~obj.spec.dryRun =>
        (ImagesAgree(obj.spec.fpga) => Runs(obj.spec))

\* ... unless a command's failure is passed over, or a result misread, as
\* PowerCycle, the flashing loop and flashMac do, or the lease was lost.
HonestSuccess == Without({"xml", "cycle", "gone", "lease"}) => SucceededIsTrue

\* A worker about to program a card, or to flash a NIC, finds in the file what
\* its own request names.
FilesAreTheRequested ==
    \A s \in Slots :
        /\ wpc[s] = "program" /\ wi[s] <= Len(wspec[s].fpga) => files[wi[s]] = Entry(s).image
        /\ wpc[s] = "flash" => package = wspec[s].fortville.firmware

\* ... as long as no worker outlives its Run, and so its request.
FilesAreIntact == Without({"lease"}) => FilesAreTheRequested

\* No event is lost between the informer, the filter and the queue: once all
\* is quiet, the object exists and has an outcome for its latest generation.
QuietMeansHandled ==
    Without({"status", "crash"}) /\ Quiet =>
             /\ obj # NoObj
             /\ obj.obs = obj.gen
             /\ obj.reason \notin {"none", "InProgress"}

\* What a request without faults ends in.
Expected(spec) ==
    IF Nothing(spec) THEN "NotRequested"
    ELSE IF \/ Invalid(spec)
            \/ \E i \in DOMAIN spec.fpga : spec.fpga[i].card \notin Cards
            \/ /\ spec.fortville # NoFortville
               /\ \/ spec.fortville.firmware = NoURL
                  \/ \E i \in DOMAIN spec.fortville.nics : spec.fortville.nics[i] \notin Nics
         THEN "Failed" ELSE "Succeeded"

\* When the cluster controller has stopped writing, the object comes to tell,
\* for its latest generation, what becomes of such a request, and keeps to it.
Converges ==
    <>[](obj # NoObj /\ obj.obs = obj.gen /\ obj.reason = Expected(obj.spec))

\* To its readers the object looks as NodeObject says: whatever is
\* cached, overtaken, repeated or interrupted, only status changes come from
\* the daemon once the object exists, and an outcome is written for the
\* generation of that moment or not at all.
Seen == INSTANCE NodeObject WITH
            Specs <- Requests,
            Outcomes <- Reasons \ {"none", "InProgress"},
            object <- IF obj = NoObj THEN NoObj
                      ELSE [gen |-> obj.gen, spec |-> obj.spec, reason |-> obj.reason, obs |-> obj.obs]

ImplementsNodeObject == Seen!ObjectSpec

=============================================================================
