------------------------ MODULE N3000NodeSuccessProofs ------------------------
(***************************************************************************)
(* "Succeeded" is true: the theorem about N3000Node that relates what the  *)
(* object says to what the cards and the NICs run, for every number of     *)
(* them, every request, every number of writes and faults.                 *)
(***************************************************************************)
EXTENDS N3000NodeProofs

-----------------------------------------------------------------------------
(* What a request asks for.                                                 *)

\* The requests that the property is about.
Counts(spec) == ~spec.dryRun /\ ImagesAgree(spec.fpga)

\* A NIC's memory after all updates to a firmware.
UpToDate(firmware) == [firmware |-> firmware, left |-> 0]

\* The devices run what a request asks for, and will after a power cycle of
\* the NICs.
Keeps(spec) ==
    /\ \A i \in 1..Len(spec.fpga) : running[spec.fpga[i].card] = spec.fpga[i].image
    /\ spec.fortville # NoFortville =>
          \A i \in 1..Len(spec.fortville.nics) :
             /\ nvm[spec.fortville.nics[i]] = UpToDate(spec.fortville.firmware)
             /\ active[spec.fortville.nics[i]] = UpToDate(spec.fortville.firmware)

LEMMA KeepsMeansRuns ==
  ASSUME NEW spec \in Specs, Keeps(spec)
  PROVE  Runs(spec)
  BY SpecType DEF Keeps, Runs, UpToDate

-----------------------------------------------------------------------------
(* The invariant.                                                           *)

\* No failure that is passed over, no result that is misread, no lost lease.
NoLoss == Without({"xml", "cycle", "gone", "lease"})

\* A Reconcile that can write works on what the cache holds, but for the status;
\* its worker carries out the request it has read.
CopyInv ==
    /\ ncCurrent => Fresh /\ cache.spec = obj.spec
    /\ pc \in {"run", "report"} => wspec[cur] = nc.spec

\* The first k cards have been programmed and booted.
Booted(spec, k) ==
    \A i \in 1..k : /\ flash[spec.fpga[i].card] = spec.fpga[i].image
                    /\ running[spec.fpga[i].card] = spec.fpga[i].image

\* The first k NICs have been updated, and their cards are to be power cycled.
Flashed(s, k) ==
    \A i \in 1..k :
        /\ nvm[wspec[s].fortville.nics[i]] = UpToDate(wspec[s].fortville.firmware)
        /\ CardOf[wspec[s].fortville.nics[i]] \in bmcs[s]

\* How far the worker in slot s is, state by state.
Progress(s) ==
    /\ wpc[s] \in {"wait", "drain"} => wi[s] = 1
    /\ wpc[s] \in {"wait", "drain", "program", "rsu"} => step[s] = 0
    /\ wpc[s] \in {"program", "rsu"} => Booted(wspec[s], wi[s] - 1)
    /\ wpc[s] = "rsu" => flash[Entry(s).card] = Entry(s).image
    /\ wpc[s] \in {"flash", "cycle"} =>
          wspec[s].fortville # NoFortville /\ Booted(wspec[s], Len(wspec[s].fpga))
    /\ wpc[s] = "flash" =>
          /\ Flashed(s, wi[s] - 1)
          /\ step[s] = 1 => wi[s] <= Len(wspec[s].fortville.nics) /\ nvm[Nic(s)].firmware = package
    /\ wpc[s] = "cycle" => Flashed(s, Len(wspec[s].fortville.nics))
    /\ wpc[s] = "done" /\ flashErr[s] = "none" => Keeps(wspec[s])

ProgressInv ==
    NoLoss => /\ \A s \in Slots : wpc[s] # "none" /\ Counts(wspec[s]) => Progress(s)
              /\ pc = "report" /\ run # "error" /\ flashErr[cur] = "none" /\ Counts(nc.spec) =>
                    Keeps(nc.spec)

\* The object says "Succeeded" of its generation.
SaysSucceeded == obj # NoObj /\ obj.reason = "Succeeded" /\ obj.obs = obj.gen

\* Then its generation is the cached and the local one, so that a worker can
\* only repeat the same request, and the devices are as it asks.
Backed ==
    /\ Fresh /\ cache.spec = obj.spec
    /\ pc # "idle" => nc.gen = obj.gen /\ nc.spec = obj.spec
    /\ Counts(obj.spec) => Keeps(obj.spec)

SucceededInv == NoLoss /\ SaysSucceeded => Backed

SuccessInv == CopyInv /\ ProgressInv /\ SucceededInv

\* Faults that the property excludes have not happened before either.
LEMMA NoLossStep ==
  ASSUME FaultsType, Next, NoLoss'
  PROVE  /\ NoLoss /\ Without({"lease"})
         /\ ~Fault("xml") /\ ~Fault("cycle") /\ ~Fault("gone") /\ ~Fault("lease")
  <1>1. NoLoss
    BY WithoutStep DEF NoLoss
  <1> QED
    BY <1>1, WithoutFault DEF NoLoss, Without

LEMMA CopyInvStep ==
  ASSUME TypeInv, CopyInv, Next
  PROVE  CopyInv'
  <1>0. ApiInv /\ ApiInv'
    BY ApiInvStep DEF TypeInv
  <1>1. CASE UNCHANGED <<obj, cache, sameObj, wspec>> /\ (ncCurrent' => ncCurrent)
             /\ (pc' \in {"run", "report"} => pc \in {"run", "report"} /\ UNCHANGED <<nc, cur>>)
    BY <1>1 DEF CopyInv, Fresh
  <1>2. ASSUME NEW reason \in Reasons, NEW obs \in 0..(MaxWrites + 1), UpdateStatus(reason, obs),
               UNCHANGED <<cache, sameObj>>
        PROVE  Fresh' /\ cache'.spec = obj'.spec
    BY <1>0, <1>2, UpdateStatusShape DEF CopyInv, Fresh
  <1>3. ASSUME NEW reason \in Reasons, nc # NoObj, UNCHANGED <<cache, sameObj>>, pc' = "idle",
               UpdateStatus(reason, nc.gen) \/ UNCHANGED <<obj, nc, ncCurrent, cacheCurrent>>
        PROVE  CopyInv'
    <2>1. nc.gen \in 0..(MaxWrites + 1)
      BY <1>0, <1>3 DEF ApiInv, Object
    <2>2. CASE UpdateStatus(reason, nc.gen)
      BY <1>2, <1>3, <2>1, <2>2 DEF CopyInv
    <2>3. CASE UNCHANGED <<obj, nc, ncCurrent>>
      BY <1>3, <2>3 DEF CopyInv, Fresh
    <2> QED
      BY <1>3, <2>2, <2>3
  <1>end. ASSUME NEW reason \in Reasons, nc # NoObj, UNCHANGED <<cache, sameObj>>, End(reason)
          PROVE  CopyInv'
    BY <1>0, <1>3, <1>end, EndShape
  <1>4. CASE (\E spec \in Specs : SetSpec(spec)) \/ Delete
    <2>1. ncCurrent' = FALSE /\ UNCHANGED <<pc, nc, cur, wspec>>
      BY <1>4, Zenon DEF SetSpec, Delete, workerVars
    <2> QED
      BY <2>1 DEF CopyInv
  <1>5. CASE DeliverDelete
    BY <1>0, <1>5 DEF DeliverDelete, CopyInv, Fresh, reconcileVars, workerVars
  <1>6. CASE Deliver
    BY <1>0, <1>6 DEF Deliver, CopyInv, Fresh, ApiInv, reconcileVars, workerVars
  <1>7. CASE HandleEvent
    BY <1>1, <1>7 DEF HandleEvent, apiVars, reconcileVars, workerVars
  <1>8. CASE CreateEmptyN3000Node
    BY <1>8 DEF CreateEmptyN3000Node, CopyInv, Fresh, reconcileVars, workerVars
  <1>9. CASE Get
    BY <1>0, <1>9 DEF Get, CopyInv, Fresh, ApiInv, apiVars
  <1>10. CASE CheckSpec \/ Report
    <2>1. nc # NoObj /\ {"Failed", "NotRequested", "Unknown", "Succeeded"} \subseteq Reasons
      BY <1>0, <1>10 DEF CheckSpec, Report, ApiInv, Reasons
    <2>2. \E reason \in Reasons : End(reason)
      BY <1>10, <2>1 DEF CheckSpec, Report
    <2> QED
      BY <1>10, <1>end, <2>1, <2>2 DEF CheckSpec, Report
  <1>11. CASE StartFlash
    <2>1. nc \in Object /\ UNCHANGED <<cache, sameObj>> /\ pc' \in {"cards", "idle"}
      BY <1>0, <1>11 DEF StartFlash, ApiInv
    <2>2. CASE UNCHANGED <<obj, ncCurrent>>
      BY <2>1, <2>2 DEF CopyInv, Fresh
    <2>3. CASE UpdateStatus("InProgress", nc.obs)
      <3>1. "InProgress" \in Reasons /\ nc.obs \in 0..(MaxWrites + 1)
        BY <2>1 DEF Object, Reasons
      <3> QED
        BY <1>2, <2>1, <2>3, <3>1 DEF CopyInv
    <2> QED
      BY <1>11, <2>2, <2>3 DEF StartFlash, StatusFails
  <1>12. CASE VerifyCards
    <2>1. nc # NoObj /\ "Failed" \in Reasons /\ UNCHANGED <<cache, sameObj>>
      BY <1>0, <1>12 DEF VerifyCards, ApiInv, Reasons
    <2>2. CASE pc' = "images" /\ UNCHANGED <<obj, ncCurrent>>
      BY <2>1, <2>2 DEF CopyInv, Fresh
    <2> QED
      BY <1>12, <1>end, <2>1, <2>2 DEF VerifyCards
  <1>13. CASE GetImage \/ GotImages
    BY <1>13 DEF GetImage, GotImages, CopyInv, Fresh, apiVars
  <1>14. CASE VerifyNics
    <2>1. nc # NoObj /\ "Failed" \in Reasons /\ UNCHANGED <<cache, sameObj>>
      BY <1>0, <1>14 DEF VerifyNics, ApiInv, Reasons
    <2>2. CASE CallRun /\ UNCHANGED <<obj, nc, ncCurrent>>
      <3>1. wspec'[cur'] = nc'.spec
        BY <2>2 DEF CallRun, TypeInv, WorkerInv
      <3> QED
        BY <2>1, <2>2, <3>1 DEF CopyInv, Fresh
    <2> QED
      BY <1>14, <1>end, <2>1, <2>2 DEF VerifyNics
  <1>15. CASE RunReturns \/ DrainFails \/ LoseLease
    BY <1>1, <1>15 DEF RunReturns, DrainFails, LoseLease, apiVars, workerVars
  <1>16. CASE CheckFails
    <2>1. nc # NoObj /\ "Failed" \in Reasons
      BY <1>0, <1>16 DEF CheckFails, ApiInv, Reasons
    <2> QED
      BY <1>3, <1>16, <2>1 DEF CheckFails
  <1>17. ASSUME NEW s \in Slots, WorkerStep(s)
         PROVE  CopyInv'
    BY <1>1, <1>17, WorkerFrame DEF apiVars, reconcileVars
  <1>18. CASE Crash
    BY <1>18 DEF Crash, CopyInv
  <1> QED
    BY <1>4, <1>5, <1>6, <1>7, <1>8, <1>9, <1>10, <1>11, <1>12, <1>13, <1>14, <1>15, <1>16, <1>17,
       <1>18 DEF Next, Reconcile, Inform, WorkerStep

-----------------------------------------------------------------------------
(* The worker's progress.                                                   *)

\* An update of a NIC that has the package leads it on; one of a NIC that is
\* up to date changes nothing, and the second one is the last.
LEMMA UpdatedSteps ==
  ASSUME NEW memory \in Memory, Updates <= 2
  PROVE  /\ Updated(memory).firmware = package
         /\ memory = UpToDate(package) => Updated(memory) = memory
         /\ memory.firmware = package => Updated(memory) = UpToDate(package)
         /\ Updated(memory).left \in Nat
         /\ Updated(memory).left = 0 => Updated(memory) = UpToDate(package)
  <1>1. memory.left \in 0..(Updates - 1) /\ Updates \in Nat \ {0}
        /\ memory = [firmware |-> memory.firmware, left |-> memory.left]
    BY BoundsType DEF Memory
  <1>2. CASE memory.firmware # package
    BY <1>1, <1>2 DEF Updated, UpToDate
  <1>3. CASE memory.firmware = package
    <2>1. memory.left \in {0, 1}
      BY <1>1
    <2>2. Updated(memory) = [firmware |-> package, left |-> 0]
      BY <1>1, <1>3, <2>1 DEF Updated
    <2> QED
      BY <1>3, <2>2 DEF UpToDate
  <1> QED
    BY <1>2, <1>3

\* A worker's step carries its progress on.
LEMMA WorkerKeepsProgress ==
  ASSUME TypeInv, FilesInv, NoLoss, Updates <= 2, NEW t \in Slots, WorkerStep(t),
         ~Fault("xml"), ~Fault("cycle"), ~Fault("gone"), Counts(wspec[t]), Progress(t),
         wpc'[t] # "none"
  PROVE  Progress(t)'
  <1> DEFINE S == wspec[t]
             R == S.fpga
             N == S.fortville.nics
             k == wi[t]
  <1>0. /\ S \in Specs /\ Len(R) \in Nat /\ k \in Nat \ {0} /\ wpc[t] # "none"
        /\ S.fortville # NoFortville => Len(N) \in Nat
        /\ wspec' = wspec /\ files' = files /\ package' = package
        /\ wpc \in [Slots -> WorkerState] /\ wi \in [Slots -> Positions] /\ step \in [Slots -> 0..1]
        /\ bmcs \in [Slots -> SUBSET Cards] /\ flash \in [Cards -> Images \cup {NoURL, Garbled}]
        /\ nvm \in [Nics -> Memory]
        /\ flashErr \in [Slots -> {"none", "fpga", "fortville"}]
    BY WorkerAlive, WorkerFrame, SpecType, PositionsArePositive
       DEF TypeInv, WorkerInv, DeviceInv, WorkerState, fileVars
  <1>1. /\ \A i \in 1..Len(R) : R[i].card \in Cards /\ files[i] = R[i].image
        /\ \A i, j \in 1..Len(R) : R[i].card = R[j].card => R[i].image = R[j].image
        /\ ~S.dryRun
    <2>1. CardsThere(S) /\ ImagesThere(S, Len(R)) /\ ImagesAgree(R) /\ ~S.dryRun
      BY <1>0 DEF TypeInv, WorkerInv, FilesInv, NoLoss, Without, Counts
    <2>2. DOMAIN R = 1..Len(R)
      BY <1>0, SpecType
    <2> QED
      BY <2>1, <2>2 DEF CardsThere, ImagesThere, ImagesAgree
  <1>2. S.fortville # NoFortville =>
          /\ package = S.fortville.firmware
          /\ \A i \in 1..Len(N) : N[i] \in Nics /\ CardOf[N[i]] \in Cards
    <2>1. NicsThere(S) /\ (S.fortville # NoFortville => package = S.fortville.firmware)
      BY <1>0 DEF TypeInv, WorkerInv, FilesInv, NoLoss, Without
    <2>2. S.fortville # NoFortville => DOMAIN N = 1..Len(N)
      BY <1>0, SpecType
    <2> QED
      BY <2>1, <2>2, N3000NodeAssumption DEF NicsThere
  <1>3. CASE Lead(t)
    BY <1>0, <1>3 DEF Lead, WorkerAt, Progress
  <1>4. CASE Drained(t)
    <2>1. wpc'[t] = "program" /\ wi'[t] = 1 /\ step'[t] = 0
      BY <1>0, <1>4 DEF Drained, WorkerAt, Progress
    <2> QED
      BY <2>1 DEF Progress, Booted
  <1>5. CASE Program(t)
    <2>1. /\ wpc[t] = "program" /\ wpc'[t] = "rsu" /\ k <= Len(R)
          /\ flash' = [flash EXCEPT ![R[k].card] = files[k]]
          /\ UNCHANGED <<wi, step, running>>
          /\ Booted(S, k - 1) /\ step[t] = 0
      BY <1>0, <1>1, <1>5 DEF Program, WorkerAt, Entry, Progress
    <2>2. k \in 1..Len(R) /\ flash'[R[k].card] = R[k].image
      BY <1>0, <1>1, <2>1
    <2>3. ASSUME NEW i \in 1..(k - 1)
          PROVE  flash'[R[i].card] = R[i].image /\ running'[R[i].card] = R[i].image
      <3>1. i \in 1..Len(R) /\ flash[R[i].card] = R[i].image /\ running[R[i].card] = R[i].image
        BY <1>0, <2>1 DEF Booted
      <3>2. R[i].card = R[k].card => R[i].image = R[k].image
        BY <1>1, <2>2, <3>1
      <3> QED
        BY <1>0, <1>1, <2>1, <2>2, <3>1, <3>2
    <2> QED
      BY <1>0, <2>1, <2>2, <2>3 DEF Progress, Booted, Entry
  <1>6. CASE Rsu(t)
    <2>1. /\ wpc[t] = "rsu" /\ wpc'[t] = "program" /\ wi'[t] = k + 1 /\ UNCHANGED <<flash, step>>
          /\ running' = [c \in Cards |-> IF c = R[k].card THEN flash[c] ELSE running[c]]
          /\ Booted(S, k - 1) /\ flash[R[k].card] = R[k].image /\ step[t] = 0
          /\ k <= Len(R)
      BY <1>0, <1>1, <1>6 DEF Rsu, WorkerAt, Entry, Progress, PowerCycled, TypeInv, WorkerInv
    <2>2. ASSUME NEW i \in 1..k
          PROVE  flash[R[i].card] = R[i].image /\ running'[R[i].card] = R[i].image
      <3>1. i \in 1..Len(R) /\ R[i].card \in Cards /\ (i # k => i \in 1..(k - 1))
        BY <1>0, <1>1, <2>1
      <3> QED
        BY <2>1, <3>1 DEF Booted
    <2>3. wi'[t] - 1 = k
      BY <1>0, <2>1
    <2> QED
      BY <1>0, <2>1, <2>2, <2>3 DEF Progress, Booted
  <1>7. CASE ProgramDone(t)
    <2>1. /\ wpc[t] = "program" /\ k > Len(R) /\ wi'[t] = 1 /\ UNCHANGED <<step, bmcs, flashErr, deviceVars>>
          /\ wpc'[t] = IF S.fortville = NoFortville THEN "done" ELSE "flash"
          /\ Booted(S, k - 1) /\ step[t] = 0
      BY <1>0, <1>7 DEF ProgramDone, WorkerAt, Progress
    <2>2. Booted(S, Len(R)) /\ Booted(S, Len(R))'
      BY <1>0, <2>1 DEF Booted, deviceVars
    <2>3. CASE S.fortville = NoFortville
      <3>1. Keeps(S)'
        BY <1>0, <2>2, <2>3 DEF Keeps, Booted
      <3> QED
        BY <1>0, <2>1, <2>3, <3>1 DEF Progress
    <2>4. CASE S.fortville # NoFortville
      <3>1. wpc'[t] = "flash" /\ Flashed(t, wi[t] - 1)' /\ step'[t] = 0
        BY <2>1, <2>4 DEF Flashed
      <3> QED
        BY <1>0, <2>2, <2>4, <3>1 DEF Progress
    <2> QED
      BY <2>3, <2>4
  <1>8. CASE FlashMac(t)
    <2> DEFINE m == nvm[N[k]]
    <2>1. /\ wpc[t] = "flash" /\ wpc'[t] = "flash" /\ k <= Len(N) /\ UNCHANGED <<flash, running>>
          /\ S.fortville # NoFortville /\ Booted(S, Len(R)) /\ Flashed(t, k - 1)
          /\ step[t] = 1 => m.firmware = package
          /\ bmcs'[t] = bmcs[t] \cup {CardOf[N[k]]}
          /\ nvm' = [nvm EXCEPT ![N[k]] = Updated(m)]
      BY <1>0, <1>1, <1>8 DEF FlashMac, WorkerAt, Nic, Progress
    <2>2. k \in 1..Len(N) /\ N[k] \in Nics /\ m \in Memory /\ nvm'[N[k]] = Updated(m)
      BY <1>0, <1>2, <2>1
    <2> HIDE DEF m
    <2>3. /\ Updated(m).firmware = package
          /\ m = UpToDate(package) => Updated(m) = m
          /\ m.firmware = package => Updated(m) = UpToDate(package)
          /\ Updated(m).left \in Nat
          /\ Updated(m).left = 0 => Updated(m) = UpToDate(package)
      BY <2>2, UpdatedSteps
    <2>4. ASSUME NEW i \in 1..(k - 1)
          PROVE  nvm'[N[i]] = UpToDate(package) /\ CardOf[N[i]] \in bmcs'[t]
      <3>1. i \in 1..Len(N) /\ nvm[N[i]] = UpToDate(package) /\ CardOf[N[i]] \in bmcs[t]
        <4>1. i \in 1..Len(N)
          BY <2>2
        <4>2. package = S.fortville.firmware /\ Flashed(t, k - 1)
          BY <1>2, <2>1
        <4> QED
          BY <4>1, <4>2 DEF Flashed
      <3>2. N[i] \in Nics /\ CardOf[N[i]] \in bmcs'[t]
        BY <1>2, <2>1, <3>1
      <3>3. CASE N[i] = N[k]
        BY <2>2, <2>3, <3>1, <3>2, <3>3 DEF m
      <3>4. CASE N[i] # N[k]
        BY <1>0, <2>1, <3>1, <3>2, <3>4
      <3> QED
        BY <3>3, <3>4
    <2>5. Booted(S, Len(R))'
      BY <1>0, <2>1 DEF Booted
    <2>6. CASE step'[t] = 1 /\ wi'[t] = k
      <3>1. Flashed(t, wi[t] - 1)'
        BY <1>0, <1>2, <2>1, <2>4, <2>6 DEF Flashed
      <3>2. Nic(t)' = N[k] /\ nvm'[N[k]].firmware = package
        BY <1>0, <2>2, <2>3, <2>6 DEF Nic
      <3> QED
        BY <1>0, <2>1, <2>5, <2>6, <3>1, <3>2 DEF Progress
    <2>7. CASE step'[t] = 0 /\ wi'[t] = k + 1 /\ (Updated(m).left = 0 \/ step[t] = 1)
      <3>1. Updated(m) = UpToDate(package)
        BY <2>1, <2>3, <2>7
      <3>2. ASSUME NEW i \in 1..k
            PROVE  nvm'[N[i]] = UpToDate(package) /\ CardOf[N[i]] \in bmcs'[t]
        <4>1. CASE i = k
          BY <2>1, <2>2, <3>1, <4>1
        <4>2. CASE i # k
          BY <1>0, <2>4, <4>2
        <4> QED
          BY <4>1, <4>2
      <3>3. Flashed(t, wi[t] - 1)'
        <4>1. wi'[t] - 1 = k
          BY <1>0, <2>7
        <4> QED
          BY <1>0, <1>2, <2>1, <3>2, <4>1 DEF Flashed
      <3> QED
        BY <1>0, <2>1, <2>5, <2>7, <3>3 DEF Progress
    <2>8. \/ step'[t] = 1 /\ wi'[t] = k
          \/ step'[t] = 0 /\ wi'[t] = k + 1 /\ (Updated(m).left = 0 \/ step[t] = 1)
      <3>1. \/ step' = [step EXCEPT ![t] = 1] /\ UNCHANGED wi
            \/ ~(nvm'[N[k]].left > 0 /\ step[t] = 0) /\ wi' = [wi EXCEPT ![t] = k + 1]
               /\ step' = [step EXCEPT ![t] = 0]
        BY <1>1, <1>8 DEF FlashMac, NextNic, Nic
      <3>2. step[t] \in {0, 1}
        BY <1>0
      <3> QED
        BY <1>0, <2>2, <2>3, <3>1, <3>2
    <2> QED
      BY <2>6, <2>7, <2>8
  <1>9. CASE FlashDone(t)
    <2>1. /\ wpc[t] = "flash" /\ k > Len(N) /\ UNCHANGED <<wi, step, bmcs, flashErr, deviceVars>>
          /\ wpc'[t] = IF bmcs[t] = {} THEN "done" ELSE "cycle"
          /\ S.fortville # NoFortville /\ Booted(S, Len(R)) /\ Flashed(t, k - 1)
      BY <1>0, <1>9 DEF FlashDone, WorkerAt, Progress
    <2>2. Booted(S, Len(R))' /\ Flashed(t, Len(N)) /\ Flashed(t, Len(N))'
      BY <1>0, <2>1 DEF Booted, Flashed, deviceVars
    <2>3. CASE bmcs[t] = {}
      <3>1. \A i \in 1..Len(N) : FALSE
        BY <2>2, <2>3 DEF Flashed
      <3>2. Keeps(S)'
        BY <1>0, <2>2, <3>1 DEF Keeps, Booted
      <3> QED
        BY <1>0, <2>1, <2>3, <3>2 DEF Progress
    <2>4. CASE bmcs[t] # {}
      BY <1>0, <2>1, <2>2, <2>4 DEF Progress
    <2> QED
      BY <2>3, <2>4
  <1>10. CASE PowerCycle(t)
    <2>1. /\ wpc[t] = "cycle" /\ wpc'[t] = "done" /\ UNCHANGED <<flash, nvm>>
          /\ running' = [c \in Cards |-> IF c \in bmcs[t] THEN flash[c] ELSE running[c]]
          /\ active' = [n \in Nics |-> IF CardOf[n] \in bmcs[t] THEN nvm[n] ELSE active[n]]
          /\ S.fortville # NoFortville /\ Booted(S, Len(R)) /\ Flashed(t, Len(N))
      BY <1>0, <1>1, <1>10 DEF PowerCycle, WorkerAt, Progress, PowerCycled
    <2>2. \A i \in 1..Len(R) : running'[R[i].card] = R[i].image
      BY <1>1, <2>1 DEF Booted
    <2>3. \A i \in 1..Len(N) : nvm'[N[i]] = UpToDate(S.fortville.firmware)
                               /\ active'[N[i]] = UpToDate(S.fortville.firmware)
      BY <1>2, <2>1 DEF Flashed
    <2>4. Keeps(S)'
      BY <1>0, <2>2, <2>3 DEF Keeps
    <2> QED
      BY <1>0, <2>1, <2>4 DEF Progress
  <1>11. CASE WorkFails(t)
    <2>1. wpc'[t] = "done" /\ flashErr'[t] # "none"
      BY <1>0, <1>11 DEF WorkFails
    <2> QED
      BY <2>1 DEF Progress
  <1>12. ~OrphanEnds(t)
    BY <1>0 DEF OrphanEnds, WorkerAt
  <1>13. ~FlashMacMisread(t) /\ ~PassOver(t) /\ ~PowerCycleFails(t)
    BY DEF FlashMacMisread, PassOver, PowerCycleFails
  <1> QED
    BY <1>3, <1>4, <1>5, <1>6, <1>7, <1>8, <1>9, <1>10, <1>11, <1>12, <1>13 DEF WorkerStep, Worker

LEMMA ProgressInvStep ==
  ASSUME TypeInv, WorkInv, CopyInv, ProgressInv, Next, Updates <= 2
  PROVE  ProgressInv'
  <1> DEFINE Workers == \A s \in Slots : wpc'[s] # "none" /\ Counts(wspec'[s]) => Progress(s)'
             Reported == pc' = "report" /\ run' # "error" /\ flashErr'[cur'] = "none" /\ Counts(nc'.spec) =>
                             Keeps(nc.spec)'
  <1> SUFFICES ASSUME NoLoss'
               PROVE  Workers /\ Reported
    BY DEF ProgressInv, Counts
  <1>0. /\ NoLoss /\ ~Fault("xml") /\ ~Fault("cycle") /\ ~Fault("gone") /\ ~Fault("lease")
        /\ \A s \in Slots : wpc[s] # "none" => s = cur /\ pc = "run"
        /\ \A s \in Slots : wpc'[s] # "none" => s = cur' /\ pc' = "run"
        /\ wpc \in [Slots -> WorkerState] /\ cur \in Slots
        /\ \A s \in Slots : wpc[s] # "none" /\ Counts(wspec[s]) => Progress(s)
        /\ pc = "report" /\ run # "error" /\ flashErr[cur] = "none" /\ Counts(nc.spec) => Keeps(nc.spec)
    <2>1. Without({"lease"})' /\ OneWorker'
      BY OneWorkerStep DEF WorkInv, NoLoss, Without
    <2> QED
      BY <2>1, NoLossStep DEF WorkInv, OneWorker, ProgressInv, TypeInv, WorkerInv, WorkerState
  <1>1. ASSUME UNCHANGED <<wpc, wspec, wi, step, bmcs, flashErr, flash, running, nvm, active>>,
               UNCHANGED package \/ pc # "run",
               pc' = "report" => pc = "report" /\ UNCHANGED <<nc, run, cur>>
        PROVE  Workers /\ Reported
    <2>1. ASSUME NEW s \in Slots, wpc'[s] # "none", Counts(wspec'[s])
          PROVE  Progress(s)'
      <3>1. Progress(s) /\ UNCHANGED package
        BY <1>0, <1>1, <2>1
      <3> QED
        BY <1>1, <3>1 DEF Progress, Booted, Flashed, Keeps, Entry, Nic
    <2>2. Keeps(nc.spec) => (pc' = "report" => Keeps(nc.spec)')
      BY <1>1 DEF Keeps
    <2> QED
      BY <1>0, <1>1, <2>1, <2>2
  <1>2. ASSUME NEW t \in Slots, WorkerStep(t)
        PROVE  Workers /\ Reported
    <2>1. t = cur /\ pc = "run" /\ UNCHANGED <<pc, cur, wspec>> /\ wpc[t] # "none"
          /\ \A s \in Slots : s # t => wpc'[s] = "none"
      BY <1>0, <1>2, WorkerAlive, WorkerFrame DEF reconcileVars, TypeInv
    <2>2. ASSUME wpc'[t] # "none", Counts(wspec[t])
          PROVE  Progress(t)'
      BY <1>0, <1>2, <2>1, <2>2, WorkerKeepsProgress DEF WorkInv
    <2> QED
      BY <2>1, <2>2
  <1>3. CASE VerifyNics
    <2>1. CASE CallRun
      <3>1. pc' = "run" /\ cur' \in Slots
        BY <2>1 DEF CallRun
      <3>2. ASSUME NEW s \in Slots, s = cur'
            PROVE  Progress(s)'
        <4>1. wpc'[s] = "wait" /\ wi'[s] = 1 /\ step'[s] = 0
          BY <1>0, <2>1, <3>2 DEF CallRun, TypeInv, WorkerInv
        <4> QED
          BY <4>1 DEF Progress
      <3> QED
        BY <1>0, <3>1, <3>2
    <2>2. CASE End("Failed") /\ UNCHANGED workerVars
      BY <1>1, <1>3, <2>2 DEF VerifyNics, End, workerVars, deviceVars
    <2> QED
      BY <1>3, <2>1, <2>2 DEF VerifyNics
  <1>4. CASE RunReturns \/ DrainFails
    <2>1. pc' = "report" /\ UNCHANGED <<nc, cur, flashErr, deviceVars>>
      BY <1>4 DEF RunReturns, DrainFails
    <2>2. ASSUME run' # "error", flashErr[cur] = "none", Counts(nc.spec)
          PROVE  Keeps(nc.spec)'
      <3>1. wpc[cur] = "done" /\ pc = "run"
        BY <1>4, <2>2 DEF RunReturns, DrainFails
      <3>2. Progress(cur) /\ wspec[cur] = nc.spec
        BY <1>0, <2>2, <3>1 DEF CopyInv
      <3>3. Keeps(nc.spec)
        BY <2>2, <3>1, <3>2 DEF Progress
      <3> QED
        BY <2>1, <3>3 DEF Keeps, deviceVars
    <2> QED
      BY <1>0, <2>1, <2>2
  <1>5. CASE Crash
    BY <1>5 DEF Crash
  <1>6. ~LoseLease
    BY <1>0 DEF LoseLease
  <1>7. CASE Inform \/ CreateEmptyN3000Node \/ Get
    BY <1>1, <1>7 DEF Inform, Deliver, DeliverDelete, HandleEvent, CreateEmptyN3000Node, Get,
                      reconcileVars, workerVars, deviceVars, fileVars
  <1>8. CASE CheckSpec \/ StartFlash \/ VerifyCards \/ GetImage \/ GotImages \/ Report
    BY <1>1, <1>8 DEF CheckSpec, StartFlash, VerifyCards, GetImage, GotImages, Report, End,
                      workerVars, deviceVars, fileVars
  <1>9. CASE CheckFails
    BY <1>1, <1>9 DEF CheckFails, workerVars, deviceVars, fileVars
  <1>10. CASE (\E spec \in Specs : SetSpec(spec)) \/ Delete
    <2>1. UNCHANGED <<workerVars, deviceVars, fileVars, pc, nc, run, cur>>
      <3>1. ASSUME NEW spec, SetSpec(spec)
            PROVE  UNCHANGED <<workerVars, deviceVars, fileVars, pc, nc, run, cur>>
        BY <3>1, Zenon DEF SetSpec
      <3> QED
        BY <1>10, <3>1, Zenon DEF Delete
    <2> QED
      BY <1>1, <2>1 DEF workerVars, deviceVars, fileVars
  <1> QED
    BY <1>2, <1>3, <1>4, <1>5, <1>6, <1>7, <1>8, <1>9, <1>10 DEF Next, Reconcile, WorkerStep

-----------------------------------------------------------------------------
(* "Succeeded".                                                             *)

\* A worker that repeats a request leaves the devices as it asks.
LEMMA WorkerKeepsDevices ==
  ASSUME TypeInv, WorkInv, ProgressInv, NoLoss, Updates <= 2, NEW t \in Slots, WorkerStep(t),
         ~Fault("xml"), ~Fault("cycle"), ~Fault("gone"), Counts(wspec[t]), Keeps(wspec[t])
  PROVE  Keeps(wspec[t])'
  <1> DEFINE S == wspec[t]
             R == S.fpga
             N == S.fortville.nics
             k == wi[t]
  <1>0. /\ S \in Specs /\ Len(R) \in Nat /\ k \in Nat \ {0} /\ wpc[t] # "none"
        /\ S.fortville # NoFortville => Len(N) \in Nat
        /\ wspec' = wspec /\ nvm \in [Nics -> Memory]
        /\ Progress(t)
    BY WorkerAlive, WorkerFrame, SpecType, PositionsArePositive
       DEF TypeInv, WorkerInv, DeviceInv, ProgressInv
  <1>1. /\ \A i \in 1..Len(R) : R[i].card \in Cards
        /\ \A i, j \in 1..Len(R) : R[i].card = R[j].card => R[i].image = R[j].image
        /\ ~S.dryRun
    <2>1. CardsThere(S) /\ ImagesAgree(R) /\ ~S.dryRun
      BY <1>0 DEF TypeInv, WorkerInv, Counts
    <2>2. DOMAIN R = 1..Len(R)
      BY <1>0, SpecType
    <2> QED
      BY <2>1, <2>2 DEF CardsThere, ImagesAgree
  <1>2. S.fortville # NoFortville =>
          /\ package = S.fortville.firmware
          /\ \A i \in 1..Len(N) : N[i] \in Nics
    <2>1. NicsThere(S) /\ (S.fortville # NoFortville => package = S.fortville.firmware)
      BY <1>0 DEF TypeInv, WorkerInv, WorkInv, FilesInv, NoLoss, Without
    <2>2. S.fortville # NoFortville => DOMAIN N = 1..Len(N)
      BY <1>0, SpecType
    <2> QED
      BY <2>1, <2>2 DEF NicsThere
  <1>3. CASE UNCHANGED <<running, nvm, active>>
    BY <1>0, <1>3 DEF Keeps
  <1>4. ASSUME NEW cards, PowerCycled(cards), UNCHANGED nvm,
               \A i \in 1..Len(R) : R[i].card \in cards => flash[R[i].card] = R[i].image
        PROVE  Keeps(wspec[t])'
    <2>1. /\ running' = [c \in Cards |-> IF c \in cards THEN flash[c] ELSE running[c]]
          /\ active' = [n \in Nics |-> IF CardOf[n] \in cards THEN nvm[n] ELSE active[n]]
      BY <1>4 DEF PowerCycled
    <2>2. \A i \in 1..Len(R) : running'[R[i].card] = R[i].image
      BY <1>1, <1>4, <2>1 DEF Keeps
    <2>3. S.fortville # NoFortville =>
             \A i \in 1..Len(N) : nvm'[N[i]] = UpToDate(S.fortville.firmware)
                                  /\ active'[N[i]] = UpToDate(S.fortville.firmware)
      BY <1>2, <1>4, <2>1 DEF Keeps
    <2> QED
      BY <1>0, <2>2, <2>3 DEF Keeps
  <1>5. CASE Rsu(t)
    <2>1. /\ wpc[t] = "rsu" /\ UNCHANGED nvm /\ PowerCycled({R[k].card})
          /\ flash[R[k].card] = R[k].image /\ k <= Len(R)
      BY <1>0, <1>1, <1>5 DEF Rsu, WorkerAt, Entry, Progress, TypeInv, WorkerInv
    <2>2. \A i \in 1..Len(R) : R[i].card \in {R[k].card} => flash[R[i].card] = R[i].image
      <3>1. k \in 1..Len(R)
        BY <1>0, <2>1
      <3> QED
        BY <1>1, <2>1, <3>1
    <2> QED
      BY <1>4, <2>1, <2>2
  <1>6. CASE PowerCycle(t)
    <2>1. PowerCycled(bmcs[t]) /\ UNCHANGED nvm /\ Booted(S, Len(R))
      BY <1>0, <1>1, <1>6 DEF PowerCycle, WorkerAt, Progress
    <2> QED
      BY <1>4, <2>1 DEF Booted
  <1>7. ASSUME wpc[t] = "flash", k <= Len(N), nvm' = [nvm EXCEPT ![Nic(t)] = Updated(@)],
               UNCHANGED <<running, active>>
        PROVE  Keeps(wspec[t])'
    <2>1. Nic(t) = N[k] /\ N[k] \in Nics /\ S.fortville # NoFortville /\ k \in 1..Len(N)
          /\ package = S.fortville.firmware
      BY <1>0, <1>2, <1>7, NicType DEF Nic, TypeInv
    <2>2. nvm[N[k]] = UpToDate(package) /\ nvm[N[k]] \in Memory
      BY <1>0, <2>1 DEF Keeps
    <2>3. Updated(nvm[N[k]]) = nvm[N[k]]
      BY <2>2, UpdatedSteps
    <2>4. nvm' = nvm
      BY <1>0, <1>7, <2>1, <2>3
    <2> QED
      BY <1>3, <1>7, <2>4
  <1>8. CASE FlashMac(t)
    BY <1>1, <1>7, <1>8 DEF FlashMac
  <1>9. CASE WorkFails(t)
    BY <1>3, <1>7, <1>9 DEF WorkFails
  <1>10. CASE Lead(t) \/ Drained(t) \/ Program(t) \/ ProgramDone(t) \/ FlashDone(t) \/ OrphanEnds(t)
    BY <1>3, <1>10 DEF Lead, Drained, Program, ProgramDone, FlashDone, OrphanEnds, deviceVars
  <1>11. ~FlashMacMisread(t) /\ ~PassOver(t) /\ ~PowerCycleFails(t)
    BY DEF FlashMacMisread, PassOver, PowerCycleFails
  <1> QED
    BY <1>5, <1>6, <1>8, <1>9, <1>10, <1>11 DEF WorkerStep, Worker

\* A step after which the object says "Succeeded" has written that, or has
\* left it as it was.
LEMMA SaysSucceededBefore ==
  ASSUME TypeInv, Next, SaysSucceeded'
  PROVE  \/ UNCHANGED obj /\ SaysSucceeded
         \/ Concludes /\ obj'.reason = "Succeeded"
  <1>1. obj' # NoObj /\ obj'.reason = "Succeeded" /\ obj'.obs = obj'.gen
    BY DEF SaysSucceeded
  <1>2. ~Begins /\ ~Deleted
    BY <1>1 DEF Begins, Deleted
  <1>3. ~Created
    BY <1>1, NewObjectType DEF Created
  <1>4. ~Changed
    <2> SUFFICES ASSUME Changed PROVE FALSE
      OBVIOUS
    <2>1. obj \in Object /\ obj # NoObj /\ obj'.gen = obj.gen + 1 /\ obj'.obs = obj.obs
      BY N3000NodeAssumption DEF Changed
    <2>2. obj.gen \in Nat /\ obj.obs \in Nat /\ obj.obs <= obj.gen
      BY <2>1, BoundsType DEF Object, TypeInv, ApiInv
    <2> QED
      BY <1>1, <2>1, <2>2
  <1> QED
    BY <1>1, <1>2, <1>3, <1>4, ObjectSteps DEF SaysSucceeded, TypeInv

LEMMA SucceededInvStep ==
  ASSUME TypeInv, WorkInv, SuccessInv, Next, Updates <= 2
  PROVE  SucceededInv'
  <1> SUFFICES ASSUME NoLoss', SaysSucceeded'
               PROVE  Backed'
    BY DEF SucceededInv
  <1>0. /\ ApiInv /\ ApiInv' /\ CopyInv /\ CopyInv' /\ NoLoss /\ Without({"lease"})
        /\ ~Fault("xml") /\ ~Fault("cycle") /\ ~Fault("gone") /\ ~Fault("lease")
    BY NoLossStep, ApiInvStep, CopyInvStep DEF SuccessInv, TypeInv
  <1>1. ASSUME UNCHANGED obj
        PROVE  SaysSucceeded /\ Backed /\ obj # NoObj /\ obj.reason = "Succeeded"
    BY <1>0, <1>1, SaysSucceededBefore, N3000NodeAssumption
       DEF SuccessInv, SucceededInv, SaysSucceeded, Concludes
  <1>2. obj'.reason = "Succeeded"
    BY DEF SaysSucceeded
  <1>3. ASSUME UNCHANGED <<obj, cache, sameObj, running, nvm, active>>,
               pc' # "idle" => nc'.gen = obj.gen /\ nc'.spec = obj.spec
        PROVE  Backed'
    <2>1. Keeps(obj.spec) => Keeps(obj.spec)'
      BY <1>3 DEF Keeps
    <2> QED
      BY <1>1, <1>3, <2>1 DEF Backed, Fresh, Counts
  <1>4. CASE (\E spec \in Specs : SetSpec(spec)) \/ Delete
    <2>1. obj \in Object => obj # NoObj
      BY N3000NodeAssumption
    <2>2. ASSUME NEW spec \in Specs, SetSpec(spec)
          PROVE  FALSE
      <3>1. Created \/ Changed
        BY <1>0, <2>2, SetSpecSteps
      <3>2. CASE Created
        BY <1>2, <3>2, NewObjectType DEF Created
      <3>3. CASE Changed
        <4>1. obj \in Object /\ obj.gen \in Nat /\ obj'.gen = obj.gen + 1 /\ obj'.spec # obj.spec
          BY <3>3, BoundsType DEF Changed, Object
        <4>2. UNCHANGED obj \/ Concludes
          BY SaysSucceededBefore
        <4>3. obj'.gen = obj.gen
          BY <4>2 DEF Concludes
        <4> QED
          BY <4>1, <4>3
      <3> QED
        BY <3>1, <3>2, <3>3
    <2>3. ~Delete
      BY DEF Delete, SaysSucceeded
    <2> QED
      BY <1>4, <2>2, <2>3
  <1>5. CASE DeliverDelete
    <2>1. UNCHANGED obj /\ ~sameObj
      BY <1>5 DEF DeliverDelete
    <2> QED
      BY <1>1, <2>1 DEF Backed, Fresh
  <1>6. CASE Deliver
    <2>1. UNCHANGED <<obj, sameObj, running, nvm, active, pc, nc>> /\ sameObj /\ cache' = obj
      BY <1>6 DEF Deliver, reconcileVars, deviceVars
    <2>2. Keeps(obj.spec) => Keeps(obj.spec)'
      BY <2>1 DEF Keeps
    <2> QED
      BY <1>1, <2>1, <2>2 DEF Backed, Fresh, Counts
  <1>7. CASE HandleEvent
    BY <1>1, <1>3, <1>7 DEF HandleEvent, Backed, apiVars, reconcileVars, deviceVars
  <1>8. CASE CreateEmptyN3000Node
    <2>1. CASE UNCHANGED obj
      BY <1>1, <1>8, <2>1 DEF CreateEmptyN3000Node, Backed, Fresh
    <2>2. CASE obj' = NewObject(NoSpec)
      BY <1>2, <2>2 DEF NewObject
    <2> QED
      BY <1>8, <2>1, <2>2 DEF CreateEmptyN3000Node
  <1>9. CASE Get
    <2>1. UNCHANGED <<obj, cache, sameObj, running, nvm, active>> /\ nc' = cache
      BY <1>9 DEF Get, apiVars, deviceVars
    <2>2. nc'.gen = obj.gen /\ nc'.spec = obj.spec
      BY <1>1, <2>1 DEF Backed, Fresh
    <2> QED
      BY <1>3, <2>1, <2>2
  <1>10. ASSUME nc # NoObj, NEW reason \in Reasons, reason # "Succeeded", pc' = "idle",
                UNCHANGED <<cache, sameObj, deviceVars>>,
                UpdateStatus(reason, nc.gen) \/ UNCHANGED <<obj, nc, ncCurrent, cacheCurrent>>
         PROVE  Backed'
    <2>1. CASE UNCHANGED obj
      BY <1>3, <1>10, <2>1 DEF deviceVars
    <2>2. ~UpdateStatus(reason, nc.gen)
      <3>1. nc.gen \in 0..(MaxWrites + 1)
        BY <1>0, <1>10 DEF ApiInv, Object
      <3> QED
        BY <1>0, <1>2, <1>10, <3>1, UpdateStatusShape
    <2> QED
      BY <1>10, <2>1, <2>2
  <1>11. ASSUME nc # NoObj, NEW reason \in Reasons, reason # "Succeeded",
                UNCHANGED <<cache, sameObj, deviceVars>>, End(reason)
         PROVE  Backed'
    BY <1>0, <1>10, <1>11, EndShape
  <1>12. CASE CheckSpec
    <2>1. nc # NoObj /\ {"Failed", "NotRequested"} \subseteq Reasons
      BY <1>0, <1>12 DEF CheckSpec, ApiInv, Reasons
    <2> QED
      BY <1>11, <1>12, <2>1 DEF CheckSpec
  <1>13. CASE StartFlash
    <2>1. /\ nc \in Object /\ pc = "check" /\ UNCHANGED <<cache, sameObj, deviceVars>>
          /\ "InProgress" \in Reasons
      BY <1>0, <1>13 DEF StartFlash, ApiInv, Reasons
    <2>2. CASE UpdateStatus("InProgress", nc.obs)
      <3>1. nc.obs \in 0..(MaxWrites + 1)
        BY <2>1 DEF Object
      <3> QED
        BY <1>0, <1>2, <2>1, <2>2, <3>1, UpdateStatusShape
    <2>3. CASE UNCHANGED <<obj, nc>>
      BY <1>1, <1>3, <2>1, <2>3 DEF Backed, deviceVars
    <2> QED
      BY <1>13, <2>2, <2>3 DEF StartFlash, StatusFails
  <1>14. CASE VerifyCards
    <2>1. nc # NoObj /\ pc = "cards" /\ UNCHANGED <<cache, sameObj, deviceVars>> /\ "Failed" \in Reasons
      BY <1>0, <1>14 DEF VerifyCards, ApiInv, Reasons
    <2>2. CASE UNCHANGED <<obj, nc>>
      BY <1>1, <1>3, <2>1, <2>2 DEF Backed, deviceVars
    <2>3. CASE End("Failed")
      BY <1>11, <2>1, <2>3
    <2> QED
      BY <1>14, <2>2, <2>3 DEF VerifyCards
  <1>15. CASE GetImage \/ GotImages
    <2>1. pc = "images" /\ UNCHANGED <<obj, cache, sameObj, nc, deviceVars>>
      BY <1>15 DEF GetImage, GotImages, apiVars
    <2> QED
      BY <1>1, <1>3, <2>1 DEF Backed, deviceVars
  <1>16. CASE VerifyNics
    <2>1. nc # NoObj /\ pc = "nics" /\ UNCHANGED <<cache, sameObj, deviceVars>> /\ "Failed" \in Reasons
      BY <1>0, <1>16 DEF VerifyNics, ApiInv, Reasons
    <2>2. CASE UNCHANGED <<obj, nc>>
      BY <1>1, <1>3, <2>1, <2>2 DEF Backed, deviceVars
    <2>3. CASE End("Failed")
      BY <1>11, <2>1, <2>3
    <2> QED
      BY <1>16, <2>2, <2>3 DEF VerifyNics
  <1>17. CASE CheckFails
    <2>1. nc # NoObj /\ "Failed" \in Reasons
      BY <1>0, <1>17 DEF CheckFails, ApiInv, Reasons
    <2> QED
      BY <1>10, <1>17, <2>1 DEF CheckFails
  <1>18. CASE RunReturns \/ DrainFails
    <2>1. pc = "run" /\ UNCHANGED <<obj, cache, sameObj, nc, deviceVars>>
      BY <1>18 DEF RunReturns, DrainFails, apiVars
    <2> QED
      BY <1>1, <1>3, <2>1 DEF Backed, deviceVars
  <1>19. ~LoseLease
    BY <1>0 DEF LoseLease
  <1>20. CASE Report
    <2>1. /\ pc = "report" /\ pc' = "idle" /\ UNCHANGED <<cache, sameObj, deviceVars>>
          /\ nc \in Object /\ nc # NoObj /\ {"Unknown", "Failed", "Succeeded"} \subseteq Reasons
          /\ nc.gen \in 0..(MaxWrites + 1)
      BY <1>0, <1>20, N3000NodeAssumption DEF Report, End, ApiInv, Reasons, Object
    <2>2. CASE End("Unknown") \/ End("Failed")
      BY <1>11, <2>1, <2>2
    <2>3. CASE run # "error" /\ flashErr[cur] = "none" /\ End("Succeeded")
      <3>1. CASE UNCHANGED obj
        BY <1>3, <2>1, <3>1 DEF deviceVars
      <3>2. CASE UpdateStatus("Succeeded", nc.gen)
        <4>1. nc = obj /\ obj'.spec = obj.spec /\ ncCurrent'
          BY <1>0, <2>1, <3>2, UpdateStatusShape
        <4>2. Fresh' /\ cache'.spec = obj'.spec
          BY <1>0, <4>1 DEF CopyInv
        <4>3. Counts(nc.spec) => Keeps(nc.spec)
          BY <1>0, <2>1, <2>3 DEF SuccessInv, ProgressInv
        <4>4. Counts(obj'.spec) => Keeps(obj.spec)'
          BY <2>1, <4>1, <4>3 DEF Keeps, deviceVars
        <4> QED
          BY <2>1, <4>2, <4>4 DEF Backed, Counts
      <3> QED
        BY <1>0, <2>1, <2>3, <3>1, <3>2, EndShape
    <2> QED
      BY <1>20, <2>2, <2>3 DEF Report
  <1>21. ASSUME NEW t \in Slots, WorkerStep(t)
         PROVE  Backed'
    <2>1. t = cur /\ pc = "run" /\ UNCHANGED <<obj, cache, sameObj, pc, nc, wspec>>
      BY <1>0, <1>21, WorkerAlive, WorkerFrame DEF WorkInv, OneWorker, apiVars, reconcileVars, TypeInv
    <2>2. wspec[t] = obj.spec
      BY <1>0, <1>1, <2>1 DEF CopyInv, Backed
    <2>3. Counts(wspec[t]) => Keeps(wspec[t])'
      BY <1>0, <1>1, <1>21, <2>1, <2>2, WorkerKeepsDevices DEF Backed, SuccessInv
    <2>4. Counts(obj.spec) => Keeps(obj.spec)'
      BY <2>1, <2>2, <2>3 DEF Keeps
    <2> QED
      BY <1>1, <2>1, <2>4 DEF Backed, Fresh, Counts
  <1>22. CASE Crash
    <2>1. UNCHANGED obj
      <3>1. CASE obj = NoObj
        BY <1>2, <1>22, <3>1 DEF Crash, NewObject
      <3> QED
        BY <1>22, <3>1 DEF Crash
    <2>2. cache' = obj /\ sameObj' = TRUE /\ pc' = "idle" /\ UNCHANGED deviceVars
      BY <1>22, <2>1 DEF Crash
    <2>3. Keeps(obj.spec) => Keeps(obj.spec)'
      BY <2>1, <2>2 DEF Keeps, deviceVars
    <2> QED
      BY <1>1, <2>1, <2>2, <2>3 DEF Backed, Fresh, Counts
  <1> QED
    BY <1>4, <1>5, <1>6, <1>7, <1>8, <1>9, <1>12, <1>13, <1>14, <1>15, <1>16, <1>17, <1>18, <1>19,
       <1>20, <1>21, <1>22 DEF Next, Reconcile, Inform, WorkerStep

-----------------------------------------------------------------------------
LEMMA SuccessInvInit == Init => SuccessInv
  <1> SUFFICES ASSUME Init PROVE SuccessInv
    OBVIOUS
  <1>1. /\ obj = NewObject(NoSpec) /\ obj.reason = "none" /\ pc = "idle" /\ ncCurrent = FALSE
        /\ wpc = [s \in Slots |-> "none"]
    BY DEF Init, NewObject
  <1> QED
    BY <1>1 DEF SuccessInv, CopyInv, ProgressInv, SucceededInv, SaysSucceeded

LEMMA SuccessInvStep ==
  ASSUME TypeInv, WorkInv, SuccessInv, [Next]_vars, Updates <= 2
  PROVE  SuccessInv'
  <1>1. CASE Next
    BY <1>1, CopyInvStep, ProgressInvStep, SucceededInvStep DEF SuccessInv
  <1>2. CASE UNCHANGED vars
    <2>1. UNCHANGED <<obj, cache, sameObj, pc, nc, ncCurrent, run, cur, package, wpc, wspec, wi, step,
                      bmcs, flashErr, flash, running, nvm, active, faults>>
      BY <1>2 DEF vars
    <2>2. CopyInv'
      BY <2>1 DEF SuccessInv, CopyInv, Fresh
    <2>3. ProgressInv'
      <3>1. \A s \in Slots : Progress(s) => Progress(s)'
        BY <2>1 DEF Progress, Booted, Flashed, Keeps, Entry, Nic
      <3>2. Keeps(nc.spec) => Keeps(nc.spec)'
        BY <2>1 DEF Keeps
      <3> QED
        BY <2>1, <3>1, <3>2 DEF SuccessInv, ProgressInv, NoLoss, Without, Counts
    <2>4. SucceededInv'
      <3>1. Keeps(obj.spec) => Keeps(obj.spec)'
        BY <2>1 DEF Keeps
      <3> QED
        BY <2>1, <3>1 DEF SuccessInv, SucceededInv, NoLoss, Without, SaysSucceeded, Backed, Fresh, Counts
    <2> QED
      BY <2>2, <2>3, <2>4 DEF SuccessInv
  <1> QED
    BY <1>1, <1>2

\* Where at most two updates lead a NIC to a package's version, "Succeeded" of
\* the current generation is true: the cards run the images asked for and the
\* NICs the firmware, unless a failure was passed over, a result misread or the
\* lease lost.  (flashMac makes at most two updates; it would leave a third
\* undone, and the NIC behind.)
THEOREM SuccessIsHonest == Updates <= 2 => (Spec => []HonestSuccess)
  <1> SUFFICES ASSUME Updates <= 2 PROVE Spec => []HonestSuccess
    OBVIOUS
  <1>1. TypeInv /\ SuccessInv => HonestSuccess
    <2> SUFFICES ASSUME TypeInv, SuccessInv, NoLoss, obj # NoObj, obj.reason = "Succeeded",
                        obj.obs = obj.gen, ~obj.spec.dryRun, ImagesAgree(obj.spec.fpga)
                 PROVE  Runs(obj.spec)
      BY DEF HonestSuccess, SucceededIsTrue, NoLoss
    <2>1. Keeps(obj.spec)
      BY DEF SuccessInv, SucceededInv, SaysSucceeded, Backed, Counts
    <2>2. obj.spec \in Specs
      BY DEF TypeInv, ApiInv, Object
    <2> QED
      BY <2>1, <2>2, KeepsMeansRuns
  <1>2. TypeInv /\ WorkInv /\ SuccessInv /\ [Next]_vars => SuccessInv'
    BY SuccessInvStep
  <1>3. Spec => []SuccessInv
    BY <1>2, SuccessInvInit, TypeInvariance, WorkInvariance, PTL DEF Spec
  <1> QED
    BY <1>1, <1>3, TypeInvariance, PTL

=============================================================================
