--------------------------- MODULE N3000NodeProofs ---------------------------
(***************************************************************************)
(* Theorems about N3000Node, for every number of cards and NICs, requests, *)
(* worker slots, writes and faults.                                        *)
(***************************************************************************)
EXTENDS N3000Node, TLAPS, SequenceTheorems

-----------------------------------------------------------------------------
(* Type correctness, in parts: the object and its copies, Reconcile, the    *)
(* workers, the devices.                                                    *)

\* The states of Reconcile.
ReconcileStates == {"idle", "check", "cards", "images", "nics", "run", "report"}

\* The object and its copies have their types; a copy held to be the latest
\* is the object; no outcome is of a later generation.
ApiInv ==
    /\ obj \in Object \cup {NoObj}
    /\ cache \in Object \cup {NoObj}
    /\ nc \in Object \cup {NoObj}
    /\ pc \in ReconcileStates
    /\ writes \in 0..MaxWrites
    /\ pc # "idle" => nc # NoObj
    /\ cacheCurrent => sameObj /\ cache = obj
    /\ ncCurrent => obj # NoObj /\ nc = obj
    /\ obj # NoObj => obj.obs <= obj.gen /\ obj.gen <= writes + 1

FlagsType ==
    /\ sameObj \in BOOLEAN /\ cacheCurrent \in BOOLEAN /\ ncCurrent \in BOOLEAN
    /\ event \in BOOLEAN /\ queued \in BOOLEAN
    /\ run \in {"ok", "error", "lost"}

\* The cards of a request are there, and so are the NICs and the firmware.
CardsThere(spec) == \A i \in DOMAIN spec.fpga : spec.fpga[i].card \in Cards
NicsThere(spec) ==
    spec.fortville # NoFortville =>
        /\ spec.fortville.firmware \in Firmwares
        /\ \A i \in DOMAIN spec.fortville.nics : spec.fortville.nics[i] \in Nics

\* Images are downloaded only for cards that are there, one after the other.
DownloadInv ==
    /\ next \in Positions
    /\ pc \in {"images", "nics"} => CardsThere(nc.spec)

\* A worker has a request for devices that are there, and a position in it.
WorkerInv ==
    /\ cur \in Slots
    /\ wpc \in [Slots -> {"none", "wait", "drain", "program", "rsu", "flash", "cycle", "done"}]
    /\ wspec \in [Slots -> Specs]
    /\ wi \in [Slots -> Positions]
    /\ step \in [Slots -> 0..1]
    /\ bmcs \in [Slots -> SUBSET Cards]
    /\ flashErr \in [Slots -> {"none", "fpga", "fortville"}]
    /\ \A s \in Slots :
          /\ wpc[s] # "none" => CardsThere(wspec[s]) /\ NicsThere(wspec[s])
          /\ wpc[s] = "rsu" => wi[s] <= Len(wspec[s].fpga)
          /\ wpc[s] = "flash" => wspec[s].fortville # NoFortville

DeviceInv ==
    /\ files \in [Positions -> Images \cup {NoURL}]
    /\ package \in Firmwares \cup {NoURL}
    /\ flash \in [Cards -> Images \cup {NoURL, Garbled}]
    /\ running \in [Cards -> Images \cup {NoURL, Garbled}]
    /\ nvm \in [Nics -> Memory]
    /\ active \in [Nics -> Memory]

FaultsType == faults \in Seq(Faults) /\ Len(faults) <= MaxFaults

TypeInv == ApiInv /\ FlagsType /\ DownloadInv /\ WorkerInv /\ DeviceInv /\ FaultsType

LEMMA TypeInvImpliesTypeOK == TypeInv => TypeOK
  BY DEF TypeInv, ApiInv, FlagsType, DownloadInv, WorkerInv, DeviceInv, FaultsType, TypeOK,
         ReconcileStates

\* What a spec is.
LEMMA SpecType ==
  ASSUME NEW spec \in Specs
  PROVE  /\ spec \in NodeSpec
         /\ spec.fpga \in Seq(FpgaEntry) /\ Len(spec.fpga) \in Nat
         /\ DOMAIN spec.fpga = 1..Len(spec.fpga)
         /\ spec.fortville # NoFortville =>
               /\ spec.fortville \in Fortville
               /\ spec.fortville.nics \in Seq(Nics \cup {NoNic})
               /\ Len(spec.fortville.nics) \in Nat
               /\ DOMAIN spec.fortville.nics = 1..Len(spec.fortville.nics)
  <1>1. NoSpec \in NodeSpec
    <2>1. <<>> \in Seq(FpgaEntry)
      OBVIOUS
    <2> QED
      BY <2>1 DEF NoSpec, NodeSpec
  <1>2. spec \in NodeSpec
    BY <1>1, N3000NodeAssumption DEF Specs
  <1>3. spec.fpga \in Seq(FpgaEntry)
    BY <1>2 DEF NodeSpec
  <1>4. spec.fortville # NoFortville =>
            spec.fortville \in Fortville /\ spec.fortville.nics \in Seq(Nics \cup {NoNic})
    BY <1>2 DEF NodeSpec, Fortville
  <1> QED
    BY <1>2, <1>3, <1>4, LenProperties

\* Where a spec's lists can be is a position.
LEMMA PositionType ==
  ASSUME NEW spec \in Specs
  PROVE  /\ 1..(Len(spec.fpga) + 1) \subseteq Positions
         /\ spec.fortville # NoFortville => 1..(Len(spec.fortville.nics) + 1) \subseteq Positions
  <1> DEFINE P == {1..(Len(r.fpga) + 1) : r \in Specs}
             Q == {1..(Len(r.fortville.nics) + 1) : r \in {q \in Specs : q.fortville # NoFortville}}
  <1>1. 1..(Len(spec.fpga) + 1) \in P
    OBVIOUS
  <1>2. spec.fortville # NoFortville => 1..(Len(spec.fortville.nics) + 1) \in Q
    OBVIOUS
  <1>3. Positions = (UNION P) \cup (UNION Q)
    BY DEF Positions
  <1> HIDE DEF P, Q
  <1>4. ASSUME NEW S, S \in P \cup Q
        PROVE  S \subseteq Positions
    BY <1>3, <1>4
  <1> QED
    BY <1>1, <1>2, <1>4

LEMMA PositionsArePositive == Positions \subseteq Nat \ {0} /\ 1 \in Positions
  <1>1. ASSUME NEW r \in Specs
        PROVE  /\ 1..(Len(r.fpga) + 1) \subseteq Nat \ {0}
               /\ r.fortville # NoFortville => 1..(Len(r.fortville.nics) + 1) \subseteq Nat \ {0}
    BY SpecType
  <1>2. ASSUME NEW p \in Positions
        PROVE  p \in Nat \ {0}
    <2>1. CASE p \in UNION {1..(Len(r.fpga) + 1) : r \in Specs}
      <3>1. PICK r \in Specs : p \in 1..(Len(r.fpga) + 1)
        BY <2>1, Zenon
      <3> QED
        BY <1>1, <3>1
    <2>2. CASE p \in UNION {1..(Len(r.fortville.nics) + 1) :
                                 r \in {q \in Specs : q.fortville # NoFortville}}
      <3>1. PICK r \in {q \in Specs : q.fortville # NoFortville} :
                   p \in 1..(Len(r.fortville.nics) + 1)
        BY <2>2, Zenon
      <3> QED
        BY <1>1, <3>1
    <2> QED
      BY <2>1, <2>2, Zenon DEF Positions
  <1>3. NoSpec \in Specs
    BY DEF Specs
  <1>4. Len(NoSpec.fpga) \in Nat
    BY <1>3, SpecType
  <1>5. 1 \in 1..(Len(NoSpec.fpga) + 1)
    BY <1>4
  <1> QED
    BY <1>2, <1>3, <1>5, PositionType

\* The bounds are numbers.
LEMMA BoundsType == MaxWrites \in Nat /\ MaxFaults \in Nat /\ Updates \in Nat \ {0}
  BY N3000NodeAssumption

\* A new object is one.
LEMMA NewObjectType ==
  ASSUME NEW spec \in Specs
  PROVE  /\ NewObject(spec) \in Object /\ NewObject(spec) # NoObj
         /\ NewObject(spec).gen = 1 /\ NewObject(spec).obs = 0
         /\ NewObject(spec).reason = "none" /\ NewObject(spec).spec = spec
  BY N3000NodeAssumption DEF NewObject, Object, Reasons

LEMMA NoSpecType == NoSpec \in Specs
  BY DEF Specs

\* What a worker's step leaves alone.
WorkerStep(s) ==
    Worker(s) \/ FlashMacMisread(s) \/ PassOver(s) \/ PowerCycleFails(s) \/ WorkFails(s)

LEMMA WorkerFrame ==
  ASSUME NEW s \in Slots, WorkerStep(s)
  PROVE  UNCHANGED <<apiVars, queueVars, reconcileVars, fileVars, wspec, writes>>
  BY DEF WorkerStep, Worker, WorkFails, WorkerAt, Lead, Drained, Program, Rsu, ProgramDone,
         FlashMac, FlashMacMisread, PassOver, FlashDone, PowerCycle, PowerCycleFails, OrphanEnds,
         boundVars

\* A status that is written changes the status of the object and nothing else.
LEMMA UpdateStatusShape ==
  ASSUME ApiInv, NEW reason \in Reasons, NEW obs \in 0..(MaxWrites + 1), UpdateStatus(reason, obs)
  PROVE  /\ obj \in Object /\ nc = obj /\ ncCurrent
         /\ obj' \in Object /\ nc' = obj' /\ ncCurrent' = TRUE /\ cacheCurrent' = FALSE
         /\ obj'.gen = obj.gen /\ obj'.spec = obj.spec
         /\ obj'.reason = reason /\ obj'.obs = obs
         /\ obj' # NoObj
  BY N3000NodeAssumption DEF ApiInv, UpdateStatus, Object

\* Reconcile's last write is of an outcome of the local object's generation,
\* or of nothing.
LEMMA EndShape ==
  ASSUME ApiInv, nc # NoObj, NEW reason \in Reasons, End(reason)
  PROVE  /\ pc' = "idle" /\ nc.gen \in 0..(MaxWrites + 1)
         /\ \/ UpdateStatus(reason, nc.gen) /\ UNCHANGED faults
            \/ ~ncCurrent /\ UNCHANGED <<obj, nc, ncCurrent, cacheCurrent, faults>>
            \/ Fault("status") /\ UNCHANGED <<obj, nc, ncCurrent, cacheCurrent>>
  BY DEF End, UpdateFlashCondition, StatusFails, ApiInv, Object

\* ApiInv is kept by a step that writes an outcome and ends the attempt.
LEMMA OutcomeKeepsApiInv ==
  ASSUME ApiInv, nc # NoObj, NEW reason \in Reasons,
         UpdateStatus(reason, nc.gen) \/ UNCHANGED <<obj, nc, ncCurrent, cacheCurrent>>,
         pc' = "idle", UNCHANGED <<cache, sameObj, writes>>
  PROVE  ApiInv'
  <1>1. nc.gen \in 0..(MaxWrites + 1)
    BY DEF ApiInv, Object
  <1>2. CASE UpdateStatus(reason, nc.gen)
    <2>1. /\ obj \in Object /\ obj' \in Object /\ nc' = obj' /\ cacheCurrent' = FALSE /\ obj' # NoObj
          /\ nc = obj /\ obj'.gen = obj.gen /\ obj'.obs = obj.gen
      BY <1>1, <1>2, UpdateStatusShape
    <2>2. obj'.obs <= obj'.gen /\ obj'.gen <= writes + 1
      BY <2>1, BoundsType DEF ApiInv, Object
    <2> QED
      BY <2>1, <2>2 DEF ApiInv, ReconcileStates
  <1>3. CASE UNCHANGED <<obj, nc, ncCurrent, cacheCurrent>>
    BY <1>3 DEF ApiInv, ReconcileStates
  <1> QED
    BY <1>2, <1>3

LEMMA EndKeepsApiInv ==
  ASSUME ApiInv, nc # NoObj, NEW reason \in Reasons, End(reason), UNCHANGED <<cache, sameObj, writes>>
  PROVE  ApiInv'
  BY EndShape, OutcomeKeepsApiInv

LEMMA ApiInvStep ==
  ASSUME ApiInv, Next
  PROVE  ApiInv'
  <1> USE DEF ReconcileStates
  <1>1. ASSUME NEW spec \in Specs, SetSpec(spec)
        PROVE  ApiInv'
    <2>1. /\ obj' \in Object /\ obj'.obs <= obj'.gen /\ obj'.gen <= writes' + 1
      <3>1. CASE obj = NoObj
        <4>1. obj' = NewObject(spec) /\ writes' = writes + 1 /\ writes \in 0..MaxWrites
          BY <1>1, <3>1, Zenon DEF SetSpec, ApiInv
        <4> QED
          BY <4>1, NewObjectType, BoundsType
      <3>2. CASE obj # NoObj
        <4>1. /\ obj' = [obj EXCEPT !.spec = spec, !.gen = obj.gen + 1] /\ writes' = writes + 1
              /\ writes \in 0..MaxWrites /\ writes < MaxWrites
              /\ obj \in Object /\ obj.gen <= writes + 1 /\ obj.obs <= obj.gen
          BY <1>1, <3>2 DEF SetSpec, ApiInv
        <4>2. obj.gen + 1 \in 1..(MaxWrites + 1)
          BY <4>1, BoundsType DEF Object
        <4>3. obj' \in Object /\ obj'.gen = obj.gen + 1 /\ obj'.obs = obj.obs
          BY <4>1, <4>2 DEF Object
        <4> QED
          BY <4>1, <4>3, BoundsType DEF Object
      <3> QED
        BY <3>1, <3>2
    <2>2. /\ writes' = writes + 1 /\ writes < MaxWrites /\ ~cacheCurrent' /\ ~ncCurrent'
          /\ UNCHANGED <<cache, sameObj, pc, nc>>
      BY <1>1, Zenon DEF SetSpec
    <2>3. writes' \in 0..MaxWrites
      BY <2>2, BoundsType DEF ApiInv
    <2> QED
      BY <2>1, <2>2, <2>3 DEF ApiInv
  <1>2. CASE Delete
    BY <1>2 DEF Delete, ApiInv
  <1>3. CASE Inform
    <2>1. CASE DeliverDelete
      BY <2>1 DEF DeliverDelete, ApiInv, reconcileVars, boundVars
    <2>2. CASE Deliver
      BY <2>2 DEF Deliver, ApiInv, reconcileVars, boundVars
    <2>3. CASE HandleEvent
      BY <2>3 DEF HandleEvent, ApiInv, apiVars, reconcileVars, boundVars
    <2> QED
      BY <1>3, <2>1, <2>2, <2>3 DEF Inform
  <1>4. CASE CreateEmptyN3000Node
    <2>1. CASE obj = NoObj
      <3>1. obj' = NewObject(NoSpec) /\ ~cacheCurrent' /\ ~ncCurrent'
        BY <1>4, <2>1 DEF CreateEmptyN3000Node, ApiInv, reconcileVars
      <3>2. UNCHANGED <<cache, sameObj, nc, pc, writes>>
        BY <1>4 DEF CreateEmptyN3000Node, reconcileVars, boundVars
      <3>3. obj' \in Object /\ obj'.gen = 1 /\ obj'.obs = 0 /\ writes \in Nat
        BY <3>1, NewObjectType, NoSpecType, BoundsType DEF ApiInv
      <3> QED
        BY <3>1, <3>2, <3>3 DEF ApiInv
    <2>2. CASE obj # NoObj
      <3>1. UNCHANGED <<obj, cache, nc, sameObj, cacheCurrent, ncCurrent, pc, writes>>
        BY <1>4, <2>2 DEF CreateEmptyN3000Node, reconcileVars, boundVars
      <3> QED
        BY <3>1 DEF ApiInv
    <2> QED
      BY <2>1, <2>2
  <1>5. CASE Get
    BY <1>5 DEF Get, ApiInv, apiVars, boundVars
  <1>6. CASE CheckSpec
    <2>1. nc # NoObj /\ {"Failed", "NotRequested"} \subseteq Reasons
      BY <1>6 DEF CheckSpec, ApiInv, Reasons
    <2>2. \E reason \in Reasons : End(reason)
      BY <1>6, <2>1 DEF CheckSpec
    <2> QED
      BY <1>6, <2>1, <2>2, EndKeepsApiInv DEF CheckSpec
  <1>7. CASE StartFlash
    <2>1. nc \in Object /\ nc # NoObj
      BY <1>7, N3000NodeAssumption DEF StartFlash, ApiInv
    <2>2. CASE UNCHANGED <<obj, cacheCurrent, nc, ncCurrent>>
      BY <1>7, <2>1, <2>2 DEF StartFlash, ApiInv
    <2>3. CASE UpdateStatus("InProgress", nc.obs) /\ pc' = "cards"
      <3>1. "InProgress" \in Reasons /\ nc.obs \in 0..(MaxWrites + 1)
        BY <2>1 DEF Object, Reasons
      <3> QED
        BY <1>7, <2>1, <2>3, <3>1, UpdateStatusShape DEF StartFlash, ApiInv
    <2> QED
      BY <1>7, <2>2, <2>3 DEF StartFlash, StatusFails
  <1>8. CASE VerifyCards
    <2>1. nc # NoObj /\ "Failed" \in Reasons
      BY <1>8 DEF VerifyCards, ApiInv, Reasons
    <2>2. CASE End("Failed")
      BY <1>8, <2>1, <2>2, EndKeepsApiInv DEF VerifyCards
    <2>3. CASE pc' = "images" /\ UNCHANGED <<obj, nc, ncCurrent, cacheCurrent>>
      BY <1>8, <2>1, <2>3 DEF VerifyCards, ApiInv
    <2> QED
      BY <1>8, <2>2, <2>3 DEF VerifyCards
  <1>9. CASE GetImage \/ GotImages
    BY <1>9 DEF GetImage, GotImages, ApiInv, apiVars, boundVars
  <1>10. CASE VerifyNics
    <2>1. nc # NoObj /\ "Failed" \in Reasons
      BY <1>10 DEF VerifyNics, ApiInv, Reasons
    <2>2. CASE End("Failed")
      BY <1>10, <2>1, <2>2, EndKeepsApiInv DEF VerifyNics
    <2>3. CASE pc' = "run" /\ UNCHANGED <<obj, nc, ncCurrent, cacheCurrent>>
      BY <1>10, <2>1, <2>3 DEF VerifyNics, ApiInv
    <2> QED
      BY <1>10, <2>2, <2>3 DEF VerifyNics, CallRun
  <1>11. CASE RunReturns \/ DrainFails \/ LoseLease
    BY <1>11 DEF RunReturns, DrainFails, LoseLease, ApiInv, apiVars
  <1>12. CASE Report
    <2>1. nc # NoObj /\ {"Unknown", "Failed", "Succeeded"} \subseteq Reasons
      BY <1>12 DEF Report, ApiInv, Reasons
    <2>2. \E reason \in Reasons : End(reason)
      BY <1>12, <2>1 DEF Report
    <2> QED
      BY <1>12, <2>1, <2>2, EndKeepsApiInv DEF Report
  <1>13. CASE CheckFails
    <2>1. nc # NoObj /\ "Failed" \in Reasons
      BY <1>13 DEF CheckFails, ApiInv, Reasons
    <2> QED
      BY <1>13, <2>1, OutcomeKeepsApiInv DEF CheckFails
  <1>14. ASSUME NEW s \in Slots, WorkerStep(s)
         PROVE  ApiInv'
    BY <1>14, WorkerFrame DEF ApiInv, apiVars, reconcileVars
  <1>15. CASE Crash
    <2>1. /\ obj' \in {obj, NewObject(NoSpec)} /\ obj' # NoObj /\ cache' = obj' /\ nc' = NoObj
          /\ pc' = "idle" /\ sameObj' /\ cacheCurrent' /\ ~ncCurrent' /\ writes' = writes
      BY <1>15, NewObjectType, NoSpecType DEF Crash
    <2>2. /\ NewObject(NoSpec) \in Object /\ NewObject(NoSpec).gen = 1 /\ NewObject(NoSpec).obs = 0
          /\ writes \in Nat
      BY NewObjectType, NoSpecType, BoundsType DEF ApiInv
    <2> QED
      BY <2>1, <2>2 DEF ApiInv
  <1> QED
    BY <1>1, <1>2, <1>3, <1>4, <1>5, <1>6, <1>7, <1>8, <1>9, <1>10, <1>11, <1>12, <1>13,
       <1>14, <1>15 DEF Next, Reconcile, WorkerStep

-----------------------------------------------------------------------------
(* Reconcile's position and the workers. *)

\* A status that is written leaves the local object's spec alone.
LEMMA LocalSpecStays ==
  ASSUME ApiInv, nc # NoObj, NEW reason \in Reasons, NEW obs \in 0..(MaxWrites + 1),
         UpdateStatus(reason, obs) \/ UNCHANGED nc
  PROVE  nc'.spec = nc.spec
  BY UpdateStatusShape

LEMMA DownloadInvStep ==
  ASSUME ApiInv, DownloadInv, Next
  PROVE  DownloadInv'
  <1>1. CASE UNCHANGED next /\ pc' \notin {"images", "nics"}
    BY <1>1 DEF DownloadInv
  <1>2. CASE UNCHANGED <<next, pc, nc>>
    BY <1>2 DEF DownloadInv
  <1>3. CASE (\E spec \in Specs : SetSpec(spec)) \/ Delete
    BY <1>2, <1>3 DEF SetSpec, Delete
  <1>4. CASE Inform \/ CreateEmptyN3000Node
    BY <1>2, <1>4 DEF Inform, Deliver, DeliverDelete, HandleEvent, CreateEmptyN3000Node, reconcileVars
  <1>5. CASE Get
    BY <1>1, <1>5 DEF Get
  <1>6. CASE CheckSpec \/ Report \/ CheckFails
    BY <1>1, <1>6 DEF CheckSpec, Report, CheckFails, End
  <1>7. CASE StartFlash
    BY <1>7, PositionsArePositive DEF StartFlash, DownloadInv
  <1>8. CASE VerifyCards
    BY <1>1, <1>8 DEF VerifyCards, End, DownloadInv, CardsThere
  <1>9. CASE GetImage
    <2>1. /\ nc.spec \in Specs /\ next \in Nat \ {0} /\ next <= Len(nc.spec.fpga)
          /\ next' = next + 1 /\ UNCHANGED <<pc, nc>>
      BY <1>9, PositionsArePositive DEF GetImage, ApiInv, Object, DownloadInv
    <2>2. next + 1 \in 1..(Len(nc.spec.fpga) + 1)
      BY <2>1, SpecType
    <2> QED
      BY <2>1, <2>2, PositionType DEF DownloadInv
  <1>10. CASE GotImages
    BY <1>10 DEF GotImages, DownloadInv
  <1>11. CASE VerifyNics
    BY <1>1, <1>11 DEF VerifyNics, End, CallRun
  <1>12. CASE RunReturns \/ DrainFails \/ LoseLease \/ Crash
    BY <1>1, <1>12 DEF RunReturns, DrainFails, LoseLease, Crash
  <1>13. ASSUME NEW s \in Slots, WorkerStep(s)
         PROVE  DownloadInv'
    BY <1>2, <1>13, WorkerFrame DEF reconcileVars
  <1> QED
    BY <1>3, <1>4, <1>5, <1>6, <1>7, <1>8, <1>9, <1>10, <1>11, <1>12, <1>13
       DEF Next, Reconcile, WorkerStep

\* The state that a worker is in.
WorkerState == {"none", "wait", "drain", "program", "rsu", "flash", "cycle", "done"}

\* A worker goes to a state, with a position in its list.
WorkerMove(s, to, n) ==
    /\ wpc[s] # "none"
    /\ wpc' = [wpc EXCEPT ![s] = to]
    /\ wi' = [wi EXCEPT ![s] = n]
    /\ UNCHANGED <<cur, wspec>>
    /\ step' \in [Slots -> 0..1]
    /\ bmcs' \in [Slots -> SUBSET Cards]
    /\ flashErr' \in [Slots -> {"none", "fpga", "fortville"}]

\* A move keeps the invariant if the position fits the new state.
LEMMA WorkerMoveType ==
  ASSUME WorkerInv, NEW s \in Slots, NEW to \in WorkerState, NEW n \in Positions, WorkerMove(s, to, n),
         to = "rsu" => n <= Len(wspec[s].fpga),
         to = "flash" => wspec[s].fortville # NoFortville
  PROVE  WorkerInv'
  <1>1. /\ wpc' \in [Slots -> WorkerState] /\ wpc'[s] = to
        /\ wi' \in [Slots -> Positions] /\ wi'[s] = n
        /\ \A t \in Slots : t # s => wpc'[t] = wpc[t] /\ wi'[t] = wi[t]
    BY DEF WorkerMove, WorkerInv, WorkerState
  <1>2. ASSUME NEW t \in Slots
        PROVE  /\ wpc'[t] # "none" => CardsThere(wspec'[t]) /\ NicsThere(wspec'[t])
               /\ wpc'[t] = "rsu" => wi'[t] <= Len(wspec'[t].fpga)
               /\ wpc'[t] = "flash" => wspec'[t].fortville # NoFortville
    <2>1. CASE t = s
      BY <1>1, <2>1 DEF WorkerMove, WorkerInv
    <2>2. CASE t # s
      BY <1>1, <2>2 DEF WorkerMove, WorkerInv
    <2> QED
      BY <2>1, <2>2
  <1> QED
    BY <1>1, <1>2 DEF WorkerMove, WorkerInv, WorkerState

\* The current entry of the list of cards names a card that is there.
LEMMA EntryType ==
  ASSUME WorkerInv, NEW s \in Slots, wpc[s] # "none", wi[s] <= Len(wspec[s].fpga)
  PROVE  /\ wspec[s] \in Specs /\ wi[s] \in DOMAIN wspec[s].fpga
         /\ wi[s] \in 1..Len(wspec[s].fpga) /\ wi[s] + 1 \in Positions
         /\ Entry(s) \in FpgaEntry /\ Entry(s).card \in Cards
  <1>1. wspec[s] \in Specs /\ wi[s] \in Nat \ {0} /\ CardsThere(wspec[s])
    BY PositionsArePositive DEF WorkerInv
  <1>2. wi[s] \in DOMAIN wspec[s].fpga /\ wi[s] \in 1..Len(wspec[s].fpga)
        /\ wi[s] + 1 \in 1..(Len(wspec[s].fpga) + 1)
    BY <1>1, SpecType
  <1>3. wspec[s].fpga \in Seq(FpgaEntry)
    BY <1>1, SpecType
  <1> QED
    BY <1>1, <1>2, <1>3, PositionType DEF Entry, CardsThere

\* The current entry of the list of NICs is a NIC that is there.
LEMMA NicType ==
  ASSUME WorkerInv, NEW s \in Slots, wpc[s] = "flash", wi[s] <= Len(wspec[s].fortville.nics)
  PROVE  /\ wspec[s] \in Specs /\ wspec[s].fortville # NoFortville
         /\ wi[s] \in DOMAIN wspec[s].fortville.nics
         /\ wi[s] \in 1..Len(wspec[s].fortville.nics) /\ wi[s] + 1 \in Positions
         /\ Nic(s) \in Nics /\ CardOf[Nic(s)] \in Cards
  <1>1. /\ wspec[s] \in Specs /\ wi[s] \in Nat \ {0} /\ NicsThere(wspec[s])
        /\ wspec[s].fortville # NoFortville
    BY PositionsArePositive DEF WorkerInv
  <1>2. wi[s] \in DOMAIN wspec[s].fortville.nics /\ wi[s] \in 1..Len(wspec[s].fortville.nics)
        /\ wi[s] + 1 \in 1..(Len(wspec[s].fortville.nics) + 1)
    BY <1>1, SpecType
  <1>3. Nic(s) \in Nics
    BY <1>1, <1>2 DEF Nic, NicsThere
  <1> QED
    BY <1>1, <1>2, <1>3, PositionType, N3000NodeAssumption

LEMMA WorkerKeepsWorkerInv ==
  ASSUME WorkerInv, NEW s \in Slots, WorkerStep(s)
  PROVE  WorkerInv'
  <1>0. wi[s] \in Positions /\ 1 \in Positions /\ wpc[s] \in WorkerState
    BY PositionsArePositive DEF WorkerInv, WorkerState
  <1>1. CASE Lead(s)
    <2>1. WorkerMove(s, "drain", wi[s])
      BY <1>1 DEF Lead, WorkerAt, WorkerMove, WorkerInv, reconcileVars
    <2> QED
      BY <1>0, <2>1, WorkerMoveType DEF WorkerState
  <1>2. CASE Drained(s)
    <2>1. WorkerMove(s, "program", wi[s])
      BY <1>2 DEF Drained, WorkerAt, WorkerMove, WorkerInv, reconcileVars
    <2> QED
      BY <1>0, <2>1, WorkerMoveType DEF WorkerState
  <1>3. CASE Program(s)
    <2>1. WorkerMove(s, "rsu", wi[s]) /\ wi[s] <= Len(wspec[s].fpga)
      BY <1>3 DEF Program, WorkerAt, WorkerMove, WorkerInv, reconcileVars
    <2> QED
      BY <1>0, <2>1, WorkerMoveType DEF WorkerState
  <1>4. CASE Rsu(s)
    <2>1. wpc[s] = "rsu" /\ wi[s] <= Len(wspec[s].fpga)
      BY <1>4 DEF Rsu, WorkerAt, WorkerInv
    <2>2. wi[s] + 1 \in Positions
      BY <2>1, EntryType
    <2>3. WorkerMove(s, "program", wi[s] + 1)
      BY <1>4 DEF Rsu, WorkerAt, WorkerMove, WorkerInv, reconcileVars
    <2> QED
      BY <2>2, <2>3, WorkerMoveType DEF WorkerState
  <1>5. CASE ProgramDone(s)
    <2>1. CASE wspec[s].fortville = NoFortville
      <3>1. WorkerMove(s, "done", 1)
        BY <1>5, <2>1 DEF ProgramDone, WorkerAt, WorkerMove, WorkerInv, reconcileVars
      <3> QED
        BY <1>0, <3>1, WorkerMoveType DEF WorkerState
    <2>2. CASE wspec[s].fortville # NoFortville
      <3>1. WorkerMove(s, "flash", 1)
        BY <1>5, <2>2 DEF ProgramDone, WorkerAt, WorkerMove, WorkerInv, reconcileVars
      <3> QED
        BY <1>0, <2>2, <3>1, WorkerMoveType DEF WorkerState
    <2> QED
      BY <2>1, <2>2
  <1>6. CASE FlashMac(s) \/ FlashMacMisread(s) \/ PassOver(s)
    <2>1. /\ wpc[s] = "flash" /\ wi[s] <= Len(wspec[s].fortville.nics)
          /\ UNCHANGED <<cur, wspec, flashErr>>
          /\ wpc' = [wpc EXCEPT ![s] = "flash"]
      BY <1>6 DEF FlashMac, FlashMacMisread, PassOver, WorkerAt, WorkerInv, reconcileVars
    <2>2. bmcs' = [bmcs EXCEPT ![s] = @ \cup {CardOf[Nic(s)]}] \/ UNCHANGED bmcs
      BY <1>6 DEF FlashMac, FlashMacMisread, PassOver
    <2>3. /\ wspec[s].fortville # NoFortville
          /\ wi[s] + 1 \in Positions /\ CardOf[Nic(s)] \in Cards
      BY <2>1, NicType
    <2>4. bmcs' \in [Slots -> SUBSET Cards]
      BY <2>2, <2>3 DEF WorkerInv
    <2>5. CASE NextNic(s)
      <3>1. WorkerMove(s, "flash", wi[s] + 1)
        BY <2>1, <2>4, <2>5 DEF NextNic, WorkerMove, WorkerInv
      <3> QED
        BY <2>3, <3>1, WorkerMoveType DEF WorkerState
    <2>6. CASE step' = [step EXCEPT ![s] = 1] /\ UNCHANGED wi
      <3>1. WorkerMove(s, "flash", wi[s])
        BY <2>1, <2>4, <2>6 DEF WorkerMove, WorkerInv
      <3> QED
        BY <1>0, <2>3, <3>1, WorkerMoveType DEF WorkerState
    <2> QED
      BY <1>6, <2>5, <2>6 DEF FlashMac, FlashMacMisread, PassOver
  <1>7. CASE FlashDone(s)
    <2>1. PICK to \in {"done", "cycle"} : WorkerMove(s, to, wi[s])
      BY <1>7 DEF FlashDone, WorkerAt, WorkerMove, WorkerInv, reconcileVars
    <2> QED
      BY <1>0, <2>1, WorkerMoveType DEF WorkerState
  <1>8. CASE PowerCycle(s) \/ PowerCycleFails(s)
    <2>1. WorkerMove(s, "done", wi[s])
      BY <1>8 DEF PowerCycle, PowerCycleFails, WorkerAt, WorkerMove, WorkerInv, reconcileVars
    <2> QED
      BY <1>0, <2>1, WorkerMoveType DEF WorkerState
  <1>9. CASE WorkFails(s)
    <2>1. WorkerMove(s, "done", wi[s])
      BY <1>9 DEF WorkFails, WorkerMove, WorkerInv, reconcileVars
    <2> QED
      BY <1>0, <2>1, WorkerMoveType DEF WorkerState
  <1>10. CASE OrphanEnds(s)
    <2>1. WorkerMove(s, "none", wi[s])
      BY <1>10 DEF OrphanEnds, WorkerAt, WorkerMove, WorkerInv, reconcileVars
    <2> QED
      BY <1>0, <2>1, WorkerMoveType DEF WorkerState
  <1> QED
    BY <1>1, <1>2, <1>3, <1>4, <1>5, <1>6, <1>7, <1>8, <1>9, <1>10 DEF WorkerStep, Worker

LEMMA WorkerInvStep ==
  ASSUME ApiInv, DownloadInv, WorkerInv, Next
  PROVE  WorkerInv'
  <1>1. CASE UNCHANGED <<cur, workerVars>>
    BY <1>1 DEF WorkerInv, workerVars
  <1>2. ASSUME NEW s \in Slots, WorkerStep(s)
        PROVE  WorkerInv'
    BY <1>2, WorkerKeepsWorkerInv
  <1>3. CASE VerifyNics
    <2>1. nc.spec \in Specs /\ CardsThere(nc.spec)
      BY <1>3 DEF VerifyNics, DownloadInv, ApiInv, Object
    <2>2. CASE CallRun /\ NicsThere(nc.spec)
      <3>1. PICK s \in Slots :
               /\ wpc[s] = "none"
               /\ cur' = s
               /\ wpc' = [wpc EXCEPT ![s] = "wait"]
               /\ wspec' = [wspec EXCEPT ![s] = nc.spec]
               /\ wi' = [wi EXCEPT ![s] = 1]
               /\ step' = [step EXCEPT ![s] = 0]
               /\ bmcs' = [bmcs EXCEPT ![s] = {}]
               /\ flashErr' = [flashErr EXCEPT ![s] = "none"]
        BY <2>2 DEF CallRun
      <3>2. /\ wpc' \in [Slots -> WorkerState] /\ wspec' \in [Slots -> Specs]
            /\ wi' \in [Slots -> Positions] /\ step' \in [Slots -> 0..1]
            /\ bmcs' \in [Slots -> SUBSET Cards]
            /\ flashErr' \in [Slots -> {"none", "fpga", "fortville"}]
        BY <2>1, <3>1, PositionsArePositive DEF WorkerInv, WorkerState
      <3>3. ASSUME NEW t \in Slots
            PROVE  /\ wpc'[t] # "none" => CardsThere(wspec'[t]) /\ NicsThere(wspec'[t])
                   /\ wpc'[t] = "rsu" => wi'[t] <= Len(wspec'[t].fpga)
                   /\ wpc'[t] = "flash" => wspec'[t].fortville # NoFortville
        <4>1. CASE t = s
          BY <2>1, <2>2, <3>1, <4>1 DEF WorkerInv
        <4>2. CASE t # s
          BY <3>1, <4>2 DEF WorkerInv
        <4> QED
          BY <4>1, <4>2
      <3> QED
        BY <3>1, <3>2, <3>3 DEF WorkerInv, WorkerState
    <2>3. CASE CallRun /\ ~NicsThere(nc.spec)
      <3>1. nc.spec.fortville # NoFortville
        BY <2>3 DEF NicsThere
      <3>2. nc.spec.fortville.firmware \in Firmwares \cup {NoURL}
        BY <2>1, <3>1, SpecType DEF Fortville
      <3>3. ~(nc.spec.fortville.firmware # NoURL /\
                 \A i \in DOMAIN nc.spec.fortville.nics : nc.spec.fortville.nics[i] \in Nics)
        BY <2>3, <3>1, <3>2 DEF NicsThere
      <3>4. pc' = "idle"
        BY <1>3, <3>1, <3>3 DEF VerifyNics, End
      <3> QED
        BY <2>3, <3>4 DEF CallRun
    <2>4. CASE End("Failed") /\ UNCHANGED <<cur, workerVars>>
      BY <1>1, <2>4
    <2> QED
      BY <1>3, <2>2, <2>3, <2>4 DEF VerifyNics
  <1>4. CASE RunReturns \/ DrainFails
    <2>1. WorkerMove(cur, "none", wi[cur])
      BY <1>4 DEF RunReturns, DrainFails, WorkerMove, WorkerInv
    <2> QED
      BY <2>1, WorkerMoveType DEF WorkerState, WorkerInv
  <1>5. CASE Crash
    BY <1>5 DEF Crash, WorkerInv
  <1>6. CASE Inform \/ LoseLease \/ CheckFails
    BY <1>1, <1>6 DEF Inform, Deliver, DeliverDelete, HandleEvent, LoseLease, CheckFails, reconcileVars
  <1>7. CASE CreateEmptyN3000Node \/ Get \/ CheckSpec \/ StartFlash \/ VerifyCards
    BY <1>1, <1>7 DEF CreateEmptyN3000Node, Get, CheckSpec, StartFlash, VerifyCards, reconcileVars
  <1>8. CASE GetImage \/ GotImages \/ Report
    BY <1>1, <1>8 DEF GetImage, GotImages, Report
  <1>9. CASE (\E spec \in Specs : SetSpec(spec)) \/ Delete
    BY <1>1, <1>9 DEF SetSpec, Delete
  <1> QED
    BY <1>2, <1>3, <1>4, <1>5, <1>6, <1>7, <1>8, <1>9 DEF Next, Reconcile, WorkerStep

-----------------------------------------------------------------------------
(* The devices, the flags and the faults.                                   *)

\* What an update makes of a NIC's memory is one.
LEMMA UpdatedType ==
  ASSUME DeviceInv, NEW memory \in Memory
  PROVE  Updated(memory) \in Memory
  <1>1. Updates - 1 \in 0..(Updates - 1)
    BY BoundsType
  <1>2. CASE memory.firmware # package
    BY <1>1, <1>2 DEF Updated, Memory, DeviceInv
  <1>3. CASE memory.firmware = package
    <2>1. (IF memory.left = 0 THEN 0 ELSE memory.left - 1) \in 0..(Updates - 1)
      BY BoundsType DEF Memory
    <2>2. Updated(memory) = [memory EXCEPT !.left = IF memory.left = 0 THEN 0 ELSE memory.left - 1]
      BY <1>3 DEF Updated
    <2> QED
      BY <2>1, <2>2 DEF Memory
  <1> QED
    BY <1>2, <1>3

\* A power cycle boots what the memories hold.
LEMMA PowerCycledType ==
  ASSUME DeviceInv, NEW cards, PowerCycled(cards), UNCHANGED <<files, package, flash, nvm>>
  PROVE  DeviceInv'
  <1>1. running' \in [Cards -> Images \cup {NoURL, Garbled}]
    BY DEF DeviceInv, PowerCycled
  <1>2. active' \in [Nics -> Memory]
    BY DEF DeviceInv, PowerCycled
  <1> QED
    BY <1>1, <1>2 DEF DeviceInv

LEMMA WorkerKeepsDeviceInv ==
  ASSUME WorkerInv, DeviceInv, NEW s \in Slots, WorkerStep(s)
  PROVE  DeviceInv'
  <1>0. UNCHANGED <<files, package>>
    BY WorkerFrame DEF fileVars
  <1>1. CASE UNCHANGED deviceVars
    BY <1>0, <1>1 DEF deviceVars, DeviceInv
  <1>2. CASE Program(s)
    <2>1. wi[s] \in Positions
      BY DEF WorkerInv
    <2> QED
      BY <1>0, <1>2, <2>1 DEF Program, DeviceInv
  <1>3. CASE Rsu(s) \/ PowerCycle(s) \/ PowerCycleFails(s)
    <2>1. UNCHANGED <<flash, nvm>> /\ \E cards : PowerCycled(cards)
      BY <1>3 DEF Rsu, PowerCycle, PowerCycleFails
    <2> QED
      BY <1>0, <2>1, PowerCycledType
  <1>4. ASSUME wpc[s] = "flash", wi[s] <= Len(wspec[s].fortville.nics),
               nvm' = [nvm EXCEPT ![Nic(s)] = Updated(@)], UNCHANGED <<flash, running, active>>
        PROVE  DeviceInv'
    <2>1. Nic(s) \in Nics /\ nvm[Nic(s)] \in Memory
      BY <1>4, NicType DEF DeviceInv
    <2>2. Updated(nvm[Nic(s)]) \in Memory
      BY <2>1, UpdatedType
    <2> QED
      BY <1>0, <1>4, <2>1, <2>2 DEF DeviceInv
  <1>5. CASE FlashMac(s) \/ FlashMacMisread(s)
    BY <1>1, <1>4, <1>5 DEF FlashMac, FlashMacMisread, deviceVars
  <1>6. CASE WorkFails(s)
    <2>1. UNCHANGED <<running, active>>
      BY <1>6 DEF WorkFails
    <2>2. CASE UNCHANGED flash /\ UNCHANGED nvm
      BY <1>1, <2>1, <2>2 DEF deviceVars
    <2>3. CASE flash' = [flash EXCEPT ![Entry(s).card] = Garbled] /\ UNCHANGED nvm
      BY <1>0, <2>1, <2>3 DEF DeviceInv
    <2>4. CASE /\ wpc[s] = "flash" /\ wi[s] <= Len(wspec[s].fortville.nics)
               /\ nvm' = [nvm EXCEPT ![Nic(s)] = Updated(@)] /\ UNCHANGED flash
      BY <1>4, <2>1, <2>4
    <2> QED
      BY <1>6, <2>2, <2>3, <2>4 DEF WorkFails
  <1>7. CASE Lead(s) \/ Drained(s) \/ ProgramDone(s) \/ FlashDone(s) \/ OrphanEnds(s) \/ PassOver(s)
    BY <1>1, <1>7 DEF Lead, Drained, ProgramDone, FlashDone, OrphanEnds, PassOver
  <1> QED
    BY <1>2, <1>3, <1>5, <1>6, <1>7 DEF WorkerStep, Worker

LEMMA DeviceInvStep ==
  ASSUME ApiInv, DownloadInv, WorkerInv, DeviceInv, Next
  PROVE  DeviceInv'
  <1>1. CASE UNCHANGED <<fileVars, deviceVars>>
    BY <1>1 DEF fileVars, deviceVars, DeviceInv
  <1>2. ASSUME NEW s \in Slots, WorkerStep(s)
        PROVE  DeviceInv'
    BY <1>2, WorkerKeepsDeviceInv
  <1>3. CASE GetImage
    <2>1. /\ nc.spec \in Specs /\ next \in Nat \ {0} /\ next <= Len(nc.spec.fpga)
      BY <1>3, PositionsArePositive DEF GetImage, ApiInv, Object, DownloadInv
    <2>2. nc.spec.fpga \in Seq(FpgaEntry) /\ next \in 1..Len(nc.spec.fpga)
      BY <2>1, SpecType
    <2>3. nc.spec.fpga[next] \in FpgaEntry
      BY <2>2, ElementOfSeq
    <2>4. nc.spec.fpga[next].image \in Images \cup {NoURL}
      BY <2>3 DEF FpgaEntry
    <2> QED
      BY <1>3, <2>4 DEF GetImage, DeviceInv, deviceVars
  <1>4. CASE VerifyNics
    <2>1. nc.spec \in Specs
      BY <1>4 DEF VerifyNics, ApiInv, Object
    <2>2. CASE UNCHANGED package
      BY <1>1, <1>4, <2>2 DEF VerifyNics, fileVars
    <2>3. CASE nc.spec.fortville # NoFortville /\ package' = nc.spec.fortville.firmware
      <3>1. package' \in Firmwares \cup {NoURL}
        BY <2>1, <2>3, SpecType DEF Fortville
      <3> QED
        BY <1>4, <3>1 DEF VerifyNics, DeviceInv, deviceVars
    <2> QED
      BY <1>4, <2>2, <2>3 DEF VerifyNics
  <1>5. CASE CheckFails
    BY <1>1, <1>5 DEF CheckFails, DeviceInv, deviceVars
  <1>6. CASE (\E spec \in Specs : SetSpec(spec)) \/ Delete \/ Inform \/ CreateEmptyN3000Node
    BY <1>1, <1>6 DEF SetSpec, Delete, Inform, Deliver, DeliverDelete, HandleEvent, CreateEmptyN3000Node
  <1>7. CASE Get \/ CheckSpec \/ StartFlash \/ VerifyCards \/ GotImages
    BY <1>1, <1>7 DEF Get, CheckSpec, StartFlash, VerifyCards, GotImages
  <1>8. CASE RunReturns \/ Report \/ DrainFails \/ LoseLease \/ Crash
    BY <1>1, <1>8 DEF RunReturns, Report, DrainFails, LoseLease, Crash
  <1> QED
    BY <1>2, <1>3, <1>4, <1>5, <1>6, <1>7, <1>8 DEF Next, Reconcile, WorkerStep

\* A fault is added to the record of faults, which stays within its bound.
LEMMA FaultType ==
  ASSUME FaultsType, NEW kind, Fault(kind)
  PROVE  FaultsType'
  <1>1. /\ Append(faults, kind) \in Seq(Faults)
        /\ Len(Append(faults, kind)) = Len(faults) + 1
    BY AppendProperties DEF FaultsType, Fault
  <1>2. Len(faults) \in Nat
    BY LenProperties DEF FaultsType
  <1> QED
    BY <1>1, <1>2, BoundsType DEF FaultsType, Fault

\* A step records one fault or none.
LEMMA FaultStep ==
  ASSUME Next
  PROVE  UNCHANGED faults \/ \E kind \in FaultKinds : Fault(kind)
  <1> USE DEF FaultKinds
  <1>1. CASE (\E spec \in Specs : SetSpec(spec)) \/ Inform
    BY <1>1 DEF SetSpec, Inform, Deliver, DeliverDelete, HandleEvent, boundVars
  <1>2. CASE Delete \/ CreateEmptyN3000Node \/ Get \/ GetImage \/ GotImages
    BY <1>2 DEF Delete, CreateEmptyN3000Node, Get, GetImage, GotImages, boundVars
  <1>3. CASE CheckSpec \/ Report
    BY <1>3 DEF CheckSpec, Report, End, UpdateFlashCondition, StatusFails
  <1>4. CASE StartFlash \/ VerifyCards \/ VerifyNics
    BY <1>4 DEF StartFlash, VerifyCards, VerifyNics, End, UpdateFlashCondition, StatusFails
  <1>5. CASE CheckFails \/ RunReturns \/ DrainFails \/ LoseLease \/ Crash
    BY <1>5 DEF CheckFails, RunReturns, DrainFails, LoseLease, Crash
  <1>6. ASSUME NEW s \in Slots, WorkerStep(s)
        PROVE  UNCHANGED faults \/ \E kind \in FaultKinds : Fault(kind)
    BY <1>6 DEF WorkerStep, Worker, WorkFails, WorkerAt, Lead, Drained, Program, Rsu, ProgramDone,
         FlashMac, FlashMacMisread, PassOver, FlashDone, PowerCycle, PowerCycleFails, OrphanEnds,
         boundVars
  <1> QED
    BY <1>1, <1>2, <1>3, <1>4, <1>5, <1>6 DEF Next, Reconcile, WorkerStep

\* The flags stay Booleans.
LEMMA FlagsStep ==
  ASSUME ApiInv, FlagsType, Next
  PROVE  FlagsType'
  <1> USE DEF FlagsType
  <1>1. CASE (\E spec \in Specs : SetSpec(spec)) \/ Delete
    <2>1. cacheCurrent' = FALSE /\ ncCurrent' = FALSE /\ (sameObj' = FALSE \/ UNCHANGED sameObj)
          /\ UNCHANGED <<queueVars, run>>
      BY <1>1, Zenon DEF SetSpec, Delete
    <2> QED
      BY <2>1 DEF queueVars
  <1>2. CASE Deliver
    <2>1. Passes(cache, obj) \in BOOLEAN
      BY DEF Passes
    <2> QED
      BY <1>2, <2>1 DEF Deliver, reconcileVars
  <1>3. CASE DeliverDelete \/ HandleEvent
    BY <1>3 DEF DeliverDelete, HandleEvent, apiVars, reconcileVars
  <1>4. CASE CreateEmptyN3000Node
    BY <1>4 DEF CreateEmptyN3000Node, reconcileVars
  <1>5. CASE Get \/ GetImage \/ GotImages
    BY <1>5 DEF Get, GetImage, GotImages, apiVars, queueVars
  <1>6. ASSUME NEW reason, End(reason), UNCHANGED <<sameObj, queueVars, run>>
        PROVE  FlagsType'
    BY <1>6 DEF End, UpdateFlashCondition, UpdateStatus, StatusFails, queueVars
  <1>7. CASE CheckSpec \/ Report
    BY <1>6, <1>7 DEF CheckSpec, Report
  <1>8. CASE StartFlash
    BY <1>8 DEF StartFlash, UpdateStatus, StatusFails
  <1>9. CASE VerifyCards \/ VerifyNics
    BY <1>6, <1>9 DEF VerifyCards, VerifyNics, queueVars
  <1>10. CASE CheckFails
    BY <1>10 DEF CheckFails, UpdateStatus, queueVars
  <1>11. CASE RunReturns \/ DrainFails \/ LoseLease
    BY <1>11 DEF RunReturns, DrainFails, LoseLease, apiVars, queueVars
  <1>12. CASE Crash
    <2>1. Passes(NoObj, obj') \in BOOLEAN
      BY DEF Passes
    <2> QED
      BY <1>12, <2>1 DEF Crash
  <1>13. ASSUME NEW s \in Slots, WorkerStep(s)
         PROVE  FlagsType'
    BY <1>13, WorkerFrame DEF apiVars, queueVars, reconcileVars
  <1> QED
    BY <1>1, <1>2, <1>3, <1>4, <1>5, <1>7, <1>8, <1>9, <1>10, <1>11, <1>12, <1>13
       DEF Next, Reconcile, Inform, WorkerStep

LEMMA TypeInvInit == Init => TypeInv
  <1> SUFFICES ASSUME Init PROVE TypeInv
    OBVIOUS
  <1>1. NewObject(NoSpec) \in Object /\ NewObject(NoSpec).gen = 1 /\ NewObject(NoSpec).obs = 0
        /\ NewObject(NoSpec) # NoObj /\ NoSpec \in Specs /\ 1 \in Positions
    BY NewObjectType, NoSpecType, PositionsArePositive
  <1>2. ApiInv
    BY <1>1, BoundsType DEF Init, ApiInv, ReconcileStates
  <1>3. WorkerInv
    BY <1>1 DEF Init, WorkerInv
  <1>4. DownloadInv
    BY <1>1 DEF Init, DownloadInv
  <1>5. DeviceInv
    <2>1. [firmware |-> NoURL, left |-> 0] \in Memory
      BY BoundsType DEF Memory
    <2> QED
      BY <2>1 DEF Init, DeviceInv
  <1>6. FaultsType
    BY BoundsType DEF Init, FaultsType
  <1> QED
    BY <1>2, <1>3, <1>4, <1>5, <1>6 DEF TypeInv, FlagsType, Init

LEMMA TypeInvStep == TypeInv /\ [Next]_vars => TypeInv'
  <1> SUFFICES ASSUME TypeInv, [Next]_vars PROVE TypeInv'
    OBVIOUS
  <1>1. CASE Next
    <2>1. ApiInv' /\ DownloadInv' /\ WorkerInv' /\ DeviceInv'
      BY <1>1, ApiInvStep, DownloadInvStep, WorkerInvStep, DeviceInvStep DEF TypeInv
    <2>2. FlagsType'
      BY <1>1, FlagsStep DEF TypeInv
    <2>3. FaultsType'
      <3>1. CASE UNCHANGED faults
        BY <3>1 DEF TypeInv, FaultsType
      <3>2. CASE \E kind \in FaultKinds : Fault(kind)
        BY <3>2, FaultType DEF TypeInv
      <3> QED
        BY <1>1, <3>1, <3>2, FaultStep
    <2> QED
      BY <2>1, <2>2, <2>3 DEF TypeInv
  <1>2. CASE UNCHANGED vars
    BY <1>2 DEF vars, TypeInv, ApiInv, DownloadInv, WorkerInv, DeviceInv, FlagsType, FaultsType
  <1> QED
    BY <1>1, <1>2

\* The invariant holds in every state.
THEOREM TypeInvariance == Spec => []TypeInv
  BY TypeInvInit, TypeInvStep, PTL DEF Spec

\* Every variable keeps its type; in particular Reconcile and the workers stay
\* within their lists, and the devices hold what can be written to them.
THEOREM TypeCorrect == Spec => []TypeOK
  BY TypeInvariance, TypeInvImpliesTypeOK, PTL

-----------------------------------------------------------------------------
(* What a step does to the object: NodeObject's view of it.                 *)

Outcomes == Reasons \ {"none", "InProgress"}

\* The object as NodeObject shows it.
View(o) == IF o = NoObj THEN NoObj
           ELSE [gen |-> o.gen, spec |-> o.spec, reason |-> o.reason, obs |-> o.obs]

\* The daemon begins with the object, or concludes its latest generation.
Begins == /\ obj \in Object /\ obj' \in Object /\ obj.reason # "none" /\ obj'.reason = "InProgress"
          /\ obj'.gen = obj.gen /\ obj'.spec = obj.spec /\ obj'.obs = obj.obs
Concludes == /\ obj \in Object /\ obj' \in Object /\ obj'.reason \in Outcomes
             /\ obj'.gen = obj.gen /\ obj'.spec = obj.spec /\ obj'.obs = obj.gen

\* The object is created, its spec is changed, or it is deleted.
Created == obj = NoObj /\ \E spec \in Specs : obj' = NewObject(spec)
Changed == /\ obj \in Object /\ obj' \in Object
           /\ obj'.spec \in Specs /\ obj'.spec # obj.spec
           /\ obj'.gen = obj.gen + 1 /\ obj'.reason = obj.reason /\ obj'.obs = obj.obs
Deleted == obj \in Object /\ obj' = NoObj

\* An outcome is of the generation of the object as it is when it is written.
LEMMA OutcomeConcludes ==
  ASSUME ApiInv, nc # NoObj, NEW reason \in Outcomes, End(reason) \/ UpdateStatus(reason, nc.gen)
  PROVE  Concludes \/ UNCHANGED obj
  <1>1. reason \in Reasons /\ nc.gen \in 0..(MaxWrites + 1)
    BY DEF Outcomes, ApiInv, Object
  <1>2. CASE UpdateStatus(reason, nc.gen)
    BY <1>1, <1>2, UpdateStatusShape DEF Concludes
  <1> QED
    BY <1>1, <1>2, EndShape

LEMMA SetSpecSteps ==
  ASSUME ApiInv, NEW spec \in Specs, SetSpec(spec), ApiInv'
  PROVE  Created \/ Changed
  <1>1. CASE obj = NoObj
    BY <1>1, Zenon DEF SetSpec, Created
  <1>2. CASE obj # NoObj
    <2>1. obj \in Object /\ obj' = [obj EXCEPT !.spec = spec, !.gen = obj.gen + 1]
          /\ spec # obj.spec /\ writes < MaxWrites
      BY <1>2 DEF SetSpec, ApiInv
    <2>2. obj.gen + 1 \in 1..(MaxWrites + 1)
      <3>1. /\ obj.gen \in 1..(MaxWrites + 1) /\ obj.gen <= writes + 1 /\ writes < MaxWrites
            /\ writes \in 0..MaxWrites
        BY <1>2, <2>1 DEF ApiInv, Object
      <3> QED
        BY <3>1, BoundsType
    <2>3. obj' \in Object
      BY <2>1, <2>2 DEF Object
    <2> QED
      BY <2>1, <2>3 DEF Changed, Object
  <1> QED
    BY <1>1, <1>2

LEMMA ObjectSteps ==
  ASSUME ApiInv, Next
  PROVE  Begins \/ Concludes \/ Created \/ Changed \/ Deleted \/ UNCHANGED obj
  <1>1. ApiInv'
    BY ApiInvStep
  <1>2. ASSUME NEW spec \in Specs, SetSpec(spec)
        PROVE  Created \/ Changed
    BY <1>1, <1>2, SetSpecSteps
  <1>3. CASE Delete
    BY <1>3 DEF Delete, Deleted, ApiInv
  <1>4. CASE Inform
    BY <1>4 DEF Inform, Deliver, DeliverDelete, HandleEvent, apiVars
  <1>5. CASE CreateEmptyN3000Node
    BY <1>5, NoSpecType DEF CreateEmptyN3000Node, Created
  <1>6. CASE Get \/ GetImage \/ GotImages \/ RunReturns \/ DrainFails \/ LoseLease
    BY <1>6 DEF Get, GetImage, GotImages, RunReturns, DrainFails, LoseLease, apiVars
  <1>7. CASE CheckSpec \/ VerifyCards \/ VerifyNics \/ Report \/ CheckFails
    <2>1. nc # NoObj /\ {"Failed", "NotRequested", "Unknown", "Succeeded"} \subseteq Outcomes
      BY <1>7 DEF CheckSpec, VerifyCards, VerifyNics, Report, CheckFails, ApiInv, Outcomes, Reasons
    <2>2. UNCHANGED obj \/ \E reason \in Outcomes : End(reason) \/ UpdateStatus(reason, nc.gen)
      BY <1>7, <2>1 DEF CheckSpec, VerifyCards, VerifyNics, Report, CheckFails
    <2> QED
      BY <2>1, <2>2, OutcomeConcludes
  <1>8. CASE StartFlash
    <2>1. nc \in Object
      BY <1>8 DEF StartFlash, ApiInv
    <2>2. CASE UpdateStatus("InProgress", nc.obs) /\ nc.reason # "none"
      <3>1. "InProgress" \in Reasons /\ nc.obs \in 0..(MaxWrites + 1)
        BY <2>1 DEF Object, Reasons
      <3> QED
        BY <2>2, <3>1, UpdateStatusShape DEF Begins
    <2>3. CASE UNCHANGED obj
      BY <2>3
    <2> QED
      BY <1>8, <2>2, <2>3 DEF StartFlash, StatusFails
  <1>9. ASSUME NEW s \in Slots, WorkerStep(s)
        PROVE  UNCHANGED obj
    BY <1>9, WorkerFrame DEF apiVars
  <1>10. CASE Crash
    BY <1>10, NoSpecType DEF Crash, Created
  <1> QED
    BY <1>2, <1>3, <1>4, <1>5, <1>6, <1>7, <1>8, <1>9, <1>10 DEF Next, Reconcile, WorkerStep

\* The object is shown as it is.
LEMMA ViewIsObject ==
  ASSUME NEW o \in Object
  PROVE  View(o) = o /\ View(o) # NoObj
  <1>1. o = [gen |-> o.gen, spec |-> o.spec, reason |-> o.reason, obs |-> o.obs]
    BY DEF Object
  <1> QED
    BY <1>1, N3000NodeAssumption DEF View

\* An object that differs in the fields that a step of NodeObject changes.
LEMMA ObjectExcept ==
  ASSUME NEW old \in Object, NEW new \in Object
  PROVE  /\ new.gen = old.gen /\ new.spec = old.spec /\ new.obs = old.obs =>
               new = [old EXCEPT !.reason = new.reason]
         /\ new.gen = old.gen /\ new.spec = old.spec /\ new.obs = old.gen =>
               new = [old EXCEPT !.reason = new.reason, !.obs = old.gen]
         /\ new.gen = old.gen + 1 /\ new.reason = old.reason /\ new.obs = old.obs =>
               new = [old EXCEPT !.spec = new.spec, !.gen = old.gen + 1]
  BY DEF Object

\* Every step is one of NodeObject's, or leaves alone what it shows.
LEMMA StepIsSeen ==
  ASSUME ApiInv, Next
  PROVE  [Seen!ObjectNext]_(View(obj))
  <1>1. CASE Begins
    <2>1. View(obj) = obj /\ View(obj') = obj' /\ View(obj) # NoObj
      BY <1>1, ViewIsObject DEF Begins
    <2>2. obj' = [obj EXCEPT !.reason = "InProgress"] /\ obj.reason # "none"
      BY <1>1, ObjectExcept DEF Begins
    <2>3. Seen!Begin
      BY <2>1, <2>2 DEF Seen!Begin, View
    <2> QED
      BY <2>3 DEF Seen!ObjectNext
  <1>2. CASE Concludes
    <2>1. View(obj) = obj /\ View(obj') = obj' /\ View(obj) # NoObj
      BY <1>2, ViewIsObject DEF Concludes
    <2>2. obj' = [obj EXCEPT !.reason = obj'.reason, !.obs = obj.gen]
      BY <1>2, ObjectExcept, Zenon DEF Concludes
    <2>3. Seen!Conclude(obj'.reason)
      BY <2>1, <2>2, Zenon DEF Seen!Conclude, View
    <2> QED
      BY <1>2, <2>3 DEF Seen!ObjectNext, Concludes, Outcomes
  <1>3. CASE Created
    <2>1. PICK spec \in Specs : obj' = NewObject(spec)
      BY <1>3 DEF Created
    <2>2. View(obj) = NoObj /\ View(obj') = obj'
      BY <1>3, <2>1, NewObjectType, ViewIsObject DEF Created, View
    <2>3. Seen!Create(spec)
      BY <2>1, <2>2 DEF Seen!Create, Seen!Fresh, View, NewObject
    <2> QED
      BY <2>3 DEF Seen!ObjectNext, Specs
  <1>4. CASE Changed
    <2>1. View(obj) = obj /\ View(obj') = obj' /\ View(obj) # NoObj
      BY <1>4, ViewIsObject DEF Changed
    <2>2. obj' = [obj EXCEPT !.spec = obj'.spec, !.gen = obj.gen + 1] /\ obj'.spec # obj.spec
      BY <1>4, ObjectExcept, Zenon DEF Changed
    <2>3. Seen!Change(obj'.spec)
      BY <2>1, <2>2, Zenon DEF Seen!Change, View
    <2> QED
      BY <1>4, <2>3 DEF Seen!ObjectNext, Changed, Specs
  <1>5. CASE Deleted
    <2>1. Seen!Remove
      BY <1>5, ViewIsObject DEF Deleted, Seen!Remove, View
    <2> QED
      BY <2>1 DEF Seen!ObjectNext
  <1>6. CASE UNCHANGED obj
    BY <1>6 DEF View
  <1> QED
    BY <1>1, <1>2, <1>3, <1>4, <1>5, <1>6, ObjectSteps

\* To its readers the object looks as NodeObject says: the daemon writes
\* nothing but the status, and an outcome only for the object's generation.
THEOREM NodeObjectImplemented == Spec => ImplementsNodeObject
  <1>1. Init => Seen!ObjectInit
    <2> SUFFICES ASSUME Init PROVE Seen!ObjectInit
      OBVIOUS
    <2>1. NewObject(NoSpec) \in Object
      BY NewObjectType, NoSpecType
    <2> QED
      BY <2>1, ViewIsObject DEF Init, Seen!ObjectInit, Seen!Fresh, View, NewObject
  <1>2. TypeInv /\ [Next]_vars => [Seen!ObjectNext]_(View(obj))
    <2>1. CASE UNCHANGED vars
      BY <2>1 DEF vars, View
    <2> QED
      BY <2>1, StepIsSeen DEF TypeInv
  <1> QED
    BY <1>1, <1>2, TypeInvariance, PTL
       DEF Spec, ImplementsNodeObject, Seen!ObjectSpec, View

-----------------------------------------------------------------------------
(* The record of faults.                                                    *)

\* A fault that is recorded stays recorded.
LEMMA WithoutFault ==
  ASSUME FaultsType, NEW kinds, NEW kind, Fault(kind)
  PROVE  /\ Without(kinds)' => Without(kinds)
         /\ kind \in kinds => ~Without(kinds)'
  <1>1. /\ faults \in Seq(Faults) /\ kind \in Faults /\ faults' = Append(faults, kind)
    BY DEF FaultsType, Fault
  <1>2. /\ Len(faults) \in Nat /\ DOMAIN faults = 1..Len(faults)
        /\ DOMAIN faults' = 1..(Len(faults) + 1)
        /\ \A i \in 1..Len(faults) : faults'[i] = faults[i]
        /\ faults'[Len(faults) + 1] = kind
    <2>1. faults' \in Seq(Faults) /\ Len(faults') = Len(faults) + 1
      BY <1>1, AppendProperties
    <2> QED
      BY <1>1, <2>1, AppendProperties, LenProperties
  <1> QED
    BY <1>2 DEF Without

LEMMA WithoutStep ==
  ASSUME FaultsType, NEW kinds, Next, Without(kinds)'
  PROVE  Without(kinds)
  <1>1. CASE UNCHANGED faults
    BY <1>1 DEF Without
  <1> QED
    BY <1>1, FaultStep, WithoutFault

-----------------------------------------------------------------------------
(* No event is lost.                                                        *)

\* A cached object exists until its deletion is delivered, in the cached
\* version or a later one; a missing one is on its way to the queue.
CacheInv ==
    /\ sameObj /\ cache # NoObj => obj # NoObj /\ cache.gen <= obj.gen
    /\ sameObj /\ cache = NoObj /\ obj = NoObj => event \/ queued

\* The object has an outcome of its generation.
Handled == obj.obs = obj.gen /\ obj.reason \notin {"none", "InProgress"}

\* The informer has delivered the object's generation.
Fresh == sameObj /\ cache # NoObj /\ obj # NoObj /\ cache.gen = obj.gen

\* A delivered generation is handled, or on its way to the queue, or a
\* Reconcile that can write to the object works on it.  The daemon's own
\* writes, which the filter hides, are ahead of the cache only while that
\* Reconcile works or once the generation is handled.  "InProgress" with the
\* object's generation observed stands only while Reconcile works: the filter
\* would take it for handled.
HandledInv ==
    Without({"status", "crash"}) =>
        /\ Fresh => Handled \/ event \/ queued \/ (pc # "idle" /\ ncCurrent)
        /\ Fresh => Handled \/ cacheCurrent \/ (pc \notin {"idle", "check"} /\ ncCurrent)
        /\ obj # NoObj /\ obj.reason = "InProgress" /\ obj.obs = obj.gen =>
               pc \notin {"idle", "check"} /\ ncCurrent

QuietInv == CacheInv /\ HandledInv

LEMMA CacheInvStep ==
  ASSUME TypeInv, CacheInv, Next
  PROVE  CacheInv'
  <1>0. ApiInv /\ ApiInv'
    BY ApiInvStep DEF TypeInv
  <1>gen. ASSUME obj # NoObj, obj' # NoObj
          PROVE  obj'.gen >= obj.gen
    <2>1. obj.gen \in Nat
      BY <1>gen, <1>0, BoundsType DEF ApiInv, Object
    <2> QED
      BY <1>0, <1>gen, <2>1, ObjectSteps DEF Begins, Concludes, Created, Changed, Deleted
  <1>num. /\ obj # NoObj => obj.gen \in Nat
          /\ obj' # NoObj => obj'.gen \in Nat
          /\ cache # NoObj => cache.gen \in Nat
    BY <1>0, BoundsType DEF ApiInv, Object
  <1>1. CASE UNCHANGED <<cache, sameObj>> /\ (obj # NoObj => obj' # NoObj)
             /\ (event \/ queued => event' \/ queued')
    BY <1>1, <1>gen, <1>num DEF CacheInv
  <1>2. ASSUME NEW spec \in Specs, SetSpec(spec)
        PROVE  CacheInv'
    <2>1. obj' # NoObj
      BY <1>0, <1>2, SetSpecSteps, NewObjectType, N3000NodeAssumption DEF Created, Changed
    <2>2. UNCHANGED <<cache, sameObj, queueVars>>
      BY <1>2, Zenon DEF SetSpec
    <2> QED
      BY <1>1, <2>1, <2>2 DEF queueVars
  <1>3. CASE Delete
    BY <1>3 DEF Delete, CacheInv
  <1>4. CASE DeliverDelete
    BY <1>4 DEF DeliverDelete, CacheInv
  <1>5. CASE Deliver
    <2>1. sameObj /\ cache' = obj /\ UNCHANGED <<obj, queued>> /\ (event => event')
      BY <1>5 DEF Deliver
    <2>2. obj = NoObj => cache = NoObj
      BY <2>1 DEF CacheInv
    <2> QED
      BY <2>1, <2>2, <1>num DEF CacheInv
  <1>6. CASE HandleEvent
    BY <1>1, <1>6 DEF HandleEvent, apiVars
  <1>7. CASE CreateEmptyN3000Node
    <2>1. CASE obj = NoObj
      <3>1. obj' # NoObj /\ cache' = NoObj
        BY <1>7, <2>1, NewObjectType, NoSpecType DEF CreateEmptyN3000Node
      <3> QED
        BY <3>1 DEF CacheInv
    <2>2. CASE obj # NoObj
      BY <1>1, <1>7, <2>2 DEF CreateEmptyN3000Node
    <2> QED
      BY <2>1, <2>2
  <1>8. CASE Get
    BY <1>8 DEF Get, CacheInv, apiVars
  <1>9. CASE GetImage \/ GotImages \/ RunReturns \/ DrainFails \/ LoseLease
    BY <1>1, <1>9 DEF GetImage, GotImages, RunReturns, DrainFails, LoseLease, apiVars, queueVars
  <1>10. CASE CheckSpec \/ StartFlash \/ VerifyCards \/ VerifyNics \/ Report \/ CheckFails
    <2>1. obj # NoObj => obj' # NoObj
      BY <1>10, <1>0, ObjectSteps, N3000NodeAssumption
         DEF CheckSpec, StartFlash, VerifyCards, VerifyNics, Report, CheckFails, End,
             UpdateFlashCondition, UpdateStatus, StatusFails, ApiInv, Object
    <2>2. UNCHANGED <<cache, sameObj>> /\ (event => event') /\ (queued => queued')
      BY <1>10 DEF CheckSpec, StartFlash, VerifyCards, VerifyNics, Report, CheckFails, queueVars
    <2> QED
      BY <1>1, <2>1, <2>2
  <1>11. ASSUME NEW s \in Slots, WorkerStep(s)
         PROVE  CacheInv'
    BY <1>1, <1>11, WorkerFrame DEF apiVars, queueVars
  <1>12. CASE Crash
    <2>1. obj' # NoObj /\ cache' = obj'
      BY <1>12, NewObjectType, NoSpecType DEF Crash
    <2> QED
      BY <2>1, <1>num DEF CacheInv
  <1> QED
    BY <1>2, <1>3, <1>4, <1>5, <1>6, <1>7, <1>8, <1>9, <1>10, <1>11, <1>12
       DEF Next, Reconcile, Inform, WorkerStep

\* An outcome handles the object's generation, if it is written.
LEMMA OutcomeHandles ==
  ASSUME ApiInv, nc # NoObj, NEW reason \in Outcomes, End(reason)
  PROVE  /\ pc' = "idle"
         /\ \/ /\ obj' # NoObj /\ obj'.obs = obj'.gen /\ obj'.reason \notin {"none", "InProgress"}
               /\ UNCHANGED faults
            \/ ~ncCurrent /\ UNCHANGED <<obj, ncCurrent, cacheCurrent, faults>>
            \/ Fault("status")
  <1>1. reason \in Reasons /\ nc.gen \in 0..(MaxWrites + 1)
    BY DEF Outcomes, ApiInv, Object
  <1>2. CASE UpdateStatus(reason, nc.gen) /\ UNCHANGED faults
    BY <1>1, <1>2, UpdateStatusShape, EndShape DEF Outcomes
  <1> QED
    BY <1>1, <1>2, EndShape

LEMMA HandledInvStep ==
  ASSUME TypeInv, QuietInv, Next
  PROVE  HandledInv'
  <1> DEFINE Goal == /\ Fresh' => Handled' \/ event' \/ queued' \/ (pc' # "idle" /\ ncCurrent')
                     /\ Fresh' => \/ Handled' \/ cacheCurrent'
                                  \/ (pc' \notin {"idle", "check"} /\ ncCurrent')
                     /\ obj' # NoObj /\ obj'.reason = "InProgress" /\ obj'.obs = obj'.gen =>
                            pc' \notin {"idle", "check"} /\ ncCurrent'
  <1> SUFFICES ASSUME Without({"status", "crash"})'
               PROVE  Goal
    BY DEF HandledInv, Handled, Fresh
  <1>0. ApiInv /\ ApiInv' /\ CacheInv /\ Without({"status", "crash"})
    BY ApiInvStep, WithoutStep DEF TypeInv, QuietInv
  <1>inv. /\ Fresh => Handled \/ event \/ queued \/ (pc # "idle" /\ ncCurrent)
          /\ Fresh => Handled \/ cacheCurrent \/ (pc \notin {"idle", "check"} /\ ncCurrent)
          /\ obj # NoObj /\ obj.reason = "InProgress" /\ obj.obs = obj.gen =>
                pc \notin {"idle", "check"} /\ ncCurrent
    BY <1>0 DEF QuietInv, HandledInv
  <1>nofault. ~Fault("status") /\ ~Fault("crash")
    BY WithoutFault DEF TypeInv
  <1>num. /\ obj # NoObj => obj.gen \in Nat /\ obj.obs \in Nat /\ obj.obs <= obj.gen
          /\ obj' # NoObj => obj'.gen \in Nat
          /\ cache # NoObj => cache.gen \in Nat
    BY <1>0, BoundsType DEF ApiInv, Object
  \* Nothing changes but for what only helps.
  <1>frame. ASSUME UNCHANGED <<obj, cache, sameObj, cacheCurrent, ncCurrent>>,
                   event \/ queued => event' \/ queued',
                   pc # "idle" => pc' # "idle",
                   pc \notin {"idle", "check"} => pc' \notin {"idle", "check"}
            PROVE  Goal
    BY <1>frame, <1>inv DEF Fresh, Handled
  \* Reconcile ends with an outcome.
  <1>end. ASSUME nc # NoObj, pc # "idle", NEW reason \in Outcomes, End(reason),
                 UNCHANGED <<cache, sameObj, queueVars>>
          PROVE  Goal
    <2>1. CASE /\ obj' # NoObj /\ obj'.obs = obj'.gen
               /\ obj'.reason \notin {"none", "InProgress"}
      BY <2>1 DEF Handled
    <2>2. CASE ~ncCurrent /\ UNCHANGED <<obj, ncCurrent, cacheCurrent, faults>>
      BY <1>end, <2>2, <1>inv DEF queueVars, Fresh, Handled
    <2> QED
      BY <1>0, <1>end, <2>1, <2>2, <1>nofault, OutcomeHandles
  <1>1. ASSUME NEW spec \in Specs, SetSpec(spec)
        PROVE  Goal
    <2>0. UNCHANGED <<cache, sameObj>>
      BY <1>1, Zenon DEF SetSpec
    <2>1. ~Fresh'
      <3>1. CASE Created
        BY <1>0, <2>0, <3>1 DEF Created, Fresh, CacheInv
      <3>2. CASE Changed
        BY <1>0, <2>0, <1>num, <3>2, N3000NodeAssumption DEF Changed, Fresh, CacheInv
      <3> QED
        BY <1>0, <1>1, <3>1, <3>2, SetSpecSteps
    <2>2. obj' # NoObj => ~(obj'.reason = "InProgress" /\ obj'.obs = obj'.gen)
      <3>1. CASE Created
        BY <3>1 DEF Created, NewObject
      <3>2. CASE Changed
        BY <1>num, <3>2, N3000NodeAssumption DEF Changed
      <3> QED
        BY <1>0, <1>1, <3>1, <3>2, SetSpecSteps
    <2> QED
      BY <2>1, <2>2
  <1>2. CASE Delete
    BY <1>2 DEF Delete, Fresh
  <1>3. CASE DeliverDelete
    BY <1>3, <1>inv DEF DeliverDelete, reconcileVars, Fresh
  <1>4. CASE Deliver
    <2>1. /\ sameObj /\ cache' = obj /\ cacheCurrent' /\ (event => event')
          /\ (Passes(cache, obj) => event')
          /\ UNCHANGED <<obj, sameObj, pc, ncCurrent, queued>>
      BY <1>4 DEF Deliver, reconcileVars
    <2>2. obj # NoObj /\ ~Fresh => Passes(cache, obj) \/ Handled
             \/ (obj.reason = "InProgress" /\ obj.obs = obj.gen)
      BY <2>1 DEF Passes, Fresh, Handled
    <2> QED
      BY <2>1, <2>2, <1>inv DEF Fresh, Handled
  <1>5. CASE HandleEvent
    BY <1>frame, <1>5 DEF HandleEvent, apiVars, reconcileVars
  <1>6. CASE CreateEmptyN3000Node
    <2>1. ~Fresh'
      BY <1>6 DEF CreateEmptyN3000Node, Fresh
    <2>2. CASE obj = NoObj
      BY <1>6, <2>1, <2>2 DEF CreateEmptyN3000Node, NewObject
    <2>3. CASE obj # NoObj
      BY <1>6, <1>inv, <2>1, <2>3 DEF CreateEmptyN3000Node, reconcileVars
    <2> QED
      BY <2>2, <2>3
  <1>7. CASE Get
    <2>1. /\ pc = "idle" /\ pc' = "check" /\ (cacheCurrent => ncCurrent')
          /\ UNCHANGED <<obj, cache, sameObj, cacheCurrent>>
      BY <1>7 DEF Get, apiVars
    <2> QED
      BY <2>1, <1>inv DEF Fresh, Handled
  <1>8. CASE CheckSpec
    <2>1. nc # NoObj /\ {"Failed", "NotRequested"} \subseteq Outcomes
      BY <1>0, <1>8 DEF CheckSpec, ApiInv, Outcomes, Reasons
    <2> QED
      BY <1>8, <1>end, <2>1 DEF CheckSpec
  <1>9. CASE StartFlash
    <2>1. /\ pc = "check" /\ nc \in Object /\ UNCHANGED <<cache, sameObj, event>>
      BY <1>0, <1>9 DEF StartFlash, ApiInv
    <2>2. CASE pc' = "cards" /\ UNCHANGED <<obj, cacheCurrent, ncCurrent, queued>>
      BY <1>frame, <2>1, <2>2
    <2>3. CASE UpdateStatus("InProgress", nc.obs) /\ pc' = "cards"
      <3>1. ncCurrent' = TRUE
        BY <2>3 DEF UpdateStatus
      <3> QED
        BY <2>3, <3>1
    <2>4. CASE ~ncCurrent /\ queued' /\ UNCHANGED <<obj, ncCurrent, cacheCurrent>> /\ pc' = "idle"
      BY <2>1, <2>4, <1>inv DEF Fresh, Handled
    <2> QED
      BY <1>9, <1>nofault, <2>2, <2>3, <2>4 DEF StartFlash, StatusFails
  <1>10. CASE VerifyCards
    <2>1. nc # NoObj /\ "Failed" \in Outcomes /\ pc = "cards"
      BY <1>0, <1>10 DEF VerifyCards, ApiInv, Outcomes, Reasons
    <2>2. CASE End("Failed")
      BY <1>10, <1>end, <2>1, <2>2 DEF VerifyCards
    <2>3. CASE pc' = "images" /\ UNCHANGED <<obj, ncCurrent, cacheCurrent>>
      BY <1>10, <1>frame, <2>1, <2>3 DEF VerifyCards, queueVars
    <2> QED
      BY <1>10, <2>2, <2>3 DEF VerifyCards
  <1>11. CASE GetImage \/ GotImages
    BY <1>11, <1>frame DEF GetImage, GotImages, apiVars, queueVars
  <1>12. CASE VerifyNics
    <2>1. nc # NoObj /\ "Failed" \in Outcomes /\ pc = "nics"
      BY <1>0, <1>12 DEF VerifyNics, ApiInv, Outcomes, Reasons
    <2>2. CASE End("Failed")
      BY <1>12, <1>end, <2>1, <2>2 DEF VerifyNics
    <2>3. CASE pc' = "run" /\ UNCHANGED <<obj, ncCurrent, cacheCurrent>>
      BY <1>12, <1>frame, <2>1, <2>3 DEF VerifyNics, queueVars
    <2> QED
      BY <1>12, <2>2, <2>3 DEF VerifyNics, CallRun
  <1>13. CASE RunReturns \/ DrainFails \/ LoseLease
    BY <1>13, <1>frame DEF RunReturns, DrainFails, LoseLease, apiVars, queueVars
  <1>14. CASE Report
    <2>1. nc # NoObj /\ {"Unknown", "Failed", "Succeeded"} \subseteq Outcomes /\ pc = "report"
      BY <1>0, <1>14 DEF Report, ApiInv, Outcomes, Reasons
    <2> QED
      BY <1>14, <1>end, <2>1 DEF Report
  <1>15. CASE CheckFails
    <2>1. /\ nc # NoObj /\ "Failed" \in Outcomes /\ "Failed" \in Reasons /\ pc # "idle" /\ pc' = "idle"
          /\ nc.gen \in 0..(MaxWrites + 1)
          /\ UNCHANGED <<cache, sameObj, queueVars>>
      BY <1>0, <1>15, N3000NodeAssumption DEF CheckFails, ApiInv, Outcomes, Reasons, Object
    <2>2. CASE UpdateStatus("Failed", nc.gen)
      <3>1. /\ obj' # NoObj /\ obj'.obs = obj'.gen
            /\ obj'.reason \notin {"none", "InProgress"}
        BY <1>0, <2>1, <2>2, UpdateStatusShape
      <3> QED
        BY <3>1 DEF Handled
    <2>3. CASE ~ncCurrent /\ UNCHANGED <<obj, nc, ncCurrent, cacheCurrent>>
      BY <2>1, <2>3, <1>inv DEF queueVars, Fresh, Handled
    <2> QED
      BY <1>15, <2>2, <2>3 DEF CheckFails
  <1>16. ASSUME NEW s \in Slots, WorkerStep(s)
         PROVE  Goal
    BY <1>16, <1>frame, WorkerFrame DEF apiVars, queueVars, reconcileVars
  <1>17. ~Crash
    BY <1>nofault DEF Crash
  <1> QED
    BY <1>1, <1>2, <1>3, <1>4, <1>5, <1>6, <1>7, <1>8, <1>9, <1>10, <1>11, <1>12, <1>13, <1>14,
       <1>15, <1>16, <1>17 DEF Next, Reconcile, Inform, WorkerStep

LEMMA QuietInvInit == Init => QuietInv
  <1> SUFFICES ASSUME Init PROVE QuietInv
    OBVIOUS
  <1>1. /\ obj # NoObj /\ obj.gen = 1 /\ obj.reason = "none" /\ cache = obj /\ event /\ sameObj
        /\ cacheCurrent
    BY NewObjectType, NoSpecType DEF Init
  <1>2. CacheInv
    BY <1>1 DEF CacheInv
  <1>3. HandledInv
    BY <1>1 DEF HandledInv
  <1> QED
    BY <1>2, <1>3 DEF QuietInv

LEMMA QuietInvStep == TypeInv /\ QuietInv /\ [Next]_vars => QuietInv'
  <1> SUFFICES ASSUME TypeInv, QuietInv, [Next]_vars PROVE QuietInv'
    OBVIOUS
  <1>1. CASE Next
    BY <1>1, CacheInvStep, HandledInvStep DEF QuietInv
  <1>2. CASE UNCHANGED vars
    BY <1>2 DEF vars, QuietInv, CacheInv, HandledInv, Without, Fresh, Handled
  <1> QED
    BY <1>1, <1>2

\* Once all is quiet, the object exists and has an outcome for its latest
\* generation: the event filter, which hides the daemon's own writes and every
\* object that seems handled, drops no event that was needed.
THEOREM NoEventIsLost == Spec => []QuietMeansHandled
  <1>1. TypeInv /\ QuietInv => QuietMeansHandled
    <2> SUFFICES ASSUME TypeInv, QuietInv, Without({"status", "crash"}), Quiet
                 PROVE  /\ obj # NoObj
                        /\ obj.obs = obj.gen
                        /\ obj.reason \notin {"none", "InProgress"}
      BY DEF QuietMeansHandled
    <2>1. /\ pc = "idle" /\ ~queued /\ ~event /\ sameObj /\ cache = obj
      BY DEF Quiet, TypeInv, ApiInv
    <2>2. obj # NoObj
      BY <2>1 DEF QuietInv, CacheInv
    <2> QED
      BY <2>1, <2>2 DEF QuietInv, HandledInv, Fresh, Handled
  <1>2. Spec => []QuietInv
    BY QuietInvInit, QuietInvStep, TypeInvariance, PTL DEF Spec
  <1> QED
    BY <1>1, <1>2, TypeInvariance, PTL

-----------------------------------------------------------------------------
(* The files are the requested ones.                                        *)

\* Without a lost lease only the worker of the Run that Reconcile waits in is
\* alive.
OneWorker == Without({"lease"}) => \A s \in Slots : wpc[s] # "none" => s = cur /\ pc = "run"

\* The images of a spec's first entries are in the files.
ImagesThere(spec, to) == \A i \in 1..to : files[i] = spec.fpga[i].image

\* What has been downloaded is what Reconcile's request names, and a worker has
\* all that its request names.
FilesInv ==
    Without({"lease"}) =>
        /\ pc = "cards" => next = 1
        /\ pc = "images" => ImagesThere(nc.spec, next - 1)
        /\ pc = "nics" => ImagesThere(nc.spec, Len(nc.spec.fpga))
        /\ \A s \in Slots : wpc[s] # "none" =>
              /\ ImagesThere(wspec[s], Len(wspec[s].fpga))
              /\ wspec[s].fortville # NoFortville => package = wspec[s].fortville.firmware

WorkInv == OneWorker /\ FilesInv

\* A worker's step is one of a worker that is alive, and concerns no other.
LEMMA WorkerAlive ==
  ASSUME WorkerInv, NEW t \in Slots, WorkerStep(t)
  PROVE  wpc[t] # "none" /\ \A s \in Slots : s # t => wpc'[s] = wpc[s]
  BY DEF WorkerInv, WorkerStep, Worker, WorkFails, WorkerAt, Lead, Drained, Program, Rsu,
     ProgramDone, FlashMac, FlashMacMisread, PassOver, FlashDone, PowerCycle, PowerCycleFails,
     OrphanEnds

LEMMA OneWorkerStep ==
  ASSUME TypeInv, OneWorker, Next
  PROVE  OneWorker'
  <1> SUFFICES ASSUME Without({"lease"})'
               PROVE  \A s \in Slots : wpc'[s] # "none" => s = cur' /\ pc' = "run"
    BY DEF OneWorker
  <1>0. /\ Without({"lease"}) /\ ~Fault("lease")
        /\ \A s \in Slots : wpc[s] # "none" => s = cur /\ pc = "run"
        /\ wpc \in [Slots -> WorkerState] /\ cur \in Slots
    BY WithoutStep, WithoutFault DEF OneWorker, TypeInv, WorkerInv, WorkerState
  <1>1. CASE UNCHANGED <<wpc, cur>> /\ (pc = "run" => pc' = "run")
    BY <1>0, <1>1
  <1>2. ASSUME NEW t \in Slots, WorkerStep(t)
        PROVE  \A s \in Slots : wpc'[s] # "none" => s = cur' /\ pc' = "run"
    <2>1. UNCHANGED <<pc, cur>>
      BY <1>2, WorkerFrame DEF reconcileVars
    <2>2. wpc[t] # "none" /\ \A s \in Slots : s # t => wpc'[s] = wpc[s]
      BY <1>2, WorkerAlive DEF TypeInv
    <2> QED
      BY <1>0, <2>1, <2>2
  <1>3. CASE VerifyNics
    <2>1. CASE CallRun
      BY <1>0, <1>3, <2>1 DEF VerifyNics, CallRun
    <2>2. CASE UNCHANGED <<cur, workerVars>>
      BY <1>1, <1>3, <2>2 DEF VerifyNics, workerVars
    <2> QED
      BY <1>3, <2>1, <2>2 DEF VerifyNics
  <1>4. CASE RunReturns \/ DrainFails
    BY <1>0, <1>4 DEF RunReturns, DrainFails
  <1>5. CASE Crash
    BY <1>5 DEF Crash
  <1>6. ~LoseLease
    BY <1>0 DEF LoseLease
  <1>7. CASE Inform \/ CreateEmptyN3000Node \/ Get
    BY <1>1, <1>7 DEF Inform, Deliver, DeliverDelete, HandleEvent, CreateEmptyN3000Node, Get,
                      reconcileVars, workerVars
  <1>8. CASE CheckSpec \/ StartFlash \/ VerifyCards \/ GetImage \/ GotImages \/ Report \/ CheckFails
    BY <1>1, <1>8 DEF CheckSpec, StartFlash, VerifyCards, GetImage, GotImages, Report, CheckFails,
                      workerVars
  <1>9. CASE (\E spec \in Specs : SetSpec(spec)) \/ Delete
    BY <1>1, <1>9 DEF SetSpec, Delete, workerVars
  <1> QED
    BY <1>2, <1>3, <1>4, <1>5, <1>6, <1>7, <1>8, <1>9 DEF Next, Reconcile, WorkerStep

LEMMA FilesInvStep ==
  ASSUME TypeInv, WorkInv, Next
  PROVE  FilesInv'
  <1> DEFINE Mine == /\ pc' = "cards" => next' = 1
                     /\ pc' = "images" => ImagesThere(nc.spec, next - 1)'
                     /\ pc' = "nics" => ImagesThere(nc.spec, Len(nc.spec.fpga))'
             Theirs == \A s \in Slots : wpc'[s] # "none" =>
                           /\ ImagesThere(wspec[s], Len(wspec[s].fpga))'
                           /\ wspec'[s].fortville # NoFortville => package' = wspec'[s].fortville.firmware
  <1> SUFFICES ASSUME Without({"lease"})'
               PROVE  Mine /\ Theirs
    BY DEF FilesInv
  <1>0. /\ Without({"lease"})
        /\ \A s \in Slots : wpc[s] # "none" => s = cur /\ pc = "run"
    BY WithoutStep DEF WorkInv, OneWorker, TypeInv
  <1>inv. /\ pc = "cards" => next = 1
          /\ pc = "images" => ImagesThere(nc.spec, next - 1)
          /\ pc = "nics" => ImagesThere(nc.spec, Len(nc.spec.fpga))
          /\ \A s \in Slots : wpc[s] # "none" =>
                /\ ImagesThere(wspec[s], Len(wspec[s].fpga))
                /\ wspec[s].fortville # NoFortville => package = wspec[s].fortville.firmware
    BY <1>0 DEF WorkInv, FilesInv
  <1>mine. ASSUME UNCHANGED <<next, nc, files>>, pc' \in {"cards", "images", "nics"} => pc' = pc
           PROVE  Mine
    BY <1>mine, <1>inv DEF ImagesThere
  <1>none. ASSUME pc' \notin {"cards", "images", "nics"}
           PROVE  Mine
    BY <1>none
  <1>theirs. ASSUME UNCHANGED <<files, package, wspec>>,
                    \A s \in Slots : wpc'[s] # "none" => wpc[s] # "none"
             PROVE  Theirs
    BY <1>theirs, <1>inv DEF ImagesThere
  <1>1. CASE (\E spec \in Specs : SetSpec(spec)) \/ Delete
    <2>1. UNCHANGED <<next, nc, pc, fileVars, workerVars>>
      BY <1>1, Zenon DEF SetSpec, Delete
    <2> QED
      BY <2>1, <1>mine, <1>theirs DEF fileVars, workerVars
  <1>2. CASE Inform \/ CreateEmptyN3000Node
    BY <1>2, <1>mine, <1>theirs
       DEF Inform, Deliver, DeliverDelete, HandleEvent, CreateEmptyN3000Node, reconcileVars, fileVars,
           workerVars
  <1>3. CASE Get \/ CheckSpec \/ Report
    BY <1>3, <1>none, <1>theirs DEF Get, CheckSpec, Report, End, fileVars, workerVars
  <1>4. CASE StartFlash
    <2>1. next' = 1 /\ pc' \in {"cards", "idle"} /\ UNCHANGED <<fileVars, workerVars>>
      BY <1>4 DEF StartFlash
    <2> QED
      BY <2>1, <1>theirs DEF fileVars, workerVars
  <1>5. CASE VerifyCards
    <2>1. Theirs
      BY <1>5, <1>theirs DEF VerifyCards, fileVars, workerVars
    <2>2. CASE End("Failed")
      BY <2>1, <2>2, <1>none DEF End
    <2>3. CASE pc' = "images"
      <3>1. next' = 1
        BY <1>5, <1>inv DEF VerifyCards
      <3>2. 1..(next' - 1) = {}
        BY <3>1
      <3> QED
        BY <2>1, <2>3, <3>2 DEF ImagesThere
    <2> QED
      BY <1>5, <2>2, <2>3 DEF VerifyCards
  <1>6. CASE GetImage
    <2>1. /\ pc = "images" /\ pc' = "images" /\ nc.spec \in Specs /\ next \in Nat \ {0}
          /\ next <= Len(nc.spec.fpga) /\ next \in Positions
          /\ files' = [files EXCEPT ![next] = nc.spec.fpga[next].image]
          /\ next' = next + 1 /\ UNCHANGED <<nc, wpc>>
          /\ files \in [Positions -> Images \cup {NoURL}]
      BY <1>6, PositionsArePositive
         DEF GetImage, TypeInv, ApiInv, Object, DownloadInv, DeviceInv, workerVars
    <2>2. ASSUME NEW i \in 1..next
          PROVE  files'[i] = nc.spec.fpga[i].image
      <3>1. CASE i = next
        BY <2>1, <3>1
      <3>2. CASE i # next
        <4>1. i \in 1..(next - 1)
          BY <2>1, <3>2
        <4>2. files[i] = nc.spec.fpga[i].image
          BY <2>1, <4>1, <1>inv DEF ImagesThere
        <4>3. files'[i] = files[i]
          BY <2>1, <3>2
        <4> QED
          BY <4>2, <4>3
      <3> QED
        BY <3>1, <3>2
    <2>3. next' - 1 = next
      BY <2>1
    <2>4. ImagesThere(nc.spec, next - 1)'
      BY <2>1, <2>2, <2>3 DEF ImagesThere
    <2>5. Theirs
      BY <2>1, <1>0
    <2> QED
      BY <2>1, <2>4, <2>5
  <1>7. CASE GotImages
    <2>1. /\ pc = "images" /\ pc' = "nics" /\ nc.spec \in Specs /\ next \in Nat
          /\ next > Len(nc.spec.fpga) /\ UNCHANGED <<nc, fileVars, workerVars>>
      BY <1>7, PositionsArePositive DEF GotImages, TypeInv, ApiInv, Object, DownloadInv
    <2>2. \A i \in 1..Len(nc.spec.fpga) : i \in 1..(next - 1)
      BY <2>1, SpecType
    <2>3. ImagesThere(nc.spec, Len(nc.spec.fpga))'
      BY <2>1, <2>2, <1>inv DEF ImagesThere, fileVars
    <2> QED
      BY <2>1, <2>3, <1>theirs DEF fileVars, workerVars
  <1>8. CASE VerifyNics
    <2>1. pc = "nics" /\ UNCHANGED files
      BY <1>8 DEF VerifyNics
    <2>2. CASE End("Failed") /\ UNCHANGED <<package, workerVars>>
      BY <2>1, <2>2, <1>none, <1>theirs DEF End, workerVars
    <2>3. CASE CallRun /\ (nc.spec.fortville # NoFortville => package' = nc.spec.fortville.firmware)
      <3>1. PICK s \in Slots :
               /\ wpc[s] = "none"
               /\ wpc' = [wpc EXCEPT ![s] = "wait"]
               /\ wspec' = [wspec EXCEPT ![s] = nc.spec]
        BY <2>3 DEF CallRun
      <3>2. \A t \in Slots : wpc'[t] # "none" => t = s
        BY <1>0, <2>1, <3>1
      <3>3. wspec'[s] = nc.spec
        BY <3>1 DEF TypeInv, WorkerInv
      <3>4. ImagesThere(nc.spec, Len(nc.spec.fpga))
        BY <2>1, <1>inv
      <3>5. Theirs
        BY <2>1, <2>3, <3>2, <3>3, <3>4 DEF ImagesThere
      <3> QED
        BY <2>3, <3>5 DEF CallRun
    <2> QED
      BY <1>8, <2>2, <2>3 DEF VerifyNics
  <1>9. CASE CheckFails
    <2>1. pc # "run" /\ pc' = "idle" /\ UNCHANGED workerVars
      BY <1>9 DEF CheckFails
    <2> QED
      BY <2>1, <1>0 DEF workerVars
  <1>10. CASE RunReturns \/ DrainFails
    <2>1. pc' = "report" /\ wpc' = [wpc EXCEPT ![cur] = "none"] /\ UNCHANGED <<fileVars, wspec>>
      BY <1>10 DEF RunReturns, DrainFails
    <2>2. \A s \in Slots : wpc'[s] # "none" => wpc[s] # "none"
      BY <2>1 DEF TypeInv, WorkerInv
    <2> QED
      BY <2>1, <2>2, <1>none, <1>theirs DEF fileVars
  <1>11. CASE LoseLease
    BY <1>11, <1>none, <1>theirs DEF LoseLease, fileVars, workerVars
  <1>12. CASE Crash
    <2>1. pc' = "idle" /\ \A s \in Slots : wpc'[s] = "none"
      BY <1>12 DEF Crash
    <2> QED
      BY <2>1
  <1>13. ASSUME NEW t \in Slots, WorkerStep(t)
         PROVE  Mine /\ Theirs
    <2>1. UNCHANGED <<next, nc, pc, files, package, wspec>>
      BY <1>13, WorkerFrame DEF reconcileVars, fileVars
    <2>2. \A s \in Slots : wpc'[s] # "none" => wpc[s] # "none"
      BY <1>13, WorkerAlive DEF TypeInv
    <2> QED
      BY <2>1, <2>2, <1>mine, <1>theirs
  <1> QED
    BY <1>1, <1>2, <1>3, <1>4, <1>5, <1>6, <1>7, <1>8, <1>9, <1>10, <1>11, <1>12, <1>13
       DEF Next, Reconcile, WorkerStep

LEMMA WorkInvInit == Init => WorkInv
  BY DEF Init, WorkInv, OneWorker, FilesInv

LEMMA WorkInvStep == TypeInv /\ WorkInv /\ [Next]_vars => WorkInv'
  <1> SUFFICES ASSUME TypeInv, WorkInv, [Next]_vars PROVE WorkInv'
    OBVIOUS
  <1>1. CASE Next
    BY <1>1, OneWorkerStep, FilesInvStep DEF WorkInv
  <1>2. CASE UNCHANGED vars
    BY <1>2 DEF vars, WorkInv, OneWorker, FilesInv, ImagesThere, Without
  <1> QED
    BY <1>1, <1>2

\* The workers' invariant holds in every state.
THEOREM WorkInvariance == Spec => []WorkInv
  BY WorkInvInit, WorkInvStep, TypeInvariance, PTL DEF Spec

\* A worker programs a card with the image, and flashes a NIC with the package,
\* that its own request names: the files, which have the same names for every
\* request, are not replaced while it works.
THEOREM FilesStayIntact == Spec => []FilesAreIntact
  <1>1. TypeInv /\ WorkInv => FilesAreIntact
    <2> SUFFICES ASSUME TypeInv, WorkInv, Without({"lease"}), NEW s \in Slots
                 PROVE  /\ wpc[s] = "program" /\ wi[s] <= Len(wspec[s].fpga) =>
                              files[wi[s]] = Entry(s).image
                        /\ wpc[s] = "flash" => package = wspec[s].fortville.firmware
      BY DEF FilesAreIntact, FilesAreTheRequested
    <2>1. wpc[s] # "none" =>
              /\ ImagesThere(wspec[s], Len(wspec[s].fpga))
              /\ wspec[s].fortville # NoFortville => package = wspec[s].fortville.firmware
      BY DEF WorkInv, FilesInv
    <2>2. wpc[s] = "program" /\ wi[s] <= Len(wspec[s].fpga) => wi[s] \in 1..Len(wspec[s].fpga)
      BY EntryType DEF TypeInv
    <2> QED
      BY <2>1, <2>2 DEF ImagesThere, Entry, TypeInv, WorkerInv
  <1> QED
    BY <1>1, WorkInvariance, TypeInvariance, PTL

=============================================================================
