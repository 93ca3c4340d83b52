------------------------ MODULE OperatorStartupProofs ------------------------
(***************************************************************************)
(* Theorems about OperatorStartup, for any operators with any programs,    *)
(* any nodes, kernels and DaemonSets, and any number of faults.            *)
(***************************************************************************)
EXTENDS OperatorStartup, TLAPS, SequenceTheorems

-----------------------------------------------------------------------------
(* Types.                                                                   *)

Copies == [held : {"nothing", "current", "stale"}, foreign : BOOLEAN]

ProcessType ==
    /\ at \in [Operators -> Nat]
    /\ \A op \in Operators : at[op] <= Len(Program[op]) + 1
    /\ held \in [Operators -> {"nothing", "absent", "current", "stale"}]
    /\ kernel \in [Operators -> Kernels \cup {NoKernel}]
    /\ polls \in [Operators -> 0..Retries - 1]
    /\ \A op \in Operators : held[op] # "nothing" => At(op, "put")

ObjectType ==
    /\ object \in [DaemonSets -> Content \cup {Absent}]
    /\ allUp \subseteq {ds \in DaemonSets : object[ds] # Absent}
    /\ ready \in [DaemonSets -> SUBSET Nodes]
    /\ \A ds \in DaemonSets : object[ds] = Absent => ready[ds] = {}

NodeType ==
    /\ label \subseteq Nodes /\ foreign \subseteq Nodes /\ card \subseteq Nodes
    /\ copy \in [Nodes -> Copies]
    /\ \A n \in Nodes : copy[n].held # "nothing" => object[Labeler] # Absent
    /\ runs \in [Nodes -> Kernels]
    /\ faults \in 0..MaxFaults

\* The types, that a process holds what it has read of an object only while it
\* is at the step that puts it, and that a node is held by a labeler that exists.
TypeInv == ProcessType /\ ObjectType /\ NodeType

LEMMA TypeInvImpliesTypeOK == TypeInv => TypeOK
  <1> SUFFICES ASSUME TypeInv PROVE TypeOK
    OBVIOUS
  <1>1. ASSUME NEW op \in Operators
        PROVE  at[op] \in 0..Len(Program[op]) + 1
    <2>1. Len(Program[op]) \in Nat
      BY LenProperties, StartupAssumption
    <2> QED
      BY <2>1 DEF TypeInv, ProcessType
  <1> QED
    BY <1>1 DEF TypeInv, ProcessType, ObjectType, NodeType, Copies, TypeOK

\* A step of a program that puts or waits has a DaemonSet.
LEMMA StepShape ==
  ASSUME NEW op \in Operators, NEW what, At(op, what)
  PROVE  /\ at[op] \in 1..Len(Program[op]) /\ Len(Program[op]) \in Nat
         /\ what \in {"put", "wait"} => /\ Target(op) \in DaemonSets
                                        /\ Program[op][at[op]] = [do |-> what, ds |-> Target(op)]
  <1>1. Program[op] \in Seq(Step)
    BY StartupAssumption
  <1>2. at[op] \in 1..Len(Program[op]) /\ Len(Program[op]) \in Nat
    BY <1>1, LenProperties DEF At
  <1>3. Program[op][at[op]] \in Step
    BY <1>1, <1>2, ElementOfSeq
  <1> QED
    BY <1>2, <1>3 DEF Step, At, Target

\* What an operator wants is the content of a DaemonSet.
LEMMA WantedType ==
  ASSUME TypeInv, NEW op \in Operators, NEW ds
  PROVE  Wanted(op, ds) \in Content /\ Wanted(op, ds) # Absent /\ Wanted(op, ds).by = op
  <1>1. kernel[op] \in Kernels \cup {NoKernel}
    BY DEF TypeInv, ProcessType
  <1> QED
    BY <1>1, StartupAssumption DEF Wanted, Content

-----------------------------------------------------------------------------
(* Steps of a process.                                                      *)

\* A process that exits or goes on keeps its type.
LEMMA ExitType ==
  ASSUME TypeInv, NEW op \in Operators, Exit(op)
  PROVE  ProcessType'
  <1>1. 1 <= Len(Program[op]) + 1
    BY StartupAssumption, LenProperties
  <1>2. 0 \in 0..Retries - 1
    BY StartupAssumption
  <1>3. /\ at' \in [Operators -> Nat] /\ at' = [at EXCEPT ![op] = 1]
        /\ held' = [held EXCEPT ![op] = "nothing"]
        /\ kernel' = [kernel EXCEPT ![op] = NoKernel]
        /\ polls' = [polls EXCEPT ![op] = 0]
    BY DEF Exit, TypeInv, ProcessType
  <1> QED
    BY <1>1, <1>2, <1>3 DEF TypeInv, ProcessType, At

LEMMA AdvanceType ==
  ASSUME TypeInv, NEW op \in Operators, NEW what, At(op, what),
         at' = [at EXCEPT ![op] = @ + 1],
         polls' \in {polls, [polls EXCEPT ![op] = 0]},
         kernel' \in [Operators -> Kernels \cup {NoKernel}],
         held' \in [Operators -> {"nothing", "absent", "current", "stale"}],
         held'[op] = "nothing",
         \A o \in Operators : held'[o] # "nothing" => held[o] # "nothing"
  PROVE  ProcessType'
  <1>1. at[op] \in Nat /\ at[op] + 1 <= Len(Program[op]) + 1
    <2>1. at[op] \in 1..Len(Program[op]) /\ Len(Program[op]) \in Nat
      BY StepShape
    <2> QED
      BY <2>1
  <1>2. at' \in [Operators -> Nat] /\ \A o \in Operators : at'[o] <= Len(Program[o]) + 1
    <2>1. at \in [Operators -> Nat] /\ at[op] + 1 \in Nat
          /\ \A o \in Operators : at[o] <= Len(Program[o]) + 1
      BY <1>1 DEF TypeInv, ProcessType
    <2>2. \A o \in Operators : at'[o] = IF o = op THEN at[op] + 1 ELSE at[o]
      BY <2>1
    <2> QED
      BY <1>1, <2>1, <2>2
  <1>3. polls' \in [Operators -> 0..Retries - 1]
    <2>1. 0 \in 0..Retries - 1
      BY StartupAssumption
    <2> QED
      BY <2>1 DEF TypeInv, ProcessType
  <1>4. ASSUME NEW o \in Operators, held'[o] # "nothing"
        PROVE  At(o, "put")'
    <2>1. o # op /\ At(o, "put")
      BY <1>4 DEF TypeInv, ProcessType
    <2> QED
      BY <2>1 DEF TypeInv, ProcessType, At
  <1> QED
    BY <1>2, <1>3, <1>4 DEF ProcessType

\* A new version of an object makes copies stale, and nothing else.
LEMMA OutdatedType ==
  ASSUME TypeInv, NEW ds
  PROVE  /\ Outdated(ds) \in [Operators -> {"nothing", "absent", "current", "stale"}]
         /\ \A op \in Operators : Outdated(ds)[op] = "nothing" <=> held[op] = "nothing"
  BY DEF Outdated, TypeInv, ProcessType

\* What an operator stores is the content of a DaemonSet; only a labeler's pod
\* that is replaced forgets the node it has read.
LEMMA StoreType ==
  ASSUME TypeInv, NEW op \in Operators, NEW ds \in DaemonSets, Store(op, ds)
  PROVE  /\ ObjectType'
         /\ copy' \in [Nodes -> Copies]
         /\ \A n \in Nodes : copy'[n] \in {copy[n], NoCopy}
         /\ ready'[Labeler] \subseteq ready[Labeler]
         /\ object' = [object EXCEPT ![ds] = Wanted(op, ds)]
         /\ held' \in [Operators -> {"nothing", "absent", "current", "stale"}]
         /\ held'[op] = "nothing"
         /\ \A o \in Operators : held'[o] # "nothing" => held[o] # "nothing"
  <1>1. object' = [object EXCEPT ![ds] = Wanted(op, ds)]
    BY DEF Store
  <1>2. Wanted(op, ds) \in Content /\ Wanted(op, ds) # Absent
    BY WantedType
  <1>3. /\ object \in [DaemonSets -> Content \cup {Absent}]
        /\ ready \in [DaemonSets -> SUBSET Nodes]
        /\ allUp \subseteq {d \in DaemonSets : object[d] # Absent}
        /\ \A d \in DaemonSets : object[d] = Absent => ready[d] = {}
        /\ copy \in [Nodes -> Copies]
    BY DEF TypeInv, ObjectType, NodeType
  <1>4. /\ object' \in [DaemonSets -> Content \cup {Absent}]
        /\ \A d \in DaemonSets : object'[d] = IF d = ds THEN Wanted(op, ds) ELSE object[d]
    BY <1>1, <1>2, <1>3
  <1>5. \/ ready' = [ready EXCEPT ![ds] = {}]
        \/ ready' = ready /\ object[ds] # Absent
    BY DEF Store
  <1>6. ready' \in [DaemonSets -> SUBSET Nodes] /\ \A d \in DaemonSets : ready'[d] \subseteq ready[d]
    BY <1>3, <1>5
  <1>7. \A d \in DaemonSets : object'[d] = Absent => ready'[d] = {}
    BY <1>2, <1>3, <1>4, <1>6
  <1>8. allUp' \subseteq {d \in DaemonSets : object'[d] # Absent}
    <2>1. allUp' \subseteq allUp \cup {ds}
      BY DEF Store
    <2> QED
      BY <1>2, <1>3, <1>4, <2>1
  <1>9. copy' = copy \/ copy' = [n \in Nodes |-> NoCopy]
    BY DEF Store
  <1>10. NoCopy \in Copies
    BY DEF NoCopy, Copies
  <1>11. held' = [Outdated(ds) EXCEPT ![op] = "nothing"]
    BY DEF Store
  <1>12. /\ held' \in [Operators -> {"nothing", "absent", "current", "stale"}]
         /\ held'[op] = "nothing"
         /\ \A o \in Operators : held'[o] # "nothing" => held[o] # "nothing"
    <2>1. /\ Outdated(ds) \in [Operators -> {"nothing", "absent", "current", "stale"}]
          /\ \A o \in Operators : Outdated(ds)[o] = "nothing" <=> held[o] = "nothing"
      BY OutdatedType
    <2> QED
      BY <1>11, <2>1
  <1>13. copy' \in [Nodes -> Copies] /\ \A n \in Nodes : copy'[n] \in {copy[n], NoCopy}
    BY <1>3, <1>9, <1>10
  <1>14. ready'[Labeler] \subseteq ready[Labeler]
    <2>1. Labeler \in DaemonSets
      BY StartupAssumption
    <2> QED
      BY <1>6, <2>1
  <1>15. ObjectType'
    BY <1>4, <1>6, <1>7, <1>8 DEF ObjectType
  <1> QED
    BY <1>1, <1>12, <1>13, <1>14, <1>15

\* A process at work: what it does to itself.
LEMMA ProcessTypeStep ==
  ASSUME TypeInv, NEW op \in Operators, Process(op) \/ Stop(op)
  PROVE  ProcessType'
  <1>0. /\ held \in [Operators -> {"nothing", "absent", "current", "stale"}]
        /\ kernel \in [Operators -> Kernels \cup {NoKernel}]
        /\ polls \in [Operators -> 0..Retries - 1]
        /\ at \in [Operators -> Nat]
        /\ \A o \in Operators : at[o] <= Len(Program[o]) + 1
        /\ \A o \in Operators : held[o] # "nothing" => At(o, "put")
    BY DEF TypeInv, ProcessType
  <1>1. CASE Exit(op)
    BY <1>1, ExitType
  <1>2. ASSUME NEW what, At(op, what), Advance(op),
               held' \in [Operators -> {"nothing", "absent", "current", "stale"}],
               held'[op] = "nothing",
               \A o \in Operators : held'[o] # "nothing" => held[o] # "nothing"
        PROVE  ProcessType'
    BY <1>0, <1>2, AdvanceType DEF Advance
  <1>3. CASE Get(op)
    <2>1. At(op, "put") /\ held[op] = "nothing"
      BY <1>3 DEF Get
    <2>2. CASE Advance(op) /\ UNCHANGED held
      BY <1>0, <1>2, <2>1, <2>2
    <2>3. CASE /\ held' = [held EXCEPT ![op] =
                              IF object[Target(op)] = Absent THEN "absent" ELSE "current"]
               /\ UNCHANGED <<at, kernel, polls>>
      BY <1>0, <2>1, <2>3 DEF ProcessType, At
    <2> QED
      BY <1>3, <2>2, <2>3 DEF Get
  <1>4. CASE Put(op)
    <2>1. At(op, "put")
      BY <1>0, <1>4 DEF Put
    <2>2. CASE Store(op, Target(op)) /\ Advance(op)
      BY <1>2, <2>1, <2>2, StepShape, StoreType
    <2> QED
      BY <1>1, <1>4, <2>2 DEF Put
  <1>5. CASE Poll(op)
    <2>1. At(op, "wait")
      BY <1>5 DEF Poll
    <2>2. held[op] = "nothing"
      BY <1>0, <2>1 DEF At
    <2>3. CASE Advance(op) /\ UNCHANGED held
      BY <1>0, <1>2, <2>1, <2>2, <2>3
    <2>4. CASE /\ polls[op] + 1 # Retries
               /\ polls' = [polls EXCEPT ![op] = @ + 1] /\ UNCHANGED <<at, held, kernel>>
      <3>1. polls[op] + 1 \in 0..Retries - 1
        BY <1>0, <2>4, StartupAssumption
      <3>2. polls' \in [Operators -> 0..Retries - 1]
        BY <1>0, <2>4, <3>1
      <3> QED
        BY <1>0, <2>4, <3>2 DEF ProcessType, At
    <2> QED
      BY <1>1, <1>5, <2>3, <2>4 DEF Poll
  <1>6. CASE LookUpKernel(op)
    <2>1. At(op, "kernel")
      BY <1>6 DEF LookUpKernel
    <2>2. held[op] = "nothing"
      BY <1>0, <2>1 DEF At
    <2>3. ASSUME NEW n \in label, kernel' = [kernel EXCEPT ![op] = runs[n]],
                 at' = [at EXCEPT ![op] = @ + 1], UNCHANGED <<held, polls>>
          PROVE  ProcessType'
      <3>1. runs[n] \in Kernels
        BY DEF TypeInv, NodeType
      <3>2. kernel' \in [Operators -> Kernels \cup {NoKernel}]
        BY <1>0, <2>3, <3>1
      <3> QED
        BY <1>0, <2>1, <2>2, <2>3, <3>2, AdvanceType
    <2> QED
      BY <1>1, <1>6, <2>3 DEF LookUpKernel
  <1> QED
    BY <1>1, <1>3, <1>4, <1>5, <1>6 DEF Process, Stop

\* ... and to the objects.
LEMMA ProcessObjects ==
  ASSUME TypeInv, NEW op \in Operators, Process(op) \/ Stop(op)
  PROVE  /\ ObjectType' /\ NodeType'
         /\ \/ UNCHANGED <<objectVars, copy>>
            \/ /\ At(op, "put") /\ Store(op, Target(op)) /\ Advance(op) /\ Target(op) \in DaemonSets
               /\ UNCHANGED faults
         /\ UNCHANGED <<label, foreign, card, runs>>
  <1>0. faults \in 0..MaxFaults /\ MaxFaults \in Nat
    BY StartupAssumption DEF TypeInv, NodeType
  <1>1. UNCHANGED <<label, foreign, card, runs>>
    BY DEF Process, Stop, Get, Put, Poll, LookUpKernel, nodeVars, hardwareVars
  <1>2. CASE UNCHANGED <<objectVars, copy>> /\ faults' \in 0..MaxFaults
    BY <1>1, <1>2 DEF objectVars, TypeInv, ObjectType, NodeType
  <1>3. CASE Get(op) \/ Poll(op) \/ LookUpKernel(op)
    BY <1>0, <1>1, <1>2, <1>3 DEF Get, Poll, LookUpKernel, nodeVars
  <1>4. CASE Stop(op)
    <2>1. faults' \in 0..MaxFaults
      BY <1>0, <1>4 DEF Stop, Fault
    <2> QED
      BY <1>1, <1>2, <1>4, <2>1 DEF Stop, nodeVars
  <1>5. CASE Put(op)
    <2>1. CASE Store(op, Target(op)) /\ Advance(op)
      <3>1. At(op, "put") /\ UNCHANGED faults
        BY <1>5 DEF Put, TypeInv, ProcessType
      <3>2. Target(op) \in DaemonSets
        BY <3>1, StepShape
      <3>3. /\ ObjectType' /\ copy' \in [Nodes -> Copies]
            /\ \A n \in Nodes : copy'[n] \in {copy[n], NoCopy}
            /\ object' = [object EXCEPT ![Target(op)] = Wanted(op, Target(op))]
        BY <2>1, <3>2, StoreType
      <3>4. \A ds \in DaemonSets : object[ds] # Absent => object'[ds] # Absent
        BY <3>2, <3>3, WantedType DEF TypeInv, ObjectType
      <3>5. \A n \in Nodes : copy'[n].held # "nothing" => object'[Labeler] # Absent
        BY <3>3, <3>4, StartupAssumption DEF TypeInv, NodeType, NoCopy
      <3> QED
        BY <1>1, <2>1, <3>1, <3>2, <3>3, <3>5 DEF TypeInv, NodeType
    <2>2. CASE UNCHANGED <<objectVars, copy>>
      BY <1>0, <1>1, <1>2, <1>5, <2>2 DEF Put
    <2> QED
      BY <1>5, <2>1, <2>2 DEF Put
  <1> QED
    BY <1>3, <1>4, <1>5 DEF Process

LEMMA UninstallTypeStep ==
  ASSUME TypeInv, NEW op \in Operators, Uninstall(op)
  PROVE  /\ TypeInv'
         /\ \A n \in Nodes : copy'[n] \in {copy[n], NoCopy}
         /\ ready'[Labeler] \subseteq ready[Labeler]
  <1> DEFINE mine == {ds \in DaemonSets : object[ds] # Absent /\ object[ds].by = op}
  <1>0. TypeInv
    OBVIOUS
  <1>1. /\ object' = [ds \in DaemonSets |-> IF ds \in mine THEN Absent ELSE object[ds]]
        /\ ready' = [ds \in DaemonSets |-> IF ds \in mine THEN {} ELSE ready[ds]]
        /\ allUp' = allUp \ mine
        /\ copy' = IF Labeler \in mine THEN [n \in Nodes |-> NoCopy] ELSE copy
        /\ at' = [at EXCEPT ![op] = 0]
        /\ kernel' = [kernel EXCEPT ![op] = NoKernel]
        /\ polls' = [polls EXCEPT ![op] = 0]
        /\ held' = [o \in Operators |->
                         IF o = op THEN "nothing"
                         ELSE IF At(o, "put") /\ Target(o) \in mine THEN Outdated(Target(o))[o]
                         ELSE held[o]]
        /\ UNCHANGED <<label, foreign, card, runs>>
        /\ faults < MaxFaults /\ faults' = faults + 1
    BY DEF Uninstall, Fault, hardwareVars
  <1>2. ObjectType'
    BY <1>0, <1>1 DEF TypeInv, ObjectType
  <1>3. NodeType' /\ \A n \in Nodes : copy'[n] \in {copy[n], NoCopy}
    <2>1. NoCopy \in Copies
      BY DEF NoCopy, Copies
    <2>2. copy' \in [Nodes -> Copies] /\ \A n \in Nodes : copy'[n] \in {copy[n], NoCopy}
      BY <1>0, <1>1, <2>1 DEF TypeInv, NodeType
    <2>3. faults' \in 0..MaxFaults
      BY <1>0, <1>1, StartupAssumption DEF TypeInv, NodeType
    <2>4. \A n \in Nodes : copy'[n].held # "nothing" => object'[Labeler] # Absent
      BY <1>0, <1>1, StartupAssumption DEF TypeInv, NodeType, NoCopy
    <2> QED
      BY <1>0, <1>1, <2>2, <2>3, <2>4 DEF TypeInv, NodeType
  <1>4. ready'[Labeler] \subseteq ready[Labeler]
    BY <1>1, StartupAssumption
  <1>5. ProcessType'
    <2>1. /\ at' \in [Operators -> Nat]
          /\ kernel' \in [Operators -> Kernels \cup {NoKernel}]
          /\ polls' \in [Operators -> 0..Retries - 1]
      <3>1. 0 \in 0..Retries - 1
        BY StartupAssumption
      <3> QED
        BY <1>0, <1>1, <3>1 DEF TypeInv, ProcessType
    <2>2. \A o \in Operators : at'[o] <= Len(Program[o]) + 1
      <3>1. \A o \in Operators : Len(Program[o]) \in Nat
        BY StartupAssumption, LenProperties
      <3> QED
        BY <1>0, <1>1, <3>1 DEF TypeInv, ProcessType
    <2>3. ASSUME NEW o \in Operators
          PROVE  /\ held'[o] \in {"nothing", "absent", "current", "stale"}
                 /\ held'[o] # "nothing" => o # op /\ held[o] # "nothing"
      <3>1. /\ held[o] \in {"nothing", "absent", "current", "stale"}
            /\ Outdated(Target(o))[o] \in {"nothing", "absent", "current", "stale"}
            /\ Outdated(Target(o))[o] = "nothing" <=> held[o] = "nothing"
        BY <1>0, OutdatedType DEF TypeInv, ProcessType
      <3> HIDE DEF mine
      <3> QED
        BY <1>1, <3>1
    <2>4. held' \in [Operators -> {"nothing", "absent", "current", "stale"}]
      <3> HIDE DEF mine
      <3> QED
        BY <1>1, <2>3
    <2>5. \A o \in Operators : held'[o] # "nothing" => At(o, "put")'
      BY <1>0, <1>1, <2>3 DEF TypeInv, ProcessType, At
    <2> QED
      BY <2>1, <2>2, <2>4, <2>5 DEF ProcessType
  <1> QED
    BY <1>2, <1>3, <1>4, <1>5 DEF TypeInv

-----------------------------------------------------------------------------
(* Steps of the DaemonSets and of the nodes.                                *)

\* Nothing of an operator's own changes; a status that is brought up to date
\* makes copies of its object stale.
LEMMA ClusterProcess ==
  ASSUME TypeInv, UNCHANGED <<at, kernel, polls>>,
         UNCHANGED held \/ \E ds \in DaemonSets : held' = Outdated(ds)
  PROVE  ProcessType'
  <1>1. /\ held' \in [Operators -> {"nothing", "absent", "current", "stale"}]
        /\ \A o \in Operators : held'[o] # "nothing" => held[o] # "nothing"
    <2>1. CASE UNCHANGED held
      BY <2>1 DEF TypeInv, ProcessType
    <2>2. ASSUME NEW ds, held' = Outdated(ds)
          PROVE  /\ held' \in [Operators -> {"nothing", "absent", "current", "stale"}]
                 /\ \A o \in Operators : held'[o] # "nothing" => held[o] # "nothing"
      BY <2>2, OutdatedType
    <2> QED
      BY <2>1, <2>2
  <1> QED
    BY <1>1 DEF TypeInv, ProcessType, At

LEMMA ReportTypeStep ==
  ASSUME TypeInv, NEW ds \in DaemonSets, Report(ds)
  PROVE  TypeInv' /\ UNCHANGED <<object, ready, nodeVars, hardwareVars, faults>>
  <1>1. /\ object[ds] # Absent /\ held' = Outdated(ds)
        /\ allUp' = IF ds \in allUp THEN allUp \ {ds} ELSE allUp \cup {ds}
        /\ UNCHANGED <<at, kernel, polls, object, ready, nodeVars, hardwareVars, faults>>
    BY DEF Report
  <1>2. ObjectType'
    BY <1>1 DEF TypeInv, ObjectType
  <1>3. NodeType'
    BY <1>1 DEF TypeInv, NodeType, nodeVars, hardwareVars
  <1>4. ProcessType'
    BY <1>1, ClusterProcess
  <1> QED
    BY <1>1, <1>2, <1>3, <1>4 DEF TypeInv

LEMMA PodsReadyTypeStep ==
  ASSUME TypeInv, NEW ds \in DaemonSets, PodsReady(ds)
  PROVE  /\ TypeInv' /\ ready'[Labeler] = ready[Labeler]
         /\ UNCHANGED <<processVars, object, nodeVars, hardwareVars, faults>>
  <1> DEFINE fit == {n \in Desired(ds) : ds = Driver => object[ds].kernel = runs[n]}
  <1>1. /\ ds # Labeler /\ object[ds] # Absent /\ ready' = [ready EXCEPT ![ds] = @ \cup fit]
        /\ UNCHANGED <<processVars, object, allUp, nodeVars, hardwareVars, faults>>
    BY DEF PodsReady
  <1>2. fit \subseteq Nodes
    BY DEF Desired, TypeInv, NodeType
  <1> HIDE DEF fit
  <1>3. ObjectType'
    <2>1. ready' \in [DaemonSets -> SUBSET Nodes]
      BY <1>1, <1>2 DEF TypeInv, ObjectType
    <2> QED
      BY <1>1, <2>1 DEF TypeInv, ObjectType
  <1>4. NodeType'
    BY <1>1 DEF TypeInv, NodeType, nodeVars, hardwareVars
  <1>5. ProcessType'
    BY <1>1, ClusterProcess DEF processVars
  <1>6. ready'[Labeler] = ready[Labeler]
    BY <1>1, StartupAssumption DEF TypeInv, ObjectType
  <1> QED
    BY <1>1, <1>3, <1>4, <1>5, <1>6 DEF TypeInv

\* What a write to a node or its reboot changes.
LEMMA LabelerTypeStep ==
  ASSUME TypeInv, NEW n \in Nodes, LabelerGet(n) \/ LabelerPut(n) \/ LabelerFails(n)
  PROVE  TypeInv'
  <1>0. /\ copy \in [Nodes -> Copies] /\ label \subseteq Nodes /\ foreign \subseteq Nodes
        /\ card \subseteq Nodes /\ faults \in 0..MaxFaults /\ MaxFaults \in Nat
        /\ Labeler \in DaemonSets /\ ready \in [DaemonSets -> SUBSET Nodes]
    BY StartupAssumption DEF TypeInv, NodeType, ObjectType
  <1>1. /\ UNCHANGED <<processVars, object, allUp, card, runs>>
        /\ faults' \in 0..MaxFaults
    BY <1>0 DEF LabelerGet, LabelerPut, LabelerFails, Fault, objectVars, hardwareVars
  <1>2. copy' \in [Nodes -> Copies]
    <2>1. NoCopy \in Copies /\ [held |-> "current", foreign |-> n \in foreign] \in Copies
      BY DEF NoCopy, Copies
    <2>2. copy' = [copy EXCEPT ![n] = NoCopy]
          \/ copy' = [copy EXCEPT ![n] = [held |-> "current", foreign |-> n \in foreign]]
      BY DEF LabelerGet, LabelerPut, LabelerFails
    <2> QED
      BY <1>0, <2>1, <2>2
  <1>3. \A m \in Nodes : copy'[m].held # "nothing" => object'[Labeler] # Absent
    <2>1. \A m \in Nodes : m # n => copy'[m] = copy[m]
      BY <1>0 DEF LabelerGet, LabelerPut, LabelerFails
    <2>2. copy'[n].held # "nothing" => object[Labeler] # Absent
      BY <1>0 DEF LabelerGet, LabelerPut, LabelerFails, NoCopy
    <2> QED
      BY <1>1, <2>1, <2>2 DEF TypeInv, NodeType
  <1>4. CASE UNCHANGED <<label, foreign, ready>>
    BY <1>0, <1>1, <1>2, <1>3, <1>4, ClusterProcess DEF TypeInv, NodeType, ObjectType, processVars
  <1>5. CASE StoreNode(n) /\ LabelerPut(n)
    <2>1. label' \subseteq Nodes /\ foreign' \subseteq Nodes
      BY <1>0, <1>5 DEF StoreNode
    <2>2. object[Labeler] # Absent
      BY <1>5 DEF LabelerPut, TypeInv, NodeType
    <2>3. ASSUME NEW ds \in DaemonSets
          PROVE  ready'[ds] \subseteq Nodes /\ (object[ds] = Absent => ready'[ds] = {})
      <3>1. ready'[ds] = IF ds = Labeler THEN ready[ds] \cup {n}
                         ELSE IF n \in card THEN ready[ds] ELSE ready[ds] \ {n}
        BY <1>5 DEF StoreNode
      <3>2. ready[ds] \subseteq Nodes /\ (object[ds] = Absent => ready[ds] = {})
        BY DEF TypeInv, ObjectType
      <3> QED
        BY <2>2, <3>1, <3>2
    <2>4. ready' \in [DaemonSets -> SUBSET Nodes]
      BY <1>5, <2>3 DEF StoreNode
    <2>5. ObjectType'
      BY <1>1, <2>3, <2>4 DEF TypeInv, ObjectType
    <2> QED
      BY <1>0, <1>1, <1>2, <1>3, <2>1, <2>5, ClusterProcess DEF TypeInv, NodeType, processVars
  <1> QED
    BY <1>4, <1>5 DEF LabelerGet, LabelerPut, LabelerFails, objectVars

LEMMA NodeTypeStep ==
  ASSUME TypeInv, NEW n \in Nodes, SomebodyWrites(n) \/ Reboot(n)
  PROVE  TypeInv'
  <1>0. /\ copy \in [Nodes -> Copies] /\ label \subseteq Nodes /\ foreign \subseteq Nodes
        /\ card \subseteq Nodes /\ faults \in 0..MaxFaults /\ MaxFaults \in Nat
        /\ runs \in [Nodes -> Kernels] /\ ready \in [DaemonSets -> SUBSET Nodes]
    BY StartupAssumption DEF TypeInv, NodeType, ObjectType
  <1>1. UNCHANGED <<processVars, object, allUp, label>> /\ faults' = faults + 1 /\ faults < MaxFaults
    BY DEF SomebodyWrites, Reboot, Fault, objectVars
  <1>2. /\ copy' \in [Nodes -> Copies]
        /\ \A m \in Nodes : copy'[m].held # "nothing" => copy[m].held # "nothing"
    <2>1. CASE copy' = [copy EXCEPT ![n].held = IF @ = "nothing" THEN @ ELSE "stale"]
      BY <1>0, <2>1 DEF Copies
    <2>2. CASE copy' = [copy EXCEPT ![n] = NoCopy]
      BY <1>0, <2>2 DEF Copies, NoCopy
    <2> QED
      BY <2>1, <2>2 DEF SomebodyWrites, Reboot
  <1>3. /\ foreign' \subseteq Nodes /\ card' \subseteq Nodes
        /\ runs' \in [Nodes -> Kernels]
    BY <1>0 DEF SomebodyWrites, Reboot, hardwareVars
  <1>4. ready' \in [DaemonSets -> SUBSET Nodes] /\ \A ds \in DaemonSets : ready'[ds] \subseteq ready[ds]
    BY <1>0 DEF SomebodyWrites, Reboot, objectVars
  <1>5. ObjectType'
    BY <1>1, <1>4 DEF TypeInv, ObjectType
  <1>6. NodeType'
    BY <1>0, <1>1, <1>2, <1>3 DEF TypeInv, NodeType
  <1> QED
    BY <1>1, <1>5, <1>6, ClusterProcess DEF TypeInv, processVars

LEMMA TypeInvInit == Init => TypeInv
  <1> SUFFICES ASSUME Init PROVE TypeInv
    OBVIOUS
  <1>1. ProcessType
    <2>1. ASSUME NEW op \in Operators
          PROVE  1 <= Len(Program[op]) + 1
      <3>1. Len(Program[op]) \in Nat
        BY StartupAssumption, LenProperties
      <3> QED
        BY <3>1
    <2>2. 0 \in 0..Retries - 1
      BY StartupAssumption
    <2> QED
      BY <2>1, <2>2 DEF Init, ProcessType
  <1>2. ObjectType /\ NodeType
    BY StartupAssumption DEF Init, ObjectType, NodeType, Copies, NoCopy
  <1> QED
    BY <1>1, <1>2 DEF TypeInv

LEMMA TypeInvStep == TypeInv /\ [Next]_vars => TypeInv'
  <1> SUFFICES ASSUME TypeInv, [Next]_vars PROVE TypeInv'
    OBVIOUS
  <1>1. ASSUME NEW op \in Operators, Process(op) \/ Stop(op)
        PROVE  TypeInv'
    BY <1>1, ProcessTypeStep, ProcessObjects DEF TypeInv
  <1>2. ASSUME NEW op \in Operators, Uninstall(op)
        PROVE  TypeInv'
    BY <1>2, UninstallTypeStep
  <1>3. ASSUME NEW ds \in DaemonSets, RollOut(ds)
        PROVE  TypeInv'
    BY <1>3, ReportTypeStep, PodsReadyTypeStep DEF RollOut
  <1>4. CASE Label
    BY <1>4, LabelerTypeStep DEF Label
  <1>5. ASSUME NEW n \in Nodes, LabelerFails(n) \/ SomebodyWrites(n) \/ Reboot(n)
        PROVE  TypeInv'
    BY <1>5, LabelerTypeStep, NodeTypeStep
  <1>6. CASE UNCHANGED vars
    BY <1>6 DEF vars, TypeInv, ProcessType, ObjectType, NodeType, At
  <1> QED
    BY <1>1, <1>2, <1>3, <1>4, <1>5, <1>6 DEF Next

\* The invariant holds in every state.
THEOREM TypeInvariance == Spec => []TypeInv
  BY TypeInvInit, TypeInvStep, PTL DEF Spec

\* Every variable keeps its type; only DaemonSets that exist have pods or a
\* status.
THEOREM TypeCorrect == Spec => []TypeOK
  BY TypeInvariance, TypeInvImpliesTypeOK, PTL

-----------------------------------------------------------------------------
(* The labels.                                                              *)

\* A label becomes wrong only when its node comes back from a reboot, and then
\* the labeler's pod has to come up there again.
LEMMA LabelsStep ==
  ASSUME TypeInv, LabelsAreRight, Next
  PROVE  LabelsAreRight'
  <1>0. Labeler \in DaemonSets /\ ready \in [DaemonSets -> SUBSET Nodes]
    BY StartupAssumption DEF TypeInv, ObjectType
  <1>1. CASE UNCHANGED <<label, card>> /\ ready'[Labeler] \subseteq ready[Labeler]
    BY <1>1 DEF LabelsAreRight
  <1>2. ASSUME NEW op \in Operators, Process(op) \/ Stop(op)
        PROVE  LabelsAreRight'
    <2>1. ready'[Labeler] \subseteq ready[Labeler] /\ UNCHANGED <<label, card>>
      BY <1>2, ProcessObjects, StoreType DEF objectVars
    <2> QED
      BY <1>1, <2>1
  <1>3. ASSUME NEW op \in Operators, Uninstall(op)
        PROVE  LabelsAreRight'
    BY <1>1, <1>3, UninstallTypeStep DEF Uninstall, hardwareVars
  <1>4. ASSUME NEW ds \in DaemonSets, RollOut(ds)
        PROVE  LabelsAreRight'
    BY <1>1, <1>4, ReportTypeStep, PodsReadyTypeStep DEF RollOut, nodeVars, hardwareVars
  <1>5. ASSUME NEW n \in Nodes, LabelerGet(n) \/ LabelerPut(n) \/ LabelerFails(n)
        PROVE  LabelsAreRight'
    <2>1. UNCHANGED card
      BY <1>5 DEF LabelerGet, LabelerPut, LabelerFails, hardwareVars
    <2>2. CASE UNCHANGED <<label, ready>>
      BY <1>1, <2>1, <2>2
    <2>3. CASE StoreNode(n)
      <3>1. /\ label' = IF n \in card THEN label \cup {n} ELSE label \ {n}
            /\ ready'[Labeler] = ready[Labeler] \cup {n}
        BY <1>0, <2>3 DEF StoreNode
      <3> QED
        BY <2>1, <3>1 DEF LabelsAreRight
    <2> QED
      BY <1>5, <2>2, <2>3 DEF LabelerGet, LabelerPut, LabelerFails, objectVars
  <1>6. ASSUME NEW n \in Nodes, SomebodyWrites(n)
        PROVE  LabelsAreRight'
    BY <1>1, <1>6 DEF SomebodyWrites, objectVars, hardwareVars
  <1>7. ASSUME NEW n \in Nodes, Reboot(n)
        PROVE  LabelsAreRight'
    <2>1. /\ UNCHANGED label
          /\ ready'[Labeler] = ready[Labeler] \ {n}
          /\ \A m : m # n => (m \in card' <=> m \in card)
      BY <1>0, <1>7 DEF Reboot
    <2> QED
      BY <2>1 DEF LabelsAreRight
  <1> QED
    BY <1>2, <1>3, <1>4, <1>5, <1>6, <1>7 DEF Next, Label

\* Where the labeler's pod is up, the label says whether the node has a card,
\* whoever else wrote the node meanwhile.
THEOREM LabelsStayRight == Spec => []LabelsAreRight
  <1>1. Init => LabelsAreRight
    BY StartupAssumption DEF Init, LabelsAreRight
  <1>2. TypeInv /\ LabelsAreRight /\ [Next]_vars => LabelsAreRight'
    <2>1. UNCHANGED vars /\ LabelsAreRight => LabelsAreRight'
      BY DEF vars, LabelsAreRight
    <2> QED
      BY <2>1, LabelsStep
  <1> QED
    BY <1>1, <1>2, TypeInvariance, PTL DEF Spec

\* A node object that can be written back has the labels of others as they are.
CopyInv ==
    \A n \in Nodes : copy[n].held = "current" => (copy[n].foreign <=> n \in foreign)

\* Nobody but somebody else changes their labels.
LEMMA CopyStep ==
  ASSUME TypeInv, CopyInv, Next
  PROVE  /\ CopyInv'
         /\ UNCHANGED faults => UNCHANGED foreign
  <1>0. /\ copy \in [Nodes -> Copies]
        /\ NoCopy.held # "current"
        /\ faults \in Nat
    BY DEF TypeInv, NodeType, NoCopy
  <1>1. CASE UNCHANGED foreign /\ \A n \in Nodes : copy'[n] \in {copy[n], NoCopy}
    BY <1>0, <1>1 DEF CopyInv
  <1>2. ASSUME NEW op \in Operators, Process(op) \/ Stop(op)
        PROVE  UNCHANGED foreign /\ \A n \in Nodes : copy'[n] \in {copy[n], NoCopy}
    BY <1>2, ProcessObjects, StoreType
  <1>3. ASSUME NEW op \in Operators, Uninstall(op)
        PROVE  UNCHANGED foreign /\ \A n \in Nodes : copy'[n] \in {copy[n], NoCopy}
    BY <1>3, UninstallTypeStep DEF Uninstall
  <1>4. ASSUME NEW ds \in DaemonSets, RollOut(ds)
        PROVE  UNCHANGED <<foreign, copy>>
    BY <1>4, ReportTypeStep, PodsReadyTypeStep DEF RollOut, nodeVars
  <1>5. ASSUME NEW n \in Nodes, LabelerGet(n)
        PROVE  CopyInv' /\ UNCHANGED foreign
    <2>1. UNCHANGED foreign /\ copy' = [copy EXCEPT ![n] = [held |-> "current", foreign |-> n \in foreign]]
      BY <1>5 DEF LabelerGet
    <2>2. \A m \in Nodes : m # n => copy'[m] = copy[m]
      BY <1>0, <2>1
    <2>3. copy'[n].foreign = (n \in foreign)
      BY <1>0, <2>1
    <2>4. \A m \in Nodes : copy'[m].held = "current" => (copy'[m].foreign <=> m \in foreign)
      BY <2>2, <2>3 DEF CopyInv
    <2> QED
      BY <2>1, <2>4 DEF CopyInv
  <1>6. ASSUME NEW n \in Nodes, LabelerPut(n) \/ LabelerFails(n)
        PROVE  UNCHANGED foreign /\ \A m \in Nodes : copy'[m] \in {copy[m], NoCopy}
    <2>1. copy' = [copy EXCEPT ![n] = NoCopy]
      BY <1>6 DEF LabelerPut, LabelerFails
    <2>2. CASE copy[n].held = "current" /\ StoreNode(n)
      <3>1. foreign' = IF copy[n].foreign THEN foreign \cup {n} ELSE foreign \ {n}
        BY <2>2 DEF StoreNode
      <3>2. copy[n].foreign <=> n \in foreign
        BY <2>2 DEF CopyInv
      <3>3. CASE copy[n].foreign
        BY <1>0, <2>1, <3>1, <3>2, <3>3
      <3>4. CASE ~copy[n].foreign
        BY <1>0, <2>1, <3>1, <3>2, <3>4
      <3> QED
        BY <3>3, <3>4
    <2> QED
      BY <1>0, <1>6, <2>1, <2>2 DEF LabelerPut, LabelerFails
  <1>7. ASSUME NEW n \in Nodes, SomebodyWrites(n)
        PROVE  CopyInv' /\ faults' # faults
    <2>1. /\ faults' = faults + 1
          /\ copy' = [copy EXCEPT ![n].held = IF @ = "nothing" THEN @ ELSE "stale"]
          /\ \A m : m # n => (m \in foreign' <=> m \in foreign)
      BY <1>7 DEF SomebodyWrites, Fault
    <2>2. copy'[n].held # "current" /\ \A m \in Nodes : m # n => copy'[m] = copy[m]
      BY <1>0, <2>1 DEF Copies
    <2> QED
      BY <1>0, <2>1, <2>2 DEF CopyInv
  <1>8. ASSUME NEW n \in Nodes, Reboot(n)
        PROVE  UNCHANGED foreign /\ \A m \in Nodes : copy'[m] \in {copy[m], NoCopy}
    BY <1>0, <1>8 DEF Reboot
  <1> QED
    BY <1>1, <1>2, <1>3, <1>4, <1>5, <1>6, <1>7, <1>8 DEF Next, Label

\* Labelling a node never undoes what somebody else has written to it.
THEOREM ForeignLabelsAreKept == Spec => ForeignIsKept
  <1>1. Init => CopyInv
    BY DEF Init, CopyInv, NoCopy
  <1>2. TypeInv /\ CopyInv /\ [Next]_vars => CopyInv'
    <2>1. UNCHANGED vars /\ CopyInv => CopyInv'
      BY DEF vars, CopyInv
    <2> QED
      BY <2>1, CopyStep
  <1>3. TypeInv /\ CopyInv /\ [Next]_vars => [UNCHANGED faults => UNCHANGED foreign]_vars
    BY CopyStep
  <1> QED
    BY <1>1, <1>2, <1>3, TypeInvariance, PTL DEF Spec, ForeignIsKept

-----------------------------------------------------------------------------
(* What an operator has deployed.                                           *)

SomeoneIsGone == \E p \in Operators : at[p] = 0

\* A DaemonSet that the operator has put, and not the other one, is as it wants
\* it; one they share is there until one of them is removed.
Deployed(op, ds) ==
    IF Shared(ds) THEN object[ds] # Absent \/ SomeoneIsGone ELSE object[ds] = Wanted(op, ds)

DeployedInv ==
    \A op \in Operators : \A i \in DOMAIN Program[op] : \A ds \in DaemonSets :
        i < at[op] /\ Program[op][i] = [do |-> "put", ds |-> ds] => Deployed(op, ds)

\* What a process can do to its place in the program, its kernel and the objects.
LEMMA ProcessShape ==
  ASSUME TypeInv, NEW op \in Operators, Process(op) \/ Stop(op)
  PROVE  /\ at[op] # 0
         /\ \A o \in Operators : o # op => at'[o] = at[o] /\ kernel'[o] = kernel[o]
         /\ \/ at'[op] = 1 /\ UNCHANGED object
            \/ UNCHANGED <<at, kernel, object>>
            \/ /\ At(op, "put") /\ at'[op] = at[op] + 1 /\ UNCHANGED kernel
               /\ Target(op) \in DaemonSets
               /\ \A ds \in DaemonSets : object'[ds] = IF ds = Target(op) THEN Wanted(op, ds)
                                                       ELSE object[ds]
            \/ At(op, "wait") /\ at'[op] = at[op] + 1 /\ UNCHANGED <<kernel, object>>
            \/ At(op, "kernel") /\ at'[op] = at[op] + 1 /\ UNCHANGED object
  <1>0. /\ at \in [Operators -> Nat] /\ kernel \in [Operators -> Kernels \cup {NoKernel}]
        /\ object \in [DaemonSets -> Content \cup {Absent}]
        /\ held[op] # "nothing" => At(op, "put")
    BY DEF TypeInv, ProcessType, ObjectType
  <1>1. Exit(op) => /\ at'[op] = 1
                    /\ \A o \in Operators : o # op => at'[o] = at[o] /\ kernel'[o] = kernel[o]
    BY <1>0 DEF Exit
  <1>2. Advance(op) => /\ at'[op] = at[op] + 1 /\ UNCHANGED kernel
                       /\ \A o \in Operators : o # op => at'[o] = at[o]
    BY <1>0 DEF Advance
  <1>3. \A what : At(op, what) => at[op] # 0
    <2> SUFFICES ASSUME NEW what, At(op, what) PROVE at[op] # 0
      OBVIOUS
    <2>1. at[op] \in 1..Len(Program[op]) /\ Len(Program[op]) \in Nat
      BY StepShape
    <2> QED
      BY <2>1
  <1>4. At(op, "put") => Target(op) \in DaemonSets
    BY StepShape
  <1>5. CASE Get(op)
    <2>1. At(op, "put") /\ UNCHANGED object
      BY <1>5 DEF Get, objectVars
    <2>2. CASE UNCHANGED <<at, held, kernel, polls>>
      BY <1>3, <2>1, <2>2
    <2>3. CASE object[Target(op)] = Wanted(op, Target(op)) /\ Advance(op)
      BY <1>2, <1>3, <1>4, <2>1, <2>3
    <2> QED
      BY <1>3, <1>5, <2>1, <2>3 DEF Get
  <1>6. CASE Put(op)
    <2>1. At(op, "put")
      BY <1>0, <1>6 DEF Put
    <2>2. CASE Store(op, Target(op)) /\ Advance(op)
      <3>1. object' = [object EXCEPT ![Target(op)] = Wanted(op, Target(op))]
        BY <2>2 DEF Store
      <3>2. \A ds \in DaemonSets : object'[ds] = IF ds = Target(op) THEN Wanted(op, ds) ELSE object[ds]
        BY <1>0, <3>1
      <3> QED
        BY <1>2, <1>3, <1>4, <2>1, <2>2, <3>2
    <2>3. CASE Exit(op) /\ UNCHANGED object
      BY <1>1, <1>3, <2>1, <2>3
    <2> QED
      BY <1>6, <2>2, <2>3 DEF Put, objectVars
  <1>7. CASE Poll(op)
    <2>1. At(op, "wait") /\ UNCHANGED object
      BY <1>7 DEF Poll, objectVars
    <2> QED
      BY <1>1, <1>2, <1>3, <1>7, <2>1 DEF Poll
  <1>8. CASE LookUpKernel(op)
    <2>1. At(op, "kernel") /\ UNCHANGED object
      BY <1>8 DEF LookUpKernel, objectVars
    <2>2. ASSUME NEW n, kernel' = [kernel EXCEPT ![op] = runs[n]], at' = [at EXCEPT ![op] = @ + 1]
          PROVE  /\ at'[op] = at[op] + 1
                 /\ \A o \in Operators : o # op => at'[o] = at[o] /\ kernel'[o] = kernel[o]
      BY <1>0, <2>2
    <2> QED
      BY <1>1, <1>3, <1>8, <2>1, <2>2 DEF LookUpKernel
  <1>9. CASE Stop(op)
    BY <1>1, <1>9 DEF Stop, objectVars
  <1> QED
    BY <1>5, <1>6, <1>7, <1>8, <1>9 DEF Process

\* What has been deployed stays so for an operator that the step does not
\* concern.
LEMMA DeployedFrame ==
  ASSUME TypeInv, NEW o \in Operators, NEW ds \in DaemonSets, Deployed(o, ds),
         \A p \in Operators : at[p] = 0 => at'[p] = 0,
         object'[ds] = object[ds], ds = Driver => kernel'[o] = kernel[o]
  PROVE  Deployed(o, ds)'
  BY DEF Deployed, SomeoneIsGone, Shared, Wanted

LEMMA ProcessKeepsDeployed ==
  ASSUME TypeInv, DeployedInv, NEW op \in Operators, Process(op) \/ Stop(op)
  PROVE  DeployedInv'
  <1> SUFFICES ASSUME NEW o \in Operators, NEW i \in DOMAIN Program[o], NEW ds \in DaemonSets,
                      i < at'[o], Program[o][i] = [do |-> "put", ds |-> ds]
               PROVE  Deployed(o, ds)'
    BY DEF DeployedInv
  <1>0. /\ at \in [Operators -> Nat] /\ i \in Nat /\ i >= 1
        /\ \A p \in Operators : at[p] = 0 => at'[p] = 0
    <2>1. i \in 1..Len(Program[o]) /\ Len(Program[o]) \in Nat
      BY StartupAssumption, LenProperties
    <2>2. at \in [Operators -> Nat] /\ at[op] # 0 /\ \A p \in Operators : p # op => at'[p] = at[p]
      BY ProcessShape DEF TypeInv, ProcessType
    <2> QED
      BY <2>1, <2>2
  <1>1. i < at[o] => Deployed(o, ds)
    BY DEF DeployedInv
  <1>2. Deploys(o, ds)
    BY DEF Deploys
  <1>3. ASSUME NEW p \in Operators, object'[ds] = Wanted(p, ds), p = o => UNCHANGED kernel,
               p # o => Deploys(p, ds)
        PROVE  Deployed(o, ds)'
    <2>1. Wanted(p, ds) # Absent
      BY WantedType
    <2>2. CASE p = o
      BY <1>3, <2>1, <2>2 DEF Deployed, SomeoneIsGone, Shared, Wanted
    <2>3. CASE p # o
      <3>1. Shared(ds)
        BY <1>2, <1>3, <2>3 DEF Shared
      <3> QED
        BY <1>3, <2>1, <3>1 DEF Deployed, Shared, Deploys
    <2> QED
      BY <2>2, <2>3
  <1>4. At(op, "put") => Deploys(op, Target(op))
    BY StepShape DEF Deploys, At
  <1>5. CASE o # op
    <2>1. at'[o] = at[o] /\ kernel'[o] = kernel[o]
      BY <1>5, ProcessShape
    <2>2. object'[ds] = object[ds] \/ (object'[ds] = Wanted(op, ds) /\ Deploys(op, ds))
      BY <1>4, ProcessShape
    <2> QED
      BY <1>0, <1>1, <1>3, <1>5, <2>1, <2>2, DeployedFrame
  <1>6. CASE o = op
    <2>1. ~(at'[op] = 1)
      BY <1>0, <1>6
    <2>2. CASE UNCHANGED <<at, kernel, object>>
      BY <1>0, <1>1, <1>6, <2>2, DeployedFrame
    <2>3. ASSUME NEW what, At(op, what), at'[op] = at[op] + 1
          PROVE  i < at[op] \/ (i = at[op] /\ what = "put" /\ ds = Target(op))
      <3>1. i <= at[op]
        BY <1>0, <1>6, <2>3
      <3>2. CASE i = at[op]
        <4>1. Program[op][at[op]].do = what /\ Program[op][at[op]].do = "put"
              /\ Program[op][at[op]].ds = ds
          BY <1>6, <2>3, <3>2 DEF At
        <4> QED
          BY <3>2, <4>1 DEF Target
      <3> QED
        BY <1>0, <3>1, <3>2
    <2>4. CASE /\ At(op, "put") /\ at'[op] = at[op] + 1 /\ UNCHANGED kernel
               /\ \A d \in DaemonSets : object'[d] = IF d = Target(op) THEN Wanted(op, d)
                                                     ELSE object[d]
      <3>1. CASE ds = Target(op)
        BY <1>3, <1>6, <2>4, <3>1
      <3>2. CASE ds # Target(op)
        BY <1>0, <1>1, <1>6, <2>3, <2>4, <3>2, DeployedFrame
      <3> QED
        BY <3>1, <3>2
    <2>5. CASE At(op, "wait") /\ at'[op] = at[op] + 1 /\ UNCHANGED <<kernel, object>>
      BY <1>0, <1>1, <1>6, <2>3, <2>5, DeployedFrame
    <2>6. CASE At(op, "kernel") /\ at'[op] = at[op] + 1 /\ UNCHANGED object
      <3>1. i < at[op]
        BY <2>3, <2>6
      <3>2. ds # Driver
        BY <1>6, <2>6, <3>1, StartupAssumption DEF At
      <3> QED
        BY <1>0, <1>1, <1>6, <2>6, <3>1, <3>2, DeployedFrame
    <2> QED
      BY <2>1, <2>2, <2>4, <2>5, <2>6, ProcessShape
  <1> QED
    BY <1>5, <1>6

LEMMA DeployedInvStep ==
  ASSUME TypeInv, DeployedInv, Next
  PROVE  DeployedInv'
  <1>1. CASE UNCHANGED <<at, kernel, object>>
    BY <1>1 DEF DeployedInv, Deployed, SomeoneIsGone, Shared, Wanted
  <1>2. ASSUME NEW op \in Operators, Uninstall(op)
        PROVE  DeployedInv'
    <2> SUFFICES ASSUME NEW o \in Operators, NEW i \in DOMAIN Program[o], NEW ds \in DaemonSets,
                        i < at'[o], Program[o][i] = [do |-> "put", ds |-> ds]
                 PROVE  Deployed(o, ds)'
      BY DEF DeployedInv
    <2>0. i \in Nat /\ at \in [Operators -> Nat] /\ kernel \in [Operators -> Kernels \cup {NoKernel}]
      <3>1. i \in 1..Len(Program[o]) /\ Len(Program[o]) \in Nat
        BY StartupAssumption, LenProperties
      <3> QED
        BY <3>1 DEF TypeInv, ProcessType
    <2>1. /\ at' = [at EXCEPT ![op] = 0] /\ kernel' = [kernel EXCEPT ![op] = NoKernel]
          /\ object'[ds] = IF object[ds] # Absent /\ object[ds].by = op THEN Absent ELSE object[ds]
      BY <1>2 DEF Uninstall
    <2>2. o # op /\ at'[o] = at[o] /\ kernel'[o] = kernel[o] /\ at'[op] = 0
      BY <2>0, <2>1
    <2>3. Deployed(o, ds)
      BY <2>2 DEF DeployedInv
    <2>4. CASE Shared(ds)
      BY <2>2, <2>4 DEF Deployed, SomeoneIsGone, Shared
    <2>5. CASE ~Shared(ds)
      <3>1. object[ds] = Wanted(o, ds) /\ Wanted(o, ds).by = o
        BY <2>3, <2>5, WantedType DEF Deployed
      <3>2. object'[ds] = object[ds]
        BY <2>1, <2>2, <3>1
      <3> QED
        BY <2>2, <2>5, <3>1, <3>2 DEF Deployed, Shared, Wanted
    <2> QED
      BY <2>4, <2>5
  <1>3. ASSUME NEW op \in Operators, Process(op) \/ Stop(op)
        PROVE  DeployedInv'
    BY <1>3, ProcessKeepsDeployed
  <1>4. ASSUME NEW ds \in DaemonSets, RollOut(ds)
        PROVE  DeployedInv'
    BY <1>1, <1>4 DEF RollOut, Report, PodsReady, processVars
  <1>5. ASSUME NEW n \in Nodes, LabelerGet(n) \/ LabelerPut(n) \/ LabelerFails(n)
                               \/ SomebodyWrites(n) \/ Reboot(n)
        PROVE  DeployedInv'
    BY <1>1, <1>5 DEF LabelerGet, LabelerPut, LabelerFails, SomebodyWrites, Reboot, processVars,
                      objectVars
  <1> QED
    BY <1>2, <1>3, <1>4, <1>5 DEF Next, Label

\* An operator whose controllers run has its DaemonSets deployed as it wants
\* them, whatever happened on the way.
THEOREM RunningHasDeployed == Spec => []RunningIsDeployed
  <1>1. Init => DeployedInv
    <2> SUFFICES ASSUME Init, NEW op \in Operators, NEW i \in DOMAIN Program[op], i < at[op]
                 PROVE  FALSE
      BY DEF DeployedInv
    <2>1. i \in 1..Len(Program[op]) /\ Len(Program[op]) \in Nat
      BY StartupAssumption, LenProperties
    <2> QED
      BY <2>1 DEF Init
  <1>2. TypeInv /\ DeployedInv /\ [Next]_vars => DeployedInv'
    <2>1. UNCHANGED vars /\ DeployedInv => DeployedInv'
      BY DEF vars, DeployedInv, Deployed, SomeoneIsGone, Shared, Wanted
    <2> QED
      BY <2>1, DeployedInvStep
  <1>3. TypeInv /\ DeployedInv => RunningIsDeployed
    <2> SUFFICES ASSUME TypeInv, DeployedInv, NEW op \in Operators, Running(op), NEW ds \in DaemonSets,
                        Deploys(op, ds)
                 PROVE  Deployed(op, ds)
      BY DEF RunningIsDeployed, Deployed, SomeoneIsGone
    <2>1. PICK i \in DOMAIN Program[op] : Program[op][i] = [do |-> "put", ds |-> ds]
      BY DEF Deploys
    <2>2. i \in 1..Len(Program[op]) /\ Len(Program[op]) \in Nat
      BY StartupAssumption, LenProperties
    <2>3. i < at[op]
      BY <2>2 DEF Running
    <2> QED
      BY <2>1, <2>3 DEF DeployedInv
  <1> QED
    BY <1>1, <1>2, <1>3, TypeInvariance, PTL DEF Spec

=============================================================================
