--------------------------- MODULE OperatorStartup ---------------------------
(***************************************************************************)
(* How the operators start: N3000/main.go and sriov-fec/main.go,           *)
(* common/pkg/assets (manager.go, asset.go) and labeler/main.go.           *)
(*                                                                         *)
(* Before its controllers run, an operator deploys its assets one by one:  *)
(* each object is read, then created, updated or left alone, and some      *)
(* assets must be ready before the next one is deployed.  Any error ends   *)
(* the process; its pod starts again and begins anew.  Both operators      *)
(* deploy the discovery DaemonSet under the same name.  Its pods label the *)
(* nodes that have a card, the other DaemonSets run on labelled nodes, and *)
(* the N3000 driver is built for the kernel of one labelled node.          *)
(* An asset's objects that are not DaemonSets are deployed the same way    *)
(* and left out.                                                           *)
(***************************************************************************)
EXTENDS Naturals, Sequences

CONSTANTS
    Operators,
    Nodes,
    DaemonSets,
    Labeler,       \* the one whose pods label the nodes
    Driver,        \* the one whose pods need the kernel it was deployed for
    Program,       \* the steps of each operator's LoadAndDeploy calls
    Kernels,
    FirstKernel,   \* the one every node runs at first
    NoKernel,
    Cards,         \* the nodes with a card at first
    Absent,        \* the object does not exist
    Retries,       \* how often a wait looks at the status
    MaxFaults,     \* bound: faults
    FaultyNodes,   \* bound: the nodes that are rebooted or written to
    Faults         \* the faults that occur, see FaultKinds

\* "stop": an operator's process ends, for a refused request or any other reason;
\* "labeler": a labeler's run fails;  "uninstall": an operator is removed;
\* "node": somebody else writes a node;
\* "card", "kernel": a node comes back from a reboot with or without its card,
\* or with another kernel.
FaultKinds == {"stop", "labeler", "uninstall", "node", "card", "kernel"}

\* "put": an object of an asset;  "wait": the asset's BlockingReadiness;
\* "kernel": setKernelVar, before the assets it is set for.
Step == [do : {"put", "wait"}, ds : DaemonSets] \cup [do : {"kernel"}]

Content == [by : Operators, kernel : Kernels \cup {NoKernel}]

ASSUME StartupAssumption ==
    /\ Labeler \in DaemonSets /\ Driver \in DaemonSets \ {Labeler}
    /\ Program \in [Operators -> Seq(Step)]
    /\ \A op \in Operators : \A i, j \in DOMAIN Program[op] :
          i < j /\ Program[op][j].do = "kernel" => Program[op][i] # [do |-> "put", ds |-> Driver]
    /\ FirstKernel \in Kernels /\ NoKernel \notin Kernels
    /\ Cards \subseteq Nodes
    /\ Absent \notin Content
    /\ Retries \in Nat \ {0} /\ MaxFaults \in Nat
    /\ FaultyNodes \subseteq Nodes
    /\ Faults \subseteq FaultKinds

VARIABLES
    at,         \* the step an operator is at; 0: it has been uninstalled
    held,       \* what it has read of the object it is to put
    kernel,     \* the kernel it has looked up
    polls,      \* how often it has looked at the status in this wait
    object,     \* a DaemonSet's owner and the kernel it is for
    allUp,      \* the DaemonSets with status.numberUnavailable zero
    ready,      \* the nodes with an available pod of it
    label,      \* the nodes with the label intel-accelerator-present
    copy,       \* the node object a labeler has read
    foreign,    \* the nodes with a label of somebody else's
    card,       \* the nodes with a card
    runs,       \* the kernel a node runs
    faults

processVars == <<at, held, kernel, polls>>
objectVars == <<object, allUp, ready>>
nodeVars == <<label, foreign, copy>>
hardwareVars == <<card, runs>>
vars == <<at, held, kernel, polls, object, allUp, ready, label, copy,
          foreign, card, runs, faults>>

\* The controllers have been started.
Running(op) == at[op] = Len(Program[op]) + 1

\* The operator is at a step of that kind.
At(op, what) == at[op] \in DOMAIN Program[op] /\ Program[op][at[op]].do = what
Target(op) == Program[op][at[op]].ds

NoCopy == [held |-> "nothing", foreign |-> FALSE]

\* The type of every variable; only DaemonSets that exist have pods or a status.
TypeOK ==
    /\ \A op \in Operators : at[op] \in 0..Len(Program[op]) + 1
    /\ held \in [Operators -> {"nothing", "absent", "current", "stale"}]
    /\ kernel \in [Operators -> Kernels \cup {NoKernel}]
    /\ polls \in [Operators -> 0..Retries - 1]
    /\ object \in [DaemonSets -> Content \cup {Absent}]
    /\ allUp \subseteq {ds \in DaemonSets : object[ds] # Absent}
    /\ ready \in [DaemonSets -> SUBSET Nodes]
    /\ \A ds \in DaemonSets : object[ds] = Absent => ready[ds] = {}
    /\ label \cup foreign \cup card \subseteq Nodes
    /\ copy \in [Nodes -> [held : {"nothing", "current", "stale"}, foreign : BOOLEAN]]
    /\ runs \in [Nodes -> Kernels]
    /\ faults \in 0..MaxFaults

\* A cluster without the operators; its nodes run the same kernel.
Init ==
    /\ at = [op \in Operators |-> 1]
    /\ held = [op \in Operators |-> "nothing"]
    /\ kernel = [op \in Operators |-> NoKernel]
    /\ polls = [op \in Operators |-> 0]
    /\ object = [ds \in DaemonSets |-> Absent]
    /\ allUp = {}
    /\ ready = [ds \in DaemonSets |-> {}]
    /\ label = {} /\ foreign = {}
    /\ copy = [n \in Nodes |-> NoCopy]
    /\ card = Cards
    /\ runs = [n \in Nodes |-> FirstKernel]
    /\ faults = 0

Fault(what) ==
    /\ what \in Faults
    /\ faults < MaxFaults
    /\ faults' = faults + 1

-----------------------------------------------------------------------------
(* An operator's process.                                                   *)

\* Mutant: the error is logged and the manager is started.
StartAnyway(op) ==
    /\ at' = [at EXCEPT ![op] = Len(Program[op]) + 1]
    /\ held' = [held EXCEPT ![op] = "nothing"]
    /\ kernel' = [kernel EXCEPT ![op] = NoKernel]
    /\ polls' = [polls EXCEPT ![op] = 0]

\* os.Exit(1), or the end of the pod: the pod starts again, main from the beginning.
Exit(op) ==
    /\ at' = [at EXCEPT ![op] = 1]
    /\ held' = [held EXCEPT ![op] = "nothing"]
    /\ kernel' = [kernel EXCEPT ![op] = NoKernel]
    /\ polls' = [polls EXCEPT ![op] = 0]

\* The next step; after the last one mgr.Start.
Advance(op) ==
    /\ at' = [at EXCEPT ![op] = @ + 1]
    /\ polls' = [polls EXCEPT ![op] = 0]
    /\ UNCHANGED kernel

\* The object has a new version: copies of the old one cannot be written back.
Outdated(ds) ==
    [op \in Operators |->
        IF held[op] = "current" /\ At(op, "put") /\ Target(op) = ds THEN "stale" ELSE held[op]]

\* The template with the operator's variables and its owner reference.
Wanted(op, ds) == [by |-> op, kernel |-> IF ds = Driver THEN kernel[op] ELSE NoKernel]

\* createOrUpdate: an object that is as wanted is left alone.
Get(op) ==
    /\ At(op, "put")
    /\ held[op] = "nothing"
    /\ IF object[Target(op)] = Wanted(op, Target(op))
       THEN Advance(op) /\ UNCHANGED held
       ELSE /\ held' = [held EXCEPT ![op] =
                           IF object[Target(op)] = Absent THEN "absent" ELSE "current"]
            /\ UNCHANGED <<at, kernel, polls>>
    /\ UNCHANGED <<objectVars, nodeVars, hardwareVars, faults>>

\* Create is refused if the object exists, Update if it has a newer version.
Accepted(op) ==
    \/ held[op] = "absent" /\ object[Target(op)] = Absent
    \/ held[op] = "current"

\* A new object has an empty status.  Pods are replaced if their template has
\* changed; a new owner alone changes nothing for them.
Store(op, ds) ==
    /\ object' = [object EXCEPT ![ds] = Wanted(op, ds)]
    /\ allUp' = IF object[ds] = Absent THEN allUp \cup {ds} ELSE allUp
    /\ \/ /\ ready' = [ready EXCEPT ![ds] = {}]
          /\ copy' = IF ds = Labeler THEN [n \in Nodes |-> NoCopy] ELSE copy
       \/ /\ object[ds] # Absent
          /\ object[ds].kernel = Wanted(op, ds).kernel
          /\ UNCHANGED <<ready, copy>>
    /\ held' = [Outdated(ds) EXCEPT ![op] = "nothing"]

\* Mutant: the new object does not get the version of the old one.
PutWithoutVersion(op) ==
    /\ held[op] # "nothing"
    /\ IF held[op] = "absent" /\ Accepted(op)
       THEN Store(op, Target(op)) /\ Advance(op)
       ELSE Exit(op) /\ UNCHANGED <<objectVars, copy>>
    /\ UNCHANGED <<label, foreign, hardwareVars, faults>>

Put(op) ==
    /\ held[op] # "nothing"
    /\ IF Accepted(op)
       THEN Store(op, Target(op)) /\ Advance(op)
       ELSE Exit(op) /\ UNCHANGED <<objectVars, copy>>
    /\ UNCHANGED <<label, foreign, hardwareVars, faults>>

\* Mutant: one look too many.
PollOnceMore(op) ==
    /\ At(op, "wait")
    /\ IF Target(op) \in allUp
       THEN Advance(op) /\ UNCHANGED held
       ELSE IF object[Target(op)] = Absent \/ polls[op] = Retries
       THEN Exit(op)
       ELSE polls' = [polls EXCEPT ![op] = @ + 1] /\ UNCHANGED <<at, held, kernel>>
    /\ UNCHANGED <<objectVars, nodeVars, hardwareVars, faults>>

\* waitUntilReady: the status is looked at up to Retries times.
Poll(op) ==
    /\ At(op, "wait")
    /\ IF Target(op) \in allUp
       THEN Advance(op) /\ UNCHANGED held
       ELSE IF object[Target(op)] = Absent \/ polls[op] + 1 = Retries
       THEN Exit(op)
       ELSE polls' = [polls EXCEPT ![op] = @ + 1] /\ UNCHANGED <<at, held, kernel>>
    /\ UNCHANGED <<objectVars, nodeVars, hardwareVars, faults>>

\* buildTemplateVars: the kernel of the first node with the label, whichever it is.
LookUpKernel(op) ==
    /\ At(op, "kernel")
    /\ \/ label = {} /\ Exit(op)
       \/ \E n \in label :
             /\ kernel' = [kernel EXCEPT ![op] = runs[n]]
             /\ at' = [at EXCEPT ![op] = @ + 1]
             /\ UNCHANGED <<held, polls>>
    /\ UNCHANGED <<objectVars, nodeVars, hardwareVars, faults>>

Stop(op) ==
    /\ at[op] # 0
    /\ Fault("stop")
    /\ Exit(op)
    /\ UNCHANGED <<objectVars, nodeVars, hardwareVars>>

\* The Deployment is deleted, and with it what it owns.
Uninstall(op) ==
    /\ at[op] # 0
    /\ Fault("uninstall")
    /\ LET mine == {ds \in DaemonSets : object[ds] # Absent /\ object[ds].by = op} IN
          /\ object' = [ds \in DaemonSets |-> IF ds \in mine THEN Absent ELSE object[ds]]
          /\ ready' = [ds \in DaemonSets |-> IF ds \in mine THEN {} ELSE ready[ds]]
          /\ allUp' = allUp \ mine
          /\ copy' = IF Labeler \in mine THEN [n \in Nodes |-> NoCopy] ELSE copy
          /\ held' = [o \in Operators |->
                         IF o = op THEN "nothing"
                         ELSE IF At(o, "put") /\ Target(o) \in mine THEN Outdated(Target(o))[o]
                         ELSE held[o]]
    /\ at' = [at EXCEPT ![op] = 0]
    /\ kernel' = [kernel EXCEPT ![op] = NoKernel]
    /\ polls' = [polls EXCEPT ![op] = 0]
    /\ UNCHANGED <<label, foreign, hardwareVars>>

-----------------------------------------------------------------------------
(* The DaemonSets' controller and their pods.                               *)

\* Mutant: the discovery pods, too, are confined to labelled nodes.
LabelledOnly(ds) == label

\* nodeSelector: all DaemonSets but the labeler's need the label.
Desired(ds) == IF ds = Labeler THEN Nodes ELSE label

\* The status is brought up to date, which is a new version of the object.
Report(ds) ==
    /\ object[ds] # Absent
    /\ (ds \in allUp) # (Desired(ds) \subseteq ready[ds])
    /\ allUp' = IF ds \in allUp THEN allUp \ {ds} ELSE allUp \cup {ds}
    /\ held' = Outdated(ds)
    /\ UNCHANGED <<at, kernel, polls, object, ready, nodeVars, hardwareVars, faults>>

\* Pods other than the labeler's become available wherever they can (together:
\* for the status, some are no better than none).
PodsReady(ds) ==
    /\ ds # Labeler
    /\ object[ds] # Absent
    /\ LET fit == {n \in Desired(ds) : ds = Driver => object[ds].kernel = runs[n]} IN
          /\ ~ (fit \subseteq ready[ds])
          /\ ready' = [ready EXCEPT ![ds] = @ \cup fit]
    /\ UNCHANGED <<processVars, object, allUp, nodeVars, hardwareVars, faults>>

\* The labeler's pod has found out whether there is a card and reads its node.
LabelerGet(n) ==
    /\ object[Labeler] # Absent
    /\ n \in Desired(Labeler) \ ready[Labeler]
    /\ copy[n].held = "nothing"
    /\ copy' = [copy EXCEPT ![n] = [held |-> "current", foreign |-> n \in foreign]]
    /\ UNCHANGED <<processVars, objectVars, label, foreign, hardwareVars, faults>>

\* The whole node object is written: the other labels as they were read.  A
\* pod leaves a node that is not labelled any more.
StoreNode(n) ==
    /\ label' = IF n \in card THEN label \cup {n} ELSE label \ {n}
    /\ foreign' = IF copy[n].foreign THEN foreign \cup {n} ELSE foreign \ {n}
    /\ ready' = [ds \in DaemonSets |->
                    IF ds = Labeler THEN ready[ds] \cup {n}
                    ELSE IF n \in card THEN ready[ds] ELSE ready[ds] \ {n}]

\* Mutant: the node is written whatever its version.
LabelerForces(n) ==
    /\ copy[n].held # "nothing"
    /\ StoreNode(n)
    /\ copy' = [copy EXCEPT ![n] = NoCopy]
    /\ UNCHANGED <<processVars, object, allUp, hardwareVars, faults>>

\* Mutant: a refused update is logged, the pod stays up.
LabelerStaysUp(n) ==
    /\ copy[n].held # "nothing"
    /\ IF copy[n].held = "current"
       THEN StoreNode(n)
       ELSE /\ ready' = [ready EXCEPT ![Labeler] = @ \cup {n}]
            /\ UNCHANGED <<label, foreign>>
    /\ copy' = [copy EXCEPT ![n] = NoCopy]
    /\ UNCHANGED <<processVars, object, allUp, hardwareVars, faults>>

\* The update is refused if the node has a newer version: the container starts again.
LabelerPut(n) ==
    /\ copy[n].held # "nothing"
    /\ IF copy[n].held = "current" THEN StoreNode(n) ELSE UNCHANGED <<label, foreign, ready>>
    /\ copy' = [copy EXCEPT ![n] = NoCopy]
    /\ UNCHANGED <<processVars, object, allUp, hardwareVars, faults>>

\* A request fails: the container starts again.
LabelerFails(n) ==
    /\ copy[n].held # "nothing"
    /\ Fault("labeler")
    /\ copy' = [copy EXCEPT ![n] = NoCopy]
    /\ UNCHANGED <<processVars, objectVars, label, foreign, hardwareVars>>

-----------------------------------------------------------------------------
(* The nodes.                                                               *)

\* Somebody else adds a label to the node, or takes it away.
SomebodyWrites(n) ==
    /\ n \in FaultyNodes
    /\ Fault("node")
    /\ foreign' = IF n \in foreign THEN foreign \ {n} ELSE foreign \cup {n}
    /\ copy' = [copy EXCEPT ![n].held = IF @ = "nothing" THEN @ ELSE "stale"]
    /\ UNCHANGED <<processVars, objectVars, label, hardwareVars>>

\* The node's pods start again, the labeler's included.
Reboot(n) ==
    /\ n \in FaultyNodes
    /\ \/ /\ Fault("card")
          /\ card' = IF n \in card THEN card \ {n} ELSE card \cup {n}
          /\ UNCHANGED runs
       \/ /\ Fault("kernel")
          /\ \E k \in Kernels \ {runs[n]} : runs' = [runs EXCEPT ![n] = k]
          /\ UNCHANGED card
    /\ ready' = [ds \in DaemonSets |-> ready[ds] \ {n}]
    /\ copy' = [copy EXCEPT ![n] = NoCopy]
    /\ UNCHANGED <<processVars, object, allUp, label, foreign>>

-----------------------------------------------------------------------------
Process(op) == Get(op) \/ Put(op) \/ Poll(op) \/ LookUpKernel(op)

RollOut(ds) == Report(ds) \/ PodsReady(ds)

Label == \E n \in Nodes : LabelerGet(n) \/ LabelerPut(n)

Next ==
    \/ \E op \in Operators : Process(op) \/ Stop(op) \/ Uninstall(op)
    \/ \E ds \in DaemonSets : RollOut(ds)
    \/ Label
    \/ \E n \in Nodes : LabelerFails(n) \/ SomebodyWrites(n) \/ Reboot(n)

Spec == Init /\ [][Next]_vars

\* The operators' pods run and are started again, the roll-out of each DaemonSet
\* goes on however often another one is changed, and so does labelling.
Fairness ==
    /\ \A op \in Operators : WF_vars(Process(op))
    /\ \A ds \in DaemonSets : WF_vars(RollOut(ds))
    /\ WF_vars(Label)

FairSpec == Spec /\ Fairness

-----------------------------------------------------------------------------
(* Properties.                                                              *)

Deploys(op, ds) == \E i \in DOMAIN Program[op] : Program[op][i] = [do |-> "put", ds |-> ds]

Shared(ds) == \E o, p \in Operators : o # p /\ Deploys(o, ds) /\ Deploys(p, ds)

\* An operator whose controllers run has its DaemonSets deployed as it wants
\* them, whatever happened on the way; one it shares with the other operator may
\* be the other's, and is gone when the one who wrote it last is uninstalled.
RunningIsDeployed ==
    \A op \in Operators : Running(op) =>
        \A ds \in DaemonSets : Deploys(op, ds) =>
            IF Shared(ds) THEN object[ds] # Absent \/ \E p \in Operators : at[p] = 0
                          ELSE object[ds] = Wanted(op, ds)

\* Where the labeler's pod is up, the label says whether the node has a card,
\* whoever else wrote the node meanwhile.
LabelsAreRight == \A n \in ready[Labeler] : n \in label <=> n \in card

\* Labelling a node never undoes what somebody else has written to it.
ForeignIsKept == [][UNCHANGED faults => UNCHANGED foreign]_vars

\* An operator can start: one that needs a kernel finds a node with the label,
\* and one kernel suits all of them.
CanStart(op) ==
    (\E i \in DOMAIN Program[op] : Program[op][i].do = "kernel")
        => label # {} /\ \A n, m \in label : runs[n] = runs[m]

\* Through time-outs, conflicts and restarts, with both operators writing the
\* same DaemonSet, every operator that can start does.
OperatorsStart == <>[](\A op \in Operators : CanStart(op) => Running(op) \/ at[op] = 0)

\* As long as the labeler is not removed, the labels become and stay right.
LabelsConverge == <>[](object[Labeler] # Absent => label = card)

=============================================================================
