---------------------------- MODULE ClusterConfig ----------------------------
(***************************************************************************)
(* The cluster controllers of both operators:                              *)
(* sriov-fec/controllers/sriovfecclusterconfig_controller.go and           *)
(* N3000/controllers/n3000cluster_controller.go.                           *)
(*                                                                         *)
(* The user writes one cluster object, a list of configurations, each with *)
(* a node's name.  Reconcile reads it from the informer's cache, deletes   *)
(* the node objects that are not in the list, then creates or updates one  *)
(* node object per entry, and records the result in the cluster object's   *)
(* status.  It reads node objects from a cache too, which may lag behind;  *)
(* a request made on stale data is refused and the whole Reconcile is      *)
(* tried again.  The daemons own the status of the node objects and create *)
(* an empty object where theirs has been deleted.  Only nodes with the     *)
(* label intel-accelerator-present count, and nobody tells the controller  *)
(* that a label has changed: it sees it when it reconciles the next time,  *)
(* at the latest when its informer hands over every object again.          *)
(***************************************************************************)
EXTENDS Naturals, Sequences

CONSTANTS
    Nodes,          \* names of nodes
    Carded,         \* the nodes with a card: only these are ever labelled
    Specs,          \* configurations of a node
    NoSpec,         \* the empty configuration of an object a daemon creates
    NoObj,          \* the object does not exist
    Requests,       \* what the user may write: lists of [node, spec] records
    Kinds,          \* "sriov-fec", "N3000": the controllers considered
    MaxWrites,      \* bound: writes of the user
    MaxTouches,     \* bound: status writes of the daemons
    MaxFaults,      \* bound: faults
    Faults          \* the faults that occur, see FaultKinds

\* "api": a request is refused;  "crash": the controller's process restarts;
\* "lag": node objects are listed from a cache that lags behind;
\* "label": a node gets or loses its label.
FaultKinds == {"api", "crash", "lag", "label"}

Entry == [node : Nodes, spec : Specs]

ASSUME ClusterConfigAssumption ==
    /\ Carded \subseteq Nodes
    /\ NoSpec \notin Specs
    /\ NoObj \notin Specs \cup {NoSpec}
    /\ Requests \subseteq Seq(Entry)
    /\ NoObj \notin Requests
    /\ Kinds \subseteq {"sriov-fec", "N3000"}
    /\ MaxWrites \in Nat /\ MaxTouches \in Nat /\ MaxFaults \in Nat
    /\ Faults \subseteq FaultKinds

VARIABLES
    kind,       \* the controller this is
    labelled,   \* the nodes with the label
    read,       \* the nodes that had it when Reconcile listed them last
    tooSoon,    \* the node objects were listed last from a cache that lagged
    cr,         \* the cluster object's list, or NoObj
    sync,       \* its status.syncStatus
    crCache,    \* the informer's copy of the list
    crCurrent,  \* that copy is the latest version
    objs,       \* the spec of each node object, or NoObj
    cache,      \* the informer's copy of it
    current,    \* the nodes whose copy is the latest version
    queued,     \* the cluster object's key is in the work queue
    pc,         \* control state of Reconcile
    local,      \* the local cluster object is the latest version
    list,       \* the list in the local cluster object
    pos,        \* the position in it of the next node config to be written
    doomed,     \* the node objects still to be deleted
    writes, touches, faults

labelVars == <<kind, labelled, read>>
userVars == <<cr, sync>>
objVars == <<objs, cache, current>>
reconcileVars == <<pc, local, list, pos, doomed>>
boundVars == <<writes, touches, faults>>
vars == <<kind, labelled, read, tooSoon, cr, sync, crCache, crCurrent, objs, cache, current, queued, pc, local,
          list, pos, doomed, writes, touches, faults>>

\* Only nodes with a card have an object.
Stored(n) == IF n \in Carded THEN Specs \cup {NoSpec, NoObj} ELSE {NoObj}

\* The type of every variable; only nodes with a card are given an object, or
\* have one deleted.
TypeOK ==
    /\ kind \in Kinds
    /\ labelled \subseteq Carded /\ read \subseteq Carded
    /\ tooSoon \in BOOLEAN
    /\ cr \in Requests \cup {NoObj}
    /\ sync \in {"none", "Failed", "Succeeded"}
    /\ crCache \in Requests \cup {NoObj}
    /\ {crCurrent, queued, local} \subseteq BOOLEAN
    /\ objs \in [Nodes -> Specs \cup {NoSpec, NoObj}]
    /\ cache \in [Nodes -> Specs \cup {NoSpec, NoObj}]
    /\ \A n \in Nodes : {objs[n], cache[n]} \subseteq Stored(n)
    /\ current \subseteq Nodes
    /\ pc \in {"idle", "list", "remove", "sync", "failed"}
    /\ list \in Requests \cup {<<>>}
    /\ pos \in 1..(Len(list) + 1)
    /\ doomed \subseteq Carded
    /\ writes \in 0..MaxWrites /\ touches \in 0..MaxTouches /\ faults \in 0..MaxFaults

\* The daemons may have created their empty objects; the user has done nothing.
Init ==
    /\ kind \in Kinds
    /\ labelled = Carded
    /\ read = {}
    /\ tooSoon = FALSE
    /\ cr = NoObj
    /\ sync = "none"
    /\ crCache = NoObj
    /\ crCurrent = TRUE
    /\ objs \in [Nodes -> {NoSpec, NoObj}]
    /\ \A n \in Nodes : objs[n] \in Stored(n)
    /\ cache = objs
    /\ current = Nodes
    /\ queued = FALSE
    /\ pc = "idle"
    /\ local = FALSE
    /\ list = <<>>
    /\ pos = 1
    /\ doomed = {}
    /\ writes = 0 /\ touches = 0 /\ faults = 0

Fault(what) ==
    /\ what \in Faults
    /\ faults < MaxFaults
    /\ faults' = faults + 1

\* The object of node n gets a new version.
Write(n, spec) ==
    /\ objs' = [objs EXCEPT ![n] = spec]
    /\ current' = current \ {n}
    /\ UNCHANGED cache

-----------------------------------------------------------------------------
(* The user, the daemons and the informers.                                 *)

UserWrites(request) ==
    /\ writes < MaxWrites
    /\ writes' = writes + 1
    /\ cr # request
    /\ cr' = request
    /\ sync' = IF cr = NoObj \/ request = NoObj THEN "none" ELSE sync
    /\ crCurrent' = FALSE
    /\ local' = FALSE
    /\ UNCHANGED <<labelVars, tooSoon, crCache, objVars, queued, pc, list, pos, doomed, touches, faults>>

\* A card appears or disappears, or the user edits the node.
Relabel(n) ==
    /\ n \in Carded
    /\ Fault("label")
    /\ labelled' = IF n \in labelled THEN labelled \ {n} ELSE labelled \cup {n}
    /\ UNCHANGED <<kind, read, tooSoon, userVars, crCache, crCurrent, objVars, queued,
                   reconcileVars, writes, touches>>

\* A daemon creates its empty object; only nodes with the label run a daemon.
DaemonCreates(n) ==
    /\ n \in labelled
    /\ objs[n] = NoObj
    /\ Write(n, NoSpec)
    /\ UNCHANGED <<labelVars, tooSoon, userVars, crCache, crCurrent, queued, reconcileVars, boundVars>>

\* A daemon writes the status: the object gets a new version.
DaemonTouches(n) ==
    /\ n \in labelled
    /\ touches < MaxTouches
    /\ touches' = touches + 1
    /\ objs[n] # NoObj
    /\ Write(n, objs[n])
    /\ UNCHANGED <<labelVars, tooSoon, userVars, crCache, crCurrent, queued, reconcileVars, writes, faults>>

\* Every change of the cluster object, its status included, queues its key.
DeliverCluster ==
    /\ ~crCurrent
    /\ crCache' = cr
    /\ crCurrent' = TRUE
    /\ queued' = TRUE
    /\ UNCHANGED <<labelVars, tooSoon, userVars, objVars, reconcileVars, boundVars>>

\* Mutant: an event filter passes over objects that have not changed.
ResyncFiltered ==
    /\ FALSE
    /\ UNCHANGED vars

\* Every ten hours the informer hands over all its cluster objects.
Resync ==
    /\ crCache # NoObj
    /\ queued' = TRUE
    /\ UNCHANGED <<labelVars, tooSoon, userVars, crCache, crCurrent, objVars, reconcileVars,
                   boundVars>>

\* Node objects are cached but not watched.
DeliverNode(n) ==
    /\ n \notin current
    /\ cache' = [cache EXCEPT ![n] = objs[n]]
    /\ current' = current \cup {n}
    /\ UNCHANGED <<labelVars, tooSoon, userVars, crCache, crCurrent, objs, queued, reconcileVars, boundVars>>

-----------------------------------------------------------------------------
(* Reconcile.                                                               *)

\* Mutant: nobody looks for the node's label.
EveryNode(n) == TRUE

\* renderNodeConfigs, splitClusterIntoNodes: only nodes that had the label when
\* Reconcile listed them get a node config.
NodeHasAccelerator(n) == n \in read

\* The nodes with a node config.
Rendered(n) == NodeHasAccelerator(n) /\ \E i \in DOMAIN list : list[i].node = n

\* Reconcile ends, and with it its local variables.
Return(state) ==
    /\ pc' = state
    /\ list' = <<>>
    /\ pos' = 1
    /\ doomed' = {}

\* Mutant: the error is logged, nil is returned.
FailForGood ==
    /\ Return(IF kind = "sriov-fec" THEN "failed" ELSE "idle")
    /\ UNCHANGED queued

\* An error is returned: the key is queued again.
Fail ==
    /\ Return(IF kind = "sriov-fec" THEN "failed" ELSE "idle")
    /\ queued' = TRUE

\* Get from the cache; a cluster object that is gone is nobody's business.
Begin ==
    /\ pc = "idle"
    /\ queued
    /\ queued' = FALSE
    /\ IF crCache = NoObj
       THEN UNCHANGED <<pc, local, list, read>>
       ELSE /\ pc' = "list"
            /\ local' = crCurrent
            /\ list' = crCache
            /\ read' = labelled
    /\ UNCHANGED <<kind, labelled, tooSoon, userVars, crCache, crCurrent, objVars, pos, doomed,
                   boundVars>>

\* removeOldNodeConfigs: list the node objects, from the cache.
ListObjects ==
    /\ pc = "list"
    /\ tooSoon' = (current # Nodes)
    /\ doomed' = {n \in Nodes : cache[n] # NoObj /\ ~Rendered(n)}
    /\ pc' = "remove"
    /\ UNCHANGED <<labelVars, userVars, crCache, crCurrent, objVars, queued, local, list, pos,
                   writes, touches>>

List == ListObjects /\ current = Nodes /\ UNCHANGED faults

\* The cache has not caught up with what was written before.
ListTooSoon == ListObjects /\ current # Nodes /\ Fault("lag")

\* One object is deleted by name, whatever its version.
Remove(n) ==
    /\ pc = "remove"
    /\ n \in doomed
    /\ IF objs[n] = NoObj
       THEN Fail /\ UNCHANGED objVars
       ELSE /\ Write(n, NoObj)
            /\ doomed' = doomed \ {n}
            /\ UNCHANGED <<pc, queued, list, pos>>
    /\ UNCHANGED <<labelVars, tooSoon, userVars, crCache, crCurrent, local, boundVars>>

\* Mutant: the loop breaks after a deletion.
RemoveOne ==
    /\ pc = "remove"
    /\ pc' = "sync"
    /\ doomed' = {}
    /\ UNCHANGED <<labelVars, tooSoon, userVars, crCache, crCurrent, objVars, queued, local,
                   list, pos, boundVars>>

RemoveDone ==
    /\ pc = "remove"
    /\ doomed = {}
    /\ pc' = "sync"
    /\ UNCHANGED <<labelVars, tooSoon, userVars, crCache, crCurrent, objVars, queued, local,
                   list, pos, doomed, boundVars>>

\* Create is refused if the object exists, Update if the copy is not the
\* latest version or the object is gone.
Accepted(n) == IF cache[n] = NoObj THEN objs[n] = NoObj ELSE n \in current

\* Mutant: a refused request is logged and the loop goes on.
SyncNodeGoesOn ==
    /\ pc = "sync"
    /\ pos <= Len(list)
    /\ LET e == list[pos] IN
          IF NodeHasAccelerator(e.node) /\ Accepted(e.node) /\ cache[e.node] # e.spec
          THEN Write(e.node, e.spec)
          ELSE UNCHANGED objVars
    /\ pos' = pos + 1
    /\ UNCHANGED <<labelVars, tooSoon, pc, list, queued, doomed, userVars, crCache, crCurrent, local,
                   boundVars>>

\* updateOrCreateNodeConfig for the next entry, if it has been rendered: an
\* update that changes nothing makes no version.
SyncNode ==
    /\ pc = "sync"
    /\ pos <= Len(list)
    /\ LET e == list[pos] IN
          \/ /\ NodeHasAccelerator(e.node) /\ ~Accepted(e.node)
             /\ Fail
             /\ UNCHANGED objVars
          \/ /\ NodeHasAccelerator(e.node) => Accepted(e.node)
             /\ IF NodeHasAccelerator(e.node) /\ cache[e.node] # e.spec
                THEN Write(e.node, e.spec)
                ELSE UNCHANGED objVars
             /\ pos' = pos + 1
             /\ UNCHANGED <<pc, list, queued, doomed>>
    /\ UNCHANGED <<labelVars, tooSoon, userVars, crCache, crCurrent, local, boundVars>>

\* updateStatus on the local object: a conflict is logged, a status that is
\* already there makes no new version.
UpdateStatus(status) ==
    IF local
    THEN /\ sync' = status
         /\ crCurrent' = (crCurrent /\ sync = status)
         /\ local' = (sync = status)
    ELSE UNCHANGED <<sync, crCurrent, local>>

Succeed ==
    /\ pc = "sync"
    /\ pos > Len(list)
    /\ UpdateStatus("Succeeded")
    /\ Return("idle")
    /\ UNCHANGED <<labelVars, tooSoon, cr, crCache, objVars, queued, boundVars>>

ReportFailure ==
    /\ pc = "failed"
    /\ UpdateStatus("Failed")
    /\ Return("idle")
    /\ UNCHANGED <<labelVars, tooSoon, cr, crCache, objVars, queued, boundVars>>

\* A List, Delete, Get, Create or Update is refused.
RequestFails ==
    /\ pc \in {"list", "remove", "sync"}
    /\ Fault("api")
    /\ Fail
    /\ UNCHANGED <<labelVars, tooSoon, userVars, crCache, crCurrent, objVars, local, writes, touches>>

\* The controller's process starts again and lists everything.
Crash ==
    /\ Fault("crash")
    /\ crCache' = cr
    /\ crCurrent' = TRUE
    /\ cache' = objs
    /\ current' = Nodes
    /\ queued' = (cr # NoObj)
    /\ Return("idle")
    /\ local' = FALSE
    /\ UNCHANGED <<labelVars, tooSoon, userVars, objs, writes, touches>>

-----------------------------------------------------------------------------
Reconcile ==
    \/ Begin \/ List \/ ListTooSoon \/ RemoveDone \/ SyncNode \/ Succeed \/ ReportFailure
    \/ \E n \in Nodes : Remove(n)

Deliver == DeliverCluster \/ \E n \in Nodes : DeliverNode(n)

Next ==
    \/ \E request \in Requests \cup {NoObj} : UserWrites(request)
    \/ \E n \in Nodes : DaemonCreates(n) \/ DaemonTouches(n) \/ Relabel(n)
    \/ Deliver
    \/ Resync
    \/ Reconcile
    \/ RequestFails
    \/ Crash

Spec == Init /\ [][Next]_vars

\* Watches deliver, the informer resynchronizes and the controller's worker is
\* scheduled; a step that needs the cache to lag is nothing to rely on.
Fairness ==
    /\ WF_vars(DeliverCluster)
    /\ \A n \in Nodes : WF_vars(DeliverNode(n))
    /\ WF_vars(Resync)
    /\ WF_vars(Reconcile)

FairSpec == Spec /\ Fairness

-----------------------------------------------------------------------------
(* Properties.                                                              *)

\* No later entry of the list is for the same node: this one counts.
Last(requests, i) == \A j \in DOMAIN requests : j > i => requests[j].node # requests[i].node

\* Node n has what the cluster object asks for, if that is something ...
Synced(n) ==
    n \in labelled =>
        \A i \in DOMAIN cr : cr[i].node = n /\ Last(cr, i) => objs[n] = cr[i].spec

\* ... and nothing, if the object does not name it or it has no accelerator.
Removed(n) ==
    n \notin labelled \/ (\A i \in DOMAIN cr : cr[i].node # n) => objs[n] \in {NoSpec, NoObj}

\* The label of node n is still the one Reconcile has read.
LabelIsRead(n) == (n \in labelled) = (n \in read)

\* The controller has nothing to deliver or to do for the cluster object.
Quiet == cr # NoObj /\ crCurrent /\ ~queued /\ pc = "idle"

\* Once the controller rests, every listed node with an accelerator has its
\* object with the latest requested configuration, and the status says so;
\* but for nodes whose label has changed since, which nobody looks at.
RequestedAreSynced ==
    Quiet => sync = "Succeeded" /\ \A n \in Nodes : LabelIsRead(n) => Synced(n)

\* Once the controller rests, no node that is not listed is configured; but
\* for those nodes, and unless the cache it listed the objects from lagged.
OldAreRemoved ==
    Quiet /\ ~tooSoon => \A n \in Nodes : LabelIsRead(n) => Removed(n)

\* An attempt of the sriov-fec controller for the latest cluster object,
\* whether it ends well or in an error (a crash apart), never leaves
\* "Succeeded" in the status when a listed node it knows of is not synchronized.
AttemptsEndHonestly ==
    [][(/\ kind = "sriov-fec"
        /\ pc # "idle" /\ pc' = "idle" /\ ~Crash
        /\ local /\ sync' = "Succeeded")
          => \A n \in Nodes : LabelIsRead(n) => Synced(n)']_vars

NamesNodesOnce == \A i, j \in DOMAIN cr : cr[i].node = cr[j].node => i = j

\* When the user has stopped writing, the node objects become and stay what
\* the cluster object asks for, labels changed and objects missed meanwhile
\* included; a list that names a node twice writes both, again and again.
Converges ==
    <>[](cr # NoObj /\ NamesNodesOnce
            => sync = "Succeeded" /\ \A n \in Nodes : Synced(n) /\ Removed(n))

=============================================================================
