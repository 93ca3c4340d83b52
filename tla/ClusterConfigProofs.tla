------------------------- MODULE ClusterConfigProofs -------------------------
(***************************************************************************)
(* Theorems about ClusterConfig, for both controllers, any number of       *)
(* nodes, configurations and lists, and any number of writes and faults.   *)
(***************************************************************************)
EXTENDS ClusterConfig, TLAPS, SequenceTheorems

-----------------------------------------------------------------------------
(* Type correctness, in parts: the node objects and their copies, and all   *)
(* the rest.                                                                *)

ObjsInv ==
    /\ objs \in [Nodes -> Specs \cup {NoSpec, NoObj}]
    /\ cache \in [Nodes -> Specs \cup {NoSpec, NoObj}]
    /\ \A n \in Nodes : objs[n] \in Stored(n) /\ cache[n] \in Stored(n)
    /\ current \subseteq Nodes
    /\ \A n \in current : cache[n] = objs[n]

LabelInv ==
    /\ kind \in Kinds
    /\ labelled \subseteq Carded /\ read \subseteq Carded
    /\ tooSoon \in BOOLEAN

UserInv ==
    /\ cr \in Requests \cup {NoObj}
    /\ sync \in {"none", "Failed", "Succeeded"}
    /\ crCache \in Requests \cup {NoObj}
    /\ crCurrent \in BOOLEAN /\ queued \in BOOLEAN
    /\ crCurrent => crCache = cr

\* Reconcile has a list to work on.
Working == pc \in {"list", "remove", "sync"}

ReconcileInv ==
    /\ pc \in {"idle", "list", "remove", "sync", "failed"}
    /\ local \in BOOLEAN
    /\ list \in Requests \cup {<<>>} /\ pos \in 1..(Len(list) + 1)
    /\ doomed \subseteq Carded
    /\ pc # "sync" => pos = 1

BoundsInv == writes \in 0..MaxWrites /\ touches \in 0..MaxTouches /\ faults \in 0..MaxFaults

TypeInv == ObjsInv /\ LabelInv /\ UserInv /\ ReconcileInv /\ BoundsInv

LEMMA TypeInvImpliesTypeOK == TypeInv => TypeOK
  BY DEF TypeInv, ObjsInv, LabelInv, UserInv, ReconcileInv, BoundsInv, TypeOK

\* What a list is.
LEMMA ListType ==
  ASSUME NEW requests \in Requests \cup {<<>>}
  PROVE  /\ requests \in Seq(Entry)
         /\ Len(requests) \in Nat /\ DOMAIN requests = 1..Len(requests)
         /\ \A i \in 1..Len(requests) :
               requests[i] \in Entry /\ requests[i].node \in Nodes /\ requests[i].spec \in Specs
  <1>1. requests \in Seq(Entry)
    <2>1. <<>> \in Seq(Entry)
      OBVIOUS
    <2> QED
      BY <2>1, ClusterConfigAssumption
  <1>2. Len(requests) \in Nat /\ DOMAIN requests = 1..Len(requests)
    BY <1>1, LenProperties
  <1>3. \A i \in 1..Len(requests) : requests[i] \in Entry
    BY <1>1, <1>2, ElementOfSeq
  <1>4. \A e \in Entry : e.node \in Nodes /\ e.spec \in Specs
    BY DEF Entry
  <1> QED
    BY <1>1, <1>2, <1>3, <1>4

\* No configuration is the empty one, or none.
LEMMA SpecsAreDistinct ==
  NoSpec \notin Specs /\ NoObj \notin Specs /\ NoObj # NoSpec /\ Carded \subseteq Nodes
  BY ClusterConfigAssumption

\* The next entry, if it has a node config, is for a node with a card.
LEMMA NextEntryType ==
  ASSUME LabelInv, ReconcileInv, pos <= Len(list)
  PROVE  /\ pos \in 1..Len(list) /\ pos + 1 \in 1..(Len(list) + 1)
         /\ list[pos].node \in Nodes /\ list[pos].spec \in Specs
         /\ NodeHasAccelerator(list[pos].node) => list[pos].spec \in Stored(list[pos].node)
  <1>1. Len(list) \in Nat /\ pos \in 1..(Len(list) + 1) /\ list \in Requests \cup {<<>>}
    BY ListType DEF ReconcileInv
  <1>2. pos \in 1..Len(list) /\ pos + 1 \in 1..(Len(list) + 1)
    BY <1>1
  <1>3. list[pos].node \in Nodes /\ list[pos].spec \in Specs
    BY <1>1, <1>2, ListType
  <1> QED
    BY <1>2, <1>3 DEF LabelInv, NodeHasAccelerator, Stored

\* A write concerns one object.
LEMMA WriteOne ==
  ASSUME ObjsInv, NEW n \in Nodes, NEW spec \in Stored(n), Write(n, spec)
  PROVE  /\ ObjsInv'
         /\ objs'[n] = spec
         /\ \A m \in Nodes : m # n => objs'[m] = objs[m]
  <1>1. /\ objs' = [objs EXCEPT ![n] = spec] /\ current' = current \ {n} /\ UNCHANGED cache
        /\ spec \in Specs \cup {NoSpec, NoObj}
    BY DEF Write, Stored
  <1>2. objs' \in [Nodes -> Specs \cup {NoSpec, NoObj}] /\ objs'[n] = spec
        /\ \A m \in Nodes : m # n => objs'[m] = objs[m]
    BY <1>1 DEF ObjsInv
  <1>3. \A m \in Nodes : objs'[m] \in Stored(m)
    BY <1>2 DEF ObjsInv
  <1> QED
    BY <1>1, <1>2, <1>3 DEF ObjsInv

\* What SyncNode does to the objects: the node of the next entry has the entry's
\* configuration, if it gets a node config, and nothing else is changed.
LEMMA SyncNodeWrites ==
  ASSUME TypeInv, SyncNode
  PROVE  /\ ObjsInv'
         /\ \/ Fail /\ UNCHANGED objVars
            \/ /\ pos' = pos + 1 /\ UNCHANGED <<pc, list, queued, doomed>>
               /\ NodeHasAccelerator(list[pos].node) => objs'[list[pos].node] = list[pos].spec
               /\ \A m \in Nodes : m # list[pos].node \/ ~NodeHasAccelerator(m) => objs'[m] = objs[m]
  <1> DEFINE n == list[pos].node
             spec == list[pos].spec
  <1>1. n \in Nodes /\ spec \in Specs /\ (NodeHasAccelerator(n) => spec \in Stored(n))
    BY NextEntryType DEF SyncNode, TypeInv
  <1>2. CASE Fail /\ UNCHANGED objVars
    BY <1>2 DEF objVars, TypeInv, ObjsInv
  <1>3. CASE /\ NodeHasAccelerator(n) => Accepted(n)
             /\ IF NodeHasAccelerator(n) /\ cache[n] # spec THEN Write(n, spec) ELSE UNCHANGED objVars
             /\ pos' = pos + 1
             /\ UNCHANGED <<pc, list, queued, doomed>>
    <2>1. CASE NodeHasAccelerator(n) /\ cache[n] # spec
      BY <1>1, <1>3, <2>1, WriteOne DEF TypeInv
    <2>2. CASE NodeHasAccelerator(n) /\ cache[n] = spec
      <3>1. UNCHANGED objVars /\ n \in current
        BY <1>1, <1>3, <2>2, SpecsAreDistinct DEF Accepted
      <3>2. objs[n] = spec
        BY <2>2, <3>1 DEF TypeInv, ObjsInv
      <3> QED
        BY <1>3, <3>1, <3>2 DEF objVars, TypeInv, ObjsInv
    <2>3. CASE ~NodeHasAccelerator(n)
      BY <1>3, <2>3 DEF objVars, TypeInv, ObjsInv
    <2> QED
      BY <2>1, <2>2, <2>3
  <1> QED
    BY <1>2, <1>3 DEF SyncNode

\* The bounds are numbers.
LEMMA BoundsType == MaxWrites \in Nat /\ MaxTouches \in Nat /\ MaxFaults \in Nat
  BY ClusterConfigAssumption

\* What ends Reconcile keeps the type of its variables.
LEMMA ReturnType ==
  ASSUME ReconcileInv, NEW state \in {"idle", "failed"}, Return(state), local' \in BOOLEAN
  PROVE  ReconcileInv'
  <1>1. Len(list') = 0
    BY DEF Return
  <1> QED
    BY <1>1 DEF Return, ReconcileInv

LEMMA ObjsInvStep ==
  ASSUME TypeInv, Next
  PROVE  ObjsInv'
  <1>1. CASE UNCHANGED objVars
    BY <1>1 DEF objVars, TypeInv, ObjsInv
  <1>2. ASSUME NEW n \in Nodes, DaemonCreates(n) \/ DaemonTouches(n)
        PROVE  ObjsInv'
    <2>1. n \in Carded /\ objs[n] \in Stored(n)
      BY <1>2 DEF DaemonCreates, DaemonTouches, TypeInv, LabelInv, ObjsInv
    <2>2. Write(n, NoSpec) \/ Write(n, objs[n])
      BY <1>2 DEF DaemonCreates, DaemonTouches
    <2>3. NoSpec \in Stored(n)
      BY <2>1 DEF Stored
    <2> QED
      BY <2>1, <2>2, <2>3, WriteOne DEF TypeInv
  <1>3. ASSUME NEW n \in Nodes, DeliverNode(n)
        PROVE  ObjsInv'
    BY <1>3 DEF DeliverNode, TypeInv, ObjsInv
  <1>4. ASSUME NEW n \in Nodes, Remove(n)
        PROVE  ObjsInv'
    <2>1. NoObj \in Stored(n)
      BY DEF Stored
    <2>2. UNCHANGED objVars \/ Write(n, NoObj)
      BY <1>4 DEF Remove
    <2> QED
      BY <1>1, <2>1, <2>2, WriteOne DEF TypeInv
  <1>5. CASE SyncNode
    BY <1>5, SyncNodeWrites
  <1>6. CASE Crash
    BY <1>6 DEF Crash, TypeInv, ObjsInv
  <1>7. CASE DeliverCluster \/ Begin \/ List \/ ListTooSoon \/ RemoveDone \/ Succeed \/ ReportFailure
             \/ RequestFails \/ Resync
    BY <1>1, <1>7 DEF DeliverCluster, Begin, List, ListTooSoon, ListObjects, RemoveDone, Succeed,
                      ReportFailure, RequestFails, Resync
  <1>8. ASSUME NEW request, UserWrites(request)
        PROVE  UNCHANGED objVars
    BY <1>8 DEF UserWrites
  <1>9. ASSUME NEW n, Relabel(n)
        PROVE  UNCHANGED objVars
    BY <1>9 DEF Relabel
  <1> QED
    BY <1>1, <1>2, <1>3, <1>4, <1>5, <1>6, <1>7, <1>8, <1>9 DEF Next, Deliver, Reconcile

LEMMA LabelInvStep ==
  ASSUME TypeInv, Next
  PROVE  LabelInv'
  <1>1. CASE UNCHANGED <<labelVars, tooSoon>>
    BY <1>1 DEF labelVars, TypeInv, LabelInv
  <1>2. ASSUME NEW n, Relabel(n)
        PROVE  LabelInv'
    BY <1>2 DEF Relabel, TypeInv, LabelInv
  <1>3. CASE Begin \/ List \/ ListTooSoon
    BY <1>3 DEF Begin, List, ListTooSoon, ListObjects, labelVars, TypeInv, LabelInv
  <1>4. ASSUME NEW n, DaemonCreates(n) \/ DaemonTouches(n) \/ DeliverNode(n) \/ Remove(n)
        PROVE  UNCHANGED <<labelVars, tooSoon>>
    BY <1>4 DEF DaemonCreates, DaemonTouches, DeliverNode, Remove
  <1>5. ASSUME NEW request, UserWrites(request)
        PROVE  UNCHANGED <<labelVars, tooSoon>>
    BY <1>5 DEF UserWrites
  <1>6. CASE DeliverCluster \/ RemoveDone \/ SyncNode \/ Succeed \/ ReportFailure \/ RequestFails
             \/ Resync \/ Crash
    BY <1>1, <1>6 DEF DeliverCluster, RemoveDone, SyncNode, Succeed, ReportFailure, RequestFails,
                      Resync, Crash
  <1> QED
    BY <1>1, <1>2, <1>3, <1>4, <1>5, <1>6 DEF Next, Deliver, Reconcile

LEMMA UserInvStep ==
  ASSUME TypeInv, Next
  PROVE  UserInv'
  <1> USE DEF TypeInv, UserInv
  <1>1. CASE UNCHANGED <<userVars, crCache, crCurrent>> /\ queued' \in BOOLEAN
    BY <1>1 DEF userVars
  <1>2. ASSUME NEW request \in Requests \cup {NoObj}, UserWrites(request)
        PROVE  UserInv'
    BY <1>2 DEF UserWrites
  <1>3. ASSUME NEW status \in {"Failed", "Succeeded"}, UpdateStatus(status),
               UNCHANGED <<cr, crCache, queued>>
        PROVE  UserInv'
    BY <1>3 DEF UpdateStatus
  <1>4. CASE Succeed \/ ReportFailure
    BY <1>3, <1>4 DEF Succeed, ReportFailure
  <1>5. CASE DeliverCluster
    BY <1>5 DEF DeliverCluster, userVars
  <1>6. CASE Crash
    BY <1>6 DEF Crash, userVars
  <1>7. ASSUME NEW n, DaemonCreates(n) \/ DaemonTouches(n) \/ DeliverNode(n) \/ Remove(n) \/ Relabel(n)
        PROVE  UNCHANGED <<userVars, crCache, crCurrent>> /\ queued' \in BOOLEAN
    BY <1>7 DEF DaemonCreates, DaemonTouches, DeliverNode, Remove, Relabel, Fail
  <1>8. CASE Begin \/ List \/ ListTooSoon \/ RemoveDone \/ SyncNode \/ RequestFails \/ Resync
    BY <1>1, <1>8 DEF Begin, List, ListTooSoon, ListObjects, RemoveDone, SyncNode, RequestFails,
                      Resync, Fail
  <1> QED
    BY <1>1, <1>2, <1>4, <1>5, <1>6, <1>7, <1>8 DEF Next, Deliver, Reconcile

LEMMA ReconcileInvStep ==
  ASSUME TypeInv, Next
  PROVE  ReconcileInv'
  <1>0. ReconcileInv /\ LabelInv /\ ObjsInv /\ UserInv
    BY DEF TypeInv
  <1>1. CASE UNCHANGED reconcileVars
    BY <1>0, <1>1 DEF reconcileVars, ReconcileInv
  <1>2. CASE Fail /\ UNCHANGED local
    BY <1>0, <1>2, ReturnType DEF Fail, ReconcileInv
  <1>3. ASSUME NEW request, UserWrites(request)
        PROVE  ReconcileInv'
    BY <1>0, <1>3 DEF UserWrites, ReconcileInv
  <1>4. CASE Begin
    <2>1. CASE crCache = NoObj
      BY <1>0, <1>4, <2>1 DEF Begin, ReconcileInv
    <2>2. CASE crCache # NoObj
      <3>1. /\ pc' = "list" /\ list' = crCache /\ crCache \in Requests /\ local' = crCurrent
            /\ UNCHANGED <<pos, doomed>> /\ pos = 1
        BY <1>0, <1>4, <2>2 DEF Begin, ReconcileInv, UserInv
      <3>2. 1 \in 1..(Len(list') + 1)
        BY <3>1, ListType
      <3> QED
        BY <1>0, <3>1, <3>2 DEF ReconcileInv, UserInv
    <2> QED
      BY <2>1, <2>2
  <1>5. CASE List \/ ListTooSoon
    <2>1. /\ pc = "list" /\ pc' = "remove" /\ UNCHANGED <<local, list, pos>>
          /\ doomed' = {n \in Nodes : cache[n] # NoObj /\ ~Rendered(n)}
      BY <1>5 DEF List, ListTooSoon, ListObjects
    <2>2. doomed' \subseteq Carded
      BY <1>0, <2>1 DEF ObjsInv, Stored
    <2> QED
      BY <1>0, <2>1, <2>2 DEF ReconcileInv
  <1>6. ASSUME NEW n \in Nodes, Remove(n)
        PROVE  ReconcileInv'
    <2>1. CASE doomed' = doomed \ {n} /\ UNCHANGED <<pc, list, pos, local>>
      BY <1>0, <2>1 DEF ReconcileInv
    <2> QED
      BY <1>2, <1>6, <2>1 DEF Remove
  <1>7. CASE RemoveDone
    BY <1>0, <1>7 DEF RemoveDone, ReconcileInv
  <1>8. CASE SyncNode
    <2>1. UNCHANGED local /\ pc = "sync" /\ pos <= Len(list)
      BY <1>8 DEF SyncNode
    <2>2. CASE pos' = pos + 1 /\ UNCHANGED <<pc, list, queued, doomed>>
      <3>1. pos' \in 1..(Len(list) + 1)
        BY <1>0, <2>1, <2>2, NextEntryType
      <3> QED
        BY <1>0, <2>1, <2>2, <3>1 DEF ReconcileInv
    <2> QED
      BY <1>2, <1>8, <2>1, <2>2, SyncNodeWrites
  <1>9. CASE Succeed \/ ReportFailure
    <2>1. local' \in BOOLEAN /\ Return("idle")
      BY <1>0, <1>9 DEF Succeed, ReportFailure, UpdateStatus, ReconcileInv
    <2> QED
      BY <1>0, <2>1, ReturnType
  <1>10. CASE RequestFails
    BY <1>2, <1>10 DEF RequestFails
  <1>11. CASE Crash
    BY <1>0, <1>11, ReturnType DEF Crash
  <1>12. ASSUME NEW n, DaemonCreates(n) \/ DaemonTouches(n) \/ DeliverNode(n) \/ Relabel(n)
         PROVE  UNCHANGED reconcileVars
    BY <1>12 DEF DaemonCreates, DaemonTouches, DeliverNode, Relabel
  <1>13. CASE DeliverCluster \/ Resync
    BY <1>1, <1>13 DEF DeliverCluster, Resync
  <1> QED
    BY <1>1, <1>3, <1>4, <1>5, <1>6, <1>7, <1>8, <1>9, <1>10, <1>11, <1>12, <1>13
       DEF Next, Deliver, Reconcile

LEMMA BoundsInvStep ==
  ASSUME TypeInv, Next
  PROVE  BoundsInv'
  <1> USE DEF TypeInv, BoundsInv
  <1>1. CASE UNCHANGED boundVars
    BY <1>1 DEF boundVars
  <1>2. ASSUME NEW what, Fault(what), UNCHANGED <<writes, touches>>
        PROVE  BoundsInv'
    BY <1>2, BoundsType DEF Fault
  <1>3. ASSUME NEW request, UserWrites(request)
        PROVE  BoundsInv'
    BY <1>3, BoundsType DEF UserWrites
  <1>4. ASSUME NEW n, DaemonTouches(n)
        PROVE  BoundsInv'
    BY <1>4, BoundsType DEF DaemonTouches
  <1>5. ASSUME NEW n, Relabel(n)
        PROVE  BoundsInv'
    BY <1>2, <1>5 DEF Relabel
  <1>6. CASE List \/ ListTooSoon \/ RequestFails \/ Crash
    BY <1>1, <1>2, <1>6 DEF List, ListTooSoon, ListObjects, RequestFails, Crash, boundVars
  <1>7. ASSUME NEW n, DaemonCreates(n) \/ DeliverNode(n) \/ Remove(n)
        PROVE  UNCHANGED boundVars
    BY <1>7 DEF DaemonCreates, DeliverNode, Remove
  <1>8. CASE DeliverCluster \/ Begin \/ RemoveDone \/ SyncNode \/ Succeed \/ ReportFailure \/ Resync
    BY <1>1, <1>8 DEF DeliverCluster, Begin, RemoveDone, SyncNode, Succeed, ReportFailure, Resync
  <1> QED
    BY <1>1, <1>3, <1>4, <1>5, <1>6, <1>7, <1>8 DEF Next, Deliver, Reconcile

LEMMA TypeInvInit == Init => TypeInv
  <1> SUFFICES ASSUME Init PROVE TypeInv
    OBVIOUS
  <1>1. Len(<<>>) = 0
    OBVIOUS
  <1>2. ObjsInv
    BY DEF Init, ObjsInv
  <1>3. LabelInv /\ UserInv
    BY DEF Init, LabelInv, UserInv
  <1>4. ReconcileInv
    <2>1. list = <<>> /\ pos = 1 /\ pc = "idle" /\ local = FALSE /\ doomed = {}
      BY DEF Init
    <2>2. pos \in 1..(Len(list) + 1)
      BY <1>1, <2>1
    <2> QED
      BY <2>1, <2>2 DEF ReconcileInv
  <1> QED
    BY <1>2, <1>3, <1>4, BoundsType DEF TypeInv, Init, BoundsInv

LEMMA TypeInvStep == TypeInv /\ [Next]_vars => TypeInv'
  <1> SUFFICES ASSUME TypeInv, [Next]_vars PROVE TypeInv'
    OBVIOUS
  <1>1. CASE Next
    BY <1>1, ObjsInvStep, LabelInvStep, UserInvStep, ReconcileInvStep, BoundsInvStep DEF TypeInv
  <1>2. CASE UNCHANGED vars
    BY <1>2 DEF vars, TypeInv, ObjsInv, LabelInv, UserInv, ReconcileInv, BoundsInv
  <1> QED
    BY <1>1, <1>2

\* The inductive form of the type invariant holds in every state.
THEOREM TypeInvariance == Spec => []TypeInv
  BY TypeInvInit, TypeInvStep, PTL DEF Spec

\* Every variable keeps its type; in particular no node without a card is
\* given an object, whatever the user lists and whenever labels change.
THEOREM TypeCorrect == Spec => []TypeOK
  BY TypeInvariance, TypeInvImpliesTypeOK, PTL

-----------------------------------------------------------------------------
(* What Reconcile has done so far, and what remains of it.                  *)

\* Reconcile works on the latest list if its local object is the latest one, and
\* that is so unless a newer one is still to be delivered or handled.  After a
\* failure the key is in the queue.
LocalInv ==
    /\ pc = "failed" => queued
    /\ Working => list \in Requests
    /\ Working /\ crCurrent /\ ~queued => local
    /\ Working /\ local => list = cr

\* The first entries of a list have been carried out: each node that had the
\* label has what the last of them asks for.
Written(requests, to) ==
    \A i \in 1..to :
        /\ requests[i].node \in read
        /\ \A j \in 1..to : j > i => requests[j].node # requests[i].node
        => objs[requests[i].node] = requests[i].spec

\* Node n is not configured.
Plain(n) == objs[n] \in {NoSpec, NoObj}

\* What is not listed is removed, then what is listed is written.
SyncInv ==
    /\ pc = "remove" /\ ~tooSoon => \A n \in Nodes : ~Rendered(n) => n \in doomed \/ Plain(n)
    /\ pc = "sync" /\ ~tooSoon => \A n \in Nodes : ~Rendered(n) => Plain(n)
    /\ pc = "sync" => Written(list, pos - 1)

\* At rest all of the latest list has been carried out, and its status written.
RestInv ==
    Quiet =>
        /\ sync = "Succeeded"
        /\ Written(cr, Len(cr))
        /\ ~tooSoon =>
              \A n \in Nodes : n \notin read \/ (\A i \in 1..Len(cr) : cr[i].node # n) => Plain(n)

ClusterInv == LocalInv /\ SyncInv /\ RestInv

LEMMA LocalInvStep ==
  ASSUME TypeInv, LocalInv, Next
  PROVE  LocalInv'
  <1> USE DEF LocalInv, Working
  <1>0. UserInv /\ ReconcileInv /\ NoObj \notin Requests
    BY ClusterConfigAssumption DEF TypeInv
  <1>1. CASE UNCHANGED <<pc, local, list, cr>> /\ (crCurrent' => crCurrent) /\ (queued => queued')
    BY <1>1
  <1>2. CASE Fail
    BY <1>2 DEF Fail, Return
  <1>3. ASSUME NEW request, UserWrites(request)
        PROVE  LocalInv'
    BY <1>3 DEF UserWrites
  <1>4. CASE DeliverCluster \/ Resync
    BY <1>4 DEF DeliverCluster, Resync, reconcileVars, userVars
  <1>5. CASE Begin
    BY <1>0, <1>5 DEF Begin, UserInv, userVars
  <1>6. CASE List \/ ListTooSoon \/ RemoveDone
    BY <1>6 DEF List, ListTooSoon, ListObjects, RemoveDone, userVars
  <1>7. ASSUME NEW n \in Nodes, Remove(n)
        PROVE  LocalInv'
    BY <1>1, <1>2, <1>7 DEF Remove, userVars
  <1>8. CASE SyncNode
    BY <1>1, <1>2, <1>8 DEF SyncNode, userVars
  <1>9. CASE Succeed \/ ReportFailure \/ Crash
    BY <1>9 DEF Succeed, ReportFailure, Crash, Return
  <1>10. CASE RequestFails
    BY <1>2, <1>10 DEF RequestFails
  <1>11. ASSUME NEW n, DaemonCreates(n) \/ DaemonTouches(n) \/ DeliverNode(n) \/ Relabel(n)
         PROVE  UNCHANGED <<pc, local, list, cr, crCurrent, queued>>
    BY <1>11 DEF DaemonCreates, DaemonTouches, DeliverNode, Relabel, reconcileVars, userVars
  <1> QED
    BY <1>1, <1>3, <1>4, <1>5, <1>6, <1>7, <1>8, <1>9, <1>10, <1>11 DEF Next, Deliver, Reconcile

\* Steps of the user, the daemons and the informers neither configure a node nor
\* undo a configuration; what Reconcile has done stays done.
LEMMA OthersKeepObjects ==
  ASSUME TypeInv,
         \/ \E request \in Requests \cup {NoObj} : UserWrites(request)
         \/ \E n \in Nodes : DaemonCreates(n) \/ DaemonTouches(n) \/ Relabel(n) \/ DeliverNode(n)
         \/ DeliverCluster \/ Resync
  PROVE  /\ UNCHANGED <<read, tooSoon, pc, list, pos, doomed>>
         /\ \A n \in Nodes : objs'[n] = objs[n] \/ (objs[n] = NoObj /\ objs'[n] = NoSpec)
         /\ crCurrent' /\ ~queued' => crCurrent /\ ~queued /\ UNCHANGED <<cr, sync>>
  <1>1. CASE DeliverCluster \/ Resync
    BY <1>1 DEF DeliverCluster, Resync, labelVars, reconcileVars, objVars
  <1>2. ASSUME NEW request, UserWrites(request)
        PROVE  UNCHANGED <<read, tooSoon, pc, list, pos, doomed, objs>> /\ ~crCurrent'
    BY <1>2 DEF UserWrites, labelVars, objVars
  <1>3. ASSUME NEW n, Relabel(n) \/ DeliverNode(n)
        PROVE  UNCHANGED <<read, tooSoon, pc, list, pos, doomed, objs, crCurrent, queued, cr, sync>>
    BY <1>3 DEF Relabel, DeliverNode, labelVars, objVars, reconcileVars, userVars
  <1>4. ASSUME NEW n \in Nodes, DaemonCreates(n) \/ DaemonTouches(n)
        PROVE  /\ UNCHANGED <<read, tooSoon, pc, list, pos, doomed, crCurrent, queued, cr, sync>>
               /\ \A m \in Nodes : objs'[m] = objs[m] \/ (objs[m] = NoObj /\ objs'[m] = NoSpec)
    <2>1. UNCHANGED <<read, tooSoon, pc, list, pos, doomed, crCurrent, queued, cr, sync>>
      BY <1>4 DEF DaemonCreates, DaemonTouches, labelVars, reconcileVars, userVars
    <2>2. objs \in [Nodes -> Specs \cup {NoSpec, NoObj}]
      BY DEF TypeInv, ObjsInv
    <2>3. \/ objs[n] = NoObj /\ objs' = [objs EXCEPT ![n] = NoSpec]
          \/ objs' = [objs EXCEPT ![n] = objs[n]]
      BY <1>4 DEF DaemonCreates, DaemonTouches, Write
    <2> QED
      BY <2>1, <2>2, <2>3
  <1> QED
    BY <1>1, <1>2, <1>3, <1>4

\* Objects that have a configuration keep it, and the others stay without one,
\* if they change only as the others change them.
LEMMA OthersKeepWritten ==
  ASSUME TypeInv, UNCHANGED read,
         \A n \in Nodes : objs'[n] = objs[n] \/ (objs[n] = NoObj /\ objs'[n] = NoSpec),
         NEW requests \in Requests \cup {<<>>}, NEW to \in Nat, to <= Len(requests)
  PROVE  /\ Written(requests, to) =>
              \A i \in 1..to :
                  /\ requests[i].node \in read'
                  /\ \A j \in 1..to : j > i => requests[j].node # requests[i].node
                  => objs'[requests[i].node] = requests[i].spec
         /\ \A n \in Nodes : Plain(n) => objs'[n] \in {NoSpec, NoObj}
  <1>1. Len(requests) \in Nat
        /\ \A i \in 1..Len(requests) : requests[i].node \in Nodes /\ requests[i].spec \in Specs
    BY ListType
  <1>2. \A i \in 1..to : requests[i].node \in Nodes /\ requests[i].spec \in Specs
    BY <1>1
  <1> QED
    BY <1>2, SpecsAreDistinct DEF Written, Plain

LEMMA SyncInvStep ==
  ASSUME TypeInv, SyncInv, Next
  PROVE  SyncInv'
  <1>0. ObjsInv /\ LabelInv /\ ReconcileInv
    BY DEF TypeInv
  <1>1. CASE pc' \notin {"remove", "sync"}
    BY <1>1 DEF SyncInv
  <1>2. CASE \/ \E request \in Requests \cup {NoObj} : UserWrites(request)
             \/ \E n \in Nodes : DaemonCreates(n) \/ DaemonTouches(n) \/ Relabel(n) \/ DeliverNode(n)
             \/ DeliverCluster \/ Resync
    <2>1. /\ UNCHANGED <<read, tooSoon, pc, list, pos, doomed>>
          /\ \A n \in Nodes : objs'[n] = objs[n] \/ (objs[n] = NoObj /\ objs'[n] = NoSpec)
      BY <1>2, OthersKeepObjects
    <2>2. /\ list \in Requests \cup {<<>>} /\ pos - 1 \in Nat /\ pos - 1 <= Len(list)
      BY <1>0, ListType DEF ReconcileInv
    <2>3. /\ Written(list, pos - 1) => Written(list, pos - 1)'
          /\ \A n \in Nodes : Plain(n) => Plain(n)'
      BY <2>1, <2>2, OthersKeepWritten DEF Written, Plain
    <2>4. \A n \in Nodes : Rendered(n)' = Rendered(n)
      BY <2>1 DEF Rendered, NodeHasAccelerator
    <2> QED
      BY <2>1, <2>3, <2>4 DEF SyncInv
  <1>3. CASE List \/ ListTooSoon
    <2>1. /\ pc' = "remove" /\ UNCHANGED <<objs, read, list>> /\ tooSoon' = (current # Nodes)
          /\ doomed' = {n \in Nodes : cache[n] # NoObj /\ ~Rendered(n)}
      BY <1>3 DEF List, ListTooSoon, ListObjects, labelVars, objVars
    <2>2. ~tooSoon' => \A n \in Nodes : cache[n] = objs[n]
      BY <1>0, <2>1 DEF ObjsInv
    <2>3. \A n \in Nodes : Rendered(n)' = Rendered(n)
      BY <2>1 DEF Rendered, NodeHasAccelerator
    <2> QED
      BY <2>1, <2>2, <2>3 DEF SyncInv, Plain
  <1>4. ASSUME NEW n \in Nodes, Remove(n)
        PROVE  SyncInv'
    <2>1. CASE Fail
      BY <1>1, <2>1 DEF Fail, Return
    <2>2. CASE Write(n, NoObj) /\ doomed' = doomed \ {n} /\ UNCHANGED <<pc, queued, list, pos>>
      <3>1. pc = "remove" /\ UNCHANGED <<read, tooSoon>>
        BY <1>4 DEF Remove, labelVars
      <3>2. objs'[n] = NoObj /\ \A m \in Nodes : m # n => objs'[m] = objs[m]
        BY <1>0, <2>2, WriteOne DEF Stored
      <3>3. \A m \in Nodes : Rendered(m)' = Rendered(m)
        BY <2>2, <3>1 DEF Rendered, NodeHasAccelerator
      <3> QED
        BY <2>2, <3>1, <3>2, <3>3 DEF SyncInv, Plain
    <2> QED
      BY <1>4, <2>1, <2>2 DEF Remove
  <1>5. CASE RemoveDone
    <2>1. /\ pc = "remove" /\ pc' = "sync" /\ doomed = {} /\ UNCHANGED <<objs, read, tooSoon, list, pos>>
      BY <1>5 DEF RemoveDone, labelVars, objVars
    <2>2. pos = 1
      BY <1>0, <2>1 DEF ReconcileInv
    <2>3. Written(list, pos - 1)'
      BY <2>1, <2>2 DEF Written
    <2>4. \A n \in Nodes : Rendered(n)' = Rendered(n)
      BY <2>1 DEF Rendered, NodeHasAccelerator
    <2> QED
      BY <2>1, <2>3, <2>4 DEF SyncInv, Plain
  <1>6. CASE SyncNode
    <2>1. CASE Fail
      BY <1>1, <2>1 DEF Fail, Return
    <2>2. CASE /\ pos' = pos + 1 /\ UNCHANGED <<pc, list, queued, doomed>>
               /\ NodeHasAccelerator(list[pos].node) => objs'[list[pos].node] = list[pos].spec
               /\ \A m \in Nodes : m # list[pos].node \/ ~NodeHasAccelerator(m) => objs'[m] = objs[m]
      <3>1. pc = "sync" /\ UNCHANGED <<read, tooSoon>> /\ pos <= Len(list)
        BY <1>6 DEF SyncNode, labelVars
      <3>2. pos \in 1..Len(list) /\ Len(list) \in Nat /\ DOMAIN list = 1..Len(list)
            /\ \A i \in 1..Len(list) : list[i].node \in Nodes
        BY <1>0, <3>1, NextEntryType, ListType DEF ReconcileInv
      <3>3. ASSUME NEW i \in 1..pos, list[i].node \in read,
                   \A j \in 1..pos : j > i => list[j].node # list[i].node
            PROVE  objs'[list[i].node] = list[i].spec
        <4>1. CASE i = pos
          BY <2>2, <3>3, <4>1 DEF NodeHasAccelerator
        <4>2. CASE i # pos
          <5>1. i \in 1..(pos - 1) /\ pos > i /\ pos \in 1..pos /\ list[i].node \in Nodes
                /\ 1..(pos - 1) \subseteq 1..pos
            BY <3>2, <4>2
          <5>2. objs[list[i].node] = list[i].spec
            BY <3>1, <3>3, <5>1 DEF SyncInv, Written
          <5>3. list[i].node # list[pos].node
            BY <3>3, <5>1
          <5> QED
            BY <2>2, <5>1, <5>2, <5>3
        <4> QED
          BY <4>1, <4>2
      <3>4. Written(list, pos - 1)'
        <4>1. pos' - 1 = pos
          BY <2>2, <3>2
        <4> QED
          BY <2>2, <3>1, <3>3, <4>1 DEF Written
      <3>5. ASSUME NEW m \in Nodes, ~Rendered(m)'
            PROVE  ~Rendered(m) /\ objs'[m] = objs[m]
        <4>1. ~Rendered(m)
          BY <2>2, <3>1, <3>5 DEF Rendered, NodeHasAccelerator
        <4>2. m # list[pos].node \/ ~NodeHasAccelerator(m)
          BY <3>2, <4>1 DEF Rendered
        <4> QED
          BY <2>2, <4>1, <4>2
      <3> QED
        BY <2>2, <3>1, <3>4, <3>5 DEF SyncInv, Plain
    <2> QED
      BY <1>6, <2>1, <2>2, SyncNodeWrites
  <1>7. CASE Begin
    BY <1>1, <1>7 DEF Begin
  <1>8. CASE Succeed \/ ReportFailure \/ RequestFails \/ Crash
    BY <1>1, <1>8 DEF Succeed, ReportFailure, RequestFails, Crash, Fail, Return
  <1> QED
    BY <1>2, <1>3, <1>4, <1>5, <1>6, <1>7, <1>8 DEF Next, Deliver, Reconcile

LEMMA RestInvStep ==
  ASSUME TypeInv, ClusterInv, Next
  PROVE  RestInv'
  <1>0. /\ ObjsInv /\ UserInv /\ ReconcileInv /\ LocalInv /\ SyncInv /\ RestInv
        /\ NoObj \notin Requests
    BY ClusterConfigAssumption DEF TypeInv, ClusterInv
  <1>1. CASE queued' \/ pc' # "idle" \/ ~crCurrent' \/ cr' = NoObj
    BY <1>1 DEF RestInv, Quiet
  <1>2. CASE \/ \E request \in Requests \cup {NoObj} : UserWrites(request)
             \/ \E n \in Nodes : DaemonCreates(n) \/ DaemonTouches(n) \/ Relabel(n) \/ DeliverNode(n)
             \/ DeliverCluster \/ Resync
    <2> SUFFICES ASSUME Quiet'
                 PROVE  RestInv'
      BY DEF RestInv
    <2>1. /\ UNCHANGED <<read, tooSoon, cr, sync>>
          /\ \A n \in Nodes : objs'[n] = objs[n] \/ (objs[n] = NoObj /\ objs'[n] = NoSpec)
          /\ Quiet
      BY <1>2, OthersKeepObjects DEF Quiet
    <2>2. cr \in Requests /\ Len(cr) \in Nat
      BY <1>0, <2>1, ListType DEF Quiet, UserInv
    <2>3. /\ Written(cr, Len(cr)) => Written(cr, Len(cr))'
          /\ \A n \in Nodes : Plain(n) => Plain(n)'
      BY <2>1, <2>2, OthersKeepWritten DEF Written, Plain
    <2> QED
      BY <1>0, <2>1, <2>3 DEF RestInv
  <1>3. CASE Begin
    <2>1. CASE crCache = NoObj
      BY <1>0, <1>1, <1>3, <2>1 DEF Begin, UserInv, userVars
    <2>2. CASE crCache # NoObj
      BY <1>1, <1>3, <2>2 DEF Begin
    <2> QED
      BY <2>1, <2>2
  <1>4. CASE List \/ ListTooSoon \/ RemoveDone
    BY <1>1, <1>4 DEF List, ListTooSoon, ListObjects, RemoveDone
  <1>5. ASSUME NEW n \in Nodes, Remove(n)
        PROVE  RestInv'
    BY <1>1, <1>5 DEF Remove, Fail
  <1>6. CASE SyncNode
    BY <1>1, <1>6 DEF SyncNode, Fail
  <1>7. CASE ReportFailure
    BY <1>0, <1>1, <1>7 DEF ReportFailure, LocalInv
  <1>8. CASE RequestFails
    BY <1>1, <1>8 DEF RequestFails, Fail
  <1>9. CASE Crash
    BY <1>1, <1>9 DEF Crash, userVars
  <1>10. CASE Succeed
    <2> SUFFICES ASSUME Quiet'
                 PROVE  RestInv'
      BY DEF RestInv
    <2>1. /\ pc = "sync" /\ pos > Len(list) /\ UpdateStatus("Succeeded")
          /\ UNCHANGED <<read, tooSoon, cr, objs, queued>>
      BY <1>10 DEF Succeed, labelVars, objVars
    <2>2. crCurrent /\ ~queued
      BY <1>0, <2>1 DEF Quiet, UpdateStatus, UserInv
    <2>3. local /\ list = cr /\ sync' = "Succeeded"
      BY <1>0, <2>1, <2>2 DEF LocalInv, Working, UpdateStatus
    <2>4. Len(list) \in Nat /\ DOMAIN list = 1..Len(list) /\ pos - 1 = Len(list)
      <3>1. Len(list) \in Nat /\ DOMAIN list = 1..Len(list) /\ pos \in 1..(Len(list) + 1)
        BY <1>0, ListType DEF ReconcileInv
      <3> QED
        BY <2>1, <3>1
    <2>5. Written(cr, Len(cr))'
      BY <1>0, <2>1, <2>3, <2>4 DEF SyncInv, Written
    <2>6. ASSUME ~tooSoon, NEW n \in Nodes, n \notin read \/ (\A i \in 1..Len(cr) : cr[i].node # n)
          PROVE  Plain(n)
      <3>1. ~Rendered(n)
        BY <2>3, <2>4, <2>6 DEF Rendered, NodeHasAccelerator
      <3> QED
        BY <1>0, <2>1, <2>6, <3>1 DEF SyncInv
    <2> QED
      BY <2>1, <2>3, <2>5, <2>6 DEF RestInv, Plain
  <1> QED
    BY <1>2, <1>3, <1>4, <1>5, <1>6, <1>7, <1>8, <1>9, <1>10 DEF Next, Deliver, Reconcile

LEMMA ClusterInvInit == Init => ClusterInv
  BY DEF Init, ClusterInv, LocalInv, Working, SyncInv, RestInv, Quiet

LEMMA ClusterInvStep == TypeInv /\ ClusterInv /\ [Next]_vars => ClusterInv'
  <1> SUFFICES ASSUME TypeInv, ClusterInv, [Next]_vars PROVE ClusterInv'
    OBVIOUS
  <1>1. CASE Next
    BY <1>1, LocalInvStep, SyncInvStep, RestInvStep DEF ClusterInv
  <1>2. CASE UNCHANGED vars
    <2>1. LocalInv'
      BY <1>2 DEF vars, ClusterInv, LocalInv, Working
    <2>2. SyncInv'
      BY <1>2 DEF vars, ClusterInv, SyncInv, Written, Plain, Rendered, NodeHasAccelerator
    <2>3. RestInv'
      BY <1>2 DEF vars, ClusterInv, RestInv, Quiet, Written, Plain
    <2> QED
      BY <2>1, <2>2, <2>3 DEF ClusterInv
  <1> QED
    BY <1>1, <1>2

\* The invariant about Reconcile's work holds in every state.
THEOREM ClusterInvariance == Spec => []ClusterInv
  BY ClusterInvInit, ClusterInvStep, TypeInvariance, PTL DEF Spec

\* All of a list that has been carried out: its nodes are synchronized, if their
\* labels are still the ones that were read.
LEMMA WrittenMeansSynced ==
  ASSUME cr \in Requests, Written(cr, Len(cr)), NEW n \in Nodes, LabelIsRead(n)
  PROVE  Synced(n)
  <1>1. DOMAIN cr = 1..Len(cr)
    BY ListType
  <1> QED
    BY <1>1 DEF Written, Synced, Last, LabelIsRead

\* Once the controller rests, every listed node with an accelerator has its
\* object with the latest requested configuration, and the status says so.
THEOREM ListedNodesAreSynced == Spec => []RequestedAreSynced
  <1>1. TypeInv /\ ClusterInv => RequestedAreSynced
    <2> SUFFICES ASSUME TypeInv, ClusterInv, Quiet
                 PROVE  sync = "Succeeded" /\ \A n \in Nodes : LabelIsRead(n) => Synced(n)
      BY DEF RequestedAreSynced
    <2>1. cr \in Requests /\ sync = "Succeeded" /\ Written(cr, Len(cr))
      BY DEF TypeInv, UserInv, ClusterInv, RestInv, Quiet
    <2> QED
      BY <2>1, WrittenMeansSynced
  <1> QED
    BY <1>1, TypeInvariance, ClusterInvariance, PTL

\* Once the controller rests, no node that is not listed is configured, unless
\* the cache it listed the objects from lagged.
THEOREM UnlistedNodesArePlain == Spec => []OldAreRemoved
  <1>1. TypeInv /\ ClusterInv => OldAreRemoved
    <2> SUFFICES ASSUME TypeInv, ClusterInv, Quiet, ~tooSoon, NEW n \in Nodes, LabelIsRead(n)
                 PROVE  Removed(n)
      BY DEF OldAreRemoved
    <2>1. cr \in Requests
      BY DEF TypeInv, UserInv, Quiet
    <2>2. DOMAIN cr = 1..Len(cr)
      BY <2>1, ListType
    <2> QED
      BY <2>2 DEF ClusterInv, RestInv, Removed, LabelIsRead, Plain
  <1> QED
    BY <1>1, TypeInvariance, ClusterInvariance, PTL

\* No attempt of the sriov-fec controller for the latest cluster object leaves
\* "Succeeded" in the status when a listed node is not synchronized.
THEOREM StatusIsHonest == Spec => AttemptsEndHonestly
  <1> DEFINE Ends == /\ kind = "sriov-fec"
                     /\ pc # "idle" /\ pc' = "idle" /\ ~Crash
                     /\ local /\ sync' = "Succeeded"
             Honest == Ends => \A n \in Nodes : LabelIsRead(n) => Synced(n)'
  <1>1. TypeInv /\ ClusterInv /\ [Next]_vars => [Honest]_vars
    <2> SUFFICES ASSUME TypeInv, ClusterInv, Next, Ends, NEW n \in Nodes, LabelIsRead(n)
                 PROVE  Synced(n)'
      OBVIOUS
    <2>1. UserInv /\ ReconcileInv /\ LocalInv /\ SyncInv
      BY DEF TypeInv, ClusterInv
    <2>2. ~Fail
      BY DEF Fail, Return
    <2>3. Succeed \/ ReportFailure
      <3>1. ASSUME \/ \E request \in Requests \cup {NoObj} : UserWrites(request)
                   \/ \E m \in Nodes : DaemonCreates(m) \/ DaemonTouches(m) \/ Relabel(m) \/ DeliverNode(m)
                   \/ DeliverCluster \/ Resync
            PROVE  FALSE
        BY <3>1, OthersKeepObjects
      <3>2. ~Begin /\ ~List /\ ~ListTooSoon /\ ~RemoveDone
        BY DEF Begin, List, ListTooSoon, ListObjects, RemoveDone
      <3>3. ~RequestFails /\ \A m \in Nodes : ~Remove(m)
        BY <2>2 DEF RequestFails, Remove
      <3>4. ~SyncNode
        BY <2>2 DEF SyncNode
      <3> QED
        BY <3>1, <3>2, <3>3, <3>4 DEF Next, Deliver, Reconcile
    <2>4. ~ReportFailure
      BY DEF ReportFailure, UpdateStatus
    <2>5. /\ pc = "sync" /\ pos > Len(list) /\ local
          /\ UNCHANGED <<labelled, cr, objs>>
      BY <2>3, <2>4 DEF Succeed, labelVars, objVars
    <2>6. list = cr /\ cr \in Requests
      BY <2>1, <2>5 DEF LocalInv, Working
    <2>7. Written(cr, Len(cr))
      <3>1. Len(list) \in Nat /\ pos \in 1..(Len(list) + 1)
        BY <2>1, ListType DEF ReconcileInv
      <3>2. pos - 1 = Len(list)
        BY <2>5, <3>1
      <3> QED
        BY <2>1, <2>5, <2>6, <3>2 DEF SyncInv
    <2>8. Synced(n)
      BY <2>6, <2>7, WrittenMeansSynced
    <2> QED
      BY <2>5, <2>8 DEF Synced, Last
  <1> QED
    BY <1>1, TypeInvariance, ClusterInvariance, PTL DEF Spec, AttemptsEndHonestly

=============================================================================
