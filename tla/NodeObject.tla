------------------------------ MODULE NodeObject ------------------------------
(***************************************************************************)
(* What the readers of a node object may rely on: the user who looks at    *)
(* it, and the cluster controller that writes its spec and takes it that   *)
(* the daemon creates a missing object and otherwise writes nothing but    *)
(* the status.  No caches, queues, restarts or devices: an object is       *)
(* created, its spec is changed, and its status tells that work has begun  *)
(* or how it has ended.  An outcome is always one of the generation that   *)
(* the object has when the outcome is written.                             *)
(***************************************************************************)
EXTENDS Naturals

CONSTANTS
    Specs,     \* what can be requested
    NoSpec,    \* nothing
    NoObj,     \* the object does not exist
    Outcomes   \* the reasons that tell how an attempt has ended

VARIABLE object

Fresh(spec) == [gen |-> 1, spec |-> spec, reason |-> "none", obs |-> 0]

ObjectInit == object = Fresh(NoSpec)

\* The cluster controller creates the object, or the daemon an empty one.
Create(spec) ==
    /\ object = NoObj
    /\ object' = Fresh(spec)

\* The cluster controller changes what is requested.
Change(spec) ==
    /\ object # NoObj /\ spec # object.spec
    /\ object' = [object EXCEPT !.spec = spec, !.gen = @ + 1]

Remove ==
    /\ object # NoObj
    /\ object' = NoObj

\* The daemon begins with an object that already has a condition; the
\* generation of its latest outcome stays.
Begin ==
    /\ object # NoObj /\ object.reason # "none"
    /\ object' = [object EXCEPT !.reason = "InProgress"]

\* The daemon tells how it went.
Conclude(reason) ==
    /\ object # NoObj
    /\ object' = [object EXCEPT !.reason = reason, !.obs = object.gen]

ObjectNext ==
    \/ \E spec \in Specs \cup {NoSpec} : Create(spec) \/ Change(spec)
    \/ Remove
    \/ Begin
    \/ \E reason \in Outcomes : Conclude(reason)

ObjectSpec == ObjectInit /\ [][ObjectNext]_object

=============================================================================
