----------------------------- MODULE MCNodeConfig -----------------------------
(* Small instances of NodeConfig for TLC.                                   *)
EXTENDS NodeConfig, TLC

CONSTANTS p1, p2, q1, s1, s2

\* Queue groups of an ACC100 with d of them for the 5G downlink.
Groups(d) == <<4, 1, 3 - d, d>>

\* A request for a device, n VFs and queues.
For(pf, n, acc100, n3000) ==
    [pf |-> pf, pfDriver |-> "stub", vfDriver |-> "vfio", vfAmount |-> n,
     acc100 |-> acc100, n3000 |-> n3000]

MCRequested ==
    [spec \in Specs |->
        CASE spec = "queues1" -> << For(p1, 2, Groups(1), Nil) >>
          [] spec = "queues2" -> << For(p1, 2, Groups(2), Nil) >>
          [] spec = "twice" -> << For(p1, 2, Groups(1), q1), For(p1, 1, Nil, Nil) >>
          [] spec = "both" -> << For(p2, 1, Nil, Nil), For(p1, 1, Nil, q1) >>
          [] spec = "groups" -> << For(p1, 2, <<4, 1, 3, 1>>, Nil) >>
          [] spec = "unknown" -> << For(p1, 0, Nil, Nil), For("none", 1, Nil, Nil) >>
          [] spec = "amount" -> << For(p1, 3, Nil, Nil) >>
          [] spec = "unnamed" -> << For(p2, 1, Nil, q1) >>]

\* The slots of the workers are interchangeable.
SlotSymmetry == Permutations(Slots)

====
