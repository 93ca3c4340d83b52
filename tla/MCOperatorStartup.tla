-------------------------- MODULE MCOperatorStartup --------------------------
(* Small instances of OperatorStartup for TLC.                              *)
EXTENDS OperatorStartup

CONSTANTS n3000, sriov, labeler, driver, daemon

Do(what, ds) == [do |-> what, ds |-> ds]
N3000Start == << Do("put", labeler), Do("wait", labeler), [do |-> "kernel"],
                 Do("put", driver), Do("wait", driver) >>
Daemon == << Do("put", daemon), Do("wait", daemon) >>

\* Both operators.  Only sriov-fec's daemon is there: what N3000 still deploys
\* after its driver interacts with nothing.  Monitoring and the device plugin are
\* like objects before them.
MCProgram ==
    [op \in {n3000, sriov} |->
        IF op = n3000 THEN N3000Start ELSE <<Do("put", labeler)>> \o Daemon]

=============================================================================
