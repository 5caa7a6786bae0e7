---------------------------- MODULE MCWorkflows -----------------------------
(***************************************************************************)
(* The operations of dsmctl that take several steps and must end, for TLC, *)
(* one machine at a time: restoring the gateway's state (GatewayRecovery), *)
(* creating a replication relation (ReplicationRelation), and installing   *)
(* packages (PackageInstall).                                              *)
(*                                                                         *)
(* The machines share no state: a behaviour is one of the machine that     *)
(* part names, and the others rest.                                        *)
(***************************************************************************)
EXTENDS GatewayRecovery, ReplicationRelation, PackageInstall

\* What the online server may publish: every graph of dependencies, with two
\* stable rows of the package asked for, and of each other a stable one among
\* newer betas; of the second package the stable row may lack its link, and the
\* third may have no row.  What no package needs is left out.
Offer(version, beta) == [version |-> version, beta |-> beta, link |-> TRUE]
NoLink(version) == [version |-> version, beta |-> FALSE, link |-> FALSE]
RowsOf(p) ==
    IF p = Goal THEN {<<Offer(1, FALSE), Offer(2, FALSE)>>}
    ELSE {<<Offer(2, TRUE), Offer(1, FALSE), Offer(2, TRUE)>>,
          IF p = 2 THEN <<Offer(2, TRUE), NoLink(1), Offer(2, TRUE)>> ELSE <<>>}
Listed(p) == {s \in UNION {[1..n -> PackageIds \ {p}] : n \in 0..(NPackages - 1)} :
                 \A i, j \in DOMAIN s : i < j => s[i] < s[j]}
ListedBy(graph) == UNION {{graph[q][i] : i \in DOMAIN graph[q]} : q \in PackageIds}
Graphs == {g \in [PackageIds -> UNION {Listed(p) : p \in PackageIds}] :
              \A p \in PackageIds :
                  /\ g[p] \in Listed(p)
                  /\ p \notin ListedBy(g) \union {Goal} => g[p] = <<>>}
AnyCatalogue ==
    {c \in [requires : Graphs, catalogue : [PackageIds -> UNION {RowsOf(p) : p \in PackageIds}]] :
        \A p \in PackageIds :
            /\ c.catalogue[p] \in RowsOf(p)
            /\ p \notin ListedBy(c.requires) \union {Goal} => c.catalogue[p] = <<>>}

VARIABLE part  \* the machine that runs; constant

workflowVars == <<part, recoveryVars, replicationVars, packageVars>>

RecoveryAtRest == RecoveryInit /\ DOMAIN shelf = {}
PackageAtRest == PackageInit /\ \A p \in PackageIds : inventory[p] = 0

MCInit ==
    /\ part \in {"recovery", "replication", "packages"}
    /\ ReplicationInit
    /\ IF part = "recovery" THEN RecoveryInit ELSE RecoveryAtRest
    /\ IF part = "packages" THEN PackageInit ELSE PackageAtRest

RecoveryPart ==
    part = "recovery" /\ RecoveryNext /\ UNCHANGED <<part, replicationVars, packageVars>>
ReplicationPart ==
    part = "replication" /\ ReplicationNext /\ UNCHANGED <<part, recoveryVars, packageVars>>
PackagePart ==
    part = "packages" /\ PackageNext /\ UNCHANGED <<part, recoveryVars, replicationVars>>

MCNext == RecoveryPart \/ ReplicationPart \/ PackagePart

\* The fair steps of a machine at rest are disabled, so that its fairness asks
\* nothing of the machine that runs.
MCSpec ==
    /\ MCInit /\ [][MCNext]_workflowVars
    /\ RecoveryFairness /\ ReplicationFairness /\ PackageFairness

\* Every variable has its type, and the gateway serves only with a state.
WorkflowsTypeOK == RecoveryTypeOK /\ ReplicationTypeOK /\ PackageTypeOK

\* What was begun ends, whatever DSM's tasks do: a confirmed restore is
\* settled, and applies of relations and packages return.
WorkflowsEnd == RestoreSettles /\ RelationApplyEnds /\ InstallEnds

=============================================================================
