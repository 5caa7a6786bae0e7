------------------------- MODULE ReplicationRelation -------------------------
(***************************************************************************)
(* internal/application/snapshot_replication.go: a share replication       *)
(* relation is planned on two sites, and applied by pairing a credential   *)
(* on the source, creating the relation as a task of DSM, polling the task *)
(* and looking for the relation in the source's list.  Several appliers    *)
(* work on the same share; each answer of a NAS may fail, and the cleanup  *)
(* of the credential is best effort: it may fail, and it is not set up yet *)
(* when the answer to the pairing is lost.                                 *)
(*                                                                         *)
(* An applier's credential is the applier itself, and so is the relation   *)
(* its task creates.  DSM (external) may create a second relation for a    *)
(* share, finishes or fails a task at any time, also after the applier has *)
(* stopped polling, and seldom reports the id of the relation.             *)
(***************************************************************************)
EXTENDS Naturals, FiniteSets

CONSTANTS Applier, NoRelation, MaxAnswersLost

ASSUME ReplicationAssumption == NoRelation \notin Applier /\ MaxAnswersLost \in Nat

VARIABLES
    relations,    \* the relations of the share on the source: who created them
    credentials,  \* the temporary credentials on the source
    tasks,        \* create tasks: "none", "running", "finished", "failed"
    at,           \* where each applier is
    reported,     \* the plan id its task reports, or NoRelation
    named,        \* the plan id it returns
    undeleted,    \* history: DeleteReplicationCredential failed for it
    unknown,      \* history: the answer with its credential was lost
    older,        \* history: the relations there were when it planned again
    torn,         \* the relations that were deleted
    answersLost

replicationVars ==
    <<relations, credentials, tasks, at, reported, named, undeleted, unknown, older, torn,
      answersLost>>

ReplicationInit ==
    /\ relations = {} /\ credentials = {} /\ torn = {}
    /\ tasks = [a \in Applier |-> "none"]
    /\ at = [a \in Applier |-> "idle"]
    /\ reported = [a \in Applier |-> NoRelation]
    /\ named = [a \in Applier |-> NoRelation]
    /\ undeleted = {} /\ unknown = {} /\ older = [a \in Applier |-> {}]
    /\ answersLost = 0

Working == {"pair", "connect", "create", "poll", "confirm"}

Goto(a, next) == at' = [at EXCEPT ![a] = next]
AnswerLost == answersLost < MaxAnswersLost /\ answersLost' = answersLost + 1

\* Refused: there is a relation for the share on the source or the destination.
PlanRelation(a) ==
    /\ at[a] = "idle"
    /\ relations = {}
    /\ Goto(a, "planned")
    /\ UNCHANGED <<relations, credentials, tasks, reported, named, undeleted, unknown, older,
                   torn, answersLost>>

\* planned again on both sites and compared, before anything is done; the
\* shares and volumes observed may differ too
ApplyRelation(a) ==
    /\ at[a] = "planned"
    /\ \/ relations = {} /\ Goto(a, "pair") /\ older' = [older EXCEPT ![a] = relations]
       \/ Goto(a, "refused") /\ UNCHANGED older
    /\ UNCHANGED <<relations, credentials, tasks, reported, named, undeleted, unknown,
                   torn, answersLost>>

\* PairReplicationCredential; when its answer is lost there may be a
\* credential that nobody knows, and its error is returned before the cleanup
\* is deferred: no deletion is tried
PairCredential(a) ==
    /\ at[a] = "pair"
    /\ \/ Goto(a, "connect") /\ credentials' = credentials \union {a}
          /\ UNCHANGED <<unknown, answersLost>>
       \/ AnswerLost /\ Goto(a, "failed") /\ UNCHANGED <<credentials, unknown>>
       \/ AnswerLost /\ Goto(a, "failed")
          /\ credentials' = credentials \union {a} /\ unknown' = unknown \union {a}
    /\ UNCHANGED <<relations, tasks, reported, named, undeleted, older, torn>>

\* the deferred DeleteReplicationCredential, for every error from here on
Cleanup(a) ==
    /\ Goto(a, "failed")
    /\ \/ credentials' = credentials \ {a} /\ UNCHANGED undeleted
       \/ undeleted' = undeleted \union {a} /\ UNCHANGED credentials

CheckRemoteConn(a) ==
    /\ at[a] = "connect"
    /\ \/ Goto(a, "create") /\ UNCHANGED <<credentials, undeleted, answersLost>>
       \/ AnswerLost /\ Cleanup(a)
    /\ UNCHANGED <<relations, tasks, reported, named, unknown, older, torn>>

\* CreateReplicationPlan starts the task, also when its answer is lost
CreateRelation(a) ==
    /\ at[a] = "create"
    /\ \/ Goto(a, "poll") /\ tasks' = [tasks EXCEPT ![a] = "running"]
          /\ UNCHANGED <<credentials, undeleted, answersLost>>
       \/ /\ AnswerLost /\ Cleanup(a)
          /\ tasks' \in {tasks, [tasks EXCEPT ![a] = "running"]}
    /\ UNCHANGED <<relations, reported, named, unknown, older, torn>>

\* External: DSM needs the credential to create the relation.
TaskRuns(a) ==
    /\ tasks[a] = "running"
    /\ \/ /\ a \in credentials
          /\ tasks' = [tasks EXCEPT ![a] = "finished"]
          /\ relations' = relations \union {a}
          /\ reported' \in {reported, [reported EXCEPT ![a] = a]}
       \/ tasks' = [tasks EXCEPT ![a] = "failed"] /\ UNCHANGED <<relations, reported>>
    /\ UNCHANGED <<credentials, at, named, undeleted, unknown, older, torn, answersLost>>

AwaitKeepsCredential(a) == \* Fault: the deadline returns past the cleanup
    /\ at[a] = "poll"
    /\ \/ tasks[a] = "finished" /\ Goto(a, "confirm") /\ UNCHANGED <<credentials, undeleted>>
       \/ tasks[a] = "failed" /\ Cleanup(a)
       \/ tasks[a] = "running" /\ Goto(a, "failed") /\ UNCHANGED <<credentials, undeleted>>
    /\ UNCHANGED <<relations, tasks, reported, named, unknown, older, torn, answersLost>>

\* awaitReplicationCreate: the task's error, its end, or the deadline
AwaitCreate(a) ==
    /\ at[a] = "poll"
    /\ \/ tasks[a] = "finished" /\ Goto(a, "confirm") /\ UNCHANGED <<credentials, undeleted>>
       \/ tasks[a] = "failed" /\ Cleanup(a)
       \/ tasks[a] = "running" /\ Cleanup(a)
    /\ UNCHANGED <<relations, tasks, reported, named, unknown, older, torn, answersLost>>

\* The relations that confirm the one just created: by the reported id, or by
\* the name of the share.
Confirming(a) == IF reported[a] # NoRelation THEN relations \intersect {reported[a]} ELSE relations

ConfirmCleansUp(a) == \* Fault: confirmedOK is never set
    /\ at[a] = "confirm"
    /\ \/ \E r \in Confirming(a) :
             Goto(a, "applied") /\ named' = [named EXCEPT ![a] = r]
             /\ credentials' = credentials \ {a} /\ UNCHANGED <<undeleted, answersLost>>
       \/ Confirming(a) = {} /\ Cleanup(a) /\ UNCHANGED <<named, answersLost>>
    /\ UNCHANGED <<relations, tasks, reported, unknown, older, torn>>

ConfirmRelation(a) ==
    /\ at[a] = "confirm"
    /\ \/ \E r \in Confirming(a) :
             Goto(a, "applied") /\ named' = [named EXCEPT ![a] = r]
             /\ UNCHANGED <<credentials, undeleted, answersLost>>
       \/ Confirming(a) = {} /\ Cleanup(a) /\ UNCHANGED <<named, answersLost>>
       \/ AnswerLost /\ Cleanup(a) /\ UNCHANGED named
    /\ UNCHANGED <<relations, tasks, reported, unknown, older, torn>>

\* requireReplicationRelation, then DeleteReplicationPlan
DeleteRelation(r) ==
    /\ r \in relations
    /\ relations' = relations \ {r} /\ torn' = torn \union {r}
    /\ UNCHANGED <<credentials, tasks, at, reported, named, undeleted, unknown, older, answersLost>>

ApplierStep(a) ==
    \/ ApplyRelation(a) \/ PairCredential(a) \/ CheckRemoteConn(a) \/ CreateRelation(a)
    \/ AwaitCreate(a) \/ ConfirmRelation(a)

ReplicationNext ==
    \E a \in Applier : PlanRelation(a) \/ ApplierStep(a) \/ TaskRuns(a) \/ DeleteRelation(a)

\* A call that was started runs on; the clock reaches its deadline.
ReplicationFairness ==
    \A a \in Applier : WF_replicationVars(at[a] # "planned" /\ ApplierStep(a))

ReplicationSpec ==
    ReplicationInit /\ [][ReplicationNext]_replicationVars /\ ReplicationFairness

-----------------------------------------------------------------------------

\* Every variable of the replication has its type, and an applier that went
\* past the pairing has its credential until it ends.
ReplicationTypeOK ==
    /\ relations \subseteq Applier /\ credentials \subseteq Applier
    /\ tasks \in [Applier -> {"none", "running", "finished", "failed"}]
    /\ at \in [Applier -> {"idle", "planned", "refused", "failed", "applied"} \union Working]
    /\ \A a \in Applier : at[a] \in {"connect", "create", "poll", "confirm"} => a \in credentials

\* Of an applier that has ended without success the credential is gone ("a live
\* destination session must not be orphaned", at the deferred cleanup), unless
\* DeleteReplicationCredential failed, or the answer to the pairing was lost:
\* that credential nobody knows, and nobody has used it.  And only that cleanup
\* takes a credential away: a relation is without its own only if its applier
\* has failed, and never one that its applier reports.
CredentialsAccounted ==
    /\ \A a \in credentials :
        \/ at[a] \in Working \union {"applied"}
        \/ at[a] = "failed" /\ (a \in undeleted \/ (a \in unknown /\ tasks[a] = "none"))
    /\ \A a \in Applier : at[a] = "applied" => a \in credentials
    /\ \A r \in relations : r \in credentials \/ at[r] = "failed"

\* The plan id an applier returns is a relation that was not there when it
\* planned again: an older relation of the share cannot confirm a creation
\* that came to nothing.
ReportedIsNew ==
    \A a \in Applier : at[a] = "applied" => named[a] # NoRelation /\ named[a] \notin older[a]

\* While one applier works on the share, the relation it returns is its own
\* and has its credential, until it is deleted.  (Of two that planned again
\* before either has created, one may return the other's relation.)
ReportedWorks ==
    \A a \in Applier :
        at[a] = "applied" /\ named[a] \notin torn
            /\ (\A b \in Applier \ {a} : tasks[b] = "none")
        => named[a] = a /\ a \in relations /\ a \in credentials

\* An apply ends, whatever DSM's task does.
RelationApplyEnds == \A a \in Applier : at[a] \in Working ~> at[a] \notin Working

\* A relation that is reported as created is a new one, and one that works.
ReportedSound == ReportedIsNew /\ ReportedWorks

=============================================================================
