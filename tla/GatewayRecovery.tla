--------------------------- MODULE GatewayRecovery ---------------------------
(***************************************************************************)
(* internal/gateway/recovery and the start of the gateway: an              *)
(* administrator queues the restore of a recovery set, the process         *)
(* restarts, and ApplyPending replaces the state database before it is     *)
(* opened.  Every step on the disk is an action, and the process may stop  *)
(* between any two of them.                                                *)
(*                                                                         *)
(* The content of a database is a number: 0 is a new, empty one, and       *)
(* Damaged one that does not open.  The SHA-256 of a file is its content.  *)
(* A recovery set is known by its age.  Of the three files of a set the    *)
(* two keys are abstracted to its status ("foreign": other keys than this  *)
(* installation's; "incomplete": a file is missing).                       *)
(*                                                                         *)
(* Bounds: the changes made while serving, the restores queued, the        *)
(* crashes and the file operations that fail.                              *)
(***************************************************************************)
EXTENDS Integers, FiniteSets

CONSTANTS Retention, MaxChanges, MaxQueued, MaxCrashes, MaxFileFaults, None

ASSUME RecoveryAssumption ==
    /\ Retention \in Nat \ {0}
    /\ {MaxChanges, MaxQueued, MaxCrashes, MaxFileFaults} \subseteq Nat
    /\ None \notin Int /\ None \notin [backup : Nat, hash : Int, n : Nat]

Fresh == 0
Damaged == -1
Missing == -2

VARIABLES
    live, displaced, stage,  \* gateway.db, .restore-displaced, .restore-stage
    shelf,       \* the recovery sets: age -> [body, status]
    request,     \* recovery-restore-request.json
    result,      \* recovery-restore-result.json
    boot,        \* where the process is
    verdict,     \* what ApplyPending is about to record
    restarting,  \* requestRestart was called
    made, queued, crashes, fileFaults,
    replaced,    \* history: the pending request has replaced the state
    before,      \* history: what it replaced
    stuck,       \* history: a request could not be removed
    served,      \* history: the state that the gateway has last served
    wanted,      \* history: the content that was last asked for
    again        \* history: a start may find the state replaced by an earlier one

noted == <<served, wanted, again>>
recoveryVars ==
    <<live, displaced, stage, shelf, request, result, boot, verdict, restarting,
      made, queued, crashes, fileFaults, replaced, before, stuck, served, wanted, again>>

RecoveryInit ==
    /\ \E n \in 0..Retention, status \in {"ok", "foreign"} :
        /\ shelf = [a \in 1..n |-> [body |-> a, status |-> IF a = 2 THEN status ELSE "ok"]]
        /\ live = n + 1 /\ made = n + 1
    /\ displaced = Missing /\ stage = Missing
    /\ request = None /\ result = [of |-> 0, status |-> "none"]
    /\ boot = "serving" /\ verdict = "none" /\ restarting = FALSE
    /\ queued = 0 /\ crashes = 0 /\ fileFaults = 0
    /\ replaced = FALSE /\ before = None /\ stuck = FALSE
    /\ served = live /\ wanted = None /\ again = FALSE

(***************************************************************************)
(* The sets.                                                               *)
(***************************************************************************)
Complete == {a \in DOMAIN shelf : shelf[a].status # "incomplete"}
Incomplete == DOMAIN shelf \ Complete
Without(a) == [b \in DOMAIN shelf \ {a} |-> shelf[b]]
Oldest(ages) == CHOOSE a \in ages : \A b \in ages : a <= b
Newest(ages) == CHOOSE a \in ages : \A b \in ages : a >= b
NextAge == IF DOMAIN shelf = {} THEN 1 ELSE Newest(DOMAIN shelf) + 1

\* inspect(name, true).Restorable
Restorable(a) == a \in DOMAIN shelf /\ shelf[a].status = "ok"

FileFault == fileFaults < MaxFileFaults /\ fileFaults' = fileFaults + 1

(***************************************************************************)
(* While the gateway serves.                                               *)
(***************************************************************************)
ChangeState ==
    /\ boot = "serving" /\ made <= MaxChanges + Retention
    /\ made' = made + 1 /\ live' = made + 1 /\ served' = live'
    /\ UNCHANGED <<displaced, stage, shelf, request, result, boot, verdict, restarting,
                   queued, crashes, fileFaults, replaced, before, stuck, wanted, again>>

\* Manager.Queue, then the restart the handler asks for after its answer
Queue(a) ==
    /\ boot = "serving" /\ request = None /\ queued < MaxQueued
    /\ Restorable(a)
    /\ queued' = queued + 1
    /\ request' = [backup |-> a, hash |-> shelf[a].body, n |-> queued + 1]
    /\ restarting' = TRUE
    /\ replaced' = FALSE /\ before' = None /\ stuck' = FALSE /\ wanted' = shelf[a].body
    /\ UNCHANGED <<live, displaced, stage, shelf, result, boot, verdict,
                   made, crashes, fileFaults, served, again>>

Shutdown ==
    /\ boot = "serving"
    /\ boot' = "down" /\ restarting' = FALSE
    /\ UNCHANGED <<live, displaced, stage, shelf, request, result, verdict,
                   made, queued, crashes, fileFaults, replaced, before, stuck, noted>>

\* The files of the set that was confirmed change behind the gateway's back.
Damage ==
    /\ request # None /\ request.backup \in DOMAIN shelf
    /\ shelf[request.backup] = [body |-> request.hash, status |-> "ok"]
    /\ shelf' \in {[shelf EXCEPT ![request.backup].body = Damaged],
                   [shelf EXCEPT ![request.backup].status = "incomplete"]}
    /\ UNCHANGED <<live, displaced, stage, request, result, boot, verdict, restarting,
                   made, queued, crashes, fileFaults, replaced, before, stuck, noted>>

Crash ==
    /\ boot # "down" /\ crashes < MaxCrashes
    /\ crashes' = crashes + 1
    /\ boot' = "down" /\ restarting' = FALSE /\ verdict' = "none"
    \* RemoveAll may have deleted some of the files of a set
    /\ \/ UNCHANGED shelf
       \/ /\ boot = "prune" /\ Cardinality(Complete) > Retention
          /\ shelf' = [shelf EXCEPT ![Oldest(Complete)].status = "incomplete"]
    /\ \/ replaced /\ request # None /\ again' = TRUE
       \/ ~(replaced /\ request # None) /\ UNCHANGED again
    /\ UNCHANGED <<live, displaced, stage, request, result, made, queued,
                   fileFaults, replaced, before, stuck, served, wanted>>

(***************************************************************************)
(* The start of the gateway: ApplyPending.                                 *)
(***************************************************************************)
Start ==
    /\ boot = "down"
    /\ boot' = "read"
    /\ UNCHANGED <<live, displaced, stage, shelf, request, result, verdict, restarting,
                   made, queued, crashes, fileFaults, replaced, before, stuck, noted>>

GoOn(next) == boot' = next /\ UNCHANGED verdict
finishFailure == boot' = "consume" /\ verdict' = "failure"

ReadSkipped == \* Fault: the state is opened without looking for a request
    /\ boot = "read"
    /\ GoOn("open")
    /\ UNCHANGED <<live, displaced, stage, shelf, request, result, restarting,
                   made, queued, crashes, fileFaults, replaced, before, stuck, noted>>

ReadRequest ==
    /\ boot = "read"
    /\ IF request = None THEN GoOn("open")
       ELSE IF Restorable(request.backup) /\ shelf[request.backup].body = request.hash
            THEN GoOn("stage")
       ELSE boot' = "consume" /\ verdict' = "refused"
    /\ UNCHANGED <<live, displaced, stage, shelf, request, result, restarting,
                   made, queued, crashes, fileFaults, replaced, before, stuck, noted>>

StageUnchecked == \* Fault: the staged copy is not compared with the confirmed content
    /\ boot = "stage"
    /\ stage' = IF request.backup \in Complete THEN shelf[request.backup].body ELSE Missing
    /\ IF stage' # Missing THEN GoOn("copy") ELSE finishFailure
    /\ UNCHANGED <<live, displaced, shelf, request, result, restarting,
                   made, queued, crashes, fileFaults, replaced, before, stuck, noted>>

\* copied, its hash compared again, and opened
StageState ==
    /\ boot = "stage"
    /\ \/ /\ stage' = IF request.backup \in Complete THEN shelf[request.backup].body ELSE Missing
          /\ IF stage' = request.hash /\ stage' # Damaged THEN GoOn("copy") ELSE finishFailure
          /\ UNCHANGED fileFaults
       \/ FileFault /\ stage' = Missing /\ finishFailure
    /\ UNCHANGED <<live, displaced, shelf, request, result, restarting,
                   made, queued, crashes, replaced, before, stuck, noted>>

Shelved ==
    [a \in DOMAIN shelf \union {NextAge} |->
        IF a = NextAge THEN [body |-> live, status |-> "ok"] ELSE shelf[a]]

\* The last fault: the copy is there, but its time could not be set.
createSafetyCopy ==
    /\ boot = "copy"
    /\ \/ /\ live # Missing /\ shelf' = Shelved
          /\ GoOn("prune") /\ UNCHANGED fileFaults
       \/ live = Missing /\ finishFailure /\ UNCHANGED <<shelf, fileFaults>>
       \/ FileFault /\ finishFailure /\ UNCHANGED shelf
       \/ FileFault /\ finishFailure /\ live # Missing /\ shelf' = Shelved
    /\ UNCHANGED <<live, displaced, stage, request, result, restarting,
                   made, queued, crashes, replaced, before, stuck, noted>>

PruneNewest == \* Fault: the sort is the other way round
    /\ boot = "prune"
    /\ \/ /\ Cardinality(Complete) > Retention
          /\ shelf' = Without(Newest(Complete)) /\ GoOn("prune") /\ UNCHANGED fileFaults
       \/ /\ Cardinality(Complete) <= Retention
          /\ GoOn("replace") /\ UNCHANGED <<shelf, fileFaults>>
    /\ UNCHANGED <<live, displaced, stage, request, result, restarting,
                   made, queued, crashes, replaced, before, stuck, noted>>

\* one directory at a time: the oldest beyond the retention, then, once the
\* shelf is full, those that cannot be restored
pruneRecoverySets ==
    /\ boot = "prune"
    /\ \/ /\ Cardinality(Complete) > Retention
          /\ shelf' = Without(Oldest(Complete)) /\ GoOn("prune") /\ UNCHANGED fileFaults
       \/ /\ Cardinality(Complete) = Retention
          /\ \E a \in Incomplete : shelf' = Without(a)
          /\ GoOn("prune") /\ UNCHANGED fileFaults
       \/ /\ \/ Cardinality(Complete) < Retention
             \/ Cardinality(Complete) = Retention /\ Incomplete = {}
          /\ GoOn("replace") /\ UNCHANGED <<shelf, fileFaults>>
       \/ FileFault /\ finishFailure /\ UNCHANGED shelf
    /\ UNCHANGED <<live, displaced, stage, request, result, restarting,
                   made, queued, crashes, replaced, before, stuck, noted>>

Replaced == replaced' = TRUE /\ before' = IF replaced THEN before ELSE live

RenameOptimistic == \* Fault: the error of the rename is dropped
    /\ boot = "replace"
    /\ \/ /\ live' = stage /\ stage' = Missing /\ Replaced
          /\ UNCHANGED <<displaced, fileFaults>>
       \/ FileFault /\ UNCHANGED <<live, displaced, stage, replaced, before>>
    /\ boot' = "consume" /\ verdict' = "success"
    /\ UNCHANGED <<shelf, request, result, restarting, made, queued, crashes, stuck, noted>>

\* replaceState: one rename, or, when that fails, the state is moved aside
RenameState ==
    /\ boot = "replace"
    /\ \/ /\ live' = stage /\ stage' = Missing /\ Replaced
          /\ boot' = "consume" /\ verdict' = "success"
          /\ UNCHANGED <<displaced, fileFaults>>
       \/ /\ FileFault /\ displaced = Missing
          /\ displaced' = live /\ live' = Missing
          /\ GoOn("install") /\ UNCHANGED <<stage, replaced, before>>
       \/ /\ FileFault /\ finishFailure
          /\ UNCHANGED <<live, displaced, stage, replaced, before>>
    /\ UNCHANGED <<shelf, request, result, restarting, made, queued, crashes, stuck, noted>>

InstallStaged ==
    /\ boot = "install"
    /\ \/ /\ live' = stage /\ stage' = Missing
          /\ replaced' = TRUE /\ before' = IF replaced THEN before ELSE displaced
          /\ GoOn("clear") /\ UNCHANGED <<displaced, fileFaults>>
       \/ /\ FileFault
          /\ live' = displaced /\ displaced' = Missing
          /\ finishFailure /\ UNCHANGED <<stage, replaced, before>>
       \/ /\ FileFault \* and the rollback fails too
          /\ finishFailure /\ UNCHANGED <<live, displaced, stage, replaced, before>>
    /\ UNCHANGED <<shelf, request, result, restarting, made, queued, crashes, stuck, noted>>

RemoveDisplaced ==
    /\ boot = "clear"
    /\ \/ /\ displaced' = Missing
          /\ boot' = "consume" /\ verdict' = "success" /\ UNCHANGED fileFaults
       \/ FileFault /\ finishFailure /\ UNCHANGED displaced
    /\ UNCHANGED <<live, stage, shelf, request, result, restarting,
                   made, queued, crashes, replaced, before, stuck, noted>>

\* consumeRequestAndWriteResult; the gateway starts also when it fails
RemoveRequest ==
    /\ boot = "consume"
    /\ \/ request' = None /\ GoOn("report") /\ UNCHANGED <<fileFaults, stuck, replaced, again>>
       \/ /\ FileFault /\ GoOn("open") /\ stuck' = TRUE /\ replaced' = FALSE
          /\ (replaced /\ again' = TRUE) \/ (~replaced /\ UNCHANGED again)
          /\ UNCHANGED request
    /\ UNCHANGED <<live, displaced, stage, shelf, result, restarting,
                   made, queued, crashes, before, served, wanted>>

WriteResult ==
    /\ boot = "report"
    /\ \/ /\ result' = [of |-> queued,
                        status |-> IF verdict = "success" THEN "success" ELSE "failure"]
          /\ UNCHANGED fileFaults
       \/ FileFault /\ UNCHANGED result
    /\ GoOn("open")
    /\ UNCHANGED <<live, displaced, stage, shelf, request, restarting,
                   made, queued, crashes, replaced, before, stuck, noted>>

OpenMissing == \* Fault: a missing database is not created
    /\ boot = "open"
    /\ boot' = "serving" /\ verdict' = "none" /\ stage' = Missing
    /\ served' = live /\ again' = FALSE
    /\ UNCHANGED <<live, displaced, shelf, request, result, restarting, made, queued,
                   crashes, fileFaults, replaced, before, stuck, wanted>>

\* The removal of the staged file, deferred once a restore is being staged; and
\* the state is opened: a missing database is created.
OpenState ==
    /\ boot = "open"
    /\ boot' = "serving" /\ verdict' = "none"
    /\ stage' = IF verdict \in {"success", "failure"} THEN Missing ELSE stage
    /\ live' = IF live = Missing THEN Fresh ELSE live
    /\ served' = live' /\ again' = FALSE
    /\ UNCHANGED <<displaced, shelf, request, result, restarting, made, queued,
                   crashes, fileFaults, replaced, before, stuck, wanted>>

ApplyPending ==
    \/ ReadRequest \/ StageState \/ createSafetyCopy \/ pruneRecoverySets
    \/ RenameState \/ InstallStaged \/ RemoveDisplaced
    \/ RemoveRequest \/ WriteResult \/ OpenState

RecoveryNext ==
    \/ ChangeState \/ (\E a \in DOMAIN shelf : Queue(a))
    \/ Shutdown \/ Damage \/ Crash \/ Start
    \/ ApplyPending

\* The supervisor starts the process again, a start goes on, and a restart
\* that was asked for comes.
RecoveryFairness ==
    /\ WF_recoveryVars(Start) /\ WF_recoveryVars(ApplyPending)
    /\ WF_recoveryVars(restarting /\ Shutdown)

RecoverySpec == RecoveryInit /\ [][RecoveryNext]_recoveryVars /\ RecoveryFairness

-----------------------------------------------------------------------------

\* Every variable of the recovery has its type.
RecoveryTypeOK ==
    /\ {live, displaced, stage} \subseteq Missing..(MaxChanges + Retention + 1)
    /\ request # None => request.hash # Missing
    /\ result.status \in {"none", "success", "failure"}
    /\ boot \in {"down", "serving", "read", "stage", "copy", "prune", "replace", "install",
                 "clear", "consume", "report", "open"}
    /\ verdict \in {"none", "refused", "success", "failure"}
    /\ boot = "serving" => live # Missing
    /\ \A a \in DOMAIN shelf : shelf[a].status \in {"ok", "foreign", "incomplete"}

\* While a request may still be carried out again, and after it was, the state
\* it replaced is on the shelf: also after a crash between the replacement and
\* the removal of the request, when the second safety copy holds the restored
\* state.  It takes as many crashes as sets are kept, or a
\* request that stays because it could not be removed, to lose it.
OriginalKept ==
    before # None /\ boot # "prune" /\ ~stuck /\ crashes < Retention =>
        \E a \in Complete : shelf[a].body = before

\* A start that was cut short, or could not prune, leaves at most one set too
\* many, and a restore that goes through leaves none.
ShelfBounded ==
    /\ Cardinality(Complete) <= Retention + 1 + crashes + fileFaults
    /\ boot = "report" /\ verdict = "success" => Cardinality(Complete) <= Retention

\* The result that a start has written tells what state it is about to open:
\* after a success the one asked for, after a failure the one served before,
\* with two exceptions.  A failure is reported over the state asked for, when an
\* earlier start was cut short after it had replaced the state, or the old state
\* that replaceState had moved aside could not be removed; and over none at all,
\* so that a new, empty one is created, when the process stopped between the two
\* renames or the way back failed: the state is then in the displaced file.
ResultTruthful ==
    boot = "open" /\ verdict # "none" /\ result.of = queued =>
        CASE result.status = "success" -> live = wanted
          [] result.status = "failure" ->
                \/ live = served
                \/ live = wanted /\ (again \/ displaced = served)
                \/ live = Missing /\ displaced \in {served} \union (IF again THEN {wanted} ELSE {})

Atomic == INSTANCE AtomicRestore WITH
    Content <- Fresh..(MaxChanges + Retention + 1) \union {Damaged},
    state <- IF live = Missing THEN displaced ELSE live,
    asked <- IF request = None THEN None ELSE request.hash,
    phase <- IF live = Missing THEN "aside" ELSE IF replaced /\ request # None THEN "restored"
             ELSE "open"

\* The steps of the restore, with a crash between any two of them, implement
\* the atomic restore: the state changes only into the confirmed content, and
\* nothing is done on the restored state while the request is still there.
RestoreIsAtomic == Atomic!Spec

\* A restore that was confirmed is settled: its request is removed, or removing
\* it has failed.
RestoreSettles == (request # None) ~> (request = None \/ stuck)

\* The shelf of recovery sets keeps what a way back needs and nothing beyond
\* its limit, through crashes between copying, pruning and replacing.
ShelfSound == OriginalKept /\ ShelfBounded

=============================================================================
