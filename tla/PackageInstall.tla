---------------------------- MODULE PackageInstall ----------------------------
(***************************************************************************)
(* internal/application/package_center.go and the install calls of         *)
(* internal/synology/packagecenter.go: an install or an update of a        *)
(* package is resolved from the online catalogue into steps, missing       *)
(* dependencies first, and the steps are carried out one by one, each as a *)
(* task of DSM that is confirmed by the inventory.  A package file may     *)
(* also be uploaded and installed.                                         *)
(*                                                                         *)
(* A package is a number, 1 the one that is asked for; a version is a      *)
(* number, 0 for a package that is not installed.  The depth-first walk    *)
(* over the dependencies is taken call by call, with its frames on a stack.*)
(* External: DSM finishes or fails a task at any time, also after the      *)
(* caller has given up, and other administrators change packages           *)
(* meanwhile.                                                              *)
(*                                                                         *)
(* Bounds: the plans made, and the disturbances: changes made elsewhere    *)
(* and answers that are lost.                                              *)
(***************************************************************************)
EXTENDS Integers, FiniteSets, Sequences

CONSTANTS
    NPackages, Version,
    Shipped,       \* the versions that packages may have at first
    LocalVersion,  \* of the package file that may be uploaded
    Published,     \* the catalogues that the online server may have
    MaxPlans, MaxDisturbances

PackageIds == 1..NPackages
Goal == 1
Row == [version : Version, beta : BOOLEAN, link : BOOLEAN]

ASSUME PackageAssumption ==
    /\ NPackages \in Nat \ {0} /\ MaxPlans \in Nat /\ MaxDisturbances \in Nat
    /\ Version \subseteq Nat \ {0} /\ Shipped \subseteq Version /\ LocalVersion \in Version
    /\ \A c \in Published :
        /\ c.requires \in [PackageIds -> Seq(PackageIds)]
        /\ c.catalogue \in [PackageIds -> Seq(Row)]
        /\ c.catalogue[Goal] # <<>>

VARIABLES
    inventory,  \* the version of every package on the NAS
    requires,   \* the dependencies in the catalogue, as they are listed
    catalogue,  \* its rows, a sequence for every package
    job,        \* the plan and how far its making or its apply is; update: the
                \* package is there already; blind: but this could not be read
    dsmTasks,   \* the install tasks that run on the NAS: [id, version]
    taskErrors, \* the packages whose task has failed
    touched,    \* history: the packages changed elsewhere
    plans, disturbances

packageVars ==
    <<inventory, requires, catalogue, job, dsmTasks, taskErrors, touched, plans, disturbances>>

NoJob ==
    [phase |-> "none", update |-> FALSE, blind |-> FALSE, from |-> 0, steps |-> <<>>, at |-> 1,
     expect |-> 0, seen |-> [p \in PackageIds |-> 0], stack |-> <<>>]

PackageInit ==
    /\ inventory \in [PackageIds -> {0} \union Shipped]
    /\ requires = [p \in PackageIds |-> <<>>] /\ catalogue = [p \in PackageIds |-> <<>>]
    /\ job = NoJob /\ dsmTasks = {} /\ taskErrors = {} /\ touched = {}
    /\ plans = 0 /\ disturbances = 0

(***************************************************************************)
(* Planning.                                                               *)
(***************************************************************************)
\* One row more: a stable one replaces a beta, and of a kind the newer one.
Kept(existing, candidate) ==
    IF existing.beta # candidate.beta
    THEN IF existing.beta THEN candidate ELSE existing
    ELSE IF candidate.version > existing.version THEN candidate ELSE existing

catalogByID(rows) ==
    LET upTo[i \in 1..Len(rows)] == IF i = 1 THEN rows[1] ELSE Kept(upTo[i - 1], rows[i])
    IN  upTo[Len(rows)]

Offered == {p \in PackageIds : catalogue[p] # <<>>}
\* the row that is kept may have no link, though another one has
Downloadable == {p \in Offered : catalogByID(catalogue[p]).link}
InstalledIn(versions) == {p \in PackageIds : versions[p] # 0}

\* what the walk takes as installed: an update lifts the package itself
Base == InstalledIn(job.seen) \ (IF job.update THEN {Goal} ELSE {})

MayPlan == job.phase \in {"none", "failed", "stale"} /\ plans < MaxPlans /\ plans' = plans + 1

\* The walk begins as if a package that nobody offers depended on the goal.
Root == 0
Frame(id) == [id |-> id, next |-> 1]
Planning(update) ==
    job' = [NoJob EXCEPT !.phase = "walking", !.update = update, !.from = inventory[Goal],
                         !.seen = inventory, !.stack = <<Frame(Root)>>]

PlanInstall ==
    /\ MayPlan
    /\ Goal \notin InstalledIn(inventory)
    /\ Planning(FALSE)
    /\ UNCHANGED <<inventory, requires, catalogue, dsmTasks, taskErrors, touched, disturbances>>

\* only to a newer version
PlanUpdate ==
    /\ MayPlan
    /\ Goal \in InstalledIn(inventory) /\ Goal \in Offered
    /\ catalogByID(catalogue[Goal]).version > inventory[Goal]
    /\ Planning(TRUE)
    /\ UNCHANGED <<inventory, requires, catalogue, dsmTasks, taskErrors, touched, disturbances>>

Dependencies(id) == IF id = Root THEN <<Goal>> ELSE requires[id]
Visited == {job.steps[i].id : i \in DOMAIN job.steps}
Visiting == {job.stack[i].id : i \in DOMAIN job.stack}
Depth == Len(job.stack)
Innermost == job.stack[Depth]
\* The loop of the innermost call goes on behind the dependency it is at.
Onward == [job.stack EXCEPT ![Depth].next = @ + 1]

\* One dependency: done or installed, an error, or a call of visit.
Visit ==
    /\ Innermost.next <= Len(Dependencies(Innermost.id))
    /\ LET id == Dependencies(Innermost.id)[Innermost.next]
       IN  job' = IF id \in Visited \union Base THEN [job EXCEPT !.stack = Onward]
                  ELSE IF id \in Visiting \/ id \notin Downloadable
                       THEN [job EXCEPT !.phase = "refused", !.steps = <<>>, !.stack = <<>>]
                       ELSE [job EXCEPT !.stack = Append(Onward, Frame(id))]

\* visit returns: the package comes after its dependencies
Return ==
    /\ Innermost.next > Len(Dependencies(Innermost.id))
    /\ job' = IF Innermost.id = Root THEN [job EXCEPT !.phase = "planned", !.stack = <<>>]
              ELSE [job EXCEPT !.stack = SubSeq(@, 1, Depth - 1),
                               !.steps = Append(@, [id |-> Innermost.id,
                                                    version |-> catalogByID(catalogue[Innermost.id]).version])]

resolveInstallOrder ==
    /\ job.phase = "walking"
    /\ Visit \/ Return
    /\ UNCHANGED <<inventory, requires, catalogue, dsmTasks, taskErrors, touched, plans, disturbances>>

Disturbance == disturbances < MaxDisturbances /\ disturbances' = disturbances + 1

(***************************************************************************)
(* Applying.                                                               *)
(***************************************************************************)
\* verifyPackageUpdatePrecondition; an install is not planned again
ApplyInstallPlan ==
    /\ job.phase = "planned"
    /\ job' = [job EXCEPT !.phase =
                  IF job.update /\ inventory[Goal] # job.from THEN "stale" ELSE "start"]
    /\ UNCHANGED <<inventory, requires, catalogue, dsmTasks, taskErrors, touched, plans, disturbances>>

CurrentStep == job.steps[job.at]

AnyVersion == 0
ExpectVersion == IF job.update /\ CurrentStep.id = Goal THEN CurrentStep.version ELSE AnyVersion

\* PackageInstall starts the task, also when its answer is lost
StartStep ==
    /\ job.phase = "start"
    /\ taskErrors' = taskErrors \ {CurrentStep.id}
    /\ \/ dsmTasks' = dsmTasks \union {CurrentStep} /\ UNCHANGED disturbances
          /\ job' = [job EXCEPT !.phase = "await", !.expect = ExpectVersion]
       \/ Disturbance /\ dsmTasks' \in {dsmTasks, dsmTasks \union {CurrentStep}}
          /\ job' = [job EXCEPT !.phase = "failed"]
    /\ UNCHANGED <<inventory, requires, catalogue, touched, plans>>

Confirmed == inventory[CurrentStep.id] # 0 /\ job.expect \in {AnyVersion, inventory[CurrentStep.id]}

AwaitLastOnly == \* Fault: only the last step is awaited
    /\ job.phase = "await"
    /\ IF job.at < Len(job.steps) THEN job' = [job EXCEPT !.phase = "start", !.at = @ + 1]
       ELSE job' = [job EXCEPT !.phase = IF Confirmed THEN "done" ELSE "failed"]
    /\ UNCHANGED <<inventory, requires, catalogue, dsmTasks, taskErrors, touched, plans, disturbances>>

\* awaitPackageInstalledLocked: the task's error, the inventory, or the deadline
AwaitInstalled ==
    /\ job.phase = "await"
    /\ \/ /\ Confirmed
          /\ job' = IF job.at = Len(job.steps) THEN [job EXCEPT !.phase = "done"]
                    ELSE [job EXCEPT !.phase = "start", !.at = @ + 1]
          /\ UNCHANGED disturbances
       \/ (CurrentStep.id \in taskErrors \/ ~Confirmed)
          /\ job' = [job EXCEPT !.phase = "failed"] /\ UNCHANGED disturbances
       \/ Disturbance /\ job' = [job EXCEPT !.phase = "failed"]
    /\ UNCHANGED <<inventory, requires, catalogue, dsmTasks, taskErrors, touched, plans>>

\* PackageInstallLocal of a file: an upgrade, which is confirmed by its version,
\* if the inventory shows the package; when it cannot be read, presence confirms.
\* It does not look at the catalogue, so it is explored without one.
InstallLocal ==
    /\ MayPlan /\ Offered = {}
    /\ taskErrors' = taskErrors \ {Goal}
    /\ LET file == [id |-> Goal, version |-> LocalVersion]
       IN  /\ dsmTasks' = dsmTasks \union {file}
           /\ \E readable \in BOOLEAN :
               /\ IF readable THEN UNCHANGED disturbances ELSE Disturbance
               /\ job' = [NoJob EXCEPT !.phase = "await", !.steps = <<file>>, !.seen = inventory,
                                       !.update = inventory[Goal] # 0, !.blind = ~readable,
                                       !.expect = IF readable /\ inventory[Goal] # 0
                                                  THEN file.version ELSE AnyVersion]
    /\ UNCHANGED <<inventory, requires, catalogue, touched>>

(***************************************************************************)
(* The NAS and its other administrators (external).                        *)
(***************************************************************************)
\* The online server publishes its catalogue, before the first plan.
Publish ==
    /\ Offered = {} /\ plans = 0
    /\ \E c \in Published : requires' = c.requires /\ catalogue' = c.catalogue
    /\ UNCHANGED <<inventory, job, dsmTasks, taskErrors, touched, plans, disturbances>>

TaskEnds(task) ==
    /\ dsmTasks' = dsmTasks \ {task}
    /\ \/ inventory' = [inventory EXCEPT ![task.id] = task.version] /\ UNCHANGED taskErrors
       \/ taskErrors' = taskErrors \union {task.id} /\ UNCHANGED inventory
    /\ UNCHANGED <<requires, catalogue, job, touched, plans, disturbances>>

\* A change during the walk, which reads nothing of the NAS, is as one after it.
ChangedElsewhere(p, version) ==
    /\ job.phase \in {"planned", "start", "await"}
    /\ Disturbance
    /\ inventory[p] # version
    /\ inventory' = [inventory EXCEPT ![p] = version]
    /\ touched' = touched \union {p}
    /\ UNCHANGED <<requires, catalogue, job, dsmTasks, taskErrors, plans>>

CallerStep == resolveInstallOrder \/ StartStep \/ AwaitInstalled

PackageNext ==
    \/ PlanInstall \/ PlanUpdate \/ InstallLocal
    \/ ApplyInstallPlan \/ CallerStep
    \/ Publish
    \/ \E task \in dsmTasks : TaskEnds(task)
    \/ \E p \in PackageIds, version \in {0} \union Version : ChangedElsewhere(p, version)

PackageSpec == PackageInit /\ [][PackageNext]_packageVars

\* A call that was started goes on, and its deadline comes.
PackageFairness == WF_packageVars(CallerStep)

-----------------------------------------------------------------------------

\* Every variable of the package installation has its type, and an apply is at
\* a step of its plan.
PackageTypeOK ==
    /\ inventory \in [PackageIds -> {0} \union Version]
    /\ job.phase \in {"none", "walking", "planned", "refused", "stale", "start", "await", "done", "failed"}
    /\ job.phase \in {"start", "await"} => job.at \in DOMAIN job.steps
    /\ \A task \in dsmTasks : task.id \in PackageIds /\ task.version \in Version

\* What is to be installed, as the least set: the package asked for and with
\* every package its missing dependencies.
Lacking(p) == {d \in PackageIds \ Base : \E i \in DOMAIN requires[p] : requires[p][i] = d}
Closed(s) == \A p \in s : Lacking(p) \subseteq s
Needed == {p \in PackageIds : \A s \in SUBSET PackageIds : Goal \in s /\ Closed(s) => p \in s}
Cyclic(s) == \E c \in SUBSET s : c # {} /\ \A p \in c : Lacking(p) \intersect c # {}

\* The depth-first walk of resolveInstallOrder gives the least set that is
\* needed, each package once, after the ones it depends on.  It refuses only
\* when one of them is not offered, or the row that catalogByID keeps of it has
\* no download link (also when a row it passed over has one), or they depend on
\* each other in a circle, and then always; so also when a plan that failed
\* half-way is made again.
PlanIsClosure ==
    /\ job.phase = "refused" => ~(Needed \subseteq Downloadable) \/ Cyclic(Needed)
    /\ job.phase = "planned" =>
        /\ Visited = Needed /\ Needed \subseteq Downloadable
        /\ \A i, j \in DOMAIN job.steps : job.steps[i].id = job.steps[j].id => i = j
        /\ \A i \in DOMAIN job.steps : \A d \in Lacking(job.steps[i].id) :
               \E j \in 1..(i - 1) : job.steps[j].id = d

\* No step installs a beta version while there is a stable one, nor an older
\* one of the same kind.
StableOffered ==
    job.phase = "planned" => \A i \in DOMAIN job.steps :
        LET rows == catalogue[job.steps[i].id]
            stable == {k \in DOMAIN rows : ~rows[k].beta}
            best == IF stable # {} THEN stable ELSE DOMAIN rows
        IN  /\ \E k \in best : rows[k].version = job.steps[i].version
            /\ \A k \in best : rows[k].version <= job.steps[i].version

\* DSM is asked to install a package only when what it depends on is there,
\* through all partial failures and lost answers, unless somebody else removed
\* it after the plan was made.
DependenciesFirst ==
    job.phase = "await" =>
        \A i \in DOMAIN requires[CurrentStep.id] :
            LET d == requires[CurrentStep.id][i] IN inventory[d] # 0 \/ d \in touched

\* An apply that reports success has installed every step, and an update has
\* reached its version: the old version in the inventory does not confirm it.
\* One exception: a file was uploaded for a package that is there already, and
\* the inventory could not be read before; then the old version confirms it,
\* other than docs/package-center.md:198-200 says.
DoneIsInstalled ==
    job.phase = "done" => \A i \in DOMAIN job.steps :
        LET p == job.steps[i].id
        IN  p \notin touched =>
                /\ inventory[p] # 0
                /\ job.update /\ ~job.blind /\ p = Goal => inventory[p] = job.steps[i].version

\* A plan is made, also of packages that depend on each other in a circle, and
\* an apply ends, whatever becomes of DSM's task.
InstallEnds ==
    /\ job.phase = "walking" ~> job.phase \in {"planned", "refused"}
    /\ job.phase \in {"start", "await"} ~> job.phase \in {"done", "failed"}

\* The plan is the right one, and every step of it is taken in order and
\* confirmed before the next, through failed tasks, lost answers and changes
\* made elsewhere.
InstallSafe == PlanIsClosure /\ StableOffered /\ DependenciesFirst /\ DoneIsInstalled

=============================================================================
