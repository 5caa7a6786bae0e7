------------------------------- MODULE Dispatch -------------------------------
(***************************************************************************)
(* One invocation of a tool or a command, from its admission to its        *)
(* answer: the program of its service method is carried out step by step   *)
(* by a synology.Client, every request of it as executeLocked does, on a   *)
(* NAS that may lack something and over a network that may lose an answer. *)
(*                                                                         *)
(* The client remembers what it has discovered (apis: the highest version  *)
(* of every API it has asked about, 0 for one the NAS does not have), the  *)
(* DSM release and the installed packages.  The NAS has every API and      *)
(* package in its latest version, but for one limit.  What DSM's methods   *)
(* do is known from how the code uses them: the methods of ReadingMethods  *)
(* leave the NAS as it is.                                                 *)
(*                                                                         *)
(* Bounds: a loop of requests sends 0 to MaxEach, at most MaxFaults things *)
(* are out of the ordinary (a limit of the NAS, a fault of a request, an   *)
(* error of the service's own checks), one client serves MaxCalls calls.       *)
(***************************************************************************)
EXTENDS CliCommands

CONSTANTS MaxEach, MaxAttempts, MaxFaults, MaxCalls

ASSUME BoundsAssumption ==
    /\ MaxEach \in Nat /\ MaxFaults \in Nat
    /\ MaxAttempts \in Nat \ {0} /\ MaxCalls \in Nat \ {0}

VARIABLES
    routine,    \* what runs: the steps of a service method
    doors,      \* the tools and commands it is reached through, {} if nothing runs
    limit,      \* what this NAS lacks: <<kind, name, version>>
    client,     \* what the client remembers
    pc,         \* the next step of the routine
    todo,       \* the requests of the current step that are still to be sent
    sending,    \* the first of them: attempts, sent again, times carried out
    effects,    \* what the invocation has changed: "nas", "host"
    outcome,    \* "none" while it runs
    faults, callsMade

dispatchVars ==
    <<routine, doors, limit, client, pc, todo, sending, effects, outcome, faults, callsMade>>

(***************************************************************************)
(* Who may call what.  A remote principal is given by a scope it holds;    *)
(* "developer" is a client of the read-only gateway, "local" one of the    *)
(* stdio server, "user" someone at a terminal.                             *)
(***************************************************************************)
Entries == New \union Commands
Scopes == {"nas.read", "nas.plan", "nas.apply", "nas.provision", "lan.discover"}
Callers == Scopes \union {"developer", "local", "user"}

AdmitsAnyScope(who, e) == \* Fault: the scope is not compared
    CASE who = "user" -> e.kind = "command"
      [] who = "local" -> e.kind = "tool"
      [] who = "developer" -> e \in NewReadOnly
      [] OTHER -> e \in NewRemote /\ ToolScope(e) # ""

\* remotePolicyMiddleware lets a tool call pass if its scope is known and held.
Admits(who, e) ==
    CASE who = "user" -> e.kind = "command"
      [] who = "local" -> e.kind = "tool"
      [] who = "developer" -> e \in NewReadOnly
      [] OTHER -> e \in NewRemote /\ ToolScope(e) = who

AdmittedTo(e) == {who \in Callers : Admits(who, e)}
Door(e) ==
    [kind |-> e.kind, hint |-> e.hint, callers |-> AdmittedTo(e),
     role |-> IF e.kind = "command" THEN commandCatalogRole(e) ELSE "none"]
DoorsTo(steps, entries) == {Door(e) : e \in {x \in entries : x.program = steps}}

(***************************************************************************)
(* The NAS.                                                                *)
(***************************************************************************)
ReadingMethods ==
    {"get", "list", "load", "info", "status", "getinfo", "getconfig", "getjs", "GetInfo",
     "List", "get_status", "get_misc_config", "get_local_dest_dir", "get_candidate_dir", "get_smart_test_log",
     "get_share_conf", "get_poll_task", "get_health_info", "check", "query", "enum_lun",
     "list_share", "list_version", "list_by_user", "list_by_group", "load_info",
     "load_task", "preview", "summary", "system_get", "top_access_files", "notify",
     "estimate_raid_size", "export", "download", "check_remote_conn"}
\* File Station's searches, sizes, checksums and permission checks are tasks
\* that read.
ReadingAPIs ==
    {"FileStation.Search", "FileStation.DirSize", "FileStation.MD5",
     "FileStation.CheckPermission"}
Changes(req) == req.api \notin ReadingAPIs /\ ~(req.methods \subseteq ReadingMethods)

Latest == 9
NoLimit == <<"none", "", 0>>
HighestVersion(api) ==
    IF limit[1] = "api" /\ limit[2] = api THEN limit[3] ELSE Latest

Variants(steps) ==
    UNION {{o[i] : i \in DOMAIN o} :
              o \in UNION {{steps[k].operations[j] : j \in DOMAIN steps[k].operations} :
                              k \in DOMAIN steps}}
Packages ==
    {"DownloadStation", "HyperBackup", "HyperBackupVault", "SnapshotReplication", "Spreadsheet",
     "SurveillanceStation", "SynoFinder", "SynologyDrive", "SynologyPhotos"}
ASSUME PackagesAssumption ==
    Packages = (UNION {{v.package : v \in Variants(e.program)} : e \in Entries}) \ {""}

\* 0: not installed, 1: an old version, Latest: the latest
Installed ==
    [p \in {q \in Packages : limit # <<"package", q, 0>>} |->
        IF limit = <<"package", p, 1>> THEN <<0, 9>> ELSE <<Latest>>]

\* One limit on something the routine may need.
Limits(steps) ==
    LET variants == Variants(steps)
        needs == UNION {v.needs : v \in variants}
    IN  {NoLimit}
        \union {<<"api", n[1], 0>> : n \in needs}
        \union {<<"api", n[1], n[2] - 1>> : n \in needs}
        \union {"package"} \X ({v.package : v \in variants} \ {""}) \X (0..1)

PackageScopedRoutine == \E k \in DOMAIN routine : routine[k].do = "catalogue"

(***************************************************************************)
(* The client.                                                             *)
(***************************************************************************)
NewClient ==
    [apis |-> [a \in {} |-> 0], release |-> FALSE,
     packages |-> [p \in {} |-> <<>>], packagesKnown |-> FALSE]

target ==
    Target([a \in {b \in DOMAIN client.apis : client.apis[b] # 0} |-> client.apis[a]],
           client.packages, client.packagesKnown)

\* discoverAPIsLocked: only the names it has not asked about yet
Learnt(apis) ==
    [client EXCEPT !.apis =
        [a \in DOMAIN @ \union apis |-> IF a \in DOMAIN @ THEN @[a] ELSE HighestVersion(a)]]

(***************************************************************************)
(* Going on, and failing.                                                  *)
(***************************************************************************)
Running == doors # {} /\ outcome = "none"
\* The step the invocation is at: none if there is none, or it has ended.
Current ==
    IF Running /\ pc <= Len(routine) THEN {routine[pc]} ELSE {}
Starts(step, kinds) == todo = <<>> /\ step.do \in kinds
NotSending == [attempt |-> 1, again |-> FALSE, carried |-> 0]

GoTo(n) == pc' = n /\ todo' = <<>> /\ sending' = NotSending /\ UNCHANGED outcome
\* An error of the current step: returned, or handled where the routine says.
Raise(step, error) ==
    /\ todo' = <<>> /\ sending' = NotSending
    /\ IF step.rescue # 0
       THEN pc' = pc + step.rescue /\ UNCHANGED outcome
       ELSE outcome' = error /\ UNCHANGED pc
Fault == faults < MaxFaults /\ faults' = faults + 1

DispatchInit ==
    /\ routine = <<>> /\ doors = {} /\ limit = NoLimit /\ client = NewClient
    /\ pc = 1 /\ todo = <<>> /\ sending = NotSending
    /\ effects = {} /\ outcome = "none" /\ faults = 0 /\ callsMade = 0

(***************************************************************************)
(* The invocation and its end.                                             *)
(***************************************************************************)
\* A routine is run once for all the doors to it: they differ in who may call.
Offered == IF doors = {} THEN Entries ELSE {}

Deny(door) ==
    /\ Callers \ door.callers # {}
    /\ doors' = {door} /\ outcome' = "denied"
    /\ UNCHANGED <<routine, limit, client, pc, todo, sending, effects, faults, callsMade>>

Invoke(steps, open, lack) ==
    /\ open # {}
    /\ lack # NoLimit => MaxFaults > 0
    /\ routine' = steps /\ doors' = open /\ limit' = lack
    /\ faults' = IF lack = NoLimit THEN 0 ELSE 1
    /\ callsMade' = 1
    /\ UNCHANGED <<client, pc, todo, sending, effects, outcome>>

Return ==
    /\ Running /\ todo = <<>> /\ pc > Len(routine)
    /\ outcome' = "done"
    /\ UNCHANGED <<routine, doors, limit, client, pc, todo, sending, effects, faults, callsMade>>

\* The service's own checks refuse: every step may be the last.
LocalError(step) ==
    /\ Starts(step, {"discover", "ensure", "run", "optional", "require", "report", "release",
               "bootstrap", "catalogue", "provision", "save"})
    /\ Fault
    /\ Raise(step, "error")
    /\ UNCHANGED <<routine, doors, limit, client, effects, callsMade>>

\* What the NAS lacked is installed or updated, and the same call is made
\* again; the client is still the cached one.
InvokeAgain ==
    /\ PackageScopedRoutine /\ outcome \notin {"none", "denied"}
    /\ limit # NoLimit /\ callsMade < MaxCalls
    /\ limit' = NoLimit
    /\ callsMade' = callsMade + 1
    /\ pc' = 1 /\ outcome' = "none" /\ effects' = {}
    /\ UNCHANGED <<routine, doors, client, todo, sending, faults>>

\* The client is evicted, or the process of the command ends.
Forget ==
    /\ outcome # "none"
    /\ routine' = <<>> /\ doors' = {} /\ limit' = NoLimit /\ client' = NewClient
    /\ pc' = 1 /\ outcome' = "none" /\ effects' = {} /\ faults' = 0 /\ callsMade' = 0
    /\ UNCHANGED <<todo, sending>>

(***************************************************************************)
(* Steps.                                                                  *)
(***************************************************************************)
Choose(step) ==
    /\ Starts(step, {"branch", "jump"})
    /\ \/ step.do = "branch" /\ GoTo(pc + 1)
       \/ GoTo(pc + step.skip)
    /\ UNCHANGED <<routine, doors, limit, client, effects, faults, callsMade>>

FailStep(step) ==
    /\ Starts(step, {"fail"})
    /\ Raise(step, "error")
    /\ UNCHANGED <<routine, doors, limit, client, effects, faults, callsMade>>

\* discoverAPIsLocked and ensureAPIsLocked
DiscoverStep(step) ==
    /\ Starts(step, {"discover", "ensure"})
    /\ client' = Learnt(step.apis)
    /\ IF step.do = "ensure" /\ \E a \in step.apis : client'.apis[a] = 0
       THEN Raise(step, "unsupported")
       ELSE GoTo(pc + 1)
    /\ UNCHANGED <<routine, doors, limit, effects, faults, callsMade>>

\* The variant the step runs, on what the client remembers.
Selected(step) == Select(step.operations[1], target)

\* The requests of one Execute: loops of them chosen in length.
Times(req) == IF req.many THEN 0..MaxEach ELSE {1}
Before(n, req, rest) == [k \in 1..n |-> [req EXCEPT !.many = FALSE]] \o rest
Ahead(req, later) == {Before(n, req, rest) : n \in Times(req), rest \in later}
Expanded(calls_) ==
    LET from[i \in 1..(Len(calls_) + 1)] ==
            IF i > Len(calls_) THEN {<<>>} ELSE Ahead(calls_[i], from[i + 1])
    IN  from[1]

SelectStep(step) ==
    /\ Starts(step, {"run", "release", "bootstrap", "catalogue"})
    /\ IF step.do = "bootstrap" /\ client.release
       THEN GoTo(pc + 1)
       ELSE IF Selected(step).ambiguous THEN Raise(step, "ambiguous")
       ELSE IF ~Selected(step).found THEN Raise(step, "unsupported")
       ELSE \E sends \in Selected(step).variant.sends :
            \E sent \in Expanded(Address(sends, Selected(step).variant)) :
                IF sent = <<>> THEN GoTo(pc + 1)
                ELSE todo' = sent /\ sending' = NotSending /\ UNCHANGED <<pc, outcome>>
    /\ UNCHANGED <<routine, doors, limit, client, effects, faults, callsMade>>

OptionalStep(step) ==
    /\ Starts(step, {"optional"})
    /\ IF Supported(step.operations[1], target)
       THEN \E sends \in Selected(step).variant.sends :
            \E sent \in Expanded(Address(sends, Selected(step).variant)) :
                IF sent = <<>> THEN GoTo(pc + 1)
                ELSE todo' = sent /\ sending' = NotSending /\ UNCHANGED <<pc, outcome>>
       ELSE GoTo(pc + 1)
    /\ UNCHANGED <<routine, doors, limit, client, effects, faults, callsMade>>

RequireStep(step) ==
    /\ Starts(step, {"require", "report"})
    /\ LET selections == {Select(step.operations[k], target) :
                             k \in DOMAIN step.operations}
       IN  IF \E s \in selections : s.ambiguous THEN Raise(step, "ambiguous")
           ELSE IF step.do = "require" /\ \E s \in selections : ~s.found
           THEN Raise(step, "unsupported")
           ELSE GoTo(pc + 1)
    /\ UNCHANGED <<routine, doors, limit, client, effects, faults, callsMade>>

OutsideStep(step) ==
    /\ Starts(step, {"provision", "save"})
    /\ effects' = effects \union {IF step.do = "save" THEN "host" ELSE "nas"}
    /\ GoTo(pc + 1)
    /\ UNCHANGED <<routine, doors, limit, client, faults, callsMade>>

(***************************************************************************)
(* Requests: executeLocked.                                                *)
(***************************************************************************)
Request1 == todo[1]
Sending == Running /\ todo # <<>>
Ready == Sending /\ Request1.api \in DOMAIN client.apis
VersionAsked ==
    IF Request1.version = 0 THEN client.apis[Request1.api] ELSE Request1.version
Accepted == Ready /\ Supports(client.apis[Request1.api], VersionAsked)

FinishOnce(step) == \* Fault: an inventory that was read once is kept
    client' = CASE step.do \in {"release", "bootstrap"} -> [client EXCEPT !.release = TRUE]
                [] step.do = "catalogue" /\ ~client.packagesKnown ->
                        [client EXCEPT !.packages = Installed, !.packagesKnown = TRUE]
                [] OTHER -> client

\* What the client has learnt when the last request of the step is answered.
Finish(step) ==
    client' = CASE step.do \in {"release", "bootstrap"} -> [client EXCEPT !.release = TRUE]
                [] step.do = "catalogue" ->
                        [client EXCEPT !.packages = Installed, !.packagesKnown = TRUE]
                [] OTHER -> client

NextRequest(step) ==
    IF Len(todo) > 1
    THEN todo' = Tail(todo) /\ sending' = NotSending /\ UNCHANGED <<pc, outcome, client>>
    ELSE GoTo(pc + 1) /\ Finish(step)

RequestFails(step, error) ==
    IF Request1.quiet THEN NextRequest(step) ELSE Raise(step, error) /\ UNCHANGED client

\* the changes of a request DSM carries out
Carried == effects' = IF Changes(Request1) THEN effects \union {"nas"} ELSE effects

\* ensureAPIsLocked for the API of the request, when it was not asked about yet
LearnAPI ==
    /\ Sending /\ ~Ready
    /\ client' = Learnt({Request1.api})
    /\ UNCHANGED <<routine, doors, limit, pc, todo, sending, effects, outcome, faults, callsMade>>

LearnFails(step) ==
    /\ Sending /\ ~Ready
    /\ Fault
    /\ RequestFails(step, "error")
    /\ UNCHANGED <<routine, doors, limit, effects, callsMade>>

\* the API is missing, or does not have the version
Unavailable(step) ==
    /\ Ready /\ ~Accepted
    /\ RequestFails(step, "unavailable")
    /\ UNCHANGED <<routine, doors, limit, effects, faults, callsMade>>

Answered(step) ==
    /\ Accepted
    /\ Carried
    /\ NextRequest(step)
    /\ UNCHANGED <<routine, doors, limit, faults, callsMade>>

\* DSM answers with an error and has done nothing.
RefusedByDSM(step) ==
    /\ Accepted
    /\ Fault
    /\ RequestFails(step, "error")
    /\ UNCHANGED <<routine, doors, limit, effects, callsMade>>

RetryEverything == sending.attempt < MaxAttempts \* Fault: the ReadOnly mark is not asked for

Retryable == Request1.readOnly /\ sending.attempt < MaxAttempts

\* No answer comes back; DSM has carried the request out or not.
\* requestWithRetryLocked sends it again only if the call site says ReadOnly.
Lost(step, done) ==
    /\ Accepted
    /\ Fault
    /\ IF done THEN Carried ELSE UNCHANGED effects
    /\ IF Retryable
       THEN /\ sending' = [sending EXCEPT !.attempt = @ + 1, !.carried = @ + (IF done THEN 1 ELSE 0)]
            /\ UNCHANGED <<pc, todo, outcome, client>>
       ELSE RequestFails(step, "error")
    /\ UNCHANGED <<routine, doors, limit, callsMade>>

\* DSM does not know the session: it is re-established and the request sent
\* again, once; or it cannot be re-established.
SessionEnded(step, recovered) ==
    /\ Accepted
    /\ Fault
    /\ IF recovered /\ Request1.resend /\ ~sending.again
       THEN /\ sending' = [sending EXCEPT !.again = TRUE, !.attempt = 1]
            /\ UNCHANGED <<pc, todo, outcome, client>>
       ELSE RequestFails(step, "error")
    /\ UNCHANGED <<routine, doors, limit, effects, callsMade>>

DispatchNext ==
    \/ \E entries \in {Offered} : \E e \in entries :
       \E leading \in {DoorsTo(e.program, entries)} :
           \/ \E lack \in Limits(e.program) :
                  Invoke(e.program, {door \in leading : door.callers # {}}, lack)
           \/ \E door \in leading : Deny(door)
    \/ Return \/ InvokeAgain \/ Forget \/ LearnAPI
    \/ \E step \in Current :
           \/ LocalError(step) \/ Choose(step) \/ FailStep(step) \/ DiscoverStep(step)
           \/ SelectStep(step) \/ OptionalStep(step) \/ RequireStep(step) \/ OutsideStep(step)
           \/ LearnFails(step) \/ Unavailable(step) \/ Answered(step) \/ RefusedByDSM(step)
           \/ \E b \in BOOLEAN : Lost(step, b) \/ SessionEnded(step, b)

DispatchSpec == DispatchInit /\ [][DispatchNext]_dispatchVars

-------------------------------------------------------------------------------

\* Every variable has its type.
DispatchTypeOK ==
    /\ \A door \in doors : door.kind \in {"tool", "command"} /\ door.callers \subseteq Callers
    /\ limit[1] \in {"none", "api", "package"} /\ limit[3] \in 0..Latest
    /\ client.release \in BOOLEAN /\ client.packagesKnown \in BOOLEAN
    /\ \A a \in DOMAIN client.apis : client.apis[a] \in 0..Latest
    /\ pc \in 1..(Len(routine) + 1)
    /\ sending.attempt \in 1..MaxAttempts /\ sending.carried \in 0..(2 * MaxAttempts)
    /\ effects \subseteq {"nas", "host"}
    /\ outcome \in {"none", "denied", "done", "error", "unsupported", "unavailable", "ambiguous"}
    /\ faults \in 0..MaxFaults /\ callsMade \in 0..MaxCalls

\* What an invocation changes is covered by what its caller was let in for,
\* through all four layers: the requests that the tools of the scopes read and
\* plan, of the read-only gateway, and of the commands the catalogue calls
\* plans send in the end change nothing; a tool annotated as read-only does
\* not change the NAS; and no remote caller makes the gateway write a file on
\* its host (NewRemote's reason to remove a tool that is named like a read).
EffectsAuthorized ==
    effects # {} => \A door \in doors :
        /\ \A who \in door.callers :
               \/ who \in {"local", "user"}
               \/ who \in {"nas.apply", "nas.provision"} /\ effects = {"nas"}
        /\ door.role # "plan"
        /\ "nas" \in effects => door.hint # "readOnly"

\* A request that changes the NAS is never sent again once DSM has carried it
\* out: a lost answer is retried only at call sites marked ReadOnly, and no
\* call site marks a changing request so (requestWithRetryLocked: "DSM POSTs
\* are not idempotent").
CarriedOutOnce == sending.carried > 0 => ~Changes(Request1)

\* What the client remembers of an API is not what the NAS has now:
\* discoverAPIsLocked does not ask again (apiChecked).
Outdated(api) == api \in DOMAIN client.apis /\ client.apis[api] # HighestVersion(api)
UpToDate == \A api \in DOMAIN client.apis : ~Outdated(api)

\* No method selects an operation, or sends a request, whose API it has not
\* discovered before: on a NAS that has everything, nothing is refused as
\* unsupported, in any call, unless the client still remembers an API as it was
\* in an earlier one; and no selection is ambiguous on any NAS.
CompleteNASServed ==
    /\ outcome # "ambiguous"
    /\ outcome \in {"unsupported", "unavailable"} => limit # NoLimit \/ ~UpToDate
    /\ ~UpToDate => callsMade > 1

\* What the NAS has now, of these APIs and of the packages.
OnNAS(apis) ==
    Target([a \in {b \in apis : HighestVersion(b) # 0} |-> HighestVersion(a)], Installed, TRUE)
Needed(operation) == UNION {{need[1] : need \in operation[i].needs} : i \in DOMAIN operation}

\* The variant selected is the best one that the NAS has now: whatever the
\* order of the variants, the only one that no other variant which the APIs and
\* packages of the NAS allow outranks.  Everything that the choice depends on
\* was asked about before, and only an API of the operation that the client
\* remembers from an earlier call makes it choose otherwise.
BestVariant ==
    \A step \in Current :
        Starts(step, {"run", "optional", "release", "bootstrap", "catalogue"}) =>
            LET operation == step.operations[1]
                offered == {i \in DOMAIN operation :
                               Match(operation[i], OnNAS(Needed(operation)))}
                selected == Selected(step)
            IN  \/ \E api \in Needed(operation) : Outdated(api)
                \/ /\ selected.found <=> offered # {}
                   /\ selected.found =>
                          \E i \in offered :
                              /\ operation[i] = selected.variant
                              /\ \A j \in offered \ {i} :
                                     operation[j].priority < operation[i].priority

\* An operation of a package is selected on the packages installed now, also
\* by a client that has seen others in an earlier call
\* (preparePackageScopedTargetLocked reads the inventory every time).
CatalogueFresh ==
    \A step \in Current :
        Starts(step, {"run", "optional"}) /\ (\E v \in Variants(<<step>>) : v.package # "")
            => client.packagesKnown /\ client.packages = Installed

\* What is selected and sent fits the NAS, but for an API that an earlier call
\* of the same client has asked about and the NAS has got since: that memory is
\* never refreshed, so that, other than packagescope.go and docs/compatibility.md
\* say, a package installed or updated in between may keep an old selection.
\* The packages themselves are seen as they are.
SelectionSound == CompleteNASServed /\ BestVariant /\ CatalogueFresh

===============================================================================
