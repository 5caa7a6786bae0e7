----------------------------- MODULE ClientSteps -----------------------------
(***************************************************************************)
(* What the methods of synology.Client and application.Service are made    *)
(* of: a program is a sequence of steps, each one of the client's own      *)
(* building blocks.  A step that fails ends the program with its error,    *)
(* unless the program handles the error (rescue counts the steps to go     *)
(* forward then).  A condition on data the model leaves out is a choice: a *)
(* "branch" step falls through or goes forward by skip steps.              *)
(***************************************************************************)
EXTENDS PackageOperations

Step(do, apis, operations, skip) ==
    [do |-> do, apis |-> apis, operations |-> operations, skip |-> skip, rescue |-> 0]

(***************************************************************************)
(* Control.                                                                *)
(***************************************************************************)
Nothing == <<>>
Fail == <<Step("fail", {}, <<>>, 0)>>         \* return an error
Branch(n) == <<Step("branch", {}, <<>>, n + 1)>>
Jump(n) == <<Step("jump", {}, <<>>, n + 1)>>
Maybe(P) == Branch(Len(P)) \o P
Either(P, Q) == Branch(Len(P) + 1) \o P \o Jump(Len(Q)) \o Q
Repeat(P) == Maybe(P \o Maybe(P))             \* a loop: at most 2 rounds
\* a switch whose other values return an error
Choice(cases) ==
    LET from[i \in 1..(Len(cases) + 1)] ==
            IF i > Len(cases) THEN Fail ELSE Either(cases[i], from[i + 1])
    IN  from[1]

\* P, an error of which goes on n steps after P instead of being returned
Rescued(P, n) ==
    [i \in 1..Len(P) |->
        IF P[i].rescue # 0 THEN P[i] ELSE [P[i] EXCEPT !.rescue = Len(P) - i + 1 + n]]
Attempt(P) == Rescued(P, 0)                   \* P, its error ignored
OnError(P, handler) == Rescued(P, 1) \o Jump(Len(handler)) \o handler

(***************************************************************************)
(* Discovery, selection and requests.                                      *)
(***************************************************************************)
Discover(apis) == <<Step("discover", apis, <<>>, 0)>>
Ensure(apis) == <<Step("ensure", apis, <<>>, 0)>>

Run(operation) == <<Step("run", {}, <<operation>>, 0)>>
\* if Select succeeds, run it; an unsupported operation is left out
RunIfSupported(operation) == <<Step("optional", {}, <<operation>>, 0)>>
TryRun(operation) == Attempt(Run(operation))
\* Select and return its error; nothing is sent
Require(operation) == <<Step("require", {}, <<operation>>, 0)>>
\* Select every operation for a report: only ambiguity is an error
Report(operations) == <<Step("report", {}, operations, 0)>>

\* A request sent without an operation of its own: it needs only its API.
Direct(api, version, req) ==
    <<[Ranked(api, version, 10, {<<req>>})[1] EXCEPT !.needs = {}]>>
Request(api, version, req) == Run(Direct(api, version, req))
TryRequest(api, version, req) == Attempt(Request(api, version, req))

(***************************************************************************)
(* The compatibility target.  The second Select of systemInfoLocked is for *)
(* variants of one DSM release, of which there are none.                   *)
(***************************************************************************)
systemInfoLocked ==
    Discover(systeminfo_APINames) \o <<Step("release", {}, <<systeminfo_operation>>, 0)>>
Bootstrap == <<Step("bootstrap", {}, <<systeminfo_operation>>, 0)>>
\* prepareCompatibilityTargetLocked
Prepare(apis) == Discover(systeminfo_APINames \union apis) \o Bootstrap
refreshInstalledPackageCatalogLocked ==
    <<Step("catalogue", {}, <<packagecenter_inventory>>, 0)>>
\* writeCertificateExport: a file on the host that runs the service
SaveOnHost == <<Step("save", {}, <<>>, 0)>>
\* What package provision does to a NAS that is not yet set up, with an HTTP
\* client of its own: a step outside the client.
Provisioning == <<Step("provision", {}, <<>>, 0)>>

\* preparePackageScopedTargetLocked
PackageScoped(apis) ==
    Prepare({"Core.Package"} \union apis) \o refreshInstalledPackageCatalogLocked

=============================================================================
