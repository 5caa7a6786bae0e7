---------------------------- MODULE Compatibility ----------------------------
(***************************************************************************)
(* internal/synology/compatibility: an operation of the DSM client is a    *)
(* sequence of variants, each with what it needs of the NAS, a priority    *)
(* and the requests its Execute sends.  Select chooses the variant for the *)
(* target, which holds what the client has learned about its NAS: the APIs *)
(* discovered (with their highest version) and the installed packages.     *)
(*                                                                         *)
(* A request keeps its API, version, method and the ReadOnly mark of its   *)
(* call site; parameters and answers are left out.  The least version of   *)
(* every API is 1.  The matchers Capability, DSMVersionRange and           *)
(* PackageInstalled are used by no operation and are left out.             *)
(***************************************************************************)
EXTENDS Integers, Sequences, FiniteSets

(***************************************************************************)
(* Requests.  "" stands for the API of the variant that sends the request. *)
(***************************************************************************)
OneOf(methods) ==
    [api |-> "", version |-> 0, methods |-> methods, readOnly |-> FALSE,
     many |-> FALSE, quiet |-> FALSE, resend |-> TRUE]
Send(method) == OneOf({method})
Read(method) == [Send(method) EXCEPT !.readOnly = TRUE]
To(api, version, req) == [req EXCEPT !.api = api, !.version = version]
Each(req) == [req EXCEPT !.many = TRUE]     \* sent in a loop
Quiet(req) == [req EXCEPT !.quiet = TRUE]   \* its error is not returned
Once(req) == [req EXCEPT !.resend = FALSE]  \* not sent again after a session error

\* A background task of File Station: started, then polled; pollTask keeps
\* polling over a failed poll.
StartAndPoll == <<Send("start"), Each(Quiet(Send("status")))>>
\* A task DSM may report as finished without a result is started again; of
\* asyncRestartRounds at most 2 are modelled.
Rounds(round) == {round, round \o round}

(***************************************************************************)
(* Variants and operations.                                                *)
(***************************************************************************)
Ranked(api, version, priority, sends) ==
    <<[api |-> api, version |-> version, priority |-> priority,
       needs |-> {<<api, version>>}, package |-> "", minimum |-> <<>>, sends |-> sends]>>
One(api, version, sends) == Ranked(api, version, 10, sends)
Versions(api, versions, sends) ==
    [i \in 1..Len(versions) |-> Ranked(api, versions[i], 10 * versions[i], sends)[1]]

\* compatibility.All(operation's own matcher, APIVersion(api, version))
Also(api, version, operation) ==
    [i \in 1..Len(operation) |->
        [operation[i] EXCEPT !.needs = @ \union {<<api, version>>}]]
\* compatibility.All(..., PackageVersionRange(package, minimum, unbounded))
InPackage(package, minimum, operation) ==
    [i \in 1..Len(operation) |->
        [operation[i] EXCEPT !.package = package, !.minimum = minimum]]

(***************************************************************************)
(* The target and the matchers.                                            *)
(***************************************************************************)
Target(apis, packages, packagesKnown) ==
    [apis |-> apis, packages |-> packages, packagesKnown |-> packagesKnown]

Supports(highest, version) == version >= 1 /\ version <= highest

APIVersion(target, name, version) ==
    name \in DOMAIN target.apis /\ Supports(target.apis[name], version)

Segment(version, i) == IF i <= Len(version) THEN version[i] ELSE 0

\* PackageVersion.Compare(other) < 0: segment by segment, a missing one is 0.
Older(version, other) ==
    \E i \in 1..Len(other) :
        /\ Segment(version, i) < Segment(other, i)
        /\ \A j \in 1..(i - 1) : Segment(version, j) = Segment(other, j)

\* The package must be in the catalogue, the catalogue loaded, its version
\* known and not older than the minimum.
PackageVersionRange(target, package, minimum) ==
    /\ target.packagesKnown
    /\ package \in DOMAIN target.packages
    /\ target.packages[package] # <<>>
    /\ ~Older(target.packages[package], minimum)

Match(variant, target) ==
    /\ \A need \in variant.needs : APIVersion(target, need[1], need[2])
    /\ variant.package # "" => PackageVersionRange(target, variant.package, variant.minimum)

(***************************************************************************)
(* Operation.Select: one pass over the variants in their order.  The       *)
(* comparison for ambiguity is with the variant selected so far.           *)
(***************************************************************************)
NoVariant == Ranked("", 0, 0, {})[1]
Unsupported == [found |-> FALSE, ambiguous |-> FALSE, variant |-> NoVariant]

Consider(selected, candidate, target) ==
    IF selected.ambiguous \/ ~Match(candidate, target) THEN selected
    ELSE IF selected.found /\ candidate.priority = selected.variant.priority
         THEN [selected EXCEPT !.ambiguous = TRUE]
    ELSE IF ~selected.found \/ candidate.priority > selected.variant.priority
         THEN [found |-> TRUE, ambiguous |-> FALSE, variant |-> candidate]
    ELSE selected

Select(operation, target) ==
    LET upTo[n \in 0..Len(operation)] ==
            IF n = 0 THEN Unsupported
            ELSE Consider(upTo[n - 1], operation[n], target)
    IN  upTo[Len(operation)]

Supported(operation, target) ==
    LET selected == Select(operation, target)
    IN  selected.found /\ ~selected.ambiguous

\* The requests of Execute, addressed: a request without an API of its own
\* goes to the API and version of the variant.
Addressed(req, variant) ==
    IF req.api = "" THEN To(variant.api, variant.version, req) ELSE req
Address(calls, variant) ==
    [i \in 1..Len(calls) |-> Addressed(calls[i], variant)]

=============================================================================
