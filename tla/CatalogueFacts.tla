---------------------------- MODULE CatalogueFacts ----------------------------
(***************************************************************************)
(* What the programs of the tools and commands have in common, as facts    *)
(* about the catalogue that Dispatch runs: TLC evaluates them for all the  *)
(* entries, and the proofs about Dispatch rest on them.  None of them says *)
(* what an invocation does: that follows from Dispatch's actions.          *)
(***************************************************************************)
EXTENDS Dispatch

RequestShape ==
    [api : STRING, version : Nat, methods : SUBSET STRING, readOnly : BOOLEAN, many : BOOLEAN,
     quiet : BOOLEAN, resend : BOOLEAN]
VariantShape ==
    [api : STRING, version : Nat, priority : Nat, needs : SUBSET (STRING \X Nat),
     package : STRING, minimum : Seq(Nat), sends : SUBSET Seq(RequestShape)]
StepShape ==
    [do : STRING, apis : SUBSET STRING, operations : Seq(Seq(VariantShape)),
     skip : Nat, rescue : Nat]

(***************************************************************************)
(* The requests of a program, and what they may change.                    *)
(***************************************************************************)
SendingSteps == {"run", "optional", "release", "bootstrap", "catalogue"}

ChangesNAS(steps) ==
    \E k \in DOMAIN steps :
        \/ steps[k].do = "provision"
        \/ /\ steps[k].do \in SendingSteps
           /\ \E v \in Variants(<<steps[k]>>) : \E calls \in v.sends : \E j \in DOMAIN calls :
                  Changes(Addressed(calls[j], v))
WritesHost(steps) == \E k \in DOMAIN steps : steps[k].do = "save"

\* A call site marks only requests that leave the NAS as it is, and asks for a
\* version there is.
RequestSound(req) == (req.readOnly => ~Changes(req)) /\ req.version <= Latest

(***************************************************************************)
(* What the client has asked about when it comes to a step: the APIs, and  *)
(* the installed packages under a name of their own.                       *)
(***************************************************************************)
Catalogue == "installed packages"
Asks(step) ==
    CASE step.do \in {"discover", "ensure"} -> step.apis
      [] step.do = "catalogue" -> {Catalogue}
      [] OTHER -> {}

\* how many steps further a step goes on that does not fail
Onward(step) ==
    CASE step.do = "fail" -> {}
      [] step.do = "jump" -> {step.skip}
      [] step.do = "branch" -> {1, step.skip}
      [] OTHER -> {1}

AllAsked(steps) == UNION {Asks(steps[k]) : k \in DOMAIN steps}

\* Step k reached without a makes what follows it reached without a.
Passes(steps, k, without) ==
    LET here == {a \in AllAsked(steps) : <<k, a>> \in without}
        rescue == {steps[k].rescue} \ {0}
    IN  without \union {<<k + n, a>> : n \in Onward(steps[k]), a \in here \ Asks(steps[k])}
                \union {<<k + n, a>> : n \in rescue, a \in here}

\* The pairs <<n, a>>: step n may be reached before a was asked about.
ReachedWithout(steps) ==
    LET upTo[k \in 0..Len(steps)] ==
            IF k = 0 THEN {1} \X AllAsked(steps) ELSE Passes(steps, k, upTo[k - 1])
    IN  upTo[Len(steps)]

\* what was asked about on every way to step n
Asked(steps) ==
    LET without == ReachedWithout(steps)
    IN  [n \in 1..(Len(steps) + 1) |-> {a \in AllAsked(steps) : <<n, a>> \notin without}]

\* A NAS that has everything has a variant for the operation, and the client
\* knows enough of the NAS to find it.
ServedByLatest(operation, asked) ==
    \E i \in DOMAIN operation :
        /\ \A need \in operation[i].needs : need[1] \in asked /\ need[2] \in 1..Latest
        /\ operation[i].package # "" =>
            /\ Catalogue \in asked /\ operation[i].package \in Packages
            /\ ~Older(<<Latest>>, operation[i].minimum)

(***************************************************************************)
(* The facts.                                                              *)
(***************************************************************************)
WellFormed(steps) ==
    /\ steps \in Seq(StepShape)
    /\ \A k \in DOMAIN steps :
        /\ k + steps[k].skip <= Len(steps) + 1 /\ k + steps[k].rescue <= Len(steps) + 1
        /\ steps[k].do \in SendingSteps => Len(steps[k].operations) = 1
        /\ Catalogue \notin steps[k].apis

\* No two variants of an operation have the same priority.
OperationSound(operation) ==
    /\ \A i, j \in DOMAIN operation : i # j => operation[i].priority # operation[j].priority
    /\ \A i \in DOMAIN operation : \A need \in operation[i].needs :
           need[1] # Catalogue /\ need[2] \in 1..Latest

\* On every way to a step the program has asked about what the step needs.
Prepared(steps, asked) ==
    /\ asked[1] = {}
    /\ \A k \in DOMAIN steps :
        /\ \A n \in Onward(steps[k]) : asked[k + n] \subseteq asked[k] \union Asks(steps[k])
        /\ steps[k].rescue # 0 => asked[k + steps[k].rescue] \subseteq asked[k]
        /\ steps[k].do \in (SendingSteps \ {"optional"}) \union {"require"} =>
            \A j \in DOMAIN steps[k].operations : ServedByLatest(steps[k].operations[j], asked[k])
        /\ steps[k].do \in SendingSteps =>
            /\ Needed(steps[k].operations[1]) \subseteq asked[k]
            /\ (\E v \in Variants(<<steps[k]>>) : v.package # "") => Catalogue \in asked[k]

ASSUME ProgramsAssumption ==
    \A e \in Entries :
        /\ WellFormed(e.program)
        /\ \A k \in DOMAIN e.program : \A j \in DOMAIN e.program[k].operations :
               OperationSound(e.program[k].operations[j])
        /\ \E asked \in {Asked(e.program)} : Prepared(e.program, asked)

ASSUME RequestsAssumption ==
    \A e \in Entries : \A k \in DOMAIN e.program : e.program[k].do \in SendingSteps =>
        \A v \in Variants(<<e.program[k]>>) : \A calls \in v.sends :
            /\ \A j \in DOMAIN calls : RequestSound(Addressed(calls[j], v))
            /\ e.program[k].do = "catalogue" => calls # <<>> /\ ~calls[1].many

\* The names and annotations of the tools and commands against what their
\* programs may change.
ASSUME AccessAssumption ==
    \A e \in Entries :
        /\ e.kind \in {"tool", "command"} /\ (e.kind = "command" => e \notin New)
        /\ ChangesNAS(e.program) =>
            /\ e \notin NewReadOnly /\ e.hint # "readOnly"
            /\ e.kind = "command" => commandCatalogRole(e) # "plan"
            /\ e \in NewRemote => ToolScope(e) \in {"nas.apply", "nas.provision"}
        /\ WritesHost(e.program) =>
            /\ e \notin NewReadOnly /\ e \notin NewRemote
            /\ e.kind = "command" => commandCatalogRole(e) # "plan"

===============================================================================
