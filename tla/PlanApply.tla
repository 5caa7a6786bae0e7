------------------------------ MODULE PlanApply ------------------------------
(***************************************************************************)
(* The plan/apply contract every mutation of dsmctl goes through           *)
(* (internal/application).  A planning call resolves a client for the      *)
(* profile, observes the resource and only then reads the revision the     *)
(* plan is bound to.  An applying call verifies that revision, resolves a  *)
(* client again, plans once more on live state, refuses a stale plan,      *)
(* performs the typed operation and reads the result back.  The calls of   *)
(* several callers interleave with each other, with administrators who     *)
(* edit the profile, and with DSM's own users.                             *)
(*                                                                         *)
(* A call runs in a process.  The gateway serves many remote calls from a  *)
(* profile table with revisions.  A CLI command, or a local MCP server on  *)
(* stdio, is a process of its own with its own clients: it goes by the     *)
(* configuration file as it was when the process started, and a profile's  *)
(* revision is 0 there, whatever was done to the file.                     *)
(*                                                                         *)
(* The services differ in how they plan again and in how they write; a     *)
(* service is the record of these differences (module ApplyServices lists  *)
(* them all).  The resource of a service is a record of fields; a field    *)
(* stands for whatever a request sets and the service reads back.          *)
(***************************************************************************)
EXTENDS Naturals, FiniteSets

CONSTANTS
    Caller,       \* those who call, one call at a time each
    Process,      \* the processes calls run in
    Gateway,      \* the one that is the gateway
    Home,         \* the process each caller's calls run in
    Nas,          \* the machines a profile's URL can lead to
    Absent,       \* the profile is not configured
    Field,        \* fields of the managed resource
    Section,      \* the groups of fields that DSM sets as one
    Value,        \* values of a field
    Request,      \* the patches callers ask for
    Service,      \* the services in use, see ServiceRecord
    MaxClients,   \* bound: clients the gateway builds for the profile
    MaxEdits,     \* bound: changes made in DSM itself
    MaxPlans      \* bound: plans issued

(* CLI commands and stdio servers.                                         *)
Local == Process \ {Gateway}

State == [Field -> Value]

(* What a planned change depends on, per service:                          *)
(*   revision  apply compares the profile's revision                       *)
(*   replan    what apply compares before it writes: the plan rebuilt by   *)
(*             the client that writes ("client"), the plan rebuilt by the  *)
(*             service, which resolves its own client ("service"), or      *)
(*             nothing ("none")                                            *)
(*   write     the requested fields in one request ("patch"), the whole    *)
(*             resource read, merged and set ("merge"), each section with  *)
(*             a requested field read, merged and set in turn ("parts"),   *)
(*             or the whole resource merged from the plan's observation    *)
(*             ("observed"); "refused" never writes                        *)
(*   secret    a request may name a secret, alone or with fields, which no *)
(*             read shows                                                  *)
(*   readback  the read after the write is compared with every requested   *)
(*             value ("whole"), or with some of them or with their         *)
(*             presence only ("part")                                      *)
ServiceRecord == [revision : BOOLEAN,
                  replan : {"client", "service", "none"},
                  write : {"patch", "parts", "merge", "observed", "refused"},
                  secret : BOOLEAN,
                  readback : {"whole", "part"}]

(* A patch: the fields it sets and their values.                           *)
Patches == UNION {[F -> Value] : F \in SUBSET Field}

ASSUME ConstantsAssumption ==
    /\ MaxClients \in Nat \ {0}
    /\ MaxEdits \in Nat
    /\ MaxPlans \in Nat
    /\ Absent \notin Nas
    /\ Gateway \in Process
    /\ Home \in [Caller -> Process]
    /\ Section \subseteq SUBSET Field
    /\ UNION Section = Field
    /\ Service \subseteq ServiceRecord
    /\ Request \subseteq Patches
    /\ Value # {}
    /\ Nas # {}

VARIABLES
    profile,  \* the gateway's profile: its target, revision and client
    loaded,   \* where the profile leads in the file each other one loaded
    nas,      \* the resource on each machine
    plans,    \* plans returned to callers
    edits,    \* changes made in DSM itself so far
    call      \* the state of each caller's call

vars == <<profile, loaded, nas, plans, edits, call>>

(* The revisions of the gateway's profiles come from one counter that      *)
(* starts at 1.  The manager keeps one client per profile and builds the   *)
(* next one after a change of the profile, its credentials or its session. *)
Profile == [device : Nas \cup {Absent}, revision : 0 .. MaxClients,
            client : 0 .. MaxClients]

(* A client: the machine it talks to and which of its process's it is.     *)
Client == [nas : Nas, number : 0 .. MaxClients]

(* A plan.  "from" and "torn" are history and no part of its hash: the     *)
(* machine that was observed, and whether the profile changed meanwhile.   *)
Plan == [service : Service, request : Request, observed : State,
         revision : 0 .. MaxClients, from : Nas, torn : BOOLEAN]

Planning == {"observe", "revise"}

(* Between the read and the set of a section, and between two sections.    *)
Holding == {"set", "next"}

Writing == {"mutate"} \cup Holding

Applying == {"check", "client", "replan", "rerevise", "reclient",
             "mutate", "set", "next", "verify", "applied"}

(* "moved", "outside", "seen" and "shown" are history: whether the         *)
(* gateway's profile changed since the call began; whether the machine was *)
(* changed, since the call read it, by somebody who does not wait for the  *)
(* call's client; the machines found during the call in the state its plan *)
(* was made on; and whether the machine has shown the whole request since  *)
(* the call's last write.                                                  *)
CallRecord == [pc : Planning \cup Applying, plan : Plan, client : Client,
               basis : State, part : SUBSET Field, todo : SUBSET Field,
               moved : BOOLEAN, outside : BOOLEAN, seen : SUBSET Nas,
               shown : BOOLEAN]

Idle == [pc |-> "idle"]

(* Every variable has its type: a client always leads to a machine, also   *)
(* where the profile it was resolved for is gone.                          *)
TypeOK ==
    /\ profile \in Profile
    /\ loaded \in [Local -> Nas]
    /\ nas \in [Nas -> State]
    /\ plans \subseteq Plan
    /\ edits \in 0 .. MaxEdits
    /\ call \in [Caller -> {Idle} \cup CallRecord]

Init ==
    /\ profile \in [device : Nas, revision : {1}, client : {1}]
    /\ loaded \in [Local -> Nas]
    /\ nas \in [Nas -> State]
    /\ plans = {}
    /\ edits = 0
    /\ call = [c \in Caller |-> Idle]

-----------------------------------------------------------------------------
(* State s after the patch r.                                              *)
Patched(s, r) == [f \in Field |-> IF f \in DOMAIN r THEN r[f] ELSE s[f]]

(* State s shows the patch r.                                              *)
Matches(s, r) == \A f \in DOMAIN r : s[f] = r[f]

(* The profile as the call's process knows it.  Revision is not part of    *)
(* the configuration file.                                                 *)
Configured(c) ==
    IF Home[c] = Gateway THEN profile
    ELSE [device |-> loaded[Home[c]], revision |-> 0, client |-> 0]

(* The client the manager of the call's process hands out for it.          *)
Current(c) == [nas |-> Configured(c).device, number |-> Configured(c).client]

(* The resource the call's client talks to.                                *)
Live(c) == nas[call[c].client.nas]

(* The calls c and d use the same client, and so wait for one another.     *)
Together(c, d) ==
    /\ call[c].pc # "idle"
    /\ call[d].pc # "idle"
    /\ Home[c] = Home[d]
    /\ call[c].client = call[d].client

(* Mutant: the read and the set of a merge are not under one lock.         *)
Unlocked(c) == call[c].pc = "idle"

(* Another call holds the mutex of the call's client, from its first read  *)
(* of a merge to its last set.                                             *)
Locked(c) == \E d \in Caller \ {c} : call[d].pc \in Holding /\ Together(c, d)

(* History: machine n is now in state s, by the doing of the calls in by.  *)
Noticed(n, s, by) ==
    [c \in Caller |->
        IF call[c].pc \notin Applying THEN call[c]
        ELSE [call[c] EXCEPT
                !.seen = IF s = call[c].plan.observed
                           THEN call[c].seen \cup {n} ELSE call[c].seen,
                !.shown = \/ call[c].shown
                          \/ /\ call[c].client.nas = n
                             /\ Matches(s, call[c].plan.request),
                !.outside = \/ call[c].outside
                            \/ call[c].client.nas = n /\ c \notin by]]

(* History: the gateway's profile changed.                                 *)
Moved == [c \in Caller |->
             IF call[c].pc = "idle" \/ Home[c] # Gateway THEN call[c]
             ELSE [call[c] EXCEPT !.moved = TRUE]]

-----------------------------------------------------------------------------
(* Plan...Change validates the request and resolves a client.              *)
PlanClient(c, s, r) ==
    /\ call[c].pc = "idle"
    /\ Configured(c).device # Absent
    /\ (DOMAIN r = {}) => s.secret
    /\ call' = [call EXCEPT ![c] =
                   [pc |-> "observe",
                    plan |-> [service |-> s, request |-> r,
                              observed |-> nas[Configured(c).device],
                              revision |-> Configured(c).revision,
                              from |-> Configured(c).device, torn |-> FALSE],
                    client |-> Current(c),
                    basis |-> nas[Configured(c).device],
                    part |-> {}, todo |-> {}, moved |-> FALSE,
                    outside |-> FALSE, seen |-> {}, shown |-> FALSE]]
    /\ UNCHANGED <<profile, loaded, nas, plans, edits>>

(* A patch of a configuration must change something; one that may name a   *)
(* secret is planned for the secret's sake whatever its fields are.        *)
Changes(c) ==
    LET p == call[c].plan
    IN /\ p.service.write \in {"merge", "parts", "observed"}
       /\ ~p.service.secret
       => ~Matches(Live(c), p.request)

(* It reads the resource and fingerprints what it saw.                     *)
PlanObserve(c) ==
    /\ call[c].pc = "observe"
    /\ ~Locked(c)
    /\ Changes(c)
    /\ call' = [call EXCEPT ![c].pc = "revise",
                            ![c].plan = [call[c].plan EXCEPT
                                            !.observed = Live(c)]]
    /\ UNCHANGED <<profile, loaded, nas, plans, edits>>

(* It reads the profile's revision last, and returns the hashed plan.      *)
PlanRevision(c) ==
    /\ call[c].pc = "revise"
    /\ Configured(c).device # Absent
    /\ Cardinality(plans) < MaxPlans
    /\ plans' = plans \cup {[call[c].plan EXCEPT
                                !.revision = Configured(c).revision,
                                !.torn = call[c].moved]}
    /\ call' = [call EXCEPT ![c] = Idle]
    /\ UNCHANGED <<profile, loaded, nas, edits>>

-----------------------------------------------------------------------------
(* Apply...Plan accepts an unmodified plan with its approval hash, and the *)
(* remote authorizer admits it.                                            *)
Submit(c, p) ==
    /\ call[c].pc = "idle"
    /\ call' = [call EXCEPT ![c] =
                   [pc |-> "check", plan |-> p,
                    client |-> [nas |-> p.from, number |-> 0],
                    basis |-> p.observed, part |-> {},
                    todo |-> DOMAIN p.request, moved |-> FALSE,
                    outside |-> FALSE,
                    seen |-> {n \in Nas : nas[n] = p.observed},
                    shown |-> FALSE]]
    /\ UNCHANGED <<profile, loaded, nas, plans, edits>>

(* The plan's revision is the profile's, as the process knows it.          *)
RevisionHolds(c) ==
    /\ Configured(c).device # Absent
    /\ Configured(c).revision = call[c].plan.revision

VerifyRevision(c) ==
    /\ call[c].pc = "check"
    /\ call[c].plan.service.revision => RevisionHolds(c)
    /\ call' = [call EXCEPT ![c].pc = "client"]
    /\ UNCHANGED <<profile, loaded, nas, plans, edits>>

(* The next step of an apply that was handed a client.                     *)
AfterClient(c) ==
    IF call[c].pc = "reclient" \/ call[c].plan.service.replan = "none"
      THEN "mutate" ELSE "replan"

(* Mutant: a client is handed out for a profile that is gone.              *)
ServeDeleted(c) ==
    /\ call[c].pc \in {"client", "reclient"}
    /\ call' = [call EXCEPT ![c].client = Current(c),
                            ![c].pc = AfterClient(c)]
    /\ UNCHANGED <<profile, loaded, nas, plans, edits>>

(* manager.Client for the plan's profile.                                  *)
ResolveClient(c) ==
    /\ call[c].pc \in {"client", "reclient"}
    /\ Configured(c).device # Absent
    /\ call' = [call EXCEPT ![c].client = Current(c),
                            ![c].pc = AfterClient(c)]
    /\ UNCHANGED <<profile, loaded, nas, plans, edits>>

(* Mutant: the plan is compared with what the call was given, not re-read. *)
ComparedWithItself(c) == call[c].basis = call[c].plan.observed

(* The plan rebuilt on live state equals the approved one.                 *)
StillHolds(c) == Live(c) = call[c].plan.observed

Replan(c) ==
    /\ call[c].pc = "replan"
    /\ ~Locked(c)
    /\ StillHolds(c)
    /\ call' = [call EXCEPT
                   ![c].pc = IF call[c].plan.service.replan = "service"
                               THEN "rerevise" ELSE "mutate",
                   ![c].outside = FALSE]
    /\ UNCHANGED <<profile, loaded, nas, plans, edits>>

(* A service that plans again from the top also hashes the revision again. *)
ReplanRevision(c) ==
    /\ call[c].pc = "rerevise"
    /\ RevisionHolds(c)
    /\ call' = [call EXCEPT ![c].pc = "reclient"]
    /\ UNCHANGED <<profile, loaded, nas, plans, edits>>

-----------------------------------------------------------------------------
(* What a service reads, merges and sets as one: the whole resource, or    *)
(* one section after the other.                                            *)
Sections(s) ==
    CASE s.write = "merge" -> {Field}
      [] s.write = "parts" -> Section
      [] OTHER -> {}

(* Mutant: the section is merged from what the plan observed.              *)
MergeObserved(c, part) ==
    /\ call[c].pc \in {"mutate", "next"}
    /\ part \in Sections(call[c].plan.service)
    /\ call[c].todo = {} \/ part \cap call[c].todo # {}
    /\ ~Locked(c)
    /\ call' = [call EXCEPT ![c].pc = "set", ![c].part = part,
                            ![c].basis = call[c].plan.observed,
                            ![c].outside = FALSE]
    /\ UNCHANGED <<profile, loaded, nas, plans, edits>>

(* A merging operation reads what it will set.  It takes the client's      *)
(* mutex with its first read and keeps it.                                 *)
Refresh(c, part) ==
    /\ call[c].pc \in {"mutate", "next"}
    /\ part \in Sections(call[c].plan.service)
    /\ call[c].todo = {} \/ part \cap call[c].todo # {}
    /\ ~Locked(c)
    /\ call' = [call EXCEPT ![c].pc = "set", ![c].part = part,
                            ![c].basis = Live(c), ![c].outside = FALSE]
    /\ UNCHANGED <<profile, loaded, nas, plans, edits>>

(* DSM answers a write of the values in s, after which the fields in rest  *)
(* are left.  It may carry out a part only of what it accepts, or of what  *)
(* it reports as failed; the call ends at the first request that is not    *)
(* accepted.                                                               *)
Answered(c, s, rest) ==
    \E carried \in SUBSET DOMAIN s, accepted \in BOOLEAN :
        LET n == call[c].client.nas
            new == [f \in Field |-> IF f \in carried THEN s[f]
                                                     ELSE nas[n][f]]
            seen == Noticed(n, new, {d \in Caller : Together(c, d)})
        IN /\ nas' = [nas EXCEPT ![n] = new]
           /\ call' = [seen EXCEPT ![c] =
                 IF ~accepted THEN Idle
                 ELSE [seen[c] EXCEPT
                         !.pc = IF rest = {} THEN "verify" ELSE "next",
                         !.todo = rest,
                         !.shown = Matches(new, call[c].plan.request)]]

(* One request writes the requested fields.                                *)
MutatePatch(c) ==
    /\ call[c].pc = "mutate"
    /\ call[c].plan.service.write = "patch"
    /\ ~Locked(c)
    /\ Answered(c, call[c].plan.request, {})
    /\ UNCHANGED <<profile, loaded, plans, edits>>

(* What Refresh read of the section, with the patch.                       *)
MutateSection(c) ==
    /\ call[c].pc = "set"
    /\ LET merged == Patched(call[c].basis, call[c].plan.request)
       IN Answered(c, [f \in call[c].part |-> merged[f]],
                   call[c].todo \ call[c].part)
    /\ UNCHANGED <<profile, loaded, plans, edits>>

(* The resource as the plan observed it, with the patch.                   *)
MutateObserved(c) ==
    /\ call[c].pc = "mutate"
    /\ call[c].plan.service.write = "observed"
    /\ ~Locked(c)
    /\ Answered(c, Patched(call[c].plan.observed, call[c].plan.request), {})
    /\ UNCHANGED <<profile, loaded, plans, edits>>

-----------------------------------------------------------------------------
(* Mutant: the answer to the write is taken for its effect.                *)
TrustAnswer(c) ==
    /\ call[c].pc = "verify"
    /\ call' = [call EXCEPT ![c].pc = "applied"]
    /\ UNCHANGED <<profile, loaded, nas, plans, edits>>

(* The read back.  A service that polls fails after its last read, so the  *)
(* one read here may happen at any later time.  Which values a read back   *)
(* in part compares is left open.                                          *)
VerifyPostcondition(c) ==
    /\ call[c].pc = "verify"
    /\ ~Locked(c)
    /\ call[c].plan.service.readback = "whole"
       => Matches(Live(c), call[c].plan.request)
    /\ call' = [call EXCEPT ![c].pc = "applied"]
    /\ UNCHANGED <<profile, loaded, nas, plans, edits>>

(* The call returns Applied.                                               *)
Return(c) ==
    /\ call[c].pc = "applied"
    /\ call' = [call EXCEPT ![c] = Idle]
    /\ UNCHANGED <<profile, loaded, nas, plans, edits>>

(* Every early return with an error: a failed validation or read, a denied *)
(* admission, another revision, a stale plan, a secret that does not       *)
(* resolve, a postcondition that does not hold.                            *)
GiveUp(c) ==
    /\ call[c].pc \notin {"idle", "applied"}
    /\ call' = [call EXCEPT ![c] = Idle]
    /\ UNCHANGED <<profile, loaded, nas, plans, edits>>

-----------------------------------------------------------------------------
(* Mutant: a profile created again starts at the first revision.           *)
RestartRevision(d) ==
    /\ profile.client < MaxClients
    /\ profile' = [device |-> d,
                   revision |-> IF profile.device = Absent THEN 1
                                ELSE profile.client + 1,
                   client |-> profile.client + 1]
    /\ call' = Moved
    /\ UNCHANGED <<loaded, nas, plans, edits>>

(* A gateway administrator changes the profile's URL or account, or        *)
(* creates the profile anew, with the next revision of the counter.        *)
UpdateProfile(d) ==
    /\ profile.client < MaxClients
    /\ profile' = [device |-> d, revision |-> profile.client + 1,
                   client |-> profile.client + 1]
    /\ call' = Moved
    /\ UNCHANGED <<loaded, nas, plans, edits>>

DeleteProfile ==
    /\ profile.device # Absent
    /\ profile' = [profile EXCEPT !.device = Absent]
    /\ call' = Moved
    /\ UNCHANGED <<loaded, nas, plans, edits>>

(* The gateway drops its client because a credential or the session was    *)
(* replaced; calls under way keep the old one, and its mutex.              *)
Reconnect ==
    /\ profile.client < MaxClients
    /\ profile' = [profile EXCEPT !.client = profile.client + 1]
    /\ UNCHANGED <<loaded, nas, plans, edits, call>>

(* A CLI command or a stdio server starts and loads the configuration file *)
(* as it is then.                                                          *)
Start(p, d) ==
    /\ \A c \in Caller : Home[c] = p => call[c].pc = "idle"
    /\ loaded' = [loaded EXCEPT ![p] = d]
    /\ UNCHANGED <<profile, nas, plans, edits, call>>

(* A DSM user, or another program, changes a field.                        *)
Edit(n, f, v) ==
    /\ edits < MaxEdits
    /\ edits' = edits + 1
    /\ nas' = [nas EXCEPT ![n] = [nas[n] EXCEPT ![f] = v]]
    /\ call' = Noticed(n, [nas[n] EXCEPT ![f] = v], {})
    /\ UNCHANGED <<profile, loaded, plans>>

(* The writes of a call.                                                   *)
Write(c) == MutatePatch(c) \/ MutateSection(c) \/ MutateObserved(c)

CallStep(c) ==
    \/ \E s \in Service, r \in Request : PlanClient(c, s, r)
    \/ PlanObserve(c)
    \/ PlanRevision(c)
    \/ \E p \in plans : Submit(c, p)
    \/ VerifyRevision(c)
    \/ ResolveClient(c)
    \/ Replan(c)
    \/ ReplanRevision(c)
    \/ \E part \in SUBSET Field : Refresh(c, part)
    \/ Write(c)
    \/ VerifyPostcondition(c)
    \/ Return(c)
    \/ GiveUp(c)

Next ==
    \/ \E c \in Caller : CallStep(c)
    \/ \E d \in Nas : UpdateProfile(d)
    \/ DeleteProfile
    \/ Reconnect
    \/ \E p \in Local, d \in Nas : Start(p, d)
    \/ \E n \in Nas, f \in Field, v \in Value : Edit(n, f, v)

Spec == Init /\ [][Next]_vars

-----------------------------------------------------------------------------
(* An apply that is about to write through a client.                       *)
AboutToWrite(c) == call[c].pc \in Writing

(* An apply, in whatever process, never writes to a machine that was not   *)
(* found, during this very call, in the state its plan was approved for;   *)
(* only a service that resolves its client twice may, and then the profile *)
(* changed under it.                                                       *)
FreshlyObserved ==
    \A c \in Caller :
        LET k == call[c]
        IN /\ AboutToWrite(c)
           /\ k.plan.service.replan \in {"client", "service"}
           => \/ k.client.nas \in k.seen
              \/ k.plan.service.replan = "service" /\ k.moved

(* In the gateway an apply writes to another machine than the one planned  *)
(* for only if the profile changed while the plan was made or while it is  *)
(* applied: a move, or a deletion and a new profile of the same name, at   *)
(* any time between the two calls is always noticed, and a plan made in    *)
(* another process is never taken for one of the gateway's.  A CLI command *)
(* or a stdio server compares 0 with 0 and notices no edit of its file.    *)
TargetAsPlanned ==
    \A c \in Caller :
        LET k == call[c]
        IN /\ Home[c] = Gateway
           /\ AboutToWrite(c)
           /\ k.plan.service.revision
           => \/ k.client.nas = k.plan.from
              \/ k.moved
              \/ k.plan.torn

(* A call that reports Applied is right, for a service that reads back all *)
(* that was requested: since its last write the machine it wrote to has    *)
(* shown the whole request, although DSM may ignore what it accepts.       *)
AppliedIsTrue ==
    \A c \in Caller :
        /\ call[c].pc = "applied"
        /\ call[c].plan.service.readback = "whole"
        => call[c].shown

(* A write changes no field that was not requested, unless somebody who    *)
(* does not wait for the call's client (another process, the gateway's     *)
(* next client, a DSM user) changed the machine since the call read it:    *)
(* what DSM only sets as one is read, merged and set under one mutex.      *)
UnspecifiedKept ==
    [][\A c \in Caller : Write(c) /\ ~call[c].outside =>
          \A f \in Field \ DOMAIN call[c].plan.request :
              nas'[call[c].client.nas][f] = Live(c)[f]]_vars
=============================================================================
