# A TLA+ verification of dsmctl

dsmctl manages Synology NAS from a command line, as an MCP server on stdio, and
as a network gateway that several MCP clients share. This directory holds TLA+
models of the parts of it that decide *whether* and *on what* a change is made:
who is admitted, through which DSM session, by which requests, and against which
state of the NAS; and of the operations that take several steps. TLC checks the models on small instances; TLAPS proves
all of their safety properties for every value of the constants.

Paths below are relative to `src/internal/` unless they start with `docs/` or
`spec/`. `PROJECT.json` gives, for every definition that models code, the lines
it models.

    tlc -workers 2 -config AuthorityAdmission.cfg MCGatewayAuthority
    tlc -workers 2 -config Surfaces.cfg MCSurfaces
    tlapm PlanApplyProofs.tla

## 1. The system

### Components, their state, operations and interactions

| Component | State it keeps | Operations | Talks to |
|---|---|---|---|
| **Gateway authority store** `gateway/state/{policy,oauth,repository}.go` | bolt buckets: profile revisions and their counter, MCP tokens, bearer digest index, OAuth refresh records, approvals, pending approval requests | create/update/delete profile; create, rotate, expire, revoke token; issue and refresh an OAuth set; approve, dismiss, record a request; admit an apply | called by the admin console, the OAuth endpoints and the remote policy, each in its own transaction |
| **Remote MCP policy** `mcpserver/remote_policy.go`, `application/service.go` | the identity and the interactive grant in a call's context | authenticate, check scope and allowlist, elicit, admit | authority store, application services |
| **Session manager** `runtime/manager.go` | one client and one RW gate per profile | resolve, insert, evict, mutate, connect, revoke, close | DSM client, session store (OS keyring or vault), credential resolver |
| **DSM client** `synology/client.go` | session id, tokens, API catalogue, all under one mutex | login, execute, re-establish, close | DSM over HTTPS |
| **Plan and apply** `application/*.go` | none of its own: a plan goes to the caller and comes back with its hash | plan, apply, verify | session manager, DSM client, remote authorizer |
| **Configuration and resource services** (48 plan/apply pairs) | the NAS's own settings | one change type each | plan and apply |
| **Replication relations** `application/snapshot_replication.go` | relation and task on two NAS, a temporary credential | plan, pair, create, poll, confirm, clean up | two DSM clients |
| **Package installation** `application/package_center.go` | installed packages | resolve dependencies, install in order | DSM client |
| **Storage planning**, **Access and firewall evaluation** | none (pure) | capacity and RAID rules; effective permissions; first matching rule | plan and apply |
| **Gateway administrators** `gateway/state/admin.go` | administrator, password hash, at most 16 sessions | set up, log in, log out, change password | admin console |
| **Gateway vault** `gateway/state/vault.go` | encrypted passwords and sessions, bound to profile and revision | enroll, store, load, orphan, rekey | session manager, admin console |
| **Gateway OAuth endpoints** `gateway/oauth/handler.go` | pending authorizations, codes | authorize, consent, exchange, refresh | authority store |
| **Gateway HTTP server** `gateway/server.go` | per-identity slots, bound MCP sessions | admit a request, bind a session, shut down | remote policy |
| **Gateway admin console** `gateway/admin/*.go` | browser login attempts | profile CRUD, web login, tokens, approvals | everything in `gateway/state`, session manager |
| **Backup and recovery** `gateway/recovery/recovery.go` | pending restore, staged copy, recovery sets, result | queue, apply at start-up, prune | data directory |
| **Compatibility layer** `synology/compatibility`, `synology/operations/*` | API catalogue of one NAS | select a backend per operation | DSM client |
| **Web login** `weblogin/*` | key exchange and resume keys | sign in, resume | session manager |
| **Configuration, OS keyring** `config/*`, `credentials/*` | a YAML file, keyring items | load, save | all processes of one user |
| **Provisioning, LAN discovery** `provision/*` | attempts per device | discover, create the first administrator | DSM |
| **MCP tools**, **CLI** | none | decode arguments, print results | application services |
| **Package authentication bridge** `synologyauth/*` | none | sign and check assertions | DSM login, gateway |

A remote change passes through three of these in turn. The *authority store*
admits the apply under an approval or an interactive grant; *plan and apply*
checks that the approved plan still describes the NAS; the *session manager*
supplies the client that writes. They agree on one number, the profile's
revision: tokens, approvals, plans and cached clients all carry it.

### What is hard

* **Concurrency.** Requests, administrators and DSM's own users act at once.
  A repository operation is one bolt transaction, but a call reads in several; the
  manager holds a read gate while it resolves and releases it before the call; a client
  serialises requests, not the read and the write of an apply (except where an
  operation holds the mutex over both).
* **Stale values.** Between plan and apply a token can be revoked, a profile
  moved, a NAS changed. Each is compared again somewhere; the question is
  always whether the comparison comes late enough.
* **Crashes.** A restore is a sequence of file operations that a restarted process carries on.
* **Breadth.** Some 550 tools and commands reach some 50 groups of operations of DSM, each in
  several variants; which requests a call sends in the end depends on four layers that are written apart.
* **Failure.** A commit fails after the approval was chosen; DSM accepts a request and
  carries out a part of it; an answer is lost; a save in the keyring fails and
  is ignored; the session dies in the middle of a call.
* **Ordering.** Eviction against requests in flight; renewal by one process
  against renewal by another; rotation against refresh.
* **Limits.** Queues of approvals and sessions with eviction or refusal at the bound.
* **Progress.** A writer waits for readers that wait for a mutex whose holder
  waits for DSM.

`PROJECT.json` lists these as `hazards`, each at its line, with the property
that would catch it, or why none does.

### What makes each part correct

* *Authority*: an admitted high-risk apply has an approval or grant of its own,
  for exactly that plan, token and profile content; nothing admits twice;
  a re-created NAS name inherits no access; a secret opens one token.
* *Sessions*: no request acquires a client of an old revision; every open client
  can still be closed; nobody waits for ever; callers recover from any loss of
  sessions.
* *Plan and apply*: what is written over is what was approved, on the machine it was approved for;
  fields nobody asked for stay; a reported success is real.
* *Tools and commands*: what a call changes is covered by the scope it was admitted under;
  a change is sent once; a NAS that has everything is refused nothing.
* *Gateway edge, administrators, vault*: limits hold and cut off the right one; a session serves one token;
  an old password opens nothing; secrets have an owner and were verified where they are used.
* *Recovery, replication, packages, volumes, firewall*: all or nothing across crashes; a reported relation,
  package or size is real; an operation ends; an operator is not shut out by a change that was judged safe.

## 2. Modules

    ApprovalLedger ◁─┐
    GatewayAuthority ┴─ MCGatewayAuthority ──┐      SessionManager ─┬─ MCSessionManager
          │                                  │                      └─ SessionManagerProofs
    GatewayAuthorityProofs                   │
          └── GatewayAdmissionProofs         │      PlanApply   ApplyServices
                 └── GatewayCredentialProofs │         │    └──┬──────┘
                                             │   PlanApplyProofs  MCPlanApply
    Compatibility ─ …Operations ─ ClientSteps ─ …Client ─ …Services
        ─ McpTools ─ CliControlPanel ─ CliCommands ─ Dispatch
        ─ CatalogueFacts ────────────────────┤
    FirewallGuard, StorageVolumes            ├── MCSurfaces
    GatewayEdge, AdminSessions, GatewayVault ┘        │
             └── GatewayServerProofs ──────────── SurfaceProofs

    AtomicRestore ◁─ GatewayRecovery ────────┬── MCWorkflows ── WorkflowProofs
    ReplicationRelation, PackageInstall ─────┘

(◁─ marks a refinement: the module on the right implements the specification on the left.)

### GatewayAuthority

State: one variable per bolt bucket (`token`, `digest`, `refresh`, `approval`,
`requests`, `revision`, `revisionCounter`), the clock, and `call`, the remote tool
calls in flight. A SHA-256 value is represented by what it was taken of. Since
every `db.Update` is one writable transaction, every repository method is one
action. A remote call takes several: `Authenticate` (the middleware copies scopes
and allowlist into the context), `MakePlan`/`FinishPlan` or `AuthorizeApply`,
then one admission: `AdmitMediumRisk`, `AdmitApproved`, or
`RequireInteractive` → `AcceptElicitation` → `AdmitInteractive`.
`AdmitCommitFails` is a transaction that does not commit; `Restart` loses the calls.
`drawn`, `edits`, `content`, `born`, and the fields `incarnation`, `closed`, `content`
and `via` are history: they record what happened for the properties and no guard
of an operation reads them, except `drawn`, by which random values are never repeated.

`ApprovalLedger` is what the store promises of approvals, in two variables: a right to apply one plan on one NAS with
one token is granted once, then *spent* by the one call that applies that plan or *void*, and never open again; a call is let through by
a right, by the consent of its caller, or because its plan is not high-risk. The mapping (`Rights`, `Outcomes`) takes an approval that is not
consumed for void once one of these holds: its time is over, its token is revoked, its NAS has left the token's allowlist, or the profile has been
written since (`Void`). The code keeps no such status: `AdmitRemoteApply` compares identifiers and revisions each time. So that a void approval never
comes back depends on operations that were written apart: no revision is given to a second content of a profile, also through
deletion and re-creation; no operation lifts a revocation; and rotation and renewal widen no allowlist. A token that has merely
expired does not void its approvals, since an OAuth renewal gives it a new time.

### SessionManager

One profile; any number of processes with a manager each. An actor is a
goroutine, `act[a].pc` the place it has reached, and a step is what it does
between two points at which another goroutine may run: taking the gate or a
client's mutex, one access to the session store, one request to DSM.
`Resolving`/`Build`/`Insert` are `resolveClient`; `Begin` to `Return` is
`executeLocked` with `reestablish` inside it (`Reject`, `Adopt`, `Renew`, `Keep`, `Login`,
`SaveRead`, `SaveWrite`); `MutateProfile`, `TakeGate`, `CloseClient`, `Connect…`, `Revoke…`
are the administrators'. `Expire` is DSM dropping a session. The two ways dsmctl runs differ
in `Home` and `Operation`: a gateway is one process with profile mutations; the
CLI and stdio processes are several that share the keyring.
Identifiers that nothing refers to are reused (`Collected`, `NewSid`), so the
state space is finite without a bound on the number of calls.

### PlanApply and ApplyServices

`application` has 48 plan/apply pairs with one control flow. A pair differs from another
in whether apply compares the revision, how it plans again (with the client that
writes, through the planning service, or not at all), how it writes (one patch,
a merge into a fresh read under the client's mutex, of the whole resource or of one section
after the other, a merge into the plan's observation, never), whether a request may name a secret,
alone or with fields, and whether the read back compares all that was requested.
`ApplyServices` gives this record for each pair; `PlanApply` runs any
set of them.

A call runs in a process (`Home`). The gateway has a table of profiles with revisions from one counter, and one client
per profile, which is replaced when the profile, its credentials or its session change (`Reconnect`); calls under way keep the
old one and its mutex. A CLI command or a stdio server (`Local`) has the configuration file as it was when it started (`Start`) and clients
of its own. A profile has no revision there: `config.Profile.Revision` is not part of the file (`config/config.go:46-48`), so that the comparison at
`application/service.go:284` is of 0 with 0 and only the stale check protects. So `TargetAsPlanned` is about the gateway,
`FreshlyObserved` about all. `Locked` holds between calls on one client only; two processes never wait for each other.

A secret is planned for its own sake, also with fields that match already (`Changes`). A read back compares *part* of a request where the code does:
empty location and contact of SNMP (`terminalsnmp_write.go:478-486`), the presence of a DDNS record (`external_access.go:796-806`), the name of a
Hyper Backup task (`hyper_backup.go:367-378`) or LUN backup, any one URI of a download (`download_station.go:366-376`), the network's
`IPv4First`, an account's `cannot_change_password` and dated expiry, a share's recycle bin and further options, the description and CHAP user of SAN objects,
names and states of storage, the identity of a certificate, the frontend of a reverse proxy, a Drive restore to another place, the existence
of a file, a snapshot's listing. `AppliedIsTrue` is about the others, which read back everything.

Actions follow the code's order: `PlanClient`, `PlanObserve`,
`PlanRevision` (the revision is read *last*); `Submit`, `VerifyRevision`,
`ResolveClient`, `Replan`, `ReplanRevision`, one of the writes,
`VerifyPostcondition`, `Return`; `GiveUp` is every early return with an error. `Answered` is
DSM, external to the repository: it may carry out any part of a request, whether or not
it reports success. `UpdateProfile`, `DeleteProfile` and `Edit` are the
administrators and DSM's own users. A resource is a function from fields to values.
`from`, `torn`, `moved`, `outside`, `seen` and `shown` are history.

### From a tool to a request: Compatibility to Dispatch

These modules follow one call through four layers. `Compatibility` is `Operation.Select`: a variant's
conditions, its priority, and the requests that its `Execute` sends. `ControlPanelOperations`,
`ResourceOperations` and `PackageOperations` are the catalogue of `synology/operations`. `ClientSteps` has the
building blocks of the client's methods (discover APIs, read the package inventory, run an operation, branch,
loop, handle an error), in which `…Client` writes each method of `synology.Client` and `…Services` each method
of `application.Service` as a short program. `McpTools`, `CliControlPanel` and `CliCommands` name every tool and command with the program it
runs, as sets, one for each stretch of the code that registers them. `Dispatch` is the machine: it admits a caller (a program that several tools and commands share is run once, with all of
them as its *doors*), carries the program out step by step with a client that remembers what it
has discovered, and sends every request as `executeLocked` and `requestWithRetryLocked` do, on a NAS that has
everything or lacks one API, version or package, over a network that loses answers. A condition on data the
model leaves out is a branch that may go either way. What DSM's methods do is known from how the code uses them
(`ReadingMethods`). `CatalogueFacts` states what all these programs have in common, as assumptions that TLC evaluates over the
whole catalogue and the proofs about `Dispatch` rest on: that an operation has a variant for the latest API, that a
program asks for an API before it runs an operation of it, and that a tool's name and annotation fit what its program may change.

### The surfaces of one gateway or NAS

* **FirewallGuard** — `domain/firewall` and the guarded writes. A rule is reduced to how it matches the
  session to be kept ("yes", "maybe") and what DSM will make of it; two operators plan, check and write.
* **StorageVolumes** — the size a volume is created with or expanded to, from an inventory whose numbers need not
  add up, with the plan, the stale check, the write and its verification around it. Bytes are numbers up to `WordMax`.
* **GatewayEdge** — the identity limiter (`LimiterNext`) and the table of MCP sessions (`BinderNext`), each behind
  its own mutex; the SDK's sessions are external. `CanCreate`, `Bind` and `Delete` are separate steps of a request.
* **AdminSessions** — set-up, sign-in, DSM sign-in, password change and revocation, each split where the code
  leaves its transaction to hash a password, so that every commit meets what the others have done meanwhile.
* **GatewayVault** — one profile's password book, trusted device, session and apply secrets; enrolments that
  read the profile, talk to the NAS and commit later; deletion with or without the secrets.

### The operations of several steps

* **GatewayRecovery** — every file operation of a restore is an action; the process may stop between any two and
  file operations may fail. `AtomicRestore` is what it promises: the state changes only into the confirmed content, in one step, and
  nobody works on the restored state while the request is there. The mapping (`Atomic`) takes the displaced file for the state while none is in place.
* **ReplicationRelation** — appliers create relations of one share: credential, task, poll with a deadline,
  confirmation, deferred cleanup. Answers are lost, tasks end late.
* **PackageInstall** — the catalogue, the depth-first walk of `resolveInstallOrder`, and the install loop over DSM's
  tasks. The walk is taken call by call: `job.stack` has the frames of the recursive `visit`, `Visit` is one dependency in
  the loop of the innermost call (done, an error, or a call), `Return` the end of a call. So the walk has intermediate states
  that an invariant can speak of, and that it ends is a property.

### MCSurfaces and MCWorkflows

These machines share no state with each other, so that interleaving them would show nothing. The two modules
compose them by a constant `part`: a behaviour is one of the machine that `part` names, and the others rest.
One run then answers one kind of question for all of them.

## 3. Runs

Runs that hold:

| Run | Checks | Shows |
|---|---|---|
| authority_admission | TypeOK, AdmissionBacked, AdmissionIsCurrent, ApprovalsAreLedger | two calls race for approvals and grants while profiles are edited, tokens revoked, commits fail and the gateway restarts: each admission has an authority of its own, for the content that was approved, and the store implements ApprovalLedger |
| authority_credentials | AllowlistKeepsIncarnation, DigestIndexExact, RefreshChainSound | creation, rotation, expiry, revocation and renewal of tokens while NAS names are deleted and created again |
| session_gateway | TypeOK, OpenClientOwned, NoCircularWait, ResolvedCurrent | two requests against updates, enrolments, removals, connects and shutdown |
| session_progress | CallsReturn | the same, under fairness: nobody waits for ever |
| session_recovery | Recovers | two processes on one keyring: a caller that keeps calling is eventually always served |
| plan_apply_safety | TypeOK, FreshlyObserved, TargetAsPlanned | a remote call beside a CLI command, services that bind a plan in each way and write in each way, two machines, a profile that moves or is re-created, a replaced client, another configuration file, a foreign change |
| plan_apply_fields | AppliedIsTrue, UnspecifiedKept | two remote calls patch switches of the same and of different sections, each set carried out in part or not at all, while a DSM user changes one |
| surfaces | SurfacesTypeOK, RequestsBounded, OldestRequestYields, EffectsAuthorized, CarriedOutOnce, SelectionSound, NeverLockedOut, StorageSafe, EdgeSafe, OldPasswordRetired, AdminCommits, VaultSafe, PasswordVerifiedHere | what callers, operators and administrators may do, machine by machine (below) |
| workflows | WorkflowsTypeOK, ShelfSound, ResultTruthful, RestoreIsAtomic, CredentialsAccounted, ReportedSound, InstallSafe, WorkflowsEnd | the operations of several steps, machine by machine (below) |

In *surfaces* and *workflows* a property may be a conjunction of named parts, which TLC checks together:

| Machine | Properties and their parts | Situation |
|---|---|---|
| requests | RequestsBounded; OldestRequestYields | the queue of approval requests at its limit: no duplicates, only the oldest or expired makes room |
| dispatch | EffectsAuthorized; CarriedOutOnce; SelectionSound = CompleteNASServed, BestVariant, CatalogueFresh | every tool and command, twice on one client, with up to two things out of the ordinary |
| firewall | NeverLockedOut | two operators, rules the evaluator cannot decide, profiles that are not active yet |
| storage | StorageSafe = CapacitySound, VolumeAsShown | the size sent to DSM against a reference definition, at the edges of limits and words; deletions of what was shown |
| limiter, binder | EdgeSafe = RateBounded, SessionIsolation, SessionsReachable | tables at their limits, sessions that expire or are deleted under a request |
| admin | OldPasswordRetired; AdminCommits = ReplacedByLiveSession, OldestPushedOut | two calls that hash while the other commits, the session table at its limit with sessions of different ages, live and expired |
| vault | PasswordVerifiedHere; VaultSafe = SecretsAccounted, PrimaryIsLogin | enrolments of all kinds, provisioning included, against edits, other accounts, deletion and re-creation |
| recovery | ShelfSound = OriginalKept, ShelfBounded; ResultTruthful; RestoreIsAtomic; WorkflowsEnd (RestoreSettles) | two restores with a crash and two file errors anywhere; the refinement of AtomicRestore |
| replication | CredentialsAccounted; ReportedSound = ReportedIsNew, ReportedWorks; WorkflowsEnd (RelationApplyEnds) | two appliers on one share, two lost answers |
| packages | InstallSafe = PlanIsClosure, StableOffered, DependenciesFirst, DoneIsInstalled; WorkflowsEnd (InstallEnds) | every graph of three packages, of which some are offered in several versions, some without a link and some not at all; two plans, failures and changes elsewhere; the walk ends also on circles |

Runs in which the code does otherwise than its documentation says. Each
checks one property that states the sentence quoted in `findings`:

| Run | Property | What happens |
|---|---|---|
| session_close | StoredSurvivesClose | a process that logged in with the password stores the session, then logs it out on exit |
| session_eviction | WrittenByCurrent | a request on an evicted client logs in, for the first time or again, and replaces the session just enrolled |
| plan_apply_observed | UnspecifiedKept | two package-settings applies pass the stale check; the second takes the first back |

Further limits are written into the properties that hold, where a document or a comment
says more than the code does:

* `UnspecifiedKept` excepts a write whose machine was changed, since the call read it, by somebody who does not wait for the call's client
  (`outside`): another process of dsmctl, the gateway's next client, a DSM user. DSM has no conditional set,
  so what they change between the read and the set of a merge gets
  its old value back (`synology/controlpanel.go:84-88`; docs/control-panel.md:30-31 says "never").
* `TargetAsPlanned` is about the gateway: a CLI or stdio process notices no edit of its configuration file between plan and apply, unless
  the other NAS is in another state than the plan observed.
* No property says that a plan is spent once it was applied: it passes again when the change was undone, and at once where
  the change was a secret, which no fingerprint shows (`application/management.go:249`; docs/account-share-management.md:11 says "single-use in practice").
* `FreshlyObserved` excepts services that resolve a second client after planning again
  (accounts, shared folders), if the profile moves between the two: the change then reaches a NAS that this call
  has not read (`application/management.go:126`).
* No property says that rotating a token takes back its approvals (docs/gateway.md:255-257): `AdmitApproved` compares token ids, and
  rotation keeps the id. Revoking does take them back (`AdmissionIsCurrent`).
* `CompleteNASServed` and `BestVariant` are about what the NAS has now, in every call on a client, with one exception: an API of the operation
  that the client asked about in an earlier call and remembers as it was then (`UpToDate`). A client asks once for an API and remembers a missing one
  (`synology/client.go:192-215`), so that a package installed or updated later is not found by that client, although `synology/packagescope.go:15-17` and
  docs/compatibility.md:113 say that a stale selection cannot be kept; its *inventory* is read every time, which is `CatalogueFresh`. Only what is added
  between two calls is modelled, not the removal of a package.
* `PrimaryIsLogin` excepts a session enrolled under another account: `saveSession` (`gateway/state/vault.go:702`) changes the login
  and leaves the old account's password in the primary place (docs/credentials.md:161 calls the primary account the login). The reference may also be
  left without its secret; `SecretsAccounted` says when.
* `CredentialsAccounted` lets a failed apply leave its credential behind in two cases: its deletion failed (`undeleted`), or the answer to the pairing was lost
  (`unknown`). In the second nobody tries to delete it: the code returns before the cleanup is deferred (`application/snapshot_replication.go:997-1000`), although the
  comment below (1003-1004) says that no live session is orphaned. A relation is without its credential only when its applier failed after it was created: the
  deferred cleanup then takes the credential from a relation that stays.
* `ReportedWorks` speaks of one applier at a time: of two that planned again before either has created, one may
  return the other's relation (the comment at `application/snapshot_replication.go:1034-1036` excludes it).
  An apply goes on only when it has found no relation of the share, so that `older`, what it has found, is always empty.
* `SessionsReachable` lists the three ways in which a session of the SDK becomes unreachable; one is a DELETE that the concurrency
  limit refuses, after which the binding is dropped all the same (`gateway/server.go:423`).
* `OriginalKept` ends where as many crashes as sets are kept, or a failed way back, meet a request that cannot be removed.
* `ResultTruthful` compares the result with the state that the next start opens. After success it is the state asked for. After a failure it is the one
  served before, but for three cases that are in the formula: an earlier start had replaced it already, the old file could not be removed, or the state was
  left moved aside, by a crash between the two renames or a failed way back (`gateway/recovery/recovery.go:706-708`); then the start makes a new, empty one.
* `DoneIsInstalled` has one exception: the inventory could not be read before an uploaded file was installed over a package that is there
  (`synology/packagecenter.go:283-293`). Then the old version confirms it, although docs/package-center.md:198-200 says that an upgrade
  is confirmed by its version. Uploaded files are explored without a catalogue, which they do not look at; an upload between online plans is not.
* `NeverLockedOut` is about one address. `guardProbeIPs` tests a few addresses of a range
  (`application/firewall_write.go:118-130`), which its comment calls conservative; a rule inside the range is not seen.
* `PasswordVerifiedHere` is about everything a sign-in stores, but for two kinds (`Uncompared`). A web login that ends after its profile moved stores the
  session of the old NAS (`gateway/admin/handler.go:1556`), with no comparison of revisions; the new NAS rejects it. And a provisioned password is stored under the
  revision that the profile has when it is stored, not the one it had when the NAS was set up (`PersistProvisioned`), although
  `gateway/admin/provision.go:84-87` and `gateway/state/vault.go:337-340` say that it cannot reach a profile that was moved.
* No property speaks of a client that was seeded with a session and has no password: after one failed re-establishment it
  stays without a session and every later call is refused (`synology/client.go:249`, `:431`), until the client is replaced; *Recovers* is about callers that can sign in.

Every property of a passing run has a mutant in `PROJECT.json`: a plausible
bug in one mapped definition under which the same run finds the property
violated. The mutated forms stand in the modules directly before the definition they replace.

### Bounds and why they are enough

* *Authority.* Two calls and two approvals are the least that can share
  one; `MaxRevision = 2` lets a profile change after approval, 3 lets two
  NAS come, go and return. `MaxTime` reaches the TTLs that matter to a run, so what expires does so
  before or after any step. In *surfaces*, three plan bodies overfill a queue of two; an ended call
  makes room for another (`CallAgain`), so two in flight suffice. Identifiers,
  secrets, calls and bodies are interchangeable, hence the symmetry of the two other runs.
* *Sessions.* Two requests are the least that miss the cache together; four
  clients and one more session identifier than can be held at once mean that no behaviour stops
  for want of identities. Three revisions allow two mutations; one or
  two faults hit any single step and its retry.
  The liveness runs use no symmetry.
* *Plan and apply.* Two callers give every pair of racing applies, one in the gateway and one in a CLI process, or both in the gateway; two
  machines a wrong one, one more client or revision the stale plan, one foreign edit the
  stale state. One field suffices for safety; the run about fields has a section of two and one of one, so that
  requests meet in a section or not. One plan is enough for safety, since both callers may submit it; two for the fields.
  The seven shapes stand for the 48 services: the assumption
  `ShapesCoverCatalogue` has TLC check that each service, secrets and the read back aside, is one of
  them. plan_apply_safety takes four services that have between them every way to bind a plan and every way to write one section; the commonest
  pair, planning again and one typed operation, is a merge without its read, and is left to the theorems, which hold for any service.
* *Dispatch.* A client serves two calls, so that the second meets what the first has learnt. At most two things are out of the
  ordinary (a missing API or package, a fault of a request, an error of the service's own checks); a loop sends no
  request or one; three attempts are one more than a retry needs. A catalogue entry interacts with
  another only through what the client remembers, hence no more.
* *Firewall.* `MaxEffort` counts rules and changes together: three allow an edit of a profile that is not active, its activation,
  and an undecidable rule.
* *Storage.* A GiB is 2, the minimum 4, the largest word 11, and the inventories take 0, the minimum, odd
  numbers and the largest word: every comparison of the code has inputs on both sides and on the boundary.
* *Edge, administrators, vault.* Every table has a limit of 1 or 2 and one more candidate than it holds; clocks pass
  an expiry, for administrators twice, so that of two live sessions one is older and of two at the limit one may have expired;
  three passwords are two changes; one request at a time is inside the SDK (`MaxConcurrent = 1`; the proof is for any number); four revisions of the profile are a
  creation, two accounts and the removal of the one that is not logged in; two secrets are the passwords of both;
  two profile ids are one re-creation.
* *Recovery.* Two sets are kept, so that pruning has a choice; two restores, one crash and two file errors reach a
  second start in the middle of the first restore and a third after it.
* *Replication, packages.* Two appliers; two lost answers hit an operation and its cleanup. Three packages have chains, shared
  dependencies and circles of two and three; two plans are a failed one and the one made again. Two versions
  make an update, a beta that is newer than the stable row, and a package file.

`CHECK_DEADLOCK FALSE` appears where a bounded run comes to its end: in the plan/apply runs
(a deleted profile with no client left and idle callers), and in *surfaces* and
*workflows*, whose operations are finite in number.

### Fairness

In `SessionManager` each goroutine's own steps are strongly
fair (`Running`, `Administering`): the Go scheduler runs runnable
goroutines, every DSM request has a timeout, and `sync.Mutex` in starvation mode
hands the lock to a waiter that was passed over, which is what *strong* means here.
Nothing is assumed of faults, of DSM, or of anybody starting a call; in `RetryingSpec` callers
that were refused call again, which is the premise of *Recovers*.

`RecoveryFairness`: the gateway is started again after it stopped (a service manager restarts it, and an
administrator who queued a restore is told to), a start takes its next step, and a process that was asked to
restart shuts down. `ReplicationFairness` and `PackageFairness`: an applier that has begun takes its next step,
since each is a request with a timeout or a wait with a deadline. DSM's tasks are not fair: they may never end.

## 4. What is proved

All proofs are for arbitrary constants satisfying the named `ASSUME`s,
which TLC also evaluates in the runs. Every safety invariant, every action property and both refinements of the passing runs are
the statement of a theorem; only liveness is not (§5). Each proof has an inductive
invariant, named below, that TLC checked on an instance first; what it adds is what the property needs and does not say.

**GatewayAuthorityProofs** — *TypeCorrect*: `Spec => []TypeOK`.

**GatewayAdmissionProofs** — `AdmissionInv` adds to the typing that one counter
numbers the commits, so a revision names a profile's content (in the store, in approvals and in admitted calls).
Without it *AdmissionBacked* is not inductive: an approval could match a revision
that was reached by other edits. From it follow *EveryAdmissionBacked* (with the content that was approved) and
*OneAdmissionPerApproval*, which is also a consequence of the next. *ApprovalsImplementLedger*: `Spec => Ledger!Spec`. Its invariant `LedgerInv` adds that no content
is newer than the last edit (`ContentsPast`), that an approval has a plan and a token that exists (`ApprovalsHeld`), and that calls and requests name plans
(`PlansWithin`). `VoidStays` is the main lemma, one case per operation; each admission is then shown to be a `Spend`, `Consent` or
`NeedsNone`, and every other step a `Grant`, a `BecomeVoid` or a stutter. *PendingRequestsBounded* is separate
and rests on the cardinality theorems of the library; *OldRequestsYield* is an action property on top of it: the queue grows
by one at a time, so that at most one request makes room, and it is the least by time.

**GatewayCredentialProofs** — *AllowlistsKeepTheirProfiles*,
*DigestIndexCorrect*, *RefreshChainCorrect*, *AdmissionsAreCurrent* (an action property). The
strengthening says that every secret in an index has been drawn, so that a fresh one collides with none.

**SessionManagerProofs** — `SessionInv`, for any number of processes, requests and administrators: whoever is inside a call
holds the client's mutex (`MutexHeld`); a client that is not published yet is known to its maker only (`Unshared`); the holder of
the profile gate has emptied the cache and no reader is under the gate (`GateHeld`); and the revision that a reader has read
is the committed one while it reads (`RevisionRead`). From it: *SessionTypes*, *OpenClientsAreOwned*,
*ResolvedIsCurrent*. The last needs what `ConstantsOK` assumes: where profiles are mutated, there is one process, since the gate
is a lock of one process. The gateway is; the CLI does not mutate through the manager.
*GoroutinesNeverDeadlock* is what remains of *CallsReturn* for any number of goroutines without speaking of fairness. It adds `MutexOwned`, the
converse of `MutexHeld`: a mutex that is not free belongs to a request that is inside a call on that very client. Such a request
waits for no lock, so a chain of waits has at most two links, from the gate to a mutex to its owner.

**PlanApplyProofs** — `PlanInv` ties each call to the profile and the machines: a
plan that was not torn and carries the present revision was made on the present machine;
an apply past the revision check, in a profile that has not moved since, still has
its revision and, once resolved, the profile's machine; the present state of each machine is
among those a running apply has noticed; and of one client, one call at a time is between read and set, and what it has read is
still there, unless somebody changed it from outside (`Exclusive`, `StateFacts`). From it: *PlanTypeCorrect*, *WritesAreFreshlyObserved*,
*WritesReachPlannedTarget*, *AppliedMeansApplied*, *UnspecifiedFieldsAreKept*, for any number of processes, callers, clients and sections. The last has
one hypothesis: no service writes what its plan observed, since that one does reset fields (finding plan_apply_observed).

**GatewayServerProofs** — three machines with tables of their own.
`AdminInv`: what a call keeps between its two transactions (a session identifier of its own, a fresh verifier) is nobody else's,
and before the set-up there is nothing to retire. From it *AdminTypes*, *OldPasswordIsRetired*, *AdminCommitsAreChecked*.
`VaultInv`: what an enrolment has read is still so while its expected revision is the profile's (`EnrolmentsRead`); references lead to a
secret of their kind (`ReferencesKept`); each secret has a profile and each profile one of a kind (`SecretsOwned`, `OneOfEach`). From it
*VaultTypes*, *VaultIsSafe*, *PasswordIsVerifiedHere* (for all that is stored but web logins and provisioned passwords).
`LimiterInv`: a window's count is the number of requests admitted since it started, and windows do not overlap, for any limit and
length. `BinderInv`: a request, a binding and a session of the SDK have the same owner (`RequestsOwn`, `BindingsOwn`), a deletion is in progress while
its request is (`DeletionsServed`), and the tables keep their limits. Together *EdgeTypes*, *EdgeIsSafe*.

**SurfaceProofs** — *Firewall*: lemmas say for any number of rules that the evaluator's "allowed" means that DSM's first
matching rule allows, whichever way the undecided ones go; `WritesGuarded` carries the check of a change to its write. From it
*SessionIsNeverLockedOut*. *Storage*: `CreateSound` and `ExpandSound` compare the code's arithmetic with the reference for every `WordMax`,
limit and inventory; *StorageIsSafe*. *Dispatch*: `DispatchInv` says of a call under way that the requests it still has to send are of the
step that runs and change the NAS only if its program may (`RequestsSound`), how often a request may have been carried out after so many attempts
(`AttemptsCounted`), that effects come from the program of the routine (`EffectsFromProgram`), and that at every step the client
knows what was asked about on all ways there (`KnowledgeKept`). From it *EffectsAreAuthorized*, *ChangesAreCarriedOutOnce*, *SelectionIsSound*. These three
hold for every number of calls and faults; that the catalogue is as `CatalogueFacts` assumes is TLC's result.
*SurfacesImplementMachines*: a behaviour of `MCSurfaces` is one of each machine in it, whichever `part` names, so that the theorems
about the machines are theorems about what the run explores; *SurfaceTypes* is the first such consequence. The queue of approval requests is not among
them: its part takes the steps of `GatewayAuthority` and one more (`CallAgain`), by which few calls fill the queue.

**WorkflowProofs** — *Replication*: `ReplicationInv` says that a credential and a relation exist only once their applier is past the step that
makes them (`OnlyOnceMade`), and that what is left behind was not deleted or never known; *CredentialsAreAccounted*, *ReportsAreSound*.
*Recovery*: `RecoveryInv` says for each place of a start which of the files are there and what they hold (`FilesInPlace`,
`RequestInPlace`, `ResultInPlace`, `StateAccounted`); *ResultIsTruthful*, and *RestoreRefinesAtomic*: `RecoverySpec` implements
`AtomicRestore` under the mapping, step by step. `ShelfInv` counts: the sets that are newer than the original are at most as many as
crashes and failed prunes (`OriginalNotOld`, `ShelfCounted`), and the copy of a start is the newest (`CopyIsNewest`); *ShelfIsSound*.
*Packages*: `PackageInv`, for any number of packages and any catalogue. `PathSound` describes the stack of the walk: its frames are a path of
needed packages, none twice, and what a frame has behind it is done, but for the call it waits for. So a package found on the stack closes a circle, and
what a returning call has listed is there before it (`StepsInOrder`). The steps are then closed under missing dependencies, and the least closed set,
which is how `Needed` is defined, is among them; a refusal is for a package that is not `Downloadable` or for a circle. `SeenStays` and `ConfirmedStays` carry this through the apply. What the loop of `catalogByID` keeps
is shown by induction over the rows. *PackageTypes*, *InstallIsSafe*. *WorkflowsImplementMachines* and *WorkflowTypes* carry them to `MCWorkflows`.

The assumptions on constants say that bounds are natural numbers and that limits are positive, that values for "none" are distinct
from the records they stand beside, and, of the firewall, that there is room for two rules or changes (`MaxEffort >= 2`), because
the first profile may have up to two rules and each counts one. None excludes a configuration that the code admits.

Induction over numbers is taken from the least element of a set of naturals (`LeastNatural`), since the prover cannot instantiate the induction
schemes of the library.

## 5. What is only model-checked, and what is not modelled

Only model-checked: `CallsReturn`, `Recovers` and `WorkflowsEnd` (`RestoreSettles`, `RelationApplyEnds`, `InstallEnds`), since
liveness under fairness is outside the prover's reach; what `CatalogueFacts` assumes of the catalogue, which is finite and
evaluated whole; and that the seven shapes cover the 48 services. The properties of the runs that end in a violation
are false.

The type invariants leave some variables untyped that no proof needs (counters and history of the workflow machines). In
`GatewayAuthority` an admission compares times at its commit; the code reads the clock just before the transaction
(`gateway/state/policy.go:455`, `:540`, `:596`, `oauth.go:198`), so that it may meet an approval or token a moment longer. `discover_lan_devices` changes nothing in the
model; outside the gateway it also writes the list of devices that were found (`application/discovery_store.go:80`).

Not modelled, with reasons in `PROJECT.json`: cryptography (vault
encryption, web login key exchange, signed assertions), OAuth codes and PKCE, provisioning, file and keyring input and output,
argument decoding and printing, TLS trust, build data and assets. In the modelled
parts: OAuth client registration, audit retention, bolt layout and migrations, the default
profile; OTP and trusted devices in SessionManager; what encoders and decoders make of payloads; the validation
that services other than volumes, firewall, packages and replication perform on their own request; pools and SSD caches;
the explanation of effective access; synchronising and stopping a relation; the HTTP server's host checks and shutdown.

## 6. Plan

1. **OAuthFlow** — codes, PKCE and consent in front of the token sets; shown to implement the
   `OAuthStep` of GatewayAuthority by a refinement mapping.
2. **Gateway** — authority, plan/apply and sessions composed: an abstract specification, "a change is
   made only on the machine and content an administrator approved", that the composition implements.
3. **Storage pools and caches**, **effective access** — as operators against reference definitions.
4. **Proofs**: that a session manager implements "one client per profile and revision" as an abstract specification.
