--------------------------- MODULE SessionManager ---------------------------
(***************************************************************************)
(* The DSM sessions of one NAS profile.                                    *)
(*                                                                         *)
(* Every dsmctl process has a runtime.Manager that caches one              *)
(* synology.Client per profile (internal/runtime/manager.go); the client   *)
(* logs in, renews and releases the session (internal/synology/client.go); *)
(* the session store, the OS keyring shared by the CLI and MCP processes   *)
(* or the gateway's vault, keeps one session per profile.                  *)
(*                                                                         *)
(* An actor is a goroutine: a request of a process, which resolves the     *)
(* client and makes one DSM call with it, or the goroutine of an           *)
(* administrator.  One action is what an actor does between two points at  *)
(* which another may run: taking the profile gate, taking a client's       *)
(* mutex, one access to the store, one DSM call.  `live' is the set of     *)
(* session identifiers DSM accepts; DSM drops one at any time (Expire).    *)
(* Signing in through the browser, SynoTokens, trusted devices, API        *)
(* discovery and the retries inside one DSM read are abstracted away.      *)
(***************************************************************************)
EXTENDS Naturals, FiniteSets

CONSTANTS
  Process,        \* processes with a Manager
  Request,        \* request goroutines
  Admin,          \* goroutines that administer the profile
  Home,           \* the process of each goroutine
  Client,         \* identities of synology.Client values
  Sid,            \* session identifiers DSM may issue
  None,           \* nil, or the empty string
  Operation,      \* the administrative operations explored
  HasPassword,    \* the credential resolver finds a password
  MaxRevision,    \* bound: profile commits explored
  MaxFaults,      \* bound: dropped sessions, failed DSM calls, failed saves
  MaxOperations   \* bound: administrative operations explored

Actor == Request \union Admin

Kind == {"password", "seeded", "connected"}

\* The operations that run in MutateProfile, and those that keep the
\* profile gate until they are done.
Mutation == {"update", "enroll", "forget"}
Exclusive == {"connect", "exit"}

ASSUME ConstantsOK ==
  /\ Request \intersect Admin = {}
  /\ Home \in [Actor -> Process]
  /\ Operation \subseteq Mutation \union Exclusive \union {"login", "logout"}
  /\ HasPassword \in BOOLEAN
  /\ MaxRevision \in Nat /\ MaxFaults \in Nat /\ MaxOperations \in Nat
  /\ None \notin Client \union Sid \union Actor \union [sid : Sid, keys : BOOLEAN]
  \* profiles are changed in the gateway, which is one process
  /\ Operation \intersect Mutation # {} => \A a, b \in Actor : Home[a] = Home[b]

Session == [sid : Sid, keys : BOOLEAN]

ClientRecord ==
  [rev : Nat, kind : Kind, open : BOOLEAN, mu : Actor \union {None},
   sid : Sid \union {None}, known : Sid \union {None}, keys : BOOLEAN]

PC == {"idle", "waiting", "closing", "reading", "inserting", "ready",
       "login", "send", "resume", "renew", "keep", "saveRead", "saveWrite",
       "revokeRead", "revoke", "delete", "connect", "store"}

ActorRecord ==
  [pc : PC, op : Operation \union {"call"}, client : Client \union {None},
   rev : Nat, saw : Session \union {None}, retried : BOOLEAN,
   served : BOOLEAN]

VARIABLES
  revision,       \* the committed revision of the profile
  store,          \* the stored session, or None
  live,           \* the session identifiers DSM accepts
  cache,          \* Manager.clients of each process
  client,         \* the clients that some cache or goroutine can reach
  act,            \* the goroutines
  faults, operations

vars == <<revision, store, live, cache, client, act, faults, operations>>
bounds == <<faults, operations>>

Unused ==
  [rev |-> 0, kind |-> "password", open |-> FALSE, mu |-> None, sid |-> None,
   known |-> None, keys |-> FALSE]

Idle(op) ==
  [pc |-> "idle", op |-> op, client |-> None, rev |-> 0, saw |-> None,
   retried |-> FALSE, served |-> FALSE]

Init ==
  /\ revision = 1
  /\ store = None
  /\ live = {}
  /\ cache = [p \in Process |-> None]
  /\ client = [c \in Client |-> Unused]
  /\ act = [a \in Actor |-> Idle("call")]
  /\ faults = 0
  /\ operations = 0

-----------------------------------------------------------------------------
(***************************************************************************)
(* Fresh identities, garbage collection and the bounds.                    *)
(***************************************************************************)
Reachable(c, ca, ac) ==
  (\E p \in Process : ca[p] = c) \/ (\E a \in Actor : ac[a].client = c)

\* The runtime collects a client nothing refers to any more.
Collected(cl, ca, ac) ==
  [c \in Client |-> IF Reachable(c, ca, ac) THEN cl[c] ELSE Unused]

\* Bound: Client and Sid have an identity left that nobody refers to.
MayAllocate == \E c \in Client : ~Reachable(c, cache, act)
NewClient == CHOOSE c \in Client : ~Reachable(c, cache, act)

\* DSM issues an identifier that nobody holds a copy of.
SidsHeld ==
  {client[c].sid : c \in Client} \union {client[c].known : c \in Client}
    \union (IF store = None THEN {} ELSE {store.sid})
    \union {act[a].saw.sid : a \in {b \in Actor : act[b].saw # None}}

NewSid == CHOOSE s \in Sid : s \notin SidsHeld

\* DSM accepts the new session.  One whose identifier is lost is as good as
\* ended.
Issues ==
  /\ Sid \ SidsHeld # {}
  /\ live' = (live \intersect SidsHeld) \union {NewSid}

Fault == faults < MaxFaults /\ faults' = faults + 1

\* A save in the session store whose error is ignored.
Save(session) ==
  \/ store' = session /\ UNCHANGED faults
  \/ UNCHANGED store /\ Fault

-----------------------------------------------------------------------------
(***************************************************************************)
(* The profile gate of a process.  Requests hold it for reading while they *)
(* resolve the client; a goroutine that waits to hold it exclusively keeps *)
(* new readers out (sync.RWMutex).                                         *)
(***************************************************************************)
Reading(r) == act[r].pc \in {"closing", "reading", "inserting"}

Holding(a) ==
  act[a].op \in Exclusive /\ act[a].pc \in {"closing", "connect", "store"}

\* Mutant: a lock that lets readers pass a waiting writer.
MayReadPastWaiters(p) ==
  \A a \in Admin : Home[a] = p => ~Holding(a)

MayRead(p) ==
  \A a \in Admin : Home[a] = p => act[a].pc # "waiting" /\ ~Holding(a)

\* Mutant: MutateProfile excludes writers only.
MayWriteDuringReads(p) ==
  \A a \in Admin : Home[a] = p => ~Holding(a)

MayWrite(p) ==
  /\ \A r \in Request : Home[r] = p => ~Reading(r)
  /\ \A a \in Admin : Home[a] = p => ~Holding(a)

-----------------------------------------------------------------------------
(***************************************************************************)
(* Manager.Client: resolve the cached client or build one.                 *)
(***************************************************************************)
ClientHit(r) ==
  LET c == cache[Home[r]] IN
    /\ act[r].pc = "idle"
    /\ MayRead(Home[r])
    /\ c # None /\ client[c].rev = revision
    /\ act' = [act EXCEPT ![r].pc = "ready", ![r].client = c,
                          ![r].served = FALSE]
    /\ UNCHANGED <<revision, store, live, cache, client, bounds>>

\* Without a client of this revision the entry is removed and closed.
ClientMiss(r) ==
  LET c == cache[Home[r]] IN
    /\ act[r].pc = "idle"
    /\ MayRead(Home[r])
    /\ c # None => client[c].rev # revision
    /\ cache' = [cache EXCEPT ![Home[r]] = None]
    /\ act' = [act EXCEPT ![r].pc = IF c = None THEN "reading" ELSE "closing",
                          ![r].client = c, ![r].rev = revision,
                          ![r].served = FALSE]
    /\ UNCHANGED <<revision, store, live, client, bounds>>

\* seededClient: the stored session is borrowed.
SeededClient(rev) ==
  [Unused EXCEPT !.rev = rev, !.open = TRUE, !.kind = "seeded",
                 !.sid = store.sid, !.known = store.sid, !.keys = store.keys]

\* A client that will log in itself, and owns the session.
PasswordClient(rev) == [Unused EXCEPT !.rev = rev, !.open = TRUE]

\* A stored session is preferred; otherwise the password is resolved now.
Build(r) ==
  /\ act[r].pc = "reading"
  /\ store # None \/ HasPassword
  /\ MayAllocate
  /\ client' = [client EXCEPT ![NewClient] =
                  IF store # None THEN SeededClient(act[r].rev)
                                  ELSE PasswordClient(act[r].rev)]
  /\ act' = [act EXCEPT ![r].pc = "inserting", ![r].client = NewClient]
  /\ UNCHANGED <<revision, store, live, cache, bounds>>

NoCredential(r) ==
  /\ act[r].pc = "reading"
  /\ store = None /\ ~HasPassword
  /\ act' = [act EXCEPT ![r] = Idle("call")]
  /\ UNCHANGED <<revision, store, live, cache, client, bounds>>

\* Mutant: the request that comes second keeps the client it built.
InsertKeepsOwn(r) ==
  LET p == Home[r]
      lost == cache[p] # None /\ client[cache[p]].rev = act[r].rev
  IN /\ act[r].pc = "inserting"
     /\ cache' = IF lost THEN cache ELSE [cache EXCEPT ![p] = act[r].client]
     /\ act' = [act EXCEPT ![r].pc = "ready", ![r].rev = 0]
     /\ UNCHANGED <<revision, store, live, client, bounds>>

\* Two requests that missed together build two clients: the second to
\* arrive closes its own and uses the first one's.
Insert(r) ==
  LET p == Home[r]
      lost == cache[p] # None /\ client[cache[p]].rev = act[r].rev
  IN /\ act[r].pc = "inserting"
     /\ cache' = IF lost THEN cache
                         ELSE [cache EXCEPT ![p] = act[r].client]
     /\ act' = [act EXCEPT ![r].pc = "ready", ![r].client = cache'[p],
                           ![r].rev = 0]
     /\ client' = Collected(client, cache', act')
     /\ UNCHANGED <<revision, store, live, bounds>>

-----------------------------------------------------------------------------
(***************************************************************************)
(* One DSM call on the resolved client: executeLocked, under the client's  *)
(* mutex from Begin to Finish.                                             *)
(***************************************************************************)
Mine(r) == act[r].client
Sidless(c) == client[c].sid = None

Begin(r) ==
  /\ act[r].pc = "ready"
  /\ client[Mine(r)].mu = None
  /\ client' = [client EXCEPT ![Mine(r)].mu = r]
  /\ act' = [act EXCEPT ![r].pc = IF Sidless(Mine(r)) THEN "login" ELSE "send",
                        ![r].retried = FALSE]
  /\ UNCHANGED <<revision, store, live, cache, bounds>>

\* Mutant: a return that skips the deferred unlock.
ReturnLocked(r, served) ==
  /\ act' = [act EXCEPT ![r] = [Idle("call") EXCEPT !.served = served]]
  /\ client' = Collected(client, cache, act')

\* The call returns: the mutex is released, the client no longer referenced.
Return(r, served) ==
  /\ act' = [act EXCEPT ![r] = [Idle("call") EXCEPT !.served = served]]
  /\ client' = Collected([client EXCEPT ![Mine(r)].mu = None], cache, act')

Serve(r) ==
  /\ act[r].pc = "send"
  /\ client[Mine(r)].sid \in live
  /\ Return(r, TRUE)
  /\ UNCHANGED <<revision, store, live, cache, bounds>>

\* A session error drops the session and re-establishes it, once.
Reject(r) ==
  /\ act[r].pc = "send" /\ ~act[r].retried
  /\ client[Mine(r)].sid \notin live
  /\ client' = [client EXCEPT ![Mine(r)].sid = None]
  /\ act' = [act EXCEPT ![r].retried = TRUE,
                        ![r].pc = IF client[Mine(r)].kind = "seeded"
                                    THEN "resume" ELSE "login"]
  /\ UNCHANGED <<revision, store, live, cache, bounds>>

RejectAgain(r) ==
  /\ act[r].pc = "send" /\ act[r].retried
  /\ client[Mine(r)].sid \notin live
  /\ Return(r, FALSE)
  /\ UNCHANGED <<revision, store, live, cache, bounds>>

\* Mutant: Resume adopts the stored session even if it is the rejected one.
AdoptAgain(r) ==
  /\ act[r].pc = "resume"
  /\ store # None
  /\ client' = [client EXCEPT ![Mine(r)].sid = store.sid,
                              ![Mine(r)].known = store.sid,
                              ![Mine(r)].keys = store.keys]
  /\ act' = [act EXCEPT ![r].pc = "send"]
  /\ UNCHANGED <<revision, store, live, cache, bounds>>

\* Resume first re-reads the store for a session renewed elsewhere.
Adopt(r) ==
  /\ act[r].pc = "resume"
  /\ store # None /\ store.sid # client[Mine(r)].known
  /\ client' = [client EXCEPT ![Mine(r)].sid = store.sid,
                              ![Mine(r)].known = store.sid,
                              ![Mine(r)].keys = store.keys]
  /\ act' = [act EXCEPT ![r].pc = "send"]
  /\ UNCHANGED <<revision, store, live, cache, bounds>>

NothingNewer(r) ==
  /\ act[r].pc = "resume"
  /\ store # None => store.sid = client[Mine(r)].known
  /\ act' = [act EXCEPT ![r].pc = IF client[Mine(r)].keys THEN "renew" ELSE "login"]
  /\ UNCHANGED <<revision, store, live, cache, client, bounds>>

\* The browserless resume: DSM grants a new identifier or refuses.
Renew(r) ==
  /\ act[r].pc = "renew"
  /\ Issues
  /\ client' = [client EXCEPT ![Mine(r)].known = NewSid]
  /\ act' = [act EXCEPT ![r].pc = "keep"]
  /\ UNCHANGED <<revision, store, cache, bounds>>

RenewRefused(r) ==
  /\ act[r].pc = "renew"
  /\ act' = [act EXCEPT ![r].pc = "login"]
  /\ UNCHANGED <<revision, store, live, cache, client, bounds>>

Keep(r) ==
  /\ act[r].pc = "keep"
  /\ Save([sid |-> client[Mine(r)].known, keys |-> TRUE])
  /\ client' = [client EXCEPT ![Mine(r)].sid = client[Mine(r)].known]
  /\ act' = [act EXCEPT ![r].pc = "send"]
  /\ UNCHANGED <<revision, live, cache, operations>>

\* loginLocked with the password; acceptLoginLocked then saves the session.
Login(r) ==
  /\ act[r].pc = "login"
  /\ HasPassword
  /\ Issues
  /\ client' = [client EXCEPT ![Mine(r)].sid = NewSid]
  /\ act' = [act EXCEPT ![r].pc = IF client[Mine(r)].kind = "connected"
                                    THEN "saveWrite" ELSE "saveRead"]
  /\ UNCHANGED <<revision, store, cache, bounds>>

LoginImpossible(r) ==
  /\ act[r].pc = "login"
  /\ ~HasPassword
  /\ Return(r, FALSE)
  /\ UNCHANGED <<revision, store, live, cache, bounds>>

\* The save closures read the stored session to keep its resume keys ...
SaveRead(r) ==
  /\ act[r].pc = "saveRead"
  /\ act' = [act EXCEPT ![r].pc = "saveWrite", ![r].saw = store]
  /\ UNCHANGED <<revision, store, live, cache, client, bounds>>

\* ... and write it back with the new identifier.
SavedKeys(r) ==
  CASE client[Mine(r)].kind = "connected" -> FALSE
    [] client[Mine(r)].kind # "connected" /\ act[r].saw # None -> act[r].saw.keys
    [] OTHER -> client[Mine(r)].keys

SaveWrite(r) ==
  LET c == Mine(r) IN
    /\ act[r].pc = "saveWrite"
    /\ Save([sid |-> client[c].sid, keys |-> SavedKeys(r)])
    /\ client' = IF client[c].kind = "seeded"
                   THEN [client EXCEPT ![c].known = client[c].sid,
                                       ![c].keys = SavedKeys(r)]
                   ELSE client
    /\ act' = [act EXCEPT ![r].pc = "send", ![r].saw = None]
    /\ UNCHANGED <<revision, live, cache, operations>>

\* A DSM call fails in transport: executeLocked returns the error.
Unreachable(r) ==
  /\ act[r].pc \in {"send", "login"}
  /\ Fault
  /\ Return(r, FALSE)
  /\ UNCHANGED <<revision, store, live, cache, operations>>

-----------------------------------------------------------------------------
(***************************************************************************)
(* Administration.                                                         *)
(***************************************************************************)
\* The goroutine goes on at pc with client c, or has finished.
Continue(a, pc, c) ==
  [act EXCEPT ![a] = IF pc = "idle" THEN Idle("call")
                     ELSE [act[a] EXCEPT !.pc = pc, !.client = c]]

Begins(a, op) ==
  /\ op \in Operation
  /\ act[a].pc = "idle"
  /\ operations < MaxOperations
  /\ operations' = operations + 1

\* An administrator decides to change, to connect or to stop; the session
\* is revoked before it is forgotten.  A process stops when its requests
\* have been drained.
Ask(a, op) ==
  /\ Begins(a, op)
  /\ op # "login"
  /\ op \in Mutation => revision < MaxRevision
  /\ op = "exit" => \A r \in Request : Home[r] = Home[a] => act[r].pc = "idle"
  /\ op = "connect" => HasPassword
  /\ act' = [act EXCEPT ![a].op = op,
                        ![a].pc = IF op \in {"forget", "logout"}
                                    THEN "revokeRead" ELSE "waiting"]
  /\ UNCHANGED <<revision, store, live, cache, client, faults>>

\* The revisions a commit may leave: a new session and a removed one advance
\* it; an update does unless it changes no setting.
NextRevision(op) ==
  CASE op = "enroll" -> {revision + 1}
    [] op = "forget" -> {IF store = None THEN revision ELSE revision + 1}
    [] op = "update" -> {revision, revision + 1}

\* MutateProfile: commit, evict, release the gate, and close only then.
MutateProfile(a) ==
  LET p == Home[a] IN
    /\ act[a].pc = "waiting" /\ act[a].op \in Mutation
    /\ MayWrite(p)
    /\ revision' \in NextRevision(act[a].op)
    /\ CASE act[a].op = "enroll" ->
              /\ store' = [sid |-> NewSid, keys |-> TRUE]
              /\ Issues
         [] act[a].op = "forget" -> store' = None /\ UNCHANGED live
         [] OTHER -> UNCHANGED <<store, live>>
    /\ cache' = [cache EXCEPT ![p] = None]
    /\ act' = Continue(a, IF cache[p] = None THEN "idle" ELSE "closing", cache[p])
    /\ UNCHANGED <<client, bounds>>

\* Where the goroutine goes when the evicted client is closed.
AfterClose(a) ==
  CASE a \in Request -> "reading"
    [] a \in Admin /\ act[a].op = "connect" -> "connect"
    [] OTHER -> "idle"

\* Manager.Close and ConnectWithStoredPassword close under the gate.
TakeGate(a) ==
  LET p == Home[a] IN
    /\ act[a].pc = "waiting" /\ act[a].op \in Exclusive
    /\ MayWrite(p)
    /\ cache' = [cache EXCEPT ![p] = None]
    /\ act' = Continue(a, IF cache[p] = None THEN AfterClose(a) ELSE "closing",
                       cache[p])
    /\ UNCHANGED <<revision, store, live, client, bounds>>

\* Client.Close: a client that logged in itself logs its session out.
CloseClient(a) ==
  LET c == act[a].client IN
    /\ act[a].pc = "closing"
    /\ client[c].mu = None
    /\ live' = IF client[c].kind = "password" THEN live \ {client[c].sid}
                                              ELSE live
    /\ act' = Continue(a, AfterClose(a), None)
    /\ client' = Collected([client EXCEPT ![c].sid = None, ![c].open = FALSE],
                           cache, act')
    /\ UNCHANGED <<revision, store, cache, bounds>>

\* Mutant: no check that DSM returned a session identifier.
ConnectUnchecked(a) ==
  LET c == NewClient IN
    /\ act[a].pc = "connect"
    /\ client' = [client EXCEPT ![c] = [Unused EXCEPT
                    !.rev = revision, !.kind = "connected", !.open = TRUE]]
    /\ act' = Continue(a, "store", c)
    /\ UNCHANGED <<revision, store, live, cache, bounds>>

\* ConnectWithStoredPassword: authenticate, store, publish; a login that
\* cannot be stored is revoked.
Connect(a) ==
  LET c == NewClient IN
    /\ act[a].pc = "connect"
    /\ MayAllocate /\ Issues
    /\ client' = [client EXCEPT ![c] = [Unused EXCEPT
                    !.rev = revision, !.kind = "connected", !.open = TRUE,
                    !.sid = NewSid]]
    /\ act' = Continue(a, "store", c)
    /\ UNCHANGED <<revision, store, cache, bounds>>

ConnectRefused(a) ==
  /\ act[a].pc = "connect"
  /\ Fault
  /\ act' = Continue(a, "idle", None)
  /\ UNCHANGED <<revision, store, live, cache, client, operations>>

Connected(a) ==
  /\ act[a].pc = "store"
  /\ store' = [sid |-> client[act[a].client].sid, keys |-> FALSE]
  /\ cache' = [cache EXCEPT ![Home[a]] = act[a].client]
  /\ act' = Continue(a, "idle", None)
  /\ UNCHANGED <<revision, live, client, bounds>>

ConnectUnstored(a) ==
  /\ act[a].pc = "store"
  /\ Fault
  /\ live' = live \ {client[act[a].client].sid}
  /\ act' = Continue(a, "idle", None)
  /\ client' = Collected(client, cache, act')
  /\ UNCHANGED <<revision, store, cache, operations>>

\* 'auth login' stores the session a browser sign-in established.
AuthLogin(a) ==
  /\ Begins(a, "login")
  /\ store' = [sid |-> NewSid, keys |-> TRUE]
  /\ Issues
  /\ UNCHANGED <<revision, cache, client, act, faults>>

\* RevokeStoredSession reads the session and logs it out, best effort; then
\* Logout deletes the stored copy, or the gateway commits its removal.
AfterRevoke(a) == IF act[a].op = "logout" THEN "delete" ELSE "waiting"

RevokeRead(a) ==
  /\ act[a].pc = "revokeRead"
  /\ act' = [act EXCEPT ![a].saw = store,
                        ![a].pc = IF store = None THEN AfterRevoke(a) ELSE "revoke"]
  /\ UNCHANGED <<revision, store, live, cache, client, bounds>>

Revoke(a) ==
  /\ act[a].pc = "revoke"
  /\ \/ live' = live \ {act[a].saw.sid} /\ UNCHANGED faults
     \/ UNCHANGED live /\ Fault
  /\ act' = [act EXCEPT ![a].saw = None, ![a].pc = AfterRevoke(a)]
  /\ UNCHANGED <<revision, store, cache, client, operations>>

DeleteSession(a) ==
  /\ act[a].pc = "delete"
  /\ store' = None
  /\ act' = Continue(a, "idle", None)
  /\ UNCHANGED <<revision, live, cache, client, bounds>>

\* DSM ends a session on its own (idle timeout, restart of the NAS).
Expire ==
  /\ Fault
  /\ \E s \in live : live' = live \ {s}
  /\ UNCHANGED <<revision, store, cache, client, act, operations>>

-----------------------------------------------------------------------------
Resolving(r) == ClientHit(r) \/ ClientMiss(r)

CallStep(r) ==
  \/ Build(r) \/ NoCredential(r) \/ Insert(r)
  \/ Serve(r) \/ Reject(r) \/ RejectAgain(r) \/ Adopt(r) \/ NothingNewer(r)
  \/ Renew(r) \/ RenewRefused(r) \/ Keep(r)
  \/ Login(r) \/ LoginImpossible(r) \/ SaveRead(r) \/ SaveWrite(r)
  \/ Unreachable(r)

AdminStep(a) ==
  \/ MutateProfile(a) \/ TakeGate(a)
  \/ Connect(a) \/ ConnectRefused(a) \/ Connected(a) \/ ConnectUnstored(a)
  \/ RevokeRead(a) \/ Revoke(a) \/ DeleteSession(a)

Next ==
  \/ \E r \in Request : Resolving(r) \/ Begin(r) \/ CallStep(r)
  \/ \E a \in Admin : AdminStep(a) \/ AuthLogin(a) \/ \E op \in Operation : Ask(a, op)
  \/ \E a \in Actor : CloseClient(a)
  \/ Expire

Safety == Init /\ [][Next]_vars

(***************************************************************************)
(* A goroutine that can run does.  Each is at one place at a time, so one  *)
(* condition covers its steps; it is strong because sync.Mutex hands the   *)
(* mutex to a waiter that has been passed over (starvation mode).  Nothing *)
(* is assumed of administrators, of DSM or of faults.                      *)
(***************************************************************************)
Running(r) == Begin(r) \/ CallStep(r) \/ CloseClient(r)

Administering == \A a \in Admin : SF_vars(AdminStep(a) \/ CloseClient(a))

Spec == Safety /\ Administering /\ \A r \in Request : SF_vars(Running(r))

\* Callers that keep calling: one that was refused tries again.
RetryingSpec ==
  /\ Safety /\ Administering
  /\ \A r \in Request : SF_vars(Resolving(r) \/ Running(r))

-----------------------------------------------------------------------------
(***************************************************************************)
(* Properties.                                                             *)
(***************************************************************************)
\* The state has its types.
TypeOK ==
  /\ revision \in Nat \ {0}
  /\ store \in Session \union {None}
  /\ live \subseteq Sid
  /\ cache \in [Process -> Client \union {None}]
  /\ client \in [Client -> ClientRecord]
  /\ act \in [Actor -> ActorRecord]
  /\ faults \in 0..MaxFaults /\ operations \in 0..MaxOperations

\* No request acquires a client of an older revision once the new revision
\* is committed (spec/work-items/WI-015: "no new request can acquire the old
\* client after the updated revision is committed"): resolution under the
\* read gate against MutateProfile's commit and eviction.
ResolvedCurrent ==
  [][\A r \in Request :
       act'[r].pc = "ready" /\ act[r].pc # "ready"
         => client'[act'[r].client].rev = revision']_vars

\* Every client that has not been closed can still be closed: it is in the
\* cache of its process, or the goroutine that built it is about to publish
\* it, or the one that evicted it is about to close it.  Two requests that
\* miss at once must not leave a second client with a session of its own.
OpenClientOwned ==
  \A c \in Client : client[c].open =>
    \/ \E p \in Process : cache[p] = c
    \/ \E a \in Actor : act[a].client = c
                         /\ act[a].pc \in {"inserting", "closing", "store"}

\* Goroutine a cannot go on before b does: b has the mutex of a's client, or
\* is at the profile gate that a has asked to hold exclusively.
WaitsFor(a, b) ==
  \/ /\ act[a].pc \in {"ready", "closing"}
     /\ client[act[a].client].mu = b
  \/ /\ act[a].pc = "waiting" /\ Home[a] = Home[b]
     /\ (b \in Request /\ Reading(b)) \/ (b \in Admin /\ Holding(b))

Waits(a) == \E b \in Actor : WaitsFor(a, b)

\* No deadlock between the profile gate and the client mutexes, which
\* Manager.Client, Manager.Close and ConnectWithStoredPassword take in this
\* order: whoever waits does so for a goroutine that can go on, or that waits
\* for one that can.  None of them has returned with the lock.
NoCircularWait ==
  \A a, b \in Actor : WaitsFor(a, b) =>
    /\ act[b].pc # "idle"
    /\ \A c \in Actor : WaitsFor(b, c) => act[c].pc # "idle" /\ ~Waits(c)

\* Nobody waits for ever: neither requests nor administrators, whichever of
\* the profile gate, the client mutexes and the store they wait for.
CallsReturn == \A a \in Actor : act[a].pc # "idle" ~> act[a].pc = "idle"

\* With a password and callers that try again, from some moment on every
\* call is served, whatever sessions expired, were revoked, replaced or lost before:
\* Resume, the password login and the saves leave no client stuck on a
\* session that DSM rejects.
Recovers == \A r \in Request : <>[](act[r].pc = "idle" => act[r].served)

\* Closing a client leaves the stored session valid (docs/architecture.md:
\* "the stored session stays valid across processes until `auth logout`").
StoredSurvivesClose ==
  [][\A a \in Actor :
       act[a].pc = "closing" /\ act'[a].pc # "closing" /\ store # None
         => (store.sid \in live => store.sid \in live')]_vars

\* A client of an older revision no longer writes the profile's session: the
\* eviction in MutateProfile is the boundary between the old identity of the
\* profile and the new one.
WrittenByCurrent ==
  [][\A r \in Request :
       act[r].pc \in {"keep", "saveWrite"} /\ act'[r].pc = "send"
         => store' = store \/ client[act[r].client].rev = revision]_vars
=============================================================================
