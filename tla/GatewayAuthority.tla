-------------------------- MODULE GatewayAuthority --------------------------
(***************************************************************************)
(* Who may change which NAS through the remote gateway.                    *)
(*                                                                         *)
(* The state is the authority part of the gateway's bolt database          *)
(* (internal/gateway/state): the NAS profiles' revisions, the MCP tokens   *)
(* and their digest index, the OAuth refresh records, the approvals and    *)
(* the pending approval requests, together with the remote tool calls in   *)
(* flight in the gateway process (internal/mcpserver/remote_policy.go).    *)
(* Every db.Update is one writable transaction, so a repository operation  *)
(* is one action; what a call reads in different transactions is read in   *)
(* different actions, so every interleaving of calls with administrator    *)
(* operations, with the clock and with a restart is a behaviour.           *)
(*                                                                         *)
(* Profiles' connection settings and secrets are the vault's; here a       *)
(* profile is its revision.  A SHA-256 value is represented by what it was *)
(* taken of: a plan hash by the plan, a token digest by the bearer secret. *)
(***************************************************************************)
EXTENDS Naturals, FiniteSets

CONSTANTS
  Nas,            \* profile names
  TokenId,        \* identifiers randomID may draw for MCP tokens
  Secret,         \* bearer and refresh secrets randomToken may draw
  Client,         \* registered OAuth clients (with the resource they ask for)
  ApprovalId,     \* identifiers randomID may draw for approvals
  Call,           \* remote tools/call requests
  Body,           \* what a plan changes
  TokenInput,     \* what an administrator or an OAuth consent asks for
  None,           \* an absent record
  Never,          \* ExpiresAt == nil
  MaxProfiles,    \* types.go MaxProfiles
  MaxPending,     \* types.go MaxPendingApprovals
  ApprovalTTL,    \* types.go DefaultApprovalTTL
  PendingTTL,     \* types.go PendingApprovalTTL
  AccessTTL,      \* types.go OAuthAccessTokenTTL
  RefreshTTL,     \* types.go OAuthRefreshTokenTTL
  MaxRevision,    \* bound: profile commits explored
  MaxTime         \* bound: clock readings explored

Scope == {"nas.plan", "nas.apply"}
Mode == {"interactive", "administrator"}
Risk == {"high", "medium"}

(***************************************************************************)
(* A plan names the NAS and the profile revision it was made for.  The     *)
(* plan hash covers all of it and uses no key, so a caller may submit any  *)
(* plan with its right hash: Plan is also the set of plans an apply tool   *)
(* may be given.                                                           *)
(***************************************************************************)
Plan == [nas : Nas, rev : Nat, risk : Risk, body : Body]

TokenRecord ==
  [digest : Secret, scopes : SUBSET Scope, allow : SUBSET Nas, mode : Mode,
   created : Nat, expires : Nat \union {Never}, revoked : BOOLEAN,
   closed : BOOLEAN, incarnation : [Nas -> Nat]]

RefreshRecord == [token : TokenId, client : Client, expires : Nat]

ApprovalRecord ==
  [hash : Plan, nas : Nas, rev : Nat, token : TokenId, expires : Nat,
   consumed : BOOLEAN, content : Nat]

RequestRecord == [plan : Plan, token : TokenId, created : Nat]

PC == {"idle", "authenticated", "planned", "authorized", "eliciting",
       "admitted", "ended"}

CallRecord ==
  [pc : PC, token : TokenId \union {None}, scopes : SUBSET Scope,
   allow : SUBSET Nas, plan : Plan \union {None},
   grant : {"none", "fresh", "used"},
   via : ApprovalId \union {"none", "grant"}, content : Nat]

ASSUME ConstantsAssumption ==
  /\ MaxProfiles \in Nat /\ MaxPending \in Nat \ {0}
  /\ ApprovalTTL \in Nat \ {0} /\ PendingTTL \in Nat \ {0}
  /\ AccessTTL \in Nat \ {0} /\ RefreshTTL \in Nat \ {0}
  /\ MaxRevision \in Nat /\ MaxTime \in Nat
ASSUME InputAssumption ==
  TokenInput \subseteq [scopes : SUBSET Scope, allow : SUBSET Nas, mode : Mode,
                        ttl : (Nat \ {0}) \union {Never}]
ASSUME NoneAssumption ==
  /\ None \notin TokenId /\ None \notin Plan
  /\ None \notin TokenRecord /\ None \notin RefreshRecord
  /\ None \notin ApprovalRecord
ASSUME NeverAssumption == Never \notin Nat
ASSUME ViaAssumption == {"none", "grant"} \cap ApprovalId = {}

VARIABLES
  now,              \* r.now(): the gateway's clock
  revision,         \* bucketProfiles: a profile's revision, 0 when absent
  revisionCounter,  \* bucketMeta[keyRevisionCounter]
  token,            \* bucketMCPTokens
  digest,           \* bucketTokenDigests: bearer secret -> token id
  refresh,          \* bucketOAuthRefresh: refresh secret -> record
  approval,         \* bucketApprovals
  requests,         \* bucketApprovalRequests
  call,             \* the calls the gateway process is serving
  drawn,            \* history: secrets already drawn (randomness repeats none)
  edits,            \* history: number of profile commits
  content,          \* history: the commit that last wrote each profile
  born              \* history: the commit that created each profile

profileVars == <<revision, revisionCounter, edits, content, born>>
tokenVars == <<token, digest, refresh, drawn>>
approvalVars == <<approval, requests>>
vars == <<now, profileVars, tokenVars, approvalVars, call>>

TypeOK ==
  /\ now \in Nat
  /\ revision \in [Nas -> Nat] /\ revisionCounter \in Nat
  /\ token \in [TokenId -> TokenRecord \union {None}]
  /\ digest \in [Secret -> TokenId \union {None}]
  /\ refresh \in [Secret -> RefreshRecord \union {None}]
  /\ approval \in [ApprovalId -> ApprovalRecord \union {None}]
  /\ requests \subseteq RequestRecord
  /\ call \in [Call -> CallRecord]
  /\ drawn \subseteq Secret
  /\ edits \in Nat /\ content \in [Nas -> Nat] /\ born \in [Nas -> Nat]

IdleCall == [pc |-> "idle", token |-> None, scopes |-> {}, allow |-> {},
             plan |-> None, grant |-> "none", via |-> "none", content |-> 0]

Init ==
  /\ now = 0
  /\ revision = [n \in Nas |-> 0] /\ revisionCounter = 0
  /\ token = [t \in TokenId |-> None]
  /\ digest = [s \in Secret |-> None]
  /\ refresh = [s \in Secret |-> None]
  /\ approval = [a \in ApprovalId |-> None]
  /\ requests = {}
  /\ call = [c \in Call |-> IdleCall]
  /\ drawn = {}
  /\ edits = 0 /\ content = [n \in Nas |-> 0] /\ born = [n \in Nas |-> 0]

-----------------------------------------------------------------------------
(***************************************************************************)
(* Profiles (repository.go).                                               *)
(***************************************************************************)

\* Fault: an edit keeps the profile's revision.
NextProfileRevisionKept(n) ==
  IF revision[n] # 0 THEN revision[n] ELSE revisionCounter + 1

\* nextProfileRevision: one counter for every profile, never reset.
NextProfileRevision(n) == revisionCounter + 1

\* The profile n is written under the next revision; history takes note.
CommitRevision(n) ==
  /\ edits < MaxRevision
  /\ revision' = [revision EXCEPT ![n] = NextProfileRevision(n)]
  /\ revisionCounter' = NextProfileRevision(n)
  /\ edits' = edits + 1
  /\ content' = [content EXCEPT ![n] = edits + 1]

CreateProfile(n) ==
  /\ revision[n] = 0
  /\ Cardinality({m \in Nas : revision[m] # 0}) < MaxProfiles
  /\ CommitRevision(n)
  /\ born' = [born EXCEPT ![n] = edits + 1]
  /\ UNCHANGED <<now, tokenVars, approvalVars, call>>

\* A committed change of the connection settings.  Credential enrollment and
\* removal (vault.go) advance the revision the same way.
UpdateProfile(n) ==
  /\ revision[n] # 0
  /\ CommitRevision(n)
  /\ UNCHANGED <<now, born, tokenVars, approvalVars, call>>

\* Fault: the allowlists keep the deleted name.
WithoutNasKept(n) == token

\* DeleteProfile's pass over the allowlists of every token.
WithoutNas(n) ==
  [t \in TokenId |->
     IF token[t] = None THEN None
     ELSE [token[t] EXCEPT !.allow = @ \ {n}]]

DeleteProfile(n) ==
  /\ revision[n] # 0
  /\ revision' = [revision EXCEPT ![n] = 0]
  /\ token' = WithoutNas(n)
  /\ UNCHANGED <<now, revisionCounter, edits, content, born, digest, refresh,
                 drawn, approvalVars, call>>

-----------------------------------------------------------------------------
(***************************************************************************)
(* MCP tokens and OAuth token sets (policy.go, oauth.go).                  *)
(***************************************************************************)

\* validateActiveToken
Active(t) ==
  /\ token[t] # None
  /\ ~token[t].revoked
  /\ token[t].expires # Never => now < token[t].expires

\* Fault: a missing expiry is stored as a missing record.
ExpiryAbsent(ttl) == IF ttl = Never THEN None ELSE now + ttl

Expiry(ttl) == IF ttl = Never THEN Never ELSE now + ttl

\* newMCPTokenRecord.  Two fields are history: incarnation, the profiles the
\* names meant, and closed, whether an administrator has since rotated,
\* expired or revoked the token.
NewTokenRecord(s, in) ==
  [digest |-> s, scopes |-> in.scopes, allow |-> in.allow, mode |-> in.mode,
   created |-> now, expires |-> Expiry(in.ttl), revoked |-> FALSE,
   closed |-> FALSE, incarnation |-> born]

\* validateTokenNAS
KnownNas(names) == \A n \in names : revision[n] # 0

CreateMCPToken(t, s, in) ==
  /\ token[t] = None /\ s \notin drawn
  /\ KnownNas(in.allow)
  /\ token' = [token EXCEPT ![t] = NewTokenRecord(s, in)]
  /\ digest' = [digest EXCEPT ![s] = t]
  /\ drawn' = drawn \union {s}
  /\ UNCHANGED <<now, profileVars, refresh, approvalVars, call>>

\* Fault: the refresh records outlive the administrator's change.
WithoutRefreshKept(t) == refresh

\* deleteOAuthRefreshTokensForMCPToken
WithoutRefresh(t) ==
  [s \in Secret |->
     IF refresh[s] # None /\ refresh[s].token = t THEN None ELSE refresh[s]]

\* Fault: the replaced bearer secret stays in the index.
RotateMCPTokenKeepsDigest(t, s) ==
  /\ token[t] # None /\ ~token[t].revoked
  /\ s \notin drawn
  /\ token' = [token EXCEPT ![t] = [@ EXCEPT !.digest = s, !.closed = TRUE]]
  /\ digest' = [digest EXCEPT ![s] = t]
  /\ refresh' = WithoutRefresh(t)
  /\ drawn' = drawn \union {s}
  /\ UNCHANGED <<now, profileVars, approvalVars, call>>

RotateMCPToken(t, s) ==
  /\ token[t] # None /\ ~token[t].revoked
  /\ s \notin drawn
  /\ token' = [token EXCEPT ![t] = [@ EXCEPT !.digest = s, !.closed = TRUE]]
  /\ digest' = [digest EXCEPT ![token[t].digest] = None, ![s] = t]
  /\ refresh' = WithoutRefresh(t)
  /\ drawn' = drawn \union {s}
  /\ UNCHANGED <<now, profileVars, approvalVars, call>>

\* deletePendingApprovalsForToken
WithoutRequests(t) == {r \in requests : r.token # t}

RevokeMCPToken(t) ==
  /\ token[t] # None
  /\ token' = [token EXCEPT ![t] = [@ EXCEPT !.revoked = TRUE, !.closed = TRUE]]
  /\ requests' = WithoutRequests(t)
  /\ refresh' = WithoutRefresh(t)
  /\ UNCHANGED <<now, profileVars, digest, drawn, approval, call>>

\* changeMCPToken drops the pending requests of a revoked token here too.
ExpireMCPToken(t, at) ==
  /\ token[t] # None
  /\ token' = [token EXCEPT ![t] = [@ EXCEPT !.expires = at, !.closed = TRUE]]
  /\ requests' = IF token[t].revoked THEN WithoutRequests(t) ELSE requests
  /\ refresh' = WithoutRefresh(t)
  /\ UNCHANGED <<now, profileVars, digest, drawn, approval, call>>

\* normalizeMCPTokenInput gives an OAuth token the interactive mode.
IssueOAuthTokenSet(t, access, renew, cl, in) ==
  /\ token[t] = None
  /\ access \notin drawn /\ renew \notin drawn /\ access # renew
  /\ KnownNas(in.allow)
  /\ token' = [token EXCEPT ![t] = NewTokenRecord(access,
                 [in EXCEPT !.mode = "interactive", !.ttl = AccessTTL])]
  /\ digest' = [digest EXCEPT ![access] = t]
  /\ refresh' = [refresh EXCEPT ![renew] =
                   [token |-> t, client |-> cl, expires |-> now + RefreshTTL]]
  /\ drawn' = drawn \union {access, renew}
  /\ UNCHANGED <<now, profileVars, approvalVars, call>>

\* The refresh record moves to the new secret with its original expiry.
RefreshOAuthTokenSet(old, cl, access, renew) ==
  /\ refresh[old] # None
  /\ refresh[old].client = cl /\ now < refresh[old].expires
  /\ access \notin drawn /\ renew \notin drawn /\ access # renew
  /\ LET t == refresh[old].token IN
       /\ token[t] # None /\ ~token[t].revoked
       /\ KnownNas(token[t].allow)
       /\ token' = [token EXCEPT ![t] = [@ EXCEPT !.digest = access,
                                                  !.expires = now + AccessTTL]]
       /\ digest' = [digest EXCEPT ![token[t].digest] = None, ![access] = t]
  /\ refresh' = [refresh EXCEPT ![old] = None, ![renew] = refresh[old]]
  /\ drawn' = drawn \union {access, renew}
  /\ UNCHANGED <<now, profileVars, approvalVars, call>>

-----------------------------------------------------------------------------
(***************************************************************************)
(* Approvals and pending approval requests (policy.go).                    *)
(***************************************************************************)

\* createApprovalTx's checks of the profile and of the requesting token.
Approvable(n, rev, t) ==
  /\ revision[n] # 0 /\ revision[n] = rev
  /\ Active(t)
  /\ "nas.apply" \in token[t].scopes /\ n \in token[t].allow

\* existingApproval and findApproval: unconsumed, unexpired, exact.
Matches(h, n, rev, t) ==
  {a \in ApprovalId :
     /\ approval[a] # None
     /\ ~approval[a].consumed /\ now < approval[a].expires
     /\ approval[a].hash = h /\ approval[a].nas = n
     /\ approval[a].rev = rev /\ approval[a].token = t}

\* deleteMatchingApprovalRequests
WithoutMatching(h, t) == {r \in requests : ~(r.plan = h /\ r.token = t)}

CreateApprovalTx(h, n, rev, t, ttl) ==
  /\ Approvable(n, rev, t)
  /\ requests' = WithoutMatching(h, t)
  /\ \/ /\ Matches(h, n, rev, t) # {}
        /\ UNCHANGED approval
     \/ /\ Matches(h, n, rev, t) = {}
        /\ \E a \in ApprovalId :
             /\ approval[a] = None
             /\ approval' = [approval EXCEPT ![a] =
                  [hash |-> h, nas |-> n, rev |-> rev, token |-> t,
                   expires |-> now + ttl, consumed |-> FALSE,
                   content |-> content[n]]]
  /\ UNCHANGED <<now, profileVars, tokenVars, call>>

\* The administrator's form: the revision is captured in the transaction.
CreateApproval(h, n, t, ttl) == CreateApprovalTx(h, n, revision[n], t, ttl)

ApprovePendingApproval(r) ==
  /\ now < r.created + PendingTTL
  /\ CreateApprovalTx(r.plan, r.plan.nas, r.plan.rev, r.token, ApprovalTTL)

DismissPendingApproval(r) ==
  /\ requests' = requests \ {r}
  /\ UNCHANGED <<now, profileVars, tokenVars, approval, call>>

\* prunePendingApprovals
Unexpired == {r \in requests : now < r.created + PendingTTL}

\* Listing the requests prunes them.
PendingApprovals ==
  /\ requests' = Unexpired
  /\ UNCHANGED <<now, profileVars, tokenVars, approval, call>>

\* Fault: the bound drops the newest entry.
OldestReversed(S) == {r \in S : \A q \in S : r.created >= q.created}

Oldest(S) == {r \in S : \A q \in S : r.created <= q.created}

\* Fault: the queue is not bounded.
BoundedNever(S) == {S}

\* boundPendingApprovals: what may be left of S, the oldest going first.
Bounded(S) ==
  IF Cardinality(S) <= MaxPending THEN {S} ELSE {S \ {r} : r \in Oldest(S)}

\* The request of call c's plan, renewed if the token already made it.
RecordPendingApproval(c) ==
  LET p == call[c].plan
      t == call[c].token
      kept == {r \in Unexpired : ~(r.plan = p /\ r.token = t)}
  IN requests' \in Bounded(kept \union {[plan |-> p, token |-> t, created |-> now]})

-----------------------------------------------------------------------------
(***************************************************************************)
(* Remote calls: authenticateMCP (server.go), remotePolicyMiddleware       *)
(* (remote_policy.go), authorizeRemoteApply (application/service.go) and   *)
(* AdmitRemoteApply (policy.go).                                           *)
(***************************************************************************)

\* AuthenticateMCPToken: the principal is a snapshot of the token record.
Authenticate(c, s) ==
  /\ call[c].pc = "idle"
  /\ digest[s] # None /\ Active(digest[s])
  /\ call' = [call EXCEPT ![c] = [IdleCall EXCEPT
                !.pc = "authenticated", !.token = digest[s],
                !.scopes = token[digest[s]].scopes,
                !.allow = token[digest[s]].allow]]
  /\ UNCHANGED <<now, profileVars, tokenVars, approvalVars>>

\* ToolScope and AuthorizeRemoteTarget against the principal snapshot.
MayTarget(c, n, scope) ==
  /\ call[c].pc = "authenticated"
  /\ scope \in call[c].scopes /\ n \in call[c].allow
  /\ revision[n] # 0

\* An apply_* tool: the submitted plan reaches authorizeRemoteApply.
AuthorizeApply(c, p) ==
  /\ MayTarget(c, p.nas, "nas.apply")
  /\ call' = [call EXCEPT ![c] = [@ EXCEPT !.pc = "authorized", !.plan = p]]
  /\ UNCHANGED <<now, profileVars, tokenVars, approvalVars>>

\* A plan_* tool: the plan is made for the profile's revision of this moment.
MakePlan(c, p) ==
  /\ MayTarget(c, p.nas, "nas.plan")
  /\ p.rev = revision[p.nas]
  /\ call' = [call EXCEPT ![c] = [@ EXCEPT !.pc = "planned", !.plan = p]]
  /\ UNCHANGED <<now, profileVars, tokenVars, approvalVars>>

\* After a successful high-risk plan of an administrator-mode credential the
\* middleware records the request; the token is not looked at again.
FinishPlan(c) ==
  /\ call[c].pc = "planned"
  /\ call' = [call EXCEPT ![c] = [@ EXCEPT !.pc = "ended"]]
  /\ IF /\ call[c].plan.risk = "high"
        /\ token[call[c].token].mode = "administrator"
     THEN RecordPendingApproval(c)
     ELSE UNCHANGED requests
  /\ UNCHANGED <<now, profileVars, tokenVars, approval>>

\* A call that the middleware refuses, or that fails before admission.
Refuse(c) ==
  /\ call[c].pc \in {"authenticated", "authorized", "eliciting", "planned"}
  /\ call' = [call EXCEPT ![c] = [@ EXCEPT !.pc = "ended"]]
  /\ UNCHANGED <<now, profileVars, tokenVars, approvalVars>>

\* Fault: admission trusts the principal the call authenticated with.
AdmissibleSnapshot(c) ==
  LET p == call[c].plan IN
    /\ call[c].pc = "authorized"
    /\ "nas.apply" \in call[c].scopes /\ p.nas \in call[c].allow
    /\ revision[p.nas] # 0 /\ revision[p.nas] = p.rev

\* AdmitRemoteApply's checks, all in the admitting transaction.
Admissible(c) ==
  LET p == call[c].plan IN
    /\ call[c].pc = "authorized"
    /\ Active(call[c].token)
    /\ "nas.apply" \in token[call[c].token].scopes
    /\ p.nas \in token[call[c].token].allow
    /\ revision[p.nas] # 0 /\ revision[p.nas] = p.rev

ApprovalsFor(c) ==
  Matches(call[c].plan, call[c].plan.nas, call[c].plan.rev, call[c].token)

Admitted(c, via) ==
  [call[c] EXCEPT !.pc = "admitted", !.via = via,
                  !.content = content[call[c].plan.nas]]

AdmitMediumRisk(c) ==
  /\ Admissible(c) /\ call[c].plan.risk # "high"
  /\ call' = [call EXCEPT ![c] = Admitted(c, "none")]
  /\ UNCHANGED <<now, profileVars, tokenVars, approvalVars>>

\* Fault: the approval is found and not consumed.
AdmitApprovedUnconsumed(c) ==
  /\ Admissible(c) /\ call[c].plan.risk = "high"
  /\ \E a \in ApprovalsFor(c) : call' = [call EXCEPT ![c] = Admitted(c, a)]
  /\ UNCHANGED <<now, profileVars, tokenVars, approvalVars>>

\* findApproval returns the first match in key order; the keys are random.
AdmitApproved(c) ==
  /\ Admissible(c) /\ call[c].plan.risk = "high"
  /\ \E a \in ApprovalsFor(c) :
       /\ approval' = [approval EXCEPT ![a] = [@ EXCEPT !.consumed = TRUE]]
       /\ call' = [call EXCEPT ![c] = Admitted(c, a)]
  /\ UNCHANGED <<now, profileVars, tokenVars, requests>>

\* InteractiveApprovalGrant.ConsumeMatches: the grant lives in the context of
\* this call's retry and carries this call's own binding.
AdmitInteractive(c) ==
  /\ Admissible(c) /\ call[c].plan.risk = "high" /\ ApprovalsFor(c) = {}
  /\ token[call[c].token].mode = "interactive"
  /\ call[c].grant = "fresh"
  /\ call' = [call EXCEPT ![c] = [Admitted(c, "grant") EXCEPT !.grant = "used"]]
  /\ UNCHANGED <<now, profileVars, tokenVars, approvalVars>>

\* ErrInteractiveApprovalRequired reaches elicitHighRiskApproval.
RequireInteractive(c) ==
  /\ Admissible(c) /\ call[c].plan.risk = "high" /\ ApprovalsFor(c) = {}
  /\ token[call[c].token].mode = "interactive"
  /\ call[c].grant = "none"
  /\ call' = [call EXCEPT ![c] = [@ EXCEPT !.pc = "eliciting"]]
  /\ UNCHANGED <<now, profileVars, tokenVars, approvalVars>>

\* The user accepts: the same call is retried once with a fresh grant.
AcceptElicitation(c) ==
  /\ call[c].pc = "eliciting"
  /\ call' = [call EXCEPT ![c] = [@ EXCEPT !.pc = "authorized", !.grant = "fresh"]]
  /\ UNCHANGED <<now, profileVars, tokenVars, approvalVars>>

\* The bolt commit fails after the grant was consumed in memory: the
\* transaction rolls back, the grant does not come back.
AdmitCommitFails(c) ==
  /\ call[c].pc = "authorized"
  /\ call' = [call EXCEPT ![c] =
                [@ EXCEPT !.pc = "ended",
                          !.grant = IF call[c].grant = "fresh" THEN "used"
                                    ELSE call[c].grant]]
  /\ UNCHANGED <<now, profileVars, tokenVars, approvalVars>>

-----------------------------------------------------------------------------

\* The process stops and starts again: the database stays, the calls do not.
Restart ==
  /\ \E c \in Call : call[c].pc \notin {"idle", "admitted", "ended"}
  /\ call' = [c \in Call |->
                IF call[c].pc \in {"idle", "admitted", "ended"} THEN call[c]
                ELSE [call[c] EXCEPT !.pc = "ended"]]
  /\ UNCHANGED <<now, profileVars, tokenVars, approvalVars>>

Tick ==
  /\ now < MaxTime
  /\ now' = now + 1
  /\ UNCHANGED <<profileVars, tokenVars, approvalVars, call>>

\* The plans within the bound.
Plans == [nas : Nas, rev : 1 .. MaxRevision, risk : Risk, body : Body]

ProfileStep ==
  \E n \in Nas : CreateProfile(n) \/ UpdateProfile(n) \/ DeleteProfile(n)

TokenStep ==
  \E t \in TokenId :
    \/ \E s \in Secret, in \in TokenInput : CreateMCPToken(t, s, in)
    \/ \E s \in Secret : RotateMCPToken(t, s)
    \/ RevokeMCPToken(t)
    \/ \E at \in 1 .. MaxTime : ExpireMCPToken(t, at)

OAuthStep ==
  \E access, renew \in Secret, cl \in Client :
    \/ \E t \in TokenId, in \in TokenInput :
         IssueOAuthTokenSet(t, access, renew, cl, in)
    \/ \E old \in Secret : RefreshOAuthTokenSet(old, cl, access, renew)

ApprovalStep ==
  \/ \E h \in Plans, n \in Nas, t \in TokenId, ttl \in 1 .. ApprovalTTL :
       CreateApproval(h, n, t, ttl)
  \/ \E r \in requests : ApprovePendingApproval(r) \/ DismissPendingApproval(r)
  \/ PendingApprovals

CallStep ==
  \E c \in Call :
    \/ \E s \in Secret : Authenticate(c, s)
    \/ \E p \in Plans : AuthorizeApply(c, p) \/ MakePlan(c, p)
    \/ FinishPlan(c)
    \/ Refuse(c)
    \/ AdmitMediumRisk(c)
    \/ AdmitApproved(c)
    \/ AdmitInteractive(c)
    \/ RequireInteractive(c)
    \/ AcceptElicitation(c)
    \/ AdmitCommitFails(c)

Next ==
  ProfileStep \/ TokenStep \/ OAuthStep \/ ApprovalStep \/ CallStep
    \/ Restart \/ Tick

Spec == Init /\ [][Next]_vars

-----------------------------------------------------------------------------
(***************************************************************************)
(* What the gateway promises.                                              *)
(***************************************************************************)

\* The authority of an admitted call, by the way it was admitted.
Backed(c) ==
  LET p == call[c].plan
      v == call[c].via
  IN /\ p.risk = "high" => v # "none"
     /\ v \in ApprovalId =>
          /\ approval[v] # None
          /\ approval[v].consumed
          /\ approval[v].hash = p /\ approval[v].nas = p.nas
          /\ approval[v].rev = p.rev /\ approval[v].token = call[c].token
          /\ approval[v].content = call[c].content
     /\ v = "grant" =>
          /\ call[c].grant = "used"
          /\ token[call[c].token] # None
          /\ token[call[c].token].mode = "interactive"

\* A high-risk apply was admitted by an authority that names exactly it: a
\* consumed approval of the same plan hash, NAS, revision and token, given for
\* the profile content that the apply was admitted against, or the spent grant
\* of its own call under an interactive credential.
AdmissionBacked ==
  \A c \in Call : call[c].pc = "admitted" => Backed(c)

\* An approval admits one apply: two admitted calls never share one, whatever
\* the calls' interleaving and whichever restarts lie between them.
ApprovalUsedOnce ==
  \A c, d \in Call :
    /\ c # d
    /\ call[c].pc = "admitted" /\ call[d].pc = "admitted"
    /\ call[c].via \in ApprovalId
    => call[c].via # call[d].via

\* What ends an approval for good: its time is over, its token is revoked, or
\* its profile was deleted or written again.
Void(a) ==
  LET r == approval[a] IN
    \/ now >= r.expires
    \/ token[r.token].revoked
    \/ r.nas \notin token[r.token].allow
    \/ content[r.nas] # r.content

\* What the approval buckets stand for in the ledger, and what the calls do.
Status(a) ==
  IF approval[a].consumed THEN "spent" ELSE IF Void(a) THEN "void" ELSE "open"

Rights ==
  [a \in ApprovalId |->
     IF approval[a] = None THEN [status |-> "unused"]
     ELSE [status |-> Status(a), plan |-> approval[a].hash,
           nas |-> approval[a].nas, token |-> approval[a].token]]

Outcomes ==
  [c \in Call |->
     IF call[c].pc # "admitted" THEN [passed |-> FALSE]
     ELSE [passed |-> TRUE, plan |-> call[c].plan,
           token |-> call[c].token, via |-> call[c].via]]

Ledger == INSTANCE ApprovalLedger WITH
  Plan <- Plans, ledger <- Rights, outcome <- Outcomes

\* The approvals are a ledger of rights that are used once: an approval that
\* was consumed, has expired, or whose token or profile it was given for is no
\* longer what it was, never admits a call again, whichever tokens, profiles,
\* revisions and restarts follow.
ApprovalsAreLedger == Ledger!Spec

\* An allowlist entry means the profile it meant when the token was issued:
\* deleting a NAS and creating the same name again restores no old access.
AllowlistKeepsIncarnation ==
  \A t \in TokenId :
    token[t] # None =>
      \A n \in token[t].allow :
        revision[n] # 0 /\ token[t].incarnation[n] = born[n]

\* The digest index and the token records agree: a bearer secret opens the
\* one token that carries it, and a replaced secret opens nothing.
DigestIndexExact ==
  /\ \A s \in Secret :
       digest[s] # None =>
         token[digest[s]] # None /\ token[digest[s]].digest = s
  /\ \A t \in TokenId : token[t] # None => digest[token[t].digest] = t

\* A token has at most one refresh secret, none once an administrator has
\* rotated, expired or revoked it, and renewing never outlives the grant.
RefreshChainSound ==
  /\ \A s \in Secret :
       refresh[s] # None =>
         LET t == refresh[s].token IN
           /\ token[t] # None /\ ~token[t].closed
           /\ refresh[s].expires = token[t].created + RefreshTTL
  /\ \A s, u \in Secret :
       /\ s # u /\ refresh[s] # None /\ refresh[u] # None
       => refresh[s].token # refresh[u].token

\* The pending requests stay bounded and hold one entry per plan and token.
RequestsBounded ==
  /\ Cardinality(requests) <= MaxPending
  /\ \A r, q \in requests : r.plan = q.plan /\ r.token = q.token => r = q

\* A full queue makes room at its old end: recording a request displaces an
\* unexpired one only if everything that stays is at least as recent.
OldestRequestYields ==
  [][\A c \in Call :
       call[c].pc = "planned" /\ call'[c].pc = "ended" =>
         \A r \in Unexpired \ requests' :
           \/ r.plan = call[c].plan /\ r.token = call[c].token
           \/ \A q \in requests' : r.created <= q.created]_vars

\* A call is admitted under the authority its token has at that moment, not
\* under the principal it authenticated with: never for a revoked token, and
\* never on a profile other than the one the token was issued for.
AdmissionIsCurrent ==
  [][\A c \in Call :
       call[c].pc # "admitted" /\ call'[c].pc = "admitted" =>
         LET t == call[c].token
             n == call[c].plan.nas
         IN ~token[t].revoked /\ token[t].incarnation[n] = born[n]]_vars

=============================================================================
