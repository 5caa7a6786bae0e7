---------------------- MODULE GatewayAuthorityProofs ----------------------
(***************************************************************************)
(* Proofs about GatewayAuthority, for every value of its constants.        *)
(***************************************************************************)
EXTENDS GatewayAuthority, TLAPS

\* A call past authentication names a token the database holds, and a call
\* past its tool's argument checks carries a plan.
CallsBound ==
  \A c \in Call :
    /\ call[c].pc # "idle" =>
         call[c].token \in TokenId /\ token[call[c].token] # None
    /\ call[c].pc \in {"planned", "authorized", "eliciting", "admitted"} =>
         call[c].plan \in Plan

TypeInv == TypeOK /\ CallsBound

\* The edits the operations make to token, call and approval records yield
\* such records.
LEMMA TokenEdits ==
  ASSUME NEW r \in TokenRecord
  PROVE  /\ \A s \in Secret : [r EXCEPT !.digest = s, !.closed = TRUE] \in TokenRecord
         /\ [r EXCEPT !.revoked = TRUE, !.closed = TRUE] \in TokenRecord
         /\ \A at \in Nat :
              [r EXCEPT !.expires = at, !.closed = TRUE] \in TokenRecord
         /\ \A s \in Secret, at \in Nat :
              [r EXCEPT !.digest = s, !.expires = at] \in TokenRecord
         /\ \A n \in Nas : [r EXCEPT !.allow = @ \ {n}] \in TokenRecord
BY DEF TokenRecord

\* The edits that a step makes to a call keep its type.
LEMMA CallEdits ==
  ASSUME NEW r \in CallRecord
  PROVE  /\ \A p \in Plan :
              /\ [r EXCEPT !.pc = "authorized", !.plan = p] \in CallRecord
              /\ [r EXCEPT !.pc = "planned", !.plan = p] \in CallRecord
         /\ [r EXCEPT !.pc = "ended"] \in CallRecord
         /\ [r EXCEPT !.pc = "eliciting"] \in CallRecord
         /\ [r EXCEPT !.pc = "authorized", !.grant = "fresh"] \in CallRecord
         /\ [r EXCEPT !.pc = "ended",
               !.grant = IF r.grant = "fresh" THEN "used" ELSE r.grant]
              \in CallRecord
         /\ [r EXCEPT !.grant = "used"] \in CallRecord
         /\ \A v \in ApprovalId \union {"none", "grant"}, k \in Nat :
              [r EXCEPT !.pc = "admitted", !.via = v, !.content = k] \in CallRecord
BY DEF CallRecord, PC

\* Recording a pending approval leaves a set of request records.
LEMMA RecordingTyped ==
  ASSUME NEW c \in Call, TypeOK, call[c].plan \in Plan, call[c].token \in TokenId,
         RecordPendingApproval(c)
  PROVE  requests' \subseteq RequestRecord
<1> DEFINE new == [plan |-> call[c].plan, token |-> call[c].token, created |-> now]
<1>1. new \in RequestRecord
  BY DEF TypeOK, RequestRecord
<1>2. \A S \in SUBSET RequestRecord : \A B \in Bounded(S) : B \subseteq RequestRecord
  BY DEF Bounded
<1> QED
  BY <1>1, <1>2 DEF RecordPendingApproval, Unexpired, TypeOK

\* Every step keeps the state well typed.
LEMMA TypeStep ==
  ASSUME TypeInv, [Next]_vars
  PROVE  TypeOK'
<1>0. /\ TypeOK
      /\ ApprovalTTL \in Nat /\ AccessTTL \in Nat /\ RefreshTTL \in Nat
      /\ MaxTime \in Nat
      /\ \A t \in TokenId : token[t] # None => token[t] \in TokenRecord
      /\ \A a \in ApprovalId : approval[a] # None => approval[a] \in ApprovalRecord
      /\ \A s \in Secret : refresh[s] # None => refresh[s] \in RefreshRecord
      /\ \A c \in Call : call[c] \in CallRecord
  BY ConstantsAssumption DEF TypeInv, TypeOK
<1> USE <1>0
<1>1. CASE ProfileStep
  <2> SUFFICES ASSUME NEW n \in Nas,
                      CreateProfile(n) \/ UpdateProfile(n) \/ DeleteProfile(n)
               PROVE  TypeOK'
    BY <1>1 DEF ProfileStep
  <2>1. CASE CreateProfile(n)
    BY <2>1 DEF TypeOK, CreateProfile, CommitRevision, NextProfileRevision,
                tokenVars, approvalVars
  <2>2. CASE UpdateProfile(n)
    BY <2>2 DEF TypeOK, UpdateProfile, CommitRevision, NextProfileRevision,
                tokenVars, approvalVars
  <2>3. CASE DeleteProfile(n)
    <3>1. WithoutNas(n) \in [TokenId -> TokenRecord \union {None}]
      BY TokenEdits DEF WithoutNas
    <3> QED
      BY <2>3, <3>1 DEF TypeOK, DeleteProfile, approvalVars
  <2> QED BY <2>1, <2>2, <2>3
<1>2. CASE TokenStep
  <2> SUFFICES ASSUME NEW t \in TokenId,
                      \/ \E s \in Secret, in \in TokenInput : CreateMCPToken(t, s, in)
                      \/ \E s \in Secret : RotateMCPToken(t, s)
                      \/ RevokeMCPToken(t)
                      \/ \E at \in 1 .. MaxTime : ExpireMCPToken(t, at)
               PROVE  TypeOK'
    BY <1>2 DEF TokenStep
  <2>1. ASSUME NEW s \in Secret, NEW in \in TokenInput, CreateMCPToken(t, s, in)
        PROVE  TypeOK'
    <3>1. NewTokenRecord(s, in) \in TokenRecord
      BY InputAssumption DEF NewTokenRecord, TokenRecord, Expiry, TypeOK
    <3> QED
      BY <2>1, <3>1 DEF TypeOK, CreateMCPToken, profileVars, approvalVars
  <2>2. ASSUME NEW s \in Secret, RotateMCPToken(t, s)
        PROVE  TypeOK'
    <3>1. [token[t] EXCEPT !.digest = s, !.closed = TRUE] \in TokenRecord
      BY <2>2, TokenEdits DEF RotateMCPToken
    <3> QED
      BY <2>2, <3>1 DEF TypeOK, RotateMCPToken, WithoutRefresh,
                        profileVars, approvalVars
  <2>3. CASE RevokeMCPToken(t)
    <3>1. [token[t] EXCEPT !.revoked = TRUE, !.closed = TRUE] \in TokenRecord
      BY <2>3, TokenEdits DEF RevokeMCPToken
    <3> QED
      BY <2>3, <3>1 DEF TypeOK, RevokeMCPToken, WithoutRefresh, WithoutRequests,
                        profileVars
  <2>4. ASSUME NEW at \in 1 .. MaxTime, ExpireMCPToken(t, at)
        PROVE  TypeOK'
    <3>1. token[t] \in TokenRecord
      BY <2>4 DEF ExpireMCPToken
    <3>2. [token[t] EXCEPT !.expires = at, !.closed = TRUE] \in TokenRecord
      <4>1. at \in Nat
        OBVIOUS
      <4> QED BY <3>1, <4>1, TokenEdits
    <3> QED
      BY <2>4, <3>2 DEF TypeOK, ExpireMCPToken, WithoutRefresh, WithoutRequests,
                        profileVars
  <2> QED BY <2>1, <2>2, <2>3, <2>4
<1>3. CASE OAuthStep
  <2>1. ASSUME NEW t \in TokenId, NEW access \in Secret, NEW renew \in Secret,
               NEW cl \in Client, NEW in \in TokenInput,
               IssueOAuthTokenSet(t, access, renew, cl, in)
        PROVE  TypeOK'
    <3> DEFINE tok == NewTokenRecord(access,
                        [in EXCEPT !.mode = "interactive", !.ttl = AccessTTL])
    <3>1. tok \in TokenRecord
      BY InputAssumption, NeverAssumption
      DEF NewTokenRecord, TokenRecord, Expiry, TypeOK, Mode
    <3>2. [token |-> t, client |-> cl, expires |-> now + RefreshTTL]
            \in RefreshRecord
      BY DEF RefreshRecord, TypeOK
    <3> HIDE DEF tok
    <3> QED
      BY <2>1, <3>1, <3>2
      DEF TypeOK, IssueOAuthTokenSet, profileVars, approvalVars, tok
  <2>2. ASSUME NEW old \in Secret, NEW cl \in Client, NEW access \in Secret,
               NEW renew \in Secret, RefreshOAuthTokenSet(old, cl, access, renew)
        PROVE  TypeOK'
    <3>1. refresh[old] \in RefreshRecord /\ refresh[old].token \in TokenId
      BY <2>2 DEF TypeOK, RefreshOAuthTokenSet, RefreshRecord
    <3>2. [token[refresh[old].token] EXCEPT !.digest = access,
                                            !.expires = now + AccessTTL]
            \in TokenRecord
      <4>1. token[refresh[old].token] \in TokenRecord /\ now + AccessTTL \in Nat
        BY <2>2, <3>1 DEF TypeOK, RefreshOAuthTokenSet
      <4> QED BY <4>1, TokenEdits
    <3> QED
      BY <2>2, <3>1, <3>2 DEF TypeOK, RefreshOAuthTokenSet,
                              profileVars, approvalVars
  <2> QED BY <1>3, <2>1, <2>2 DEF OAuthStep
<1>4. CASE ApprovalStep
  <2>1. ASSUME NEW h \in Plan, NEW n \in Nas, NEW rev \in Nat, NEW t \in TokenId,
               NEW ttl \in Nat, CreateApprovalTx(h, n, rev, t, ttl)
        PROVE  TypeOK'
    <3>1. token[t] \in TokenRecord
      BY <2>1 DEF CreateApprovalTx, Approvable, Active, TypeOK
    <3>2. [hash |-> h, nas |-> n, rev |-> rev, token |-> t,
           expires |-> now + ttl, consumed |-> FALSE,
           content |-> content[n]]
            \in ApprovalRecord
      BY <3>1 DEF ApprovalRecord, TokenRecord, TypeOK
    <3>3. WithoutMatching(h, t) \subseteq RequestRecord
      BY DEF WithoutMatching, TypeOK
    <3> QED
      BY <2>1, <3>2, <3>3 DEF TypeOK, CreateApprovalTx, profileVars, tokenVars
  <2>2. ASSUME NEW h \in Plans, NEW n \in Nas, NEW t \in TokenId,
               NEW ttl \in 1 .. ApprovalTTL, CreateApproval(h, n, t, ttl)
        PROVE  TypeOK'
    <3>1. h \in Plan /\ revision[n] \in Nat
      BY DEF Plan, Plans, TypeOK
    <3> QED BY <2>1, <2>2, <3>1 DEF CreateApproval
  <2>3. ASSUME NEW r \in requests, ApprovePendingApproval(r)
        PROVE  TypeOK'
    <3>1. r.plan \in Plan /\ r.plan.nas \in Nas /\ r.plan.rev \in Nat
          /\ r.token \in TokenId
      BY DEF TypeOK, RequestRecord, Plan
    <3> QED BY <2>1, <2>3, <3>1 DEF ApprovePendingApproval
  <2>4. ASSUME NEW r \in requests, DismissPendingApproval(r)
        PROVE  TypeOK'
    BY <2>4 DEF TypeOK, DismissPendingApproval, profileVars, tokenVars
  <2>5. CASE PendingApprovals
    BY <2>5 DEF TypeOK, PendingApprovals, Unexpired, profileVars, tokenVars
  <2> QED BY <1>4, <2>2, <2>3, <2>4, <2>5 DEF ApprovalStep
<1>6. CASE Restart
  <2>1. \A c \in Call : [call[c] EXCEPT !.pc = "ended"] \in CallRecord
    BY DEF CallRecord, PC
  <2> QED
    BY <1>6, <2>1 DEF TypeOK, Restart, profileVars, tokenVars, approvalVars
<1>7. CASE Tick
  BY <1>7 DEF TypeOK, Tick, profileVars, tokenVars, approvalVars
<1>8. CASE UNCHANGED vars
  BY <1>8 DEF TypeOK, vars, profileVars, tokenVars, approvalVars
<1>5. CASE CallStep
  <2> SUFFICES ASSUME NEW c \in Call,
                      \/ \E s \in Secret : Authenticate(c, s)
                      \/ \E p \in Plans : AuthorizeApply(c, p) \/ MakePlan(c, p)
                      \/ FinishPlan(c) \/ Refuse(c)
                      \/ AdmitMediumRisk(c) \/ AdmitApproved(c)
                      \/ AdmitInteractive(c) \/ RequireInteractive(c)
                      \/ AcceptElicitation(c) \/ AdmitCommitFails(c)
               PROVE  TypeOK'
    BY <1>5 DEF CallStep
  <2>1. ASSUME NEW s \in Secret, Authenticate(c, s)
        PROVE  TypeOK'
    <3>1. token[digest[s]] \in TokenRecord /\ digest[s] \in TokenId
      BY <2>1 DEF TypeOK, Authenticate, Active
    <3> QED
      BY <2>1, <3>1 DEF TypeOK, Authenticate, IdleCall, CallRecord, PC,
                        TokenRecord, profileVars, tokenVars, approvalVars
  <2>0. call[c] \in CallRecord
    BY DEF TypeOK
  <2>2. ASSUME NEW p \in Plans, AuthorizeApply(c, p) \/ MakePlan(c, p)
        PROVE  TypeOK'
    <3>1. p \in Plan
      BY DEF Plan, Plans
    <3>2. /\ [call[c] EXCEPT !.pc = "authorized", !.plan = p] \in CallRecord
          /\ [call[c] EXCEPT !.pc = "planned", !.plan = p] \in CallRecord
      BY <2>0, <3>1, CallEdits
    <3> QED
      BY <2>2, <3>2 DEF TypeOK, AuthorizeApply, MakePlan,
                        profileVars, tokenVars, approvalVars
  <2>3. CASE FinishPlan(c)
    <3>1. [call[c] EXCEPT !.pc = "ended"] \in CallRecord
      BY <2>0 DEF CallRecord, PC
    <3>2. call' \in [Call -> CallRecord]
      BY <2>3, <3>1 DEF TypeOK, FinishPlan
    <3>3. requests' \subseteq RequestRecord
      BY <2>3, RecordingTyped DEF FinishPlan, TypeOK, TypeInv, CallsBound
    <3> QED
      BY <2>3, <3>2, <3>3 DEF TypeOK, FinishPlan, profileVars, tokenVars
  <2>4. CASE Refuse(c) \/ RequireInteractive(c) \/ AcceptElicitation(c)
             \/ AdmitCommitFails(c)
    <3>1. \E r \in CallRecord : call' = [call EXCEPT ![c] = r]
      BY <2>0, <2>4, CallEdits DEF Refuse, RequireInteractive, AcceptElicitation,
                                   AdmitCommitFails
    <3> QED
      BY <2>4, <3>1 DEF TypeOK, Refuse, RequireInteractive, AcceptElicitation,
                        AdmitCommitFails, profileVars, tokenVars, approvalVars
  <2>5. ASSUME Admissible(c)
        PROVE  /\ \A via \in ApprovalId \union {"none", "grant"} :
                    Admitted(c, via) \in CallRecord
               /\ [Admitted(c, "grant") EXCEPT !.grant = "used"] \in CallRecord
    <3>1. content[call[c].plan.nas] \in Nat
      BY <2>5 DEF Admissible, TypeInv, CallsBound, Plan, TypeOK
    <3>2. \A via \in ApprovalId \union {"none", "grant"} :
             Admitted(c, via) \in CallRecord
      BY <2>0, <3>1, CallEdits DEF Admitted
    <3> QED BY <3>2, CallEdits
  <2>6. CASE AdmitMediumRisk(c) \/ AdmitInteractive(c)
    <3>1. Admissible(c)
      BY <2>6 DEF AdmitMediumRisk, AdmitInteractive
    <3> QED
      BY <2>5, <2>6, <3>1 DEF TypeOK, AdmitMediumRisk, AdmitInteractive,
                              profileVars, tokenVars, approvalVars
  <2>7. CASE AdmitApproved(c)
    <3>1. PICK a \in ApprovalsFor(c) :
            /\ approval' = [approval EXCEPT ![a] = [@ EXCEPT !.consumed = TRUE]]
            /\ call' = [call EXCEPT ![c] = Admitted(c, a)]
      BY <2>7 DEF AdmitApproved
    <3>2. a \in ApprovalId /\ approval[a] \in ApprovalRecord
      BY DEF ApprovalsFor, Matches, TypeOK
    <3>3. [approval[a] EXCEPT !.consumed = TRUE] \in ApprovalRecord
      BY <3>2 DEF ApprovalRecord
    <3>4. Admitted(c, a) \in CallRecord
      BY <2>5, <2>7, <3>2 DEF AdmitApproved
    <3> QED
      BY <2>7, <3>1, <3>2, <3>3, <3>4
      DEF TypeOK, AdmitApproved, profileVars, tokenVars
  <2> QED BY <2>1, <2>2, <2>3, <2>4, <2>6, <2>7
<1> QED
  BY <1>1, <1>2, <1>3, <1>4, <1>5, <1>6, <1>7, <1>8 DEF Next

\* No operation removes a token record.
LEMMA TokensPersist ==
  ASSUME TypeInv, [Next]_vars
  PROVE  \A t \in TokenId : token[t] # None => token'[t] # None
<1> USE NoneAssumption
<1>0. \A t \in TokenId : token[t] # None => token[t] \in TokenRecord
  BY DEF TypeInv, TypeOK
<1>1. CASE ProfileStep
  <2>1. \A n \in Nas, t \in TokenId : token[t] # None => WithoutNas(n)[t] # None
    <3> SUFFICES ASSUME NEW n \in Nas, NEW t \in TokenId, token[t] # None
                 PROVE  WithoutNas(n)[t] # None
      OBVIOUS
    <3>1. WithoutNas(n)[t] = [token[t] EXCEPT !.allow = @ \ {n}]
      BY DEF WithoutNas
    <3>2. WithoutNas(n)[t] \in TokenRecord
      BY <1>0, <3>1, TokenEdits, ZenonT(60)
    <3> QED BY <3>2
  <2> QED
    BY <1>1, <2>1 DEF ProfileStep, CreateProfile, UpdateProfile, DeleteProfile, tokenVars
<1>2. CASE TokenStep
  <2> SUFFICES ASSUME NEW t \in TokenId,
                      NEW r \in TokenRecord, token' = [token EXCEPT ![t] = r]
               PROVE  \A u \in TokenId : token[u] # None => token'[u] # None
    <3>1. \A t \in TokenId, s \in Secret, in \in TokenInput :
             NewTokenRecord(s, in) \in TokenRecord
      BY InputAssumption DEF NewTokenRecord, TokenRecord, Expiry, TypeOK, TypeInv
    <3>2. 1 .. MaxTime \subseteq Nat
      BY ConstantsAssumption
    <3> QED
      BY <1>0, <1>2, <3>1, <3>2, TokenEdits
      DEF TokenStep, CreateMCPToken, RotateMCPToken, RevokeMCPToken, ExpireMCPToken
  <2> QED BY DEF TypeInv, TypeOK
<1>3. CASE OAuthStep
  <2>1. ASSUME NEW t \in TokenId, NEW access \in Secret, NEW renew \in Secret,
               NEW cl \in Client, NEW in \in TokenInput,
               IssueOAuthTokenSet(t, access, renew, cl, in)
        PROVE  \A u \in TokenId : token[u] # None => token'[u] # None
    BY <2>1 DEF IssueOAuthTokenSet, TypeInv, TypeOK
  <2>2. ASSUME NEW old \in Secret, NEW cl \in Client, NEW access \in Secret,
               NEW renew \in Secret, RefreshOAuthTokenSet(old, cl, access, renew)
        PROVE  \A u \in TokenId : token[u] # None => token'[u] # None
    <3>1. refresh[old].token \in TokenId /\ now + AccessTTL \in Nat
      BY <2>2, ConstantsAssumption
      DEF RefreshOAuthTokenSet, TypeInv, TypeOK, RefreshRecord
    <3>2. [token[refresh[old].token] EXCEPT !.digest = access,
                                            !.expires = now + AccessTTL]
            \in TokenRecord
      BY <1>0, <2>2, <3>1, TokenEdits DEF RefreshOAuthTokenSet
    <3> QED
      BY <2>2, <3>1, <3>2 DEF RefreshOAuthTokenSet, TypeInv, TypeOK
  <2> QED BY <1>3, <2>1, <2>2 DEF OAuthStep
<1>4. CASE ApprovalStep \/ CallStep \/ Restart \/ Tick \/ UNCHANGED vars
  BY <1>4 DEF ApprovalStep, CreateApproval, CreateApprovalTx, ApprovePendingApproval,
     DismissPendingApproval, PendingApprovals, CallStep, Authenticate, AuthorizeApply,
     MakePlan, FinishPlan, Refuse, AdmitMediumRisk, AdmitApproved, AdmitInteractive,
     RequireInteractive, AcceptElicitation, AdmitCommitFails, Restart, Tick, vars,
     tokenVars
<1> QED
  BY <1>1, <1>2, <1>3, <1>4 DEF Next

\* Only the remote calls' own steps and a restart touch the calls in flight.
LEMMA StoreStepKeepsCalls ==
  ASSUME ProfileStep \/ TokenStep \/ OAuthStep \/ ApprovalStep \/ Tick
  PROVE  UNCHANGED call
<1>1. CASE ProfileStep
  BY <1>1 DEF ProfileStep, CreateProfile, UpdateProfile, DeleteProfile
<1>2. CASE TokenStep
  BY <1>2 DEF TokenStep, CreateMCPToken, RotateMCPToken, RevokeMCPToken, ExpireMCPToken
<1>3. CASE OAuthStep
  <2>1. ASSUME NEW t, NEW access, NEW renew, NEW cl, NEW in,
               IssueOAuthTokenSet(t, access, renew, cl, in)
        PROVE  UNCHANGED call
    BY <2>1 DEF IssueOAuthTokenSet
  <2>2. ASSUME NEW old, NEW cl, NEW access, NEW renew,
               RefreshOAuthTokenSet(old, cl, access, renew)
        PROVE  UNCHANGED call
    BY <2>2 DEF RefreshOAuthTokenSet
  <2> QED BY <1>3, <2>1, <2>2 DEF OAuthStep
<1>4. CASE ApprovalStep
  <2>1. ASSUME NEW h \in Plans, NEW n \in Nas, NEW t \in TokenId,
               NEW ttl \in 1 .. ApprovalTTL, CreateApproval(h, n, t, ttl)
        PROVE  UNCHANGED call
    BY <2>1 DEF CreateApproval, CreateApprovalTx
  <2>2. ASSUME NEW r \in requests, ApprovePendingApproval(r)
        PROVE  UNCHANGED call
    BY <2>2 DEF ApprovePendingApproval, CreateApprovalTx
  <2> QED
    BY <1>4, <2>1, <2>2 DEF ApprovalStep, DismissPendingApproval, PendingApprovals
<1>5. CASE Tick
  BY <1>5 DEF Tick
<1> QED
  BY <1>1, <1>2, <1>3, <1>4, <1>5

\* Every step keeps the calls bound to their tokens and plans.
LEMMA CallsBoundStep ==
  ASSUME TypeInv, [Next]_vars
  PROVE  CallsBound'
<1>1. CASE UNCHANGED call
  BY <1>1, TokensPersist DEF TypeInv, CallsBound
<1>2. CASE CallStep
  <2> SUFFICES ASSUME NEW c \in Call,
                      \/ \E s \in Secret : Authenticate(c, s)
                      \/ \E p \in Plans : AuthorizeApply(c, p) \/ MakePlan(c, p)
                      \/ FinishPlan(c) \/ Refuse(c)
                      \/ AdmitMediumRisk(c) \/ AdmitApproved(c)
                      \/ AdmitInteractive(c) \/ RequireInteractive(c)
                      \/ AcceptElicitation(c) \/ AdmitCommitFails(c)
               PROVE  CallsBound'
    BY <1>2 DEF CallStep
  <2>0. /\ call \in [Call -> CallRecord] /\ call[c] \in CallRecord
        /\ CallsBound
    BY DEF TypeInv, TypeOK
  <2>1. UNCHANGED token
    BY DEF Authenticate, AuthorizeApply, MakePlan, FinishPlan, Refuse, AdmitMediumRisk,
           AdmitApproved, AdmitInteractive, RequireInteractive, AcceptElicitation,
           AdmitCommitFails, tokenVars
  <2>2. ASSUME call[c].pc # "idle", call'[c].token = call[c].token,
               \/ call'[c].pc \in {"authenticated", "ended"}
               \/ call'[c].plan \in Plan,
               \A d \in Call : d # c => call'[d] = call[d]
        PROVE  CallsBound'
    BY <2>0, <2>1, <2>2 DEF CallsBound
  <2>4. ASSUME NEW s \in Secret, Authenticate(c, s)
        PROVE  CallsBound'
    <3>1. digest[s] \in TokenId /\ token[digest[s]] \in TokenRecord
      BY <2>4 DEF TypeInv, TypeOK, Authenticate, Active
    <3>2. call'[c].token = digest[s] /\ call'[c].pc = "authenticated"
      BY <2>0, <2>4 DEF Authenticate, IdleCall
    <3> QED
      BY <2>0, <2>1, <2>4, <3>1, <3>2, NoneAssumption DEF CallsBound, Authenticate
  <2>5. ASSUME NEW p \in Plans, AuthorizeApply(c, p) \/ MakePlan(c, p)
        PROVE  CallsBound'
    <3>1. p \in Plan
      BY ConstantsAssumption DEF Plan, Plans
    <3>2. call[c].pc = "authenticated"
      BY <2>5 DEF AuthorizeApply, MakePlan, MayTarget
    <3> QED
      BY <2>0, <2>2, <2>5, <3>1, <3>2, ZenonT(60) DEF AuthorizeApply, MakePlan, CallRecord
  <2>6. CASE FinishPlan(c)
    BY <2>0, <2>2, <2>6 DEF FinishPlan, CallRecord
  <2>7. CASE Refuse(c)
    BY <2>0, <2>2, <2>7 DEF Refuse, CallRecord
  <2>8. CASE AcceptElicitation(c)
    <3>1. call[c].plan \in Plan
      BY <2>0, <2>8 DEF CallsBound, AcceptElicitation
    <3> QED
      BY <2>0, <2>2, <2>8, <3>1 DEF AcceptElicitation, CallRecord
  <2>9. CASE AdmitCommitFails(c)
    BY <2>0, <2>2, <2>9 DEF AdmitCommitFails, CallRecord
  <2>10. ASSUME Admissible(c)
         PROVE  call[c].pc # "idle" /\ call[c].plan \in Plan
    BY <2>0, <2>10 DEF Admissible, CallsBound
  <2>11. CASE RequireInteractive(c)
    BY <2>0, <2>2, <2>10, <2>11 DEF RequireInteractive, CallRecord
  <2>12. CASE AdmitMediumRisk(c)
    BY <2>0, <2>2, <2>10, <2>12 DEF AdmitMediumRisk, Admitted, CallRecord
  <2>13. CASE AdmitApproved(c)
    <3>1. PICK a : call' = [call EXCEPT ![c] = Admitted(c, a)]
      BY <2>13 DEF AdmitApproved
    <3> QED
      BY <2>0, <2>2, <2>10, <2>13, <3>1 DEF AdmitApproved, Admitted, CallRecord
  <2>14. CASE AdmitInteractive(c)
    BY <2>0, <2>2, <2>10, <2>14 DEF AdmitInteractive, Admitted, CallRecord
  <2> QED
    BY <2>4, <2>5, <2>6, <2>7, <2>8, <2>9, <2>11, <2>12, <2>13, <2>14
<1>3. CASE Restart
  BY <1>3, TokensPersist DEF TypeInv, TypeOK, CallsBound, Restart, CallRecord
<1>4. CASE ProfileStep \/ TokenStep \/ OAuthStep \/ ApprovalStep \/ Tick
  BY <1>1, <1>4, StoreStepKeepsCalls
<1> QED
  BY <1>1, <1>2, <1>3, <1>4 DEF Next, vars

\* Every state reached by the gateway's operations is well typed.
THEOREM TypeCorrect == Spec => []TypeOK
<1>1. Init => TypeInv
  BY ConstantsAssumption, NoneAssumption
  DEF Init, TypeInv, TypeOK, CallsBound, IdleCall, CallRecord, PC
<1>2. TypeInv /\ [Next]_vars => TypeInv'
  BY TypeStep, CallsBoundStep DEF TypeInv
<1>3. TypeInv => TypeOK
  BY DEF TypeInv
<1> QED
  BY <1>1, <1>2, <1>3, PTL DEF Spec

===========================================================================
