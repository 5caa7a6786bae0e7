---------------------- MODULE GatewayAdmissionProofs ----------------------
(***************************************************************************)
(* Every remote apply is admitted by an authority of its own.              *)
(*                                                                         *)
(* AdmissionBacked alone is not inductive: that an approval stays what its *)
(* administrator saw needs the revision to name the profile's content, in  *)
(* the store, in the approvals and in the admitted calls.                  *)
(***************************************************************************)
EXTENDS GatewayAuthorityProofs, FiniteSetTheorems

\* One counter numbers the commits, so a revision names a profile's content.
RevisionNamesContent ==
  /\ revisionCounter = edits
  /\ \A n \in Nas : revision[n] # 0 => content[n] = revision[n]

ApprovalNamesContent ==
  \A a \in ApprovalId : approval[a] # None => approval[a].content = approval[a].rev

AdmittedContent ==
  \A c \in Call : call[c].pc = "admitted" => call[c].content = call[c].plan.rev

AdmissionInv ==
  /\ TypeInv
  /\ RevisionNamesContent /\ ApprovalNamesContent /\ AdmittedContent
  /\ AdmissionBacked /\ ApprovalUsedOnce

\* y is the approval x, possibly consumed since.
SameApproval(x, y) ==
  /\ y # None
  /\ y.hash = x.hash /\ y.nas = x.nas /\ y.rev = x.rev /\ y.token = x.token
  /\ y.content = x.content /\ y.expires = x.expires
  /\ x.consumed => y.consumed

\* The step creates no approval, or one that names its revision's content.
ApprovalsGrow ==
  \/ UNCHANGED approval
  \/ \E a \in ApprovalId : \E r \in ApprovalRecord :
       /\ approval[a] = None
       /\ r.content = r.rev
       /\ approval' = [approval EXCEPT ![a] = r]

\* Apart from an administrator's approval and a call's admission under one,
\* no operation touches the approvals.
LEMMA OthersKeepApprovals ==
  ASSUME [Next]_vars, ~ApprovalStep, \A c \in Call : ~AdmitApproved(c)
  PROVE  UNCHANGED approval
<1>1. CASE ProfileStep
  BY <1>1 DEF ProfileStep, CreateProfile, UpdateProfile, DeleteProfile, approvalVars
<1>2. CASE TokenStep
  BY <1>2 DEF TokenStep, CreateMCPToken, RotateMCPToken, RevokeMCPToken,
              ExpireMCPToken, approvalVars
<1>3. CASE OAuthStep
  <2>1. ASSUME NEW t, NEW access, NEW renew, NEW cl, NEW in,
               IssueOAuthTokenSet(t, access, renew, cl, in)
        PROVE  UNCHANGED approval
    BY <2>1 DEF IssueOAuthTokenSet, approvalVars
  <2>2. ASSUME NEW old, NEW cl, NEW access, NEW renew,
               RefreshOAuthTokenSet(old, cl, access, renew)
        PROVE  UNCHANGED approval
    BY <2>2 DEF RefreshOAuthTokenSet, approvalVars
  <2> QED BY <1>3, <2>1, <2>2 DEF OAuthStep
<1>4. CASE CallStep
  BY <1>4 DEF CallStep, Authenticate, AuthorizeApply, MakePlan, FinishPlan, Refuse,
     AdmitMediumRisk, AdmitInteractive, RequireInteractive, AcceptElicitation,
     AdmitCommitFails, approvalVars
<1>5. CASE Restart \/ Tick \/ UNCHANGED vars
  BY <1>5 DEF Restart, Tick, vars, approvalVars
<1> QED
  BY <1>1, <1>2, <1>3, <1>4, <1>5 DEF Next

\* createApprovalTx finds the approval already there or adds one.
LEMMA CreationGrows ==
  ASSUME TypeInv, RevisionNamesContent,
         NEW h \in Plan, NEW n \in Nas, NEW rev \in Nat, NEW t \in TokenId,
         NEW ttl \in Nat, CreateApprovalTx(h, n, rev, t, ttl)
  PROVE  ApprovalsGrow
<1>1. token[t] \in TokenRecord
  BY DEF CreateApprovalTx, Approvable, Active, TypeOK, TypeInv
<1> DEFINE r == [hash |-> h, nas |-> n, rev |-> rev, token |-> t,
                 expires |-> now + ttl, consumed |-> FALSE,
                 content |-> content[n]]
<1>2. r \in ApprovalRecord
  BY <1>1 DEF ApprovalRecord, TokenRecord, TypeOK, TypeInv
<1>3. r.content = r.rev
  BY DEF CreateApprovalTx, Approvable, RevisionNamesContent
<1> HIDE DEF r
<1> QED
  BY <1>2, <1>3 DEF CreateApprovalTx, ApprovalsGrow, r

\* So does every operation on approvals and pending requests.
LEMMA ApprovalStepGrows ==
  ASSUME TypeInv, RevisionNamesContent, ApprovalStep
  PROVE  ApprovalsGrow
<1>1. ASSUME NEW h \in Plans, NEW n \in Nas, NEW t \in TokenId,
             NEW ttl \in 1 .. ApprovalTTL, CreateApproval(h, n, t, ttl)
      PROVE  ApprovalsGrow
  <2>1. h \in Plan /\ revision[n] \in Nat /\ ttl \in Nat
    BY ConstantsAssumption DEF Plan, Plans, TypeInv, TypeOK
  <2> QED BY <1>1, <2>1, CreationGrows DEF CreateApproval
<1>2. ASSUME NEW r \in requests, ApprovePendingApproval(r)
      PROVE  ApprovalsGrow
  <2>1. /\ r.plan \in Plan /\ r.plan.nas \in Nas /\ r.plan.rev \in Nat
        /\ r.token \in TokenId /\ ApprovalTTL \in Nat
    BY ConstantsAssumption DEF TypeInv, TypeOK, RequestRecord, Plan
  <2> QED BY <1>2, <2>1, CreationGrows DEF ApprovePendingApproval
<1>3. ASSUME NEW r \in requests, DismissPendingApproval(r)
      PROVE  ApprovalsGrow
  BY <1>3 DEF DismissPendingApproval, ApprovalsGrow
<1>4. CASE PendingApprovals
  BY <1>4 DEF PendingApprovals, ApprovalsGrow
<1> QED
  BY <1>1, <1>2, <1>3, <1>4 DEF ApprovalStep

\* An admission under approval a consumes a, which was not consumed.
LEMMA AdmitApprovedEffect ==
  ASSUME TypeInv, NEW c \in Call, AdmitApproved(c)
  PROVE  \E a \in ApprovalId :
           /\ approval[a] \in ApprovalRecord /\ ~approval[a].consumed
           /\ approval[a].hash = call[c].plan /\ approval[a].nas = call[c].plan.nas
           /\ approval[a].rev = call[c].plan.rev
           /\ approval[a].token = call[c].token
           /\ approval' = [approval EXCEPT ![a] = [@ EXCEPT !.consumed = TRUE]]
           /\ call' = [call EXCEPT ![c] = Admitted(c, a)]
BY DEF AdmitApproved, ApprovalsFor, Matches, TypeInv, TypeOK

\* No step changes what an approval binds, or takes back its consumption.
LEMMA ApprovalsPersist ==
  ASSUME TypeInv, RevisionNamesContent, [Next]_vars
  PROVE  \A a \in ApprovalId :
           approval[a] # None => SameApproval(approval[a], approval'[a])
<1>0. /\ approval \in [ApprovalId -> ApprovalRecord \union {None}]
      /\ \A a \in ApprovalId : approval[a] # None => approval[a] \in ApprovalRecord
  BY DEF TypeInv, TypeOK
<1>1. CASE UNCHANGED approval
  BY <1>1 DEF SameApproval
<1>2. CASE ApprovalStep
  BY <1>0, <1>1, <1>2, ApprovalStepGrows DEF ApprovalsGrow, SameApproval
<1>3. ASSUME NEW c \in Call, AdmitApproved(c)
      PROVE  \A a \in ApprovalId :
               approval[a] # None => SameApproval(approval[a], approval'[a])
  <2>1. PICK a \in ApprovalId :
          /\ approval[a] \in ApprovalRecord
          /\ approval' = [approval EXCEPT ![a] = [@ EXCEPT !.consumed = TRUE]]
    BY <1>3, AdmitApprovedEffect
  <2>2. [approval[a] EXCEPT !.consumed = TRUE] \in ApprovalRecord
    BY <2>1 DEF ApprovalRecord
  <2>3. SameApproval(approval[a], [approval[a] EXCEPT !.consumed = TRUE])
    BY <2>1, <2>2, NoneAssumption DEF SameApproval, ApprovalRecord
  <2>4. \A b \in ApprovalId : b # a => approval'[b] = approval[b]
    BY <1>0, <2>1
  <2> QED
    BY <1>0, <2>1, <2>3, <2>4 DEF SameApproval
<1> QED
  BY <1>1, <1>2, <1>3, OthersKeepApprovals

\* A call that is admitted after a step was admitted before it, unchanged, or
\* has just been admitted.
LEMMA AdmissionSteps ==
  ASSUME TypeInv, [Next]_vars, NEW c \in Call, call'[c].pc = "admitted"
  PROVE  \/ call'[c] = call[c]
         \/ AdmitMediumRisk(c) \/ AdmitApproved(c) \/ AdmitInteractive(c)
<1>0. call \in [Call -> CallRecord]
  BY DEF TypeInv, TypeOK
<1>1. CASE UNCHANGED call
  BY <1>1
<1>2. CASE Restart
  BY <1>0, <1>2 DEF Restart, CallRecord
<1>3. CASE CallStep
  <2>1. PICK d \in Call :
          \/ \E s \in Secret : Authenticate(d, s)
          \/ \E p \in Plans : AuthorizeApply(d, p) \/ MakePlan(d, p)
          \/ FinishPlan(d) \/ Refuse(d)
          \/ AdmitMediumRisk(d) \/ AdmitApproved(d)
          \/ AdmitInteractive(d) \/ RequireInteractive(d)
          \/ AcceptElicitation(d) \/ AdmitCommitFails(d)
    BY <1>3 DEF CallStep
  <2>2. CASE d # c
    <3>1. \E r : call' = [call EXCEPT ![d] = r]
      BY <2>1 DEF Authenticate, AuthorizeApply, MakePlan, FinishPlan, Refuse,
         AdmitMediumRisk, AdmitApproved, AdmitInteractive, RequireInteractive,
         AcceptElicitation, AdmitCommitFails
    <3> QED BY <1>0, <2>2, <3>1
  <2>3. CASE d = c
    <3>2. \A s \in Secret : ~Authenticate(c, s)
      BY <1>0 DEF Authenticate, IdleCall
    <3>3. \A p \in Plans : ~AuthorizeApply(c, p) /\ ~MakePlan(c, p)
      BY <1>0, ZenonT(60) DEF AuthorizeApply, MakePlan, CallRecord
    <3>4. ~FinishPlan(c) /\ ~Refuse(c) /\ ~RequireInteractive(c)
      BY <1>0 DEF FinishPlan, Refuse, RequireInteractive, CallRecord
    <3>5. ~AcceptElicitation(c) /\ ~AdmitCommitFails(c)
      BY <1>0 DEF AcceptElicitation, AdmitCommitFails, CallRecord
    <3> QED BY <2>1, <2>3, <3>2, <3>3, <3>4, <3>5
  <2> QED BY <2>2, <2>3
<1>4. CASE ProfileStep \/ TokenStep \/ OAuthStep \/ ApprovalStep \/ Tick
  BY <1>1, <1>4, StoreStepKeepsCalls
<1> QED
  BY <1>1, <1>2, <1>3, <1>4 DEF Next, vars

\* Every profile commit keeps the revision the name of the content.
LEMMA RevisionStep ==
  ASSUME TypeInv, RevisionNamesContent, [Next]_vars
  PROVE  RevisionNamesContent'
<1>1. CASE UNCHANGED profileVars
  BY <1>1 DEF RevisionNamesContent, profileVars
<1>2. ASSUME NEW n \in Nas, CommitRevision(n)
      PROVE  RevisionNamesContent'
  BY <1>2 DEF CommitRevision, NextProfileRevision, RevisionNamesContent, TypeInv, TypeOK
<1>3. ASSUME NEW n \in Nas, DeleteProfile(n)
      PROVE  RevisionNamesContent'
  BY <1>3 DEF DeleteProfile, RevisionNamesContent, TypeInv, TypeOK
<1>4. CASE ProfileStep
  BY <1>2, <1>3, <1>4 DEF ProfileStep, CreateProfile, UpdateProfile
<1>5. CASE TokenStep
  BY <1>1, <1>5 DEF TokenStep, CreateMCPToken, RotateMCPToken, RevokeMCPToken,
                    ExpireMCPToken
<1>6. CASE OAuthStep
  <2>1. ASSUME NEW t, NEW access, NEW renew, NEW cl, NEW in,
               IssueOAuthTokenSet(t, access, renew, cl, in)
        PROVE  UNCHANGED profileVars
    BY <2>1 DEF IssueOAuthTokenSet
  <2>2. ASSUME NEW old, NEW cl, NEW access, NEW renew,
               RefreshOAuthTokenSet(old, cl, access, renew)
        PROVE  UNCHANGED profileVars
    BY <2>2 DEF RefreshOAuthTokenSet
  <2> QED BY <1>1, <1>6, <2>1, <2>2 DEF OAuthStep
<1>7. CASE ApprovalStep
  <2>1. ASSUME NEW h, NEW n, NEW t, NEW ttl, CreateApproval(h, n, t, ttl)
        PROVE  UNCHANGED profileVars
    BY <2>1 DEF CreateApproval, CreateApprovalTx
  <2>2. ASSUME NEW r, ApprovePendingApproval(r)
        PROVE  UNCHANGED profileVars
    BY <2>2 DEF ApprovePendingApproval, CreateApprovalTx
  <2> QED
    BY <1>1, <1>7, <2>1, <2>2 DEF ApprovalStep, DismissPendingApproval, PendingApprovals
<1>8. CASE CallStep
  BY <1>1, <1>8 DEF CallStep, Authenticate, AuthorizeApply, MakePlan, FinishPlan,
     Refuse, AdmitMediumRisk, AdmitApproved, AdmitInteractive, RequireInteractive,
     AcceptElicitation, AdmitCommitFails
<1>9. CASE Restart \/ Tick \/ UNCHANGED vars
  BY <1>1, <1>9 DEF Restart, Tick, vars
<1> QED
  BY <1>4, <1>5, <1>6, <1>7, <1>8, <1>9 DEF Next

\* New approvals name their revision's content, old ones do not change.
LEMMA ApprovalContentStep ==
  ASSUME AdmissionInv, [Next]_vars
  PROVE  ApprovalNamesContent'
<1>0. /\ TypeInv /\ RevisionNamesContent /\ ApprovalNamesContent
      /\ approval \in [ApprovalId -> ApprovalRecord \union {None}]
  BY DEF AdmissionInv, TypeInv, TypeOK
<1>1. CASE ApprovalStep
  BY <1>0, <1>1, ApprovalStepGrows DEF ApprovalsGrow, ApprovalNamesContent
<1>2. CASE \A a \in ApprovalId : approval[a] = None => approval'[a] = None
  BY <1>0, <1>2, ApprovalsPersist DEF ApprovalNamesContent, SameApproval
<1>3. ASSUME NEW c \in Call, AdmitApproved(c)
      PROVE  \A a \in ApprovalId : approval[a] = None => approval'[a] = None
  BY <1>0, <1>3, AdmitApprovedEffect, NoneAssumption
<1> QED
  BY <1>1, <1>2, <1>3, OthersKeepApprovals

\* y is the token record x under a later policy: same mode, no more access.
Narrowed(x, y) ==
  /\ y.mode = x.mode /\ y.allow \subseteq x.allow
  /\ x.revoked => y.revoked

\* No operation changes the approval mode of a token, gives it a NAS, or takes
\* back that it was revoked.
LEMMA TokensNarrow ==
  ASSUME TypeInv, [Next]_vars
  PROVE  \A t \in TokenId : token[t] # None => Narrowed(token[t], token'[t])
<1>0. /\ token \in [TokenId -> TokenRecord \union {None}]
      /\ \A t \in TokenId : token[t] # None => token[t] \in TokenRecord
  BY DEF TypeInv, TypeOK
<1>1. CASE UNCHANGED token
  BY <1>1 DEF Narrowed
<1>2. ASSUME NEW n \in Nas, DeleteProfile(n)
      PROVE  \A t \in TokenId : token[t] # None => Narrowed(token[t], token'[t])
  <2> SUFFICES ASSUME NEW t \in TokenId, token[t] # None
               PROVE  Narrowed(token[t], token'[t])
    OBVIOUS
  <2>1. token'[t] = [token[t] EXCEPT !.allow = @ \ {n}]
    BY <1>2 DEF DeleteProfile, WithoutNas
  <2> QED BY <1>0, <2>1 DEF TokenRecord, Narrowed
<1>3. ASSUME NEW t \in TokenId, NEW s \in Secret, NEW in \in TokenInput,
             CreateMCPToken(t, s, in)
      PROVE  \A u \in TokenId : token[u] # None => Narrowed(token[u], token'[u])
  BY <1>0, <1>3 DEF CreateMCPToken, Narrowed
<1>4. ASSUME NEW t \in TokenId,
             \/ \E s \in Secret : RotateMCPToken(t, s)
             \/ RevokeMCPToken(t)
             \/ \E at \in 1 .. MaxTime : ExpireMCPToken(t, at)
      PROVE  \A u \in TokenId : token[u] # None => Narrowed(token[u], token'[u])
  <2>1. token[t] \in TokenRecord
    BY <1>0, <1>4 DEF RotateMCPToken, RevokeMCPToken, ExpireMCPToken
  <2>2. Narrowed(token[t], token'[t])
    <3>1. ASSUME NEW s \in Secret, RotateMCPToken(t, s)
          PROVE  Narrowed(token[t], token'[t])
      BY <1>0, <2>1, <3>1 DEF RotateMCPToken, TokenRecord, Narrowed
    <3>2. CASE RevokeMCPToken(t)
      BY <1>0, <2>1, <3>2 DEF RevokeMCPToken, TokenRecord, Narrowed
    <3>3. ASSUME NEW at \in 1 .. MaxTime, ExpireMCPToken(t, at)
          PROVE  Narrowed(token[t], token'[t])
      BY <1>0, <2>1, <3>3 DEF ExpireMCPToken, TokenRecord, Narrowed
    <3> QED BY <1>4, <3>1, <3>2, <3>3
  <2>3. \A u \in TokenId : u # t => token'[u] = token[u]
    BY <1>0, <1>4 DEF RotateMCPToken, RevokeMCPToken, ExpireMCPToken
  <2> QED BY <2>2, <2>3 DEF Narrowed
<1>5. ASSUME NEW t \in TokenId, NEW access \in Secret, NEW renew \in Secret,
             NEW cl \in Client, NEW in \in TokenInput,
             IssueOAuthTokenSet(t, access, renew, cl, in)
      PROVE  \A u \in TokenId : token[u] # None => Narrowed(token[u], token'[u])
  BY <1>0, <1>5 DEF IssueOAuthTokenSet, Narrowed
<1>6. ASSUME NEW old \in Secret, NEW cl \in Client, NEW access \in Secret,
             NEW renew \in Secret, RefreshOAuthTokenSet(old, cl, access, renew)
      PROVE  \A u \in TokenId : token[u] # None => Narrowed(token[u], token'[u])
  <2> DEFINE t == refresh[old].token
  <2>1. t \in TokenId
    BY <1>6 DEF RefreshOAuthTokenSet, TypeInv, TypeOK, RefreshRecord
  <2>2. token[t] \in TokenRecord
    BY <1>0, <1>6, <2>1 DEF RefreshOAuthTokenSet
  <2>3. token' = [token EXCEPT ![t] = [@ EXCEPT !.digest = access,
                                                !.expires = now + AccessTTL]]
    BY <1>6 DEF RefreshOAuthTokenSet
  <2> HIDE DEF t
  <2>4. Narrowed(token[t], token'[t])
    BY <1>0, <2>1, <2>2, <2>3 DEF TokenRecord, Narrowed
  <2> QED BY <1>0, <2>3, <2>4 DEF Narrowed
<1>7. CASE ProfileStep
  BY <1>1, <1>2, <1>7 DEF ProfileStep, CreateProfile, UpdateProfile, tokenVars
<1>8. CASE ApprovalStep
  <2>1. ASSUME NEW h, NEW n, NEW t, NEW ttl, CreateApproval(h, n, t, ttl)
        PROVE  UNCHANGED token
    BY <2>1 DEF CreateApproval, CreateApprovalTx, tokenVars
  <2>2. ASSUME NEW r, ApprovePendingApproval(r)
        PROVE  UNCHANGED token
    BY <2>2 DEF ApprovePendingApproval, CreateApprovalTx, tokenVars
  <2> QED
    BY <1>1, <1>8, <2>1, <2>2
    DEF ApprovalStep, DismissPendingApproval, PendingApprovals, tokenVars
<1>9. CASE CallStep
  BY <1>1, <1>9 DEF CallStep, Authenticate, AuthorizeApply, MakePlan, FinishPlan,
     Refuse, AdmitMediumRisk, AdmitApproved, AdmitInteractive, RequireInteractive,
     AcceptElicitation, AdmitCommitFails, tokenVars
<1>10. CASE Restart \/ Tick \/ UNCHANGED vars
  BY <1>1, <1>10 DEF Restart, Tick, vars, tokenVars
<1> QED
  BY <1>3, <1>4, <1>5, <1>6, <1>7, <1>8, <1>9, <1>10 DEF Next, TokenStep, OAuthStep

\* What a call's own admission leaves in its record.
LEMMA AdmittedFields ==
  ASSUME TypeInv, NEW c \in Call, NEW via, Admissible(c)
  PROVE  /\ Admitted(c, via).plan = call[c].plan
         /\ Admitted(c, via).token = call[c].token
         /\ Admitted(c, via).grant = call[c].grant
         /\ Admitted(c, via).via = via
         /\ Admitted(c, via).pc = "admitted"
         /\ Admitted(c, via).content = content[call[c].plan.nas]
BY DEF TypeInv, TypeOK, CallRecord, Admitted

\* A call is admitted against the content its plan's revision names.
LEMMA AdmittedContentStep ==
  ASSUME AdmissionInv, [Next]_vars
  PROVE  AdmittedContent'
<1> SUFFICES ASSUME NEW c \in Call, call'[c].pc = "admitted"
             PROVE  call'[c].content = call'[c].plan.rev
  BY DEF AdmittedContent
<1>0. TypeInv /\ call \in [Call -> CallRecord]
  BY DEF AdmissionInv, TypeInv, TypeOK
<1>1. CASE call'[c] = call[c]
  BY <1>1 DEF AdmissionInv, AdmittedContent
<1>2. ASSUME NEW via, Admissible(c),
             \/ call' = [call EXCEPT ![c] = Admitted(c, via)]
             \/ call' = [call EXCEPT ![c] = [Admitted(c, via) EXCEPT !.grant = "used"]]
      PROVE  call'[c].content = call'[c].plan.rev
  <2>1. call[c].plan \in Plan /\ content[call[c].plan.nas] = call[c].plan.rev
    BY <1>2 DEF AdmissionInv, TypeInv, CallsBound, Admissible, RevisionNamesContent, Plan
  <2>2. /\ call'[c].content = Admitted(c, via).content
        /\ call'[c].plan = Admitted(c, via).plan
    <3>1. /\ [Admitted(c, via) EXCEPT !.grant = "used"].content = Admitted(c, via).content
          /\ [Admitted(c, via) EXCEPT !.grant = "used"].plan = Admitted(c, via).plan
      BY <1>0 DEF Admitted, CallRecord
    <3>2. CASE call' = [call EXCEPT ![c] = Admitted(c, via)]
      BY <1>0, <3>2
    <3>3. CASE call' = [call EXCEPT ![c] = [Admitted(c, via) EXCEPT !.grant = "used"]]
      BY <1>0, <3>1, <3>3
    <3> QED BY <1>2, <3>2, <3>3
  <2> QED BY <1>0, <1>2, <2>1, <2>2, AdmittedFields
<1> QED
  BY <1>0, <1>1, <1>2, AdmissionSteps
  DEF AdmitMediumRisk, AdmitApproved, AdmitInteractive

\* Every admission, old or new, is backed.
LEMMA AdmissionBackedStep ==
  ASSUME AdmissionInv, [Next]_vars
  PROVE  AdmissionBacked'
<1>0. /\ TypeInv /\ RevisionNamesContent /\ AdmissionBacked
      /\ call \in [Call -> CallRecord]
  BY DEF AdmissionInv, TypeInv, TypeOK
<1> SUFFICES ASSUME NEW c \in Call, call'[c].pc = "admitted"
             PROVE  Backed(c)'
  BY DEF AdmissionBacked
<1>1. CASE call'[c] = call[c]
  <2>1. Backed(c) /\ call[c].token \in TokenId
    BY <1>0, <1>1 DEF AdmissionBacked, TypeInv, CallsBound
  <2> QED
    BY <1>0, <1>1, <2>1, ApprovalsPersist, TokensPersist, TokensNarrow
    DEF Backed, SameApproval, Narrowed
<1>2. CASE AdmitMediumRisk(c)
  <2>1. call'[c] = Admitted(c, "none") /\ Admissible(c) /\ call[c].plan.risk # "high"
    BY <1>0, <1>2 DEF AdmitMediumRisk
  <2> QED
    BY <1>0, <2>1, AdmittedFields, ViaAssumption DEF Backed
<1>3. CASE AdmitApproved(c)
  <2>1. PICK a \in ApprovalId :
           /\ approval[a] \in ApprovalRecord
           /\ approval[a].hash = call[c].plan /\ approval[a].nas = call[c].plan.nas
           /\ approval[a].rev = call[c].plan.rev
           /\ approval[a].token = call[c].token
           /\ approval' = [approval EXCEPT ![a] = [@ EXCEPT !.consumed = TRUE]]
           /\ call' = [call EXCEPT ![c] = Admitted(c, a)]
    BY <1>0, <1>3, AdmitApprovedEffect
  <2>2. call'[c] = Admitted(c, a) /\ Admissible(c)
    BY <1>0, <1>3, <2>1 DEF AdmitApproved
  <2>3. SameApproval(approval[a], approval'[a]) /\ approval'[a].consumed
    BY <1>0, <2>1, ApprovalsPersist, NoneAssumption
    DEF TypeInv, TypeOK, ApprovalRecord
  <2>4. call'[c].content = approval[a].content
    <3>1. call'[c].content = call'[c].plan.rev
      BY AdmittedContentStep DEF AdmittedContent
    <3>2. approval[a].content = approval[a].rev
      BY <2>1, NoneAssumption DEF AdmissionInv, ApprovalNamesContent
    <3> QED BY <1>0, <2>1, <2>2, <3>1, <3>2, AdmittedFields
  <2> QED
    BY <1>0, <2>1, <2>2, <2>3, <2>4, AdmittedFields, ViaAssumption DEF Backed, SameApproval
<1>4. CASE AdmitInteractive(c)
  <2>1. /\ call'[c] = [Admitted(c, "grant") EXCEPT !.grant = "used"]
        /\ Admissible(c) /\ token' = token
        /\ token[call[c].token].mode = "interactive" /\ token[call[c].token] # None
    BY <1>0, <1>4 DEF AdmitInteractive, Admissible, Active, tokenVars
  <2>2. /\ call'[c].via = "grant" /\ call'[c].grant = "used"
        /\ call'[c].token = call[c].token
    BY <1>0, <2>1 DEF Admitted, CallRecord
  <2> QED
    BY <2>1, <2>2, ViaAssumption DEF Backed
<1> QED
  BY <1>0, <1>1, <1>2, <1>3, <1>4, AdmissionSteps

\* A newly admitted call takes an approval no admitted call has used.
LEMMA UsedOnceStep ==
  ASSUME AdmissionInv, [Next]_vars
  PROVE  ApprovalUsedOnce'
<1>0. /\ TypeInv /\ RevisionNamesContent /\ AdmissionBacked /\ ApprovalUsedOnce
      /\ call \in [Call -> CallRecord]
  BY DEF AdmissionInv, TypeInv, TypeOK
<1>1. \A c \in Call :
        call'[c].pc = "admitted" /\ call'[c].via \in ApprovalId =>
          \/ call'[c] = call[c]
          \/ /\ AdmitApproved(c)
             /\ approval[call'[c].via] # None /\ ~approval[call'[c].via].consumed
             /\ \A d \in Call : d # c => call'[d] = call[d]
  <2> SUFFICES ASSUME NEW c \in Call, call'[c].pc = "admitted",
                      call'[c].via \in ApprovalId, call'[c] # call[c]
               PROVE  /\ AdmitApproved(c)
                      /\ approval[call'[c].via] # None
                      /\ ~approval[call'[c].via].consumed
                      /\ \A d \in Call : d # c => call'[d] = call[d]
    OBVIOUS
  <2>1. ~AdmitMediumRisk(c)
    BY <1>0, AdmittedFields, ViaAssumption DEF AdmitMediumRisk
  <2>2. ~AdmitInteractive(c)
    BY <1>0, ViaAssumption DEF AdmitInteractive, Admitted, CallRecord
  <2>3. AdmitApproved(c)
    BY <1>0, <2>1, <2>2, AdmissionSteps
  <2>4. PICK a \in ApprovalId :
           /\ approval[a] \in ApprovalRecord /\ ~approval[a].consumed
           /\ call' = [call EXCEPT ![c] = Admitted(c, a)]
    BY <1>0, <2>3, AdmitApprovedEffect
  <2>5. call'[c].via = a
    BY <1>0, <2>3, <2>4, AdmittedFields DEF AdmitApproved
  <2> QED
    BY <1>0, <2>3, <2>4, <2>5, NoneAssumption
<1>2. \A d \in Call :
        call[d].pc = "admitted" /\ call[d].via \in ApprovalId =>
          approval[call[d].via].consumed
  BY <1>0 DEF AdmissionBacked, Backed
<1> QED
  BY <1>0, <1>1, <1>2 DEF ApprovalUsedOnce

\* The strengthened invariant holds in every reachable state.
LEMMA AdmissionInvariant == Spec => []AdmissionInv
<1>1. Init => AdmissionInv
  BY ConstantsAssumption, NoneAssumption
  DEF Init, AdmissionInv, TypeInv, TypeOK, CallsBound, IdleCall, CallRecord, PC,
      RevisionNamesContent, ApprovalNamesContent, AdmittedContent, AdmissionBacked,
      ApprovalUsedOnce
<1>2. AdmissionInv /\ [Next]_vars => AdmissionInv'
  <2> SUFFICES ASSUME AdmissionInv, [Next]_vars PROVE AdmissionInv'
    OBVIOUS
  <2>1. TypeInv /\ RevisionNamesContent
    BY DEF AdmissionInv
  <2>2. TypeInv'
    BY <2>1, TypeStep, CallsBoundStep DEF TypeInv
  <2> QED
    BY <2>1, <2>2, RevisionStep, ApprovalContentStep, AdmittedContentStep,
       AdmissionBackedStep, UsedOnceStep DEF AdmissionInv
<1> QED
  BY <1>1, <1>2, PTL DEF Spec

\* A high-risk apply is admitted only by an approval or a grant that names
\* exactly it (AdmitRemoteApply), whatever else happens in the gateway.
THEOREM EveryAdmissionBacked == Spec => []AdmissionBacked
<1>1. AdmissionInv => AdmissionBacked
  BY DEF AdmissionInv
<1> QED BY <1>1, AdmissionInvariant, PTL

\* An approval admits one apply.
THEOREM OneAdmissionPerApproval == Spec => []ApprovalUsedOnce
<1>1. AdmissionInv => ApprovalUsedOnce
  BY DEF AdmissionInv
<1> QED BY <1>1, AdmissionInvariant, PTL

-----------------------------------------------------------------------------
(***************************************************************************)
(* The pending approval requests.                                          *)
(***************************************************************************)

RequestInv == TypeInv /\ IsFiniteSet(requests) /\ RequestsBounded

\* Apart from the end of a plan, no operation adds a pending request.
LEMMA OthersAddNoRequest ==
  ASSUME [Next]_vars, \A c \in Call : ~FinishPlan(c)
  PROVE  requests' \subseteq requests
<1>1. CASE ProfileStep
  BY <1>1 DEF ProfileStep, CreateProfile, UpdateProfile, DeleteProfile, approvalVars
<1>2. CASE TokenStep
  BY <1>2 DEF TokenStep, CreateMCPToken, RotateMCPToken, RevokeMCPToken,
              ExpireMCPToken, WithoutRequests, approvalVars
<1>3. CASE OAuthStep
  <2>1. ASSUME NEW t, NEW access, NEW renew, NEW cl, NEW in,
               IssueOAuthTokenSet(t, access, renew, cl, in)
        PROVE  UNCHANGED requests
    BY <2>1 DEF IssueOAuthTokenSet, approvalVars
  <2>2. ASSUME NEW old, NEW cl, NEW access, NEW renew,
               RefreshOAuthTokenSet(old, cl, access, renew)
        PROVE  UNCHANGED requests
    BY <2>2 DEF RefreshOAuthTokenSet, approvalVars
  <2> QED BY <1>3, <2>1, <2>2 DEF OAuthStep
<1>4. CASE ApprovalStep
  <2>1. ASSUME NEW h, NEW n, NEW t, NEW ttl, CreateApproval(h, n, t, ttl)
        PROVE  requests' \subseteq requests
    BY <2>1 DEF CreateApproval, CreateApprovalTx, WithoutMatching
  <2>2. ASSUME NEW r, ApprovePendingApproval(r)
        PROVE  requests' \subseteq requests
    BY <2>2 DEF ApprovePendingApproval, CreateApprovalTx, WithoutMatching
  <2> QED
    BY <1>4, <2>1, <2>2
    DEF ApprovalStep, DismissPendingApproval, PendingApprovals, Unexpired
<1>5. CASE CallStep
  BY <1>5 DEF CallStep, Authenticate, AuthorizeApply, MakePlan, Refuse,
     AdmitMediumRisk, AdmitApproved, AdmitInteractive, RequireInteractive,
     AcceptElicitation, AdmitCommitFails, approvalVars
<1>6. CASE Restart \/ Tick \/ UNCHANGED vars
  BY <1>6 DEF Restart, Tick, vars, approvalVars
<1> QED
  BY <1>1, <1>2, <1>3, <1>4, <1>5, <1>6 DEF Next

\* boundPendingApprovals brings a queue one over its limit back to it.
LEMMA BoundedFits ==
  ASSUME NEW S, IsFiniteSet(S), Cardinality(S) <= MaxPending + 1,
         NEW B \in Bounded(S)
  PROVE  IsFiniteSet(B) /\ Cardinality(B) <= MaxPending /\ B \subseteq S
<1>1. Cardinality(S) \in Nat /\ MaxPending \in Nat
  BY FS_CardinalityType, ConstantsAssumption
<1>2. CASE Cardinality(S) <= MaxPending
  BY <1>2 DEF Bounded
<1>3. CASE ~(Cardinality(S) <= MaxPending)
  <2>1. PICK r \in S : B = S \ {r}
    BY <1>3 DEF Bounded, Oldest
  <2> QED
    BY <1>1, <2>1, FS_RemoveElement, SMTT(30)
<1> QED BY <1>2, <1>3

\* The queue of pending requests never exceeds its limit and holds one entry
\* per plan and token (RecordPendingApproval, boundPendingApprovals).
THEOREM PendingRequestsBounded == Spec => []RequestsBounded
<1>1. Init => RequestInv
  <2>1. Init => TypeInv
    BY ConstantsAssumption, NoneAssumption
    DEF Init, TypeInv, TypeOK, CallsBound, IdleCall, CallRecord, PC
  <2> QED
    BY <2>1, FS_EmptySet, ConstantsAssumption DEF Init, RequestInv, RequestsBounded
<1>2. RequestInv /\ [Next]_vars => RequestInv'
  <2> SUFFICES ASSUME RequestInv, [Next]_vars PROVE RequestInv'
    OBVIOUS
  <2>0. TypeInv'
    BY TypeStep, CallsBoundStep DEF RequestInv, TypeInv
  <2>1. CASE requests' \subseteq requests
    <3>1. IsFiniteSet(requests') /\ Cardinality(requests') <= Cardinality(requests)
      BY <2>1, FS_Subset DEF RequestInv
    <3>2. Cardinality(requests') \in Nat /\ Cardinality(requests) \in Nat
      BY <3>1, FS_CardinalityType DEF RequestInv
    <3> QED
      BY <2>0, <2>1, <3>1, <3>2, ConstantsAssumption DEF RequestInv, RequestsBounded
  <2>2. ASSUME NEW c \in Call, FinishPlan(c), RecordPendingApproval(c)
        PROVE  RequestInv'
    <3> DEFINE p == call[c].plan
               t == call[c].token
               kept == {r \in Unexpired : ~(r.plan = p /\ r.token = t)}
               new == [plan |-> p, token |-> t, created |-> now]
               S == kept \union {new}
    <3>1. kept \subseteq requests
      BY DEF Unexpired
    <3>2. IsFiniteSet(kept) /\ Cardinality(kept) <= Cardinality(requests)
      BY <3>1, FS_Subset DEF RequestInv
    <3>3. /\ Cardinality(kept) \in Nat /\ Cardinality(requests) \in Nat
          /\ Cardinality(requests) <= MaxPending /\ MaxPending \in Nat
      BY <3>2, FS_CardinalityType, ConstantsAssumption DEF RequestInv, RequestsBounded
    <3> HIDE DEF kept, new
    <3>4. IsFiniteSet(S) /\ Cardinality(S) <= MaxPending + 1
      BY <3>2, <3>3, FS_AddElement
    <3>5. requests' \in Bounded(S)
      BY <2>2 DEF RecordPendingApproval, kept, new
    <3>6. \A r, q \in S : r.plan = q.plan /\ r.token = q.token => r = q
      <4>1. new.plan = p /\ new.token = t
        BY DEF new
      <4>2. \A r, q \in kept : r.plan = q.plan /\ r.token = q.token => r = q
        BY <3>1 DEF RequestInv, RequestsBounded
      <4>3. \A r \in kept : ~(r.plan = p /\ r.token = t)
        BY DEF kept
      <4> QED BY <4>1, <4>2, <4>3
    <3> HIDE DEF S
    <3>7. /\ IsFiniteSet(requests') /\ Cardinality(requests') <= MaxPending
          /\ requests' \subseteq S
      BY <3>4, <3>5, BoundedFits
    <3> QED
      BY <2>0, <3>6, <3>7 DEF RequestInv, RequestsBounded
  <2>3. ASSUME NEW c \in Call, FinishPlan(c) PROVE RequestInv'
    BY <2>1, <2>2, <2>3 DEF FinishPlan
  <2> QED
    BY <2>1, <2>3, OthersAddNoRequest
<1>3. RequestInv => RequestsBounded
  BY DEF RequestInv
<1> QED
  BY <1>1, <1>2, <1>3, PTL DEF Spec

\* A full queue makes room at its old end: a request that a new one displaces
\* is no more recent than anything that stays (boundPendingApprovals).
THEOREM OldRequestsYield == Spec => OldestRequestYields
<1>1. TypeInv /\ [Next]_vars =>
        [\A c \in Call :
           call[c].pc = "planned" /\ call'[c].pc = "ended" =>
             \A r \in Unexpired \ requests' :
               \/ r.plan = call[c].plan /\ r.token = call[c].token
               \/ \A q \in requests' : r.created <= q.created]_vars
  <2> SUFFICES ASSUME TypeInv, [Next]_vars, NEW c \in Call,
                      call[c].pc = "planned", call'[c].pc = "ended",
                      NEW r \in Unexpired \ requests',
                      ~(r.plan = call[c].plan /\ r.token = call[c].token)
               PROVE  \A q \in requests' : r.created <= q.created
    OBVIOUS
  <2>1. r \in requests
    BY DEF Unexpired
  <2>2. call' # call /\ requests' # requests
    BY <2>1
  <2>3. CallStep
    <3>1. ~(ProfileStep \/ TokenStep \/ OAuthStep \/ ApprovalStep \/ Tick)
      BY <2>2, StoreStepKeepsCalls
    <3>2. ~Restart /\ ~UNCHANGED vars
      BY <2>2 DEF Restart, vars, approvalVars
    <3> QED BY <3>1, <3>2 DEF Next
  <2>4. PICK d \in Call : FinishPlan(d)
    BY <2>2, <2>3
    DEF CallStep, Authenticate, AuthorizeApply, MakePlan, Refuse, AdmitMediumRisk,
        AdmitApproved, AdmitInteractive, RequireInteractive, AcceptElicitation,
        AdmitCommitFails, approvalVars
  <2>5. d = c
    BY <2>4 DEF FinishPlan, TypeInv, TypeOK
  <2>6. RecordPendingApproval(c)
    BY <2>2, <2>4, <2>5 DEF FinishPlan
  <2> DEFINE kept == {q \in Unexpired : ~(q.plan = call[c].plan /\ q.token = call[c].token)}
             S == kept \union {[plan |-> call[c].plan, token |-> call[c].token, created |-> now]}
  <2>7. requests' \in Bounded(S) /\ r \in S
    BY <2>6 DEF RecordPendingApproval
  <2> HIDE DEF S
  <2>8. PICK old \in Oldest(S) : requests' = S \ {old}
    BY <2>7 DEF Bounded
  <2> QED
    BY <2>7, <2>8 DEF Oldest
<1>2. AdmissionInv => TypeInv
  BY DEF AdmissionInv
<1> QED
  BY <1>1, <1>2, AdmissionInvariant, PTL DEF Spec, OldestRequestYields

-----------------------------------------------------------------------------
(***************************************************************************)
(* The approvals implement the ledger.  That nothing reopens an approval   *)
(* needs, beyond AdmissionInv, that commits are numbered upwards and that  *)
(* the token an approval was given to is still there.                      *)
(***************************************************************************)
ContentsPast ==
  /\ \A n \in Nas : content[n] <= edits
  /\ \A a \in ApprovalId : approval[a] # None => approval[a].content <= edits

ApprovalsHeld ==
  \A a \in ApprovalId :
    approval[a] # None => approval[a].hash \in Plans /\ token[approval[a].token] # None

PlansWithin ==
  /\ \A c \in Call :
       call[c].pc \in {"planned", "authorized", "eliciting", "admitted"} =>
         call[c].plan \in Plans
  /\ \A r \in requests : r.plan \in Plans

LedgerInv == AdmissionInv /\ ContentsPast /\ ApprovalsHeld /\ PlansWithin

\* What a step leaves of everything that Void looks at, apart from approvals.
StandsStill == now' = now /\ token' = token /\ content' = content

\* The operations on approvals, requests and calls, and a restart, change
\* neither clock nor tokens nor profiles.
LEMMA OthersStandStill ==
  ASSUME ApprovalStep \/ CallStep \/ Restart \/ UNCHANGED vars
  PROVE  StandsStill /\ edits' = edits
<1> USE DEF StandsStill, tokenVars, profileVars
<1>1. CASE ApprovalStep
  <2>1. ASSUME NEW h, NEW n, NEW rev, NEW t, NEW ttl, CreateApprovalTx(h, n, rev, t, ttl)
        PROVE  StandsStill /\ edits' = edits
    BY <2>1 DEF CreateApprovalTx
  <2> QED
    BY <1>1, <2>1 DEF ApprovalStep, CreateApproval, ApprovePendingApproval,
       DismissPendingApproval, PendingApprovals
<1>2. CASE CallStep
  BY <1>2 DEF CallStep, Authenticate, AuthorizeApply, MakePlan, FinishPlan, Refuse,
     AdmitMediumRisk, AdmitApproved, AdmitInteractive, RequireInteractive,
     AcceptElicitation, AdmitCommitFails
<1>3. CASE Restart \/ UNCHANGED vars
  BY <1>3 DEF Restart, vars
<1> QED BY <1>1, <1>2, <1>3

\* The clock does not go back, and a profile's content is left or is new.
LEMMA TimeGoesOn ==
  ASSUME TypeInv, [Next]_vars
  PROVE  /\ now' >= now /\ edits' >= edits
         /\ \A n \in Nas : \/ content'[n] = content[n]
                           \/ content'[n] = edits + 1 /\ edits' = edits + 1
<1> USE DEF TypeInv, TypeOK
<1>1. CASE StandsStill /\ edits' = edits
  BY <1>1 DEF StandsStill
<1>2. CASE ProfileStep
  BY <1>2 DEF ProfileStep, CreateProfile, UpdateProfile, DeleteProfile, CommitRevision
<1>3. CASE TokenStep
  <2>1. now' = now /\ UNCHANGED profileVars
    BY <1>3 DEF TokenStep, CreateMCPToken, RotateMCPToken, RevokeMCPToken, ExpireMCPToken
  <2> QED BY <2>1 DEF profileVars
<1>4. CASE OAuthStep
  <2>1. ASSUME NEW t, NEW access, NEW renew, NEW cl, NEW in,
               IssueOAuthTokenSet(t, access, renew, cl, in)
        PROVE  now' = now /\ UNCHANGED profileVars
    BY <2>1 DEF IssueOAuthTokenSet
  <2>2. ASSUME NEW old, NEW cl, NEW access, NEW renew,
               RefreshOAuthTokenSet(old, cl, access, renew)
        PROVE  now' = now /\ UNCHANGED profileVars
    BY <2>2 DEF RefreshOAuthTokenSet
  <2> QED BY <1>4, <2>1, <2>2 DEF OAuthStep, profileVars
<1>5. CASE Tick
  BY <1>5 DEF Tick, profileVars
<1> QED
  BY <1>1, <1>2, <1>3, <1>4, <1>5, OthersStandStill DEF Next

\* What ends an approval ends it for good.
LEMMA VoidStays ==
  ASSUME TypeInv, RevisionNamesContent, ContentsPast, ApprovalsHeld, [Next]_vars,
         NEW a \in ApprovalId, approval[a] # None, Void(a)
  PROVE  Void(a)'
<1> DEFINE r == approval[a]
           q == approval'[a]
<1>1. /\ r \in ApprovalRecord /\ SameApproval(r, q)
      /\ token[r.token] # None /\ r.token \in TokenId /\ r.nas \in Nas
  BY ApprovalsPersist DEF TypeInv, TypeOK, ApprovalsHeld, ApprovalRecord
<1>2. Narrowed(token[r.token], token'[r.token])
  BY <1>1, TokensNarrow
<1>3. q.expires = r.expires /\ q.token = r.token /\ q.nas = r.nas /\ q.content = r.content
  BY <1>1 DEF SameApproval
<1>4. CASE now >= r.expires
  <2>1. now' >= q.expires
    BY <1>1, <1>3, <1>4, TimeGoesOn, TypeStep DEF TypeInv, TypeOK, ApprovalRecord
  <2> QED BY <2>1 DEF Void
<1>5. CASE token[r.token].revoked
  BY <1>2, <1>3, <1>5 DEF Void, Narrowed
<1>6. CASE r.nas \notin token[r.token].allow
  BY <1>2, <1>3, <1>6 DEF Void, Narrowed
<1>7. CASE content[r.nas] # r.content
  <2>1. content'[r.nas] # r.content
    BY <1>1, <1>7, TimeGoesOn DEF ContentsPast, TypeInv, TypeOK, ApprovalRecord
  <2> QED BY <1>3, <2>1 DEF Void
<1> QED BY <1>4, <1>5, <1>6, <1>7 DEF Void

\* An admitted call stays what it is.
LEMMA AdmittedStays ==
  ASSUME TypeInv, [Next]_vars, NEW c \in Call, call[c].pc = "admitted"
  PROVE  call'[c] = call[c]
<1>0. call \in [Call -> CallRecord]
  BY DEF TypeInv, TypeOK
<1>1. CASE UNCHANGED call
  BY <1>1
<1>2. CASE Restart
  BY <1>0, <1>2 DEF Restart
<1>3. CASE CallStep
  <2>1. PICK d \in Call : call[d].pc # "admitted" /\ \E r : call' = [call EXCEPT ![d] = r]
    BY <1>3 DEF CallStep, Authenticate, AuthorizeApply, MakePlan, FinishPlan, Refuse,
       AdmitMediumRisk, AdmitApproved, AdmitInteractive, RequireInteractive,
       AcceptElicitation, AdmitCommitFails, MayTarget, Admissible
  <2> QED BY <1>0, <2>1
<1> QED
  BY <1>1, <1>2, <1>3, StoreStepKeepsCalls DEF Next, vars

\* Approving is of a plan within the bound and of a token that is there, and
\* the new approval is open.
LEMMA GrantedOpen ==
  ASSUME LedgerInv, ApprovalStep, approval' # approval
  PROVE  \E a \in ApprovalId, h \in Plans, n \in Nas, t \in TokenId :
           \E r \in ApprovalRecord :
             /\ approval[a] = None /\ approval' = [approval EXCEPT ![a] = r]
             /\ r.hash = h /\ r.nas = n /\ r.token = t /\ ~r.consumed
             /\ r.content = content[n] /\ r.expires > now
             /\ token[t] # None /\ ~token[t].revoked /\ n \in token[t].allow
<1>1. ASSUME NEW h \in Plans, NEW n \in Nas, NEW rev \in Nat, NEW t \in TokenId,
             NEW ttl \in Nat \ {0}, CreateApprovalTx(h, n, rev, t, ttl)
      PROVE  \E a \in ApprovalId : \E r \in ApprovalRecord :
               /\ approval[a] = None /\ approval' = [approval EXCEPT ![a] = r]
               /\ r.hash = h /\ r.nas = n /\ r.token = t /\ ~r.consumed
               /\ r.content = content[n] /\ r.expires > now
               /\ token[t] # None /\ ~token[t].revoked /\ n \in token[t].allow
  <2> DEFINE r == [hash |-> h, nas |-> n, rev |-> rev, token |-> t,
                   expires |-> now + ttl, consumed |-> FALSE,
                   content |-> content[n]]
  <2>1. now \in Nat /\ content[n] \in Nat /\ h \in Plan
    BY ConstantsAssumption DEF LedgerInv, AdmissionInv, TypeInv, TypeOK, Plan, Plans
  <2>2. /\ r \in ApprovalRecord /\ r.hash = h /\ r.nas = n /\ r.token = t /\ ~r.consumed
        /\ r.content = content[n] /\ r.expires > now
    BY <1>1, <2>1 DEF ApprovalRecord
  <2>3. PICK a \in ApprovalId : approval[a] = None /\ approval' = [approval EXCEPT ![a] = r]
    BY <1>1 DEF CreateApprovalTx
  <2>4. token[t] # None /\ ~token[t].revoked /\ n \in token[t].allow
    BY <1>1 DEF CreateApprovalTx, Approvable, Active
  <2> HIDE DEF r
  <2> QED BY <2>2, <2>3, <2>4
<1>2. ASSUME NEW h \in Plans, NEW n \in Nas, NEW t \in TokenId,
             NEW ttl \in 1 .. ApprovalTTL, CreateApproval(h, n, t, ttl)
      PROVE  revision[n] \in Nat /\ ttl \in Nat \ {0}
  BY ConstantsAssumption DEF LedgerInv, AdmissionInv, TypeInv, TypeOK
<1>3. ASSUME NEW r \in requests
      PROVE  /\ r.plan \in Plans /\ r.plan.nas \in Nas /\ r.plan.rev \in Nat
             /\ r.token \in TokenId /\ ApprovalTTL \in Nat \ {0}
  BY ConstantsAssumption
  DEF LedgerInv, AdmissionInv, TypeInv, TypeOK, RequestRecord, Plans, PlansWithin
<1>4. CASE \E h \in Plans, n \in Nas, t \in TokenId, ttl \in 1 .. ApprovalTTL :
             CreateApproval(h, n, t, ttl)
  BY <1>1, <1>2, <1>4 DEF CreateApproval
<1>5. CASE \E r \in requests : ApprovePendingApproval(r)
  BY <1>1, <1>3, <1>5 DEF ApprovePendingApproval
<1> QED
  BY <1>4, <1>5 DEF ApprovalStep, DismissPendingApproval, PendingApprovals

\* A step that adds no approval keeps the set of them.
LEMMA OnlyGrantsAdd ==
  ASSUME TypeInv, [Next]_vars, ~ApprovalStep
  PROVE  \A a \in ApprovalId : approval[a] = None => approval'[a] = None
<1>1. ASSUME NEW c \in Call, AdmitApproved(c)
      PROVE  \A a \in ApprovalId : approval[a] = None => approval'[a] = None
  BY <1>1, AdmitApprovedEffect, NoneAssumption DEF TypeInv, TypeOK
<1> QED BY <1>1, OthersKeepApprovals

LEMMA ApprovalsHeldStep ==
  ASSUME LedgerInv, [Next]_vars
  PROVE  ApprovalsHeld' /\ ContentsPast'
<1>0. /\ TypeInv /\ RevisionNamesContent /\ ContentsPast /\ ApprovalsHeld
      /\ edits \in Nat /\ edits' \in Nat
      /\ approval \in [ApprovalId -> ApprovalRecord \union {None}]
  BY TypeStep DEF LedgerInv, AdmissionInv, TypeInv, TypeOK
<1>1. \A n \in Nas : content[n] \in Nat /\ content'[n] <= edits'
  BY <1>0, TimeGoesOn DEF ContentsPast, TypeInv, TypeOK
<1>2. ASSUME NEW a \in ApprovalId, approval[a] # None
      PROVE  /\ approval'[a].hash \in Plans /\ token'[approval'[a].token] # None
             /\ approval'[a].content <= edits'
  <2>1. SameApproval(approval[a], approval'[a]) /\ approval[a] \in ApprovalRecord
    BY <1>0, <1>2, ApprovalsPersist
  <2>2. approval[a].token \in TokenId /\ token'[approval[a].token] # None
    BY <1>0, <1>2, <2>1, TokensPersist DEF ApprovalsHeld, ApprovalRecord
  <2>3. approval[a].content <= edits'
    BY <1>0, <1>2, <2>1, TimeGoesOn DEF ContentsPast, ApprovalRecord
  <2> QED BY <1>0, <1>2, <2>1, <2>2, <2>3 DEF ApprovalsHeld, SameApproval
<1>3. ASSUME NEW a \in ApprovalId, approval[a] = None, approval'[a] # None
      PROVE  /\ approval'[a].hash \in Plans /\ token'[approval'[a].token] # None
             /\ approval'[a].content <= edits'
  <2>1. ApprovalStep /\ approval' # approval
    BY <1>0, <1>3, OnlyGrantsAdd
  <2>2. token' = token /\ content' = content
    BY <2>1, OthersStandStill DEF StandsStill
  <2> QED BY <1>0, <1>1, <1>3, <2>1, <2>2, GrantedOpen
<1> QED BY <1>1, <1>2, <1>3 DEF ApprovalsHeld, ContentsPast

LEMMA PlansWithinStep ==
  ASSUME LedgerInv, [Next]_vars
  PROVE  PlansWithin'
<1>0. PlansWithin /\ TypeInv /\ call \in [Call -> CallRecord]
  BY DEF LedgerInv, AdmissionInv, TypeInv, TypeOK
<1>1. \A r \in requests' : r.plan \in Plans
  <2>1. CASE \E c \in Call : FinishPlan(c)
    <3>1. PICK c \in Call : FinishPlan(c)
      BY <2>1
    <3>2. call[c].plan \in Plans
      BY <1>0, <3>1 DEF FinishPlan, PlansWithin
    <3>3. requests' \subseteq requests \union
             {[plan |-> call[c].plan, token |-> call[c].token, created |-> now]}
      BY <3>1 DEF FinishPlan, RecordPendingApproval, Bounded, Unexpired
    <3> QED BY <1>0, <3>2, <3>3 DEF PlansWithin
  <2>2. CASE requests' \subseteq requests
    BY <1>0, <2>2 DEF PlansWithin
  <2> QED BY <1>0, <2>1, <2>2, OthersAddNoRequest
<1>2. ASSUME NEW c \in Call,
             call'[c].pc \in {"planned", "authorized", "eliciting", "admitted"}
      PROVE  call'[c].plan \in Plans
  <2>1. CASE UNCHANGED call
    BY <1>0, <1>2, <2>1 DEF PlansWithin
  <2>2. CASE Restart
    BY <1>0, <1>2, <2>2 DEF Restart, PlansWithin, CallRecord
  <2>3. CASE CallStep
    <3>1. PICK d \in Call :
            \/ \E s \in Secret : Authenticate(d, s)
            \/ \E p \in Plans : AuthorizeApply(d, p) \/ MakePlan(d, p)
            \/ FinishPlan(d) \/ Refuse(d)
            \/ AdmitMediumRisk(d) \/ AdmitApproved(d)
            \/ AdmitInteractive(d) \/ RequireInteractive(d)
            \/ AcceptElicitation(d) \/ AdmitCommitFails(d)
      BY <2>3 DEF CallStep
    <3>2. CASE d # c
      <4>1. \E r : call' = [call EXCEPT ![d] = r]
        BY <3>1 DEF Authenticate, AuthorizeApply, MakePlan, FinishPlan, Refuse,
           AdmitMediumRisk, AdmitApproved, AdmitInteractive, RequireInteractive,
           AcceptElicitation, AdmitCommitFails
      <4> QED BY <1>0, <1>2, <3>2, <4>1 DEF PlansWithin
    <3>3. CASE d = c
      <4>1. \A s \in Secret : ~Authenticate(c, s)
        <5>1. \A s \in Secret : Authenticate(c, s) => call'[c].pc = "authenticated"
          BY <1>0 DEF Authenticate, IdleCall
        <5> QED BY <1>2, <5>1
      <4>2. ~FinishPlan(c) /\ ~Refuse(c) /\ ~AdmitCommitFails(c)
        <5>1. FinishPlan(c) \/ Refuse(c) => call'[c].pc = "ended"
          BY <1>0 DEF FinishPlan, Refuse, CallRecord
        <5>2. AdmitCommitFails(c) => call'[c].pc = "ended"
          BY <1>0 DEF AdmitCommitFails, CallRecord
        <5> QED BY <1>2, <5>1, <5>2
      <4>3. ASSUME NEW p \in Plans, AuthorizeApply(c, p) \/ MakePlan(c, p)
            PROVE  call'[c].plan = p
        BY <1>0, <4>3 DEF AuthorizeApply, MakePlan, CallRecord
      <4>4. CASE AdmitMediumRisk(c) \/ AdmitApproved(c) \/ AdmitInteractive(c)
                   \/ RequireInteractive(c) \/ AcceptElicitation(c)
        <5>1. call[c].pc \in {"authorized", "eliciting"}
          BY <4>4 DEF AdmitMediumRisk, AdmitApproved, AdmitInteractive,
             RequireInteractive, AcceptElicitation, Admissible
        <5>2. call'[c].plan = call[c].plan
          <6>1. CASE AdmitMediumRisk(c) \/ AdmitApproved(c)
            BY <1>0, <6>1 DEF AdmitMediumRisk, AdmitApproved, Admitted, CallRecord
          <6>2. CASE AdmitInteractive(c)
            BY <1>0, <6>2 DEF AdmitInteractive, Admitted, CallRecord
          <6>3. CASE RequireInteractive(c) \/ AcceptElicitation(c)
            BY <1>0, <6>3 DEF RequireInteractive, AcceptElicitation, CallRecord
          <6> QED BY <4>4, <6>1, <6>2, <6>3
        <5> QED BY <1>0, <5>1, <5>2 DEF PlansWithin
      <4> QED BY <3>1, <3>3, <4>1, <4>2, <4>3, <4>4
    <3> QED BY <3>2, <3>3
  <2> QED
    BY <2>1, <2>2, <2>3, StoreStepKeepsCalls DEF Next, vars
<1> QED BY <1>1, <1>2 DEF PlansWithin

LEMMA LedgerInvariant == Spec => []LedgerInv
<1>1. Init => ContentsPast /\ ApprovalsHeld /\ PlansWithin
  BY DEF Init, ContentsPast, ApprovalsHeld, PlansWithin, IdleCall
<1>2. AdmissionInv /\ AdmissionInv' /\ ContentsPast /\ ApprovalsHeld /\ PlansWithin /\ [Next]_vars
        => ContentsPast' /\ ApprovalsHeld' /\ PlansWithin'
  BY ApprovalsHeldStep, PlansWithinStep DEF LedgerInv
<1> QED
  BY <1>1, <1>2, AdmissionInvariant, PTL DEF Spec, LedgerInv

\* The step by which a call is admitted is one of the three admissions, and
\* every other step leaves the outcomes alone.
LEMMA OutcomesKept ==
  ASSUME TypeInv, [Next]_vars,
         \A c \in Call : ~AdmitMediumRisk(c) /\ ~AdmitApproved(c) /\ ~AdmitInteractive(c)
  PROVE  Outcomes' = Outcomes
<1>1. \A c \in Call :
        call[c].pc = "admitted" \/ call'[c].pc = "admitted" => call'[c] = call[c]
  BY AdmittedStays, AdmissionSteps
<1> QED BY <1>1 DEF Outcomes

\* An admission under way via anything changes the outcome of its call only.
LEMMA OutcomeOf ==
  ASSUME TypeInv, NEW c \in Call, NEW via, Admissible(c),
         \/ call' = [call EXCEPT ![c] = Admitted(c, via)]
         \/ call' = [call EXCEPT ![c] = [Admitted(c, via) EXCEPT !.grant = "used"]]
  PROVE  /\ Outcomes[c] = Ledger!Waiting
         /\ Outcomes' = [Outcomes EXCEPT ![c] = Ledger!Passed(call[c].plan, call[c].token, via)]
<1>0. call \in [Call -> CallRecord]
  BY DEF TypeInv, TypeOK
<1>1. call[c].pc # "admitted"
  BY DEF Admissible
<1>2. /\ call'[c].pc = "admitted" /\ call'[c].plan = call[c].plan
      /\ call'[c].token = call[c].token /\ call'[c].via = via
  <2>1. CASE call' = [call EXCEPT ![c] = Admitted(c, via)]
    BY <1>0, <2>1, AdmittedFields
  <2>2. CASE call' = [call EXCEPT ![c] = [Admitted(c, via) EXCEPT !.grant = "used"]]
    <3>1. call'[c] = [Admitted(c, via) EXCEPT !.grant = "used"]
      BY <1>0, <2>2
    <3> QED BY <1>0, <3>1 DEF Admitted, CallRecord
  <2> QED BY <2>1, <2>2
<1>3. \A d \in Call : d # c => call'[d] = call[d]
  BY <1>0
<1> QED BY <1>1, <1>2, <1>3 DEF Outcomes, Ledger!Waiting, Ledger!Passed

\* Without a change of approvals, clock, tokens and profiles the rights stay.
LEMMA RightsKept ==
  ASSUME StandsStill, approval' = approval
  PROVE  Rights' = Rights
BY DEF StandsStill, Rights, Status, Void

\* An admission without an approval is a consent or needs none.
LEMMA AdmissionsWithout ==
  ASSUME LedgerInv, [Next]_vars, NEW c \in Call, AdmitMediumRisk(c) \/ AdmitInteractive(c)
  PROVE  Ledger!Consent(c) \/ Ledger!NeedsNone(c)
<1>0. TypeInv /\ Admissible(c)
  BY DEF LedgerInv, AdmissionInv, AdmitMediumRisk, AdmitInteractive
<1>1. call[c].plan \in Plans /\ call[c].token \in TokenId
  BY <1>0 DEF LedgerInv, PlansWithin, TypeInv, CallsBound, Admissible
<1>2. Rights' = Rights
  <2>1. CallStep
    BY DEF CallStep
  <2>2. approval' = approval
    BY DEF AdmitMediumRisk, AdmitInteractive, approvalVars
  <2> QED BY <2>1, <2>2, OthersStandStill, RightsKept
<1>3. CASE AdmitMediumRisk(c)
  <2>1. /\ Outcomes[c] = Ledger!Waiting
        /\ Outcomes' = [Outcomes EXCEPT ![c] = Ledger!Passed(call[c].plan, call[c].token, "none")]
    BY <1>0, <1>3, OutcomeOf DEF AdmitMediumRisk
  <2> QED BY <1>1, <1>2, <1>3, <2>1 DEF Ledger!NeedsNone, AdmitMediumRisk
<1>4. CASE AdmitInteractive(c)
  <2>1. /\ Outcomes[c] = Ledger!Waiting
        /\ Outcomes' = [Outcomes EXCEPT ![c] = Ledger!Passed(call[c].plan, call[c].token, "grant")]
    BY <1>0, <1>4, OutcomeOf DEF AdmitInteractive
  <2> QED BY <1>1, <1>2, <2>1 DEF Ledger!Consent
<1> QED BY <1>3, <1>4

\* An admission under an approval spends it: it was open, and no other right
\* changes.
LEMMA AdmissionsSpend ==
  ASSUME LedgerInv, [Next]_vars, NEW c \in Call, AdmitApproved(c)
  PROVE  \E a \in ApprovalId : Ledger!Spend(c, a)
<1>0. /\ TypeInv /\ Admissible(c) /\ approval \in [ApprovalId -> ApprovalRecord \union {None}]
      /\ RevisionNamesContent /\ ApprovalNamesContent
  BY DEF LedgerInv, AdmissionInv, AdmitApproved, TypeInv, TypeOK
<1>1. PICK a \in ApprovalsFor(c) :
        /\ approval' = [approval EXCEPT ![a] = [@ EXCEPT !.consumed = TRUE]]
        /\ call' = [call EXCEPT ![c] = Admitted(c, a)]
  BY DEF AdmitApproved
<1>2. /\ a \in ApprovalId /\ approval[a] \in ApprovalRecord /\ approval[a] # None
      /\ ~approval[a].consumed /\ now < approval[a].expires
      /\ approval[a].hash = call[c].plan /\ approval[a].nas = call[c].plan.nas
      /\ approval[a].rev = call[c].plan.rev /\ approval[a].token = call[c].token
  BY <1>0, <1>1 DEF ApprovalsFor, Matches
<1>3. ~Void(a)
  <2>1. ~(now >= approval[a].expires)
    BY <1>0, <1>2 DEF TypeInv, TypeOK, ApprovalRecord
  <2>2. ~token[approval[a].token].revoked /\ approval[a].nas \in token[approval[a].token].allow
    BY <1>0, <1>2 DEF Admissible, Active
  <2>3. content[approval[a].nas] = approval[a].content
    BY <1>0, <1>2 DEF Admissible, RevisionNamesContent, ApprovalNamesContent, ApprovalRecord
  <2> QED BY <2>1, <2>2, <2>3 DEF Void
<1>4. StandsStill
  BY OthersStandStill DEF CallStep
<1>5. /\ approval'[a] # None /\ approval'[a].consumed
      /\ approval'[a].hash = approval[a].hash /\ approval'[a].nas = approval[a].nas
      /\ approval'[a].token = approval[a].token
  <2>1. approval'[a] = [approval[a] EXCEPT !.consumed = TRUE]
    BY <1>0, <1>1, <1>2
  <2>2. approval'[a] \in ApprovalRecord
    BY <1>2, <2>1 DEF ApprovalRecord
  <2> QED BY <1>2, <2>1, <2>2, NoneAssumption DEF ApprovalRecord
<1>6. \A b \in ApprovalId : b # a => approval'[b] = approval[b]
  BY <1>0, <1>1, <1>2
<1>7. \A b \in ApprovalId : b # a => Rights'[b] = Rights[b]
  BY <1>4, <1>6 DEF StandsStill, Rights, Status, Void
<1>8. /\ Rights[a] = Ledger!Right(call[c].plan, call[c].plan.nas, call[c].token, "open")
      /\ Rights'[a] = Ledger!Right(call[c].plan, call[c].plan.nas, call[c].token, "spent")
  BY <1>2, <1>3, <1>5 DEF Rights, Status, Ledger!Right
<1>9. Rights' = [Rights EXCEPT ![a].status = "spent"]
  <2>1. Rights'[a] = [Rights[a] EXCEPT !.status = "spent"]
    BY <1>8 DEF Ledger!Right
  <2> QED BY <1>2, <1>7, <2>1 DEF Rights
<1>10. /\ Outcomes[c] = Ledger!Waiting
       /\ Outcomes' = [Outcomes EXCEPT ![c] = Ledger!Passed(call[c].plan, call[c].token, a)]
  BY <1>0, <1>1, OutcomeOf
<1>11. /\ Rights[a].plan = call[c].plan /\ Rights[a].token = call[c].token
       /\ Rights[a].nas = Rights[a].plan.nas /\ a \in Ledger!Open
  BY <1>2, <1>8 DEF Ledger!Open, Ledger!Right
<1>12. Ledger!Spend(c, a)
  BY <1>9, <1>10, <1>11 DEF Ledger!Spend
<1> QED BY <1>2, <1>12

\* A new approval is a right that is granted.
LEMMA ApprovingGrants ==
  ASSUME LedgerInv, [Next]_vars, ApprovalStep, approval' # approval, Outcomes' = Outcomes
  PROVE  \E a \in ApprovalId : Ledger!Grant(a)
<1>0. TypeInv /\ StandsStill /\ approval \in [ApprovalId -> ApprovalRecord \union {None}]
  BY OthersStandStill DEF LedgerInv, AdmissionInv, TypeInv, TypeOK
<1>1. PICK a \in ApprovalId, h \in Plans, n \in Nas, t \in TokenId, r \in ApprovalRecord :
        /\ approval[a] = None /\ approval' = [approval EXCEPT ![a] = r]
        /\ r.hash = h /\ r.nas = n /\ r.token = t /\ ~r.consumed
        /\ r.content = content[n] /\ r.expires > now
        /\ ~token[t].revoked /\ n \in token[t].allow
  BY GrantedOpen
<1>2. approval'[a] = r /\ \A b \in ApprovalId : b # a => approval'[b] = approval[b]
  BY <1>0, <1>1
<1>3. ~Void(a)'
  BY <1>0, <1>1, <1>2 DEF Void, StandsStill, TypeInv, TypeOK, ApprovalRecord
<1>4. /\ Rights[a] = Ledger!Unused
      /\ Rights'[a] = Ledger!Right(h, n, t, "open")
  BY <1>1, <1>2, <1>3, NoneAssumption DEF Rights, Status, Ledger!Unused, Ledger!Right
<1>5. \A b \in ApprovalId : b # a => Rights'[b] = Rights[b]
  BY <1>0, <1>2 DEF StandsStill, Rights, Status, Void
<1>6. Rights' = [Rights EXCEPT ![a] = Ledger!Right(h, n, t, "open")]
  BY <1>4, <1>5 DEF Rights
<1> QED BY <1>1, <1>4, <1>6 DEF Ledger!Grant

\* Every other step only lets rights become void.
LEMMA OthersVoid ==
  ASSUME LedgerInv, [Next]_vars, approval' = approval, Outcomes' = Outcomes
  PROVE  Ledger!BecomeVoid
<1> DEFINE S == {a \in Ledger!Open : approval[a] # None /\ Void(a)'}
<1>1. ASSUME NEW a \in ApprovalId
      PROVE  Rights'[a] = IF a \in S THEN [Rights[a] EXCEPT !.status = "void"] ELSE Rights[a]
  <2>1. CASE approval[a] = None
    BY <2>1 DEF Rights
  <2>2. CASE approval[a] # None /\ a \in S
    BY <2>2 DEF Rights, Status, Ledger!Open
  <2>3. CASE approval[a] # None /\ a \notin S
    <3>1. Status(a)' = Status(a)
      <4>1. CASE approval[a].consumed
        BY <4>1 DEF Status
      <4>2. CASE ~approval[a].consumed /\ Void(a)
        BY <2>3, <4>2, VoidStays DEF Status, LedgerInv, AdmissionInv
      <4>3. CASE ~approval[a].consumed /\ ~Void(a)
        <5>1. a \in Ledger!Open
          BY <2>3, <4>3 DEF Ledger!Open, Rights, Status
        <5> QED BY <2>3, <4>3, <5>1 DEF Status
      <4> QED BY <4>1, <4>2, <4>3
    <3> QED BY <2>3, <3>1 DEF Rights
  <2> QED BY <2>1, <2>2, <2>3
<1>2. Rights' = [a \in ApprovalId |->
                   IF a \in S THEN [Rights[a] EXCEPT !.status = "void"] ELSE Rights[a]]
  BY <1>1 DEF Rights
<1> HIDE DEF S
<1>3. S \in SUBSET Ledger!Open
  BY DEF S
<1> QED BY <1>2, <1>3 DEF Ledger!BecomeVoid

\* The gateway's approvals implement the ledger: each right is spent by one
\* call that applies its plan on its NAS with its token, and what has expired
\* or was revoked, deleted or changed under it never comes back.
THEOREM ApprovalsImplementLedger == Spec => ApprovalsAreLedger
<1>1. Init => Ledger!Init
  BY DEF Init, Ledger!Init, Rights, Outcomes, IdleCall, Ledger!Unused, Ledger!Waiting
<1>2. LedgerInv /\ [Next]_vars => [Ledger!Next]_(Ledger!vars)
  <2> SUFFICES ASSUME LedgerInv, [Next]_vars PROVE Ledger!Next
    OBVIOUS
  <2>0. TypeInv
    BY DEF LedgerInv, AdmissionInv
  <2>1. CASE \E c \in Call : AdmitMediumRisk(c) \/ AdmitInteractive(c)
    BY <2>1, AdmissionsWithout DEF Ledger!Next
  <2>2. CASE \E c \in Call : AdmitApproved(c)
    BY <2>2, AdmissionsSpend DEF Ledger!Next
  <2>3. CASE /\ \A c \in Call : ~AdmitMediumRisk(c) /\ ~AdmitInteractive(c) /\ ~AdmitApproved(c)
    <3>1. Outcomes' = Outcomes
      BY <2>0, <2>3, OutcomesKept
    <3>2. CASE ApprovalStep /\ approval' # approval
      BY <3>1, <3>2, ApprovingGrants DEF Ledger!Next
    <3>3. CASE approval' = approval
      BY <3>1, <3>3, OthersVoid DEF Ledger!Next
    <3> QED BY <2>3, <3>2, <3>3, OthersKeepApprovals
  <2> QED BY <2>1, <2>2, <2>3
<1> QED
  BY <1>1, <1>2, LedgerInvariant, PTL DEF Spec, ApprovalsAreLedger, Ledger!Spec

===========================================================================
