---------------------- MODULE GatewayCredentialProofs ----------------------
(***************************************************************************)
(* The credential indexes stay exact and no old access returns.            *)
(*                                                                         *)
(* The inductive invariant adds one fact to the properties themselves:     *)
(* every indexed secret has been drawn, so a fresh secret cannot collide   *)
(* with an entry that is there.                                            *)
(***************************************************************************)
EXTENDS GatewayAdmissionProofs

\* Every bearer or refresh secret in an index has been drawn.
IndexedSecretsDrawn ==
  \A s \in Secret : digest[s] # None \/ refresh[s] # None => s \in drawn

CredentialFacts ==
  /\ IndexedSecretsDrawn
  /\ AllowlistKeepsIncarnation /\ DigestIndexExact /\ RefreshChainSound

CredentialInv == TypeInv /\ CredentialFacts

\* Approvals, calls, a restart and the clock leave profiles and tokens alone.
LEMMA OthersKeepCredentials ==
  ASSUME [Next]_vars, ~ProfileStep, ~TokenStep, ~OAuthStep
  PROVE  UNCHANGED <<profileVars, tokenVars>>
<1>1. CASE ApprovalStep
  <2>1. ASSUME NEW h, NEW n, NEW t, NEW ttl, CreateApproval(h, n, t, ttl)
        PROVE  UNCHANGED <<profileVars, tokenVars>>
    BY <2>1 DEF CreateApproval, CreateApprovalTx
  <2>2. ASSUME NEW r, ApprovePendingApproval(r)
        PROVE  UNCHANGED <<profileVars, tokenVars>>
    BY <2>2 DEF ApprovePendingApproval, CreateApprovalTx
  <2> QED
    BY <1>1, <2>1, <2>2 DEF ApprovalStep, DismissPendingApproval, PendingApprovals
<1>2. CASE CallStep
  BY <1>2 DEF CallStep, Authenticate, AuthorizeApply, MakePlan, FinishPlan,
     Refuse, AdmitMediumRisk, AdmitApproved, AdmitInteractive, RequireInteractive,
     AcceptElicitation, AdmitCommitFails
<1>3. CASE Restart \/ Tick \/ UNCHANGED vars
  BY <1>3 DEF Restart, Tick, vars
<1> QED
  BY <1>1, <1>2, <1>3 DEF Next

\* A fresh secret is in no index.
LEMMA FreshSecretUnindexed ==
  ASSUME CredentialInv, NEW s \in Secret, s \notin drawn
  PROVE  /\ digest[s] = None /\ refresh[s] = None
         /\ \A t \in TokenId : token[t] # None => token[t].digest # s
<1>1. digest[s] = None /\ refresh[s] = None
  BY DEF CredentialInv, CredentialFacts, IndexedSecretsDrawn
<1> QED
  BY <1>1, NoneAssumption DEF CredentialInv, CredentialFacts, DigestIndexExact

\* Deleting, creating and editing profiles keeps every allowlist entry the
\* profile it was issued for, and the indexes.
LEMMA ProfileStepCredentials ==
  ASSUME CredentialInv, ProfileStep
  PROVE  CredentialFacts'
<1>0. /\ TypeOK /\ token \in [TokenId -> TokenRecord \union {None}]
      /\ \A t \in TokenId : token[t] # None => token[t] \in TokenRecord
      /\ IndexedSecretsDrawn /\ AllowlistKeepsIncarnation
      /\ DigestIndexExact /\ RefreshChainSound
  BY DEF CredentialInv, CredentialFacts, TypeInv, TypeOK
<1> SUFFICES ASSUME NEW n \in Nas,
                    CreateProfile(n) \/ UpdateProfile(n) \/ DeleteProfile(n)
             PROVE  CredentialFacts'
  BY DEF ProfileStep
<1>1. CASE CreateProfile(n) \/ UpdateProfile(n)
  <2>1. UNCHANGED tokenVars
    BY <1>1 DEF CreateProfile, UpdateProfile
  <2>2. \A m \in Nas : revision[m] # 0 => revision'[m] # 0 /\ born'[m] = born[m]
    BY <1>0, <1>1 DEF CreateProfile, UpdateProfile, CommitRevision,
       NextProfileRevision, TypeOK
  <2>3. \A t \in TokenId : token[t] # None => token[t].allow \subseteq Nas
    BY <1>0 DEF TokenRecord
  <2> QED
    BY <1>0, <2>1, <2>2, <2>3 DEF CredentialFacts, tokenVars, IndexedSecretsDrawn,
       AllowlistKeepsIncarnation, DigestIndexExact, RefreshChainSound
<1>2. CASE DeleteProfile(n)
  <2>1. /\ UNCHANGED <<digest, refresh, drawn, born>>
        /\ revision' = [revision EXCEPT ![n] = 0]
        /\ \A t \in TokenId : token[t] = None => token'[t] = None
    BY <1>2 DEF DeleteProfile, WithoutNas
  <2>2. \A t \in TokenId : token[t] # None =>
          /\ token'[t] # None
          /\ token'[t].allow = token[t].allow \ {n}
          /\ token'[t].incarnation = token[t].incarnation
          /\ token'[t].digest = token[t].digest /\ token'[t].closed = token[t].closed
          /\ token'[t].created = token[t].created
    <3> SUFFICES ASSUME NEW t \in TokenId, token[t] # None
                 PROVE  /\ token'[t] # None
                        /\ token'[t].allow = token[t].allow \ {n}
                        /\ token'[t].incarnation = token[t].incarnation
                        /\ token'[t].digest = token[t].digest
                        /\ token'[t].closed = token[t].closed
                        /\ token'[t].created = token[t].created
      OBVIOUS
    <3>1. token'[t] = [token[t] EXCEPT !.allow = @ \ {n}]
      BY <1>2 DEF DeleteProfile, WithoutNas
    <3>2. token'[t] \in TokenRecord
      BY <1>0, <3>1, TokenEdits, ZenonT(60)
    <3> QED BY <1>0, <3>1, <3>2, NoneAssumption DEF TokenRecord
  <2>3. AllowlistKeepsIncarnation'
    BY <1>0, <2>1, <2>2 DEF AllowlistKeepsIncarnation, TypeOK, TokenRecord
  <2>4. DigestIndexExact'
    BY <1>0, <2>1, <2>2 DEF DigestIndexExact, TypeOK
  <2>5. RefreshChainSound'
    BY <1>0, <2>1, <2>2 DEF RefreshChainSound, TypeOK, RefreshRecord
  <2> QED
    BY <1>0, <2>1, <2>3, <2>4, <2>5 DEF CredentialFacts, IndexedSecretsDrawn
<1> QED BY <1>1, <1>2

\* A token record that an operation writes: its allowlist is known and was
\* known under the same profiles when the token was issued.
LEMMA AllowlistWrite ==
  ASSUME CredentialInv, NEW t \in TokenId, NEW r \in TokenRecord,
         token' = [token EXCEPT ![t] = r], UNCHANGED <<revision, born>>,
         \A n \in r.allow : revision[n] # 0 /\ r.incarnation[n] = born[n]
  PROVE  AllowlistKeepsIncarnation'
BY DEF CredentialInv, CredentialFacts, TypeInv, TypeOK, AllowlistKeepsIncarnation

\* A new or replaced bearer secret takes its place in the index.
LEMMA DigestWrite ==
  ASSUME CredentialInv, NEW t \in TokenId, NEW s \in Secret, s \notin drawn,
         NEW r \in TokenRecord, r.digest = s,
         token' = [token EXCEPT ![t] = r],
         \A u \in Secret : digest'[u] = IF u = s THEN t
                                        ELSE IF digest[u] = t THEN None ELSE digest[u]
  PROVE  DigestIndexExact'
<1>0. /\ token \in [TokenId -> TokenRecord \union {None}]
      /\ \A u \in TokenId : token[u] # None => token[u].digest \in Secret
      /\ digest \in [Secret -> TokenId \union {None}]
      /\ DigestIndexExact
  BY DEF CredentialInv, CredentialFacts, TypeInv, TypeOK, TokenRecord
<1>1. ASSUME NEW u \in Secret, digest'[u] # None
      PROVE  token'[digest'[u]] # None /\ token'[digest'[u]].digest = u
  <2>1. CASE u = s
    BY <1>0, <2>1, NoneAssumption
  <2>2. CASE u # s
    BY <1>0, <1>1, <2>2 DEF DigestIndexExact
  <2> QED BY <2>1, <2>2
<1>2. ASSUME NEW u \in TokenId, token'[u] # None
      PROVE  digest'[token'[u].digest] = u
  <2>1. CASE u = t
    BY <1>0, <2>1
  <2>2. CASE u # t
    <3>1. token'[u] = token[u] /\ digest[token[u].digest] = u
      BY <1>0, <1>2, <2>2 DEF DigestIndexExact
    <3>2. token[u].digest \in Secret /\ token[u].digest # s
      BY <1>0, <1>2, <3>1, FreshSecretUnindexed
    <3> QED BY <2>2, <3>1, <3>2
  <2> QED BY <2>1, <2>2
<1> QED BY <1>1, <1>2 DEF DigestIndexExact

\* Administrator operations on tokens keep the credential invariant.
LEMMA TokenStepCredentials ==
  ASSUME CredentialInv, TokenStep
  PROVE  CredentialFacts'
<1>0. /\ TypeOK /\ token \in [TokenId -> TokenRecord \union {None}]
      /\ \A t \in TokenId : token[t] # None => token[t] \in TokenRecord
      /\ IndexedSecretsDrawn /\ AllowlistKeepsIncarnation
      /\ DigestIndexExact /\ RefreshChainSound
  BY DEF CredentialInv, CredentialFacts, TypeInv, TypeOK
<1>1. ASSUME NEW t \in TokenId, NEW s \in Secret, NEW in \in TokenInput,
             CreateMCPToken(t, s, in)
      PROVE  CredentialFacts'
  <2> DEFINE r == NewTokenRecord(s, in)
  <2>1. r \in TokenRecord
    BY <1>0, InputAssumption DEF NewTokenRecord, TokenRecord, Expiry, TypeOK
  <2>2. /\ r.digest = s
        /\ \A n \in r.allow : revision[n] # 0 /\ r.incarnation[n] = born[n]
    BY <1>1 DEF NewTokenRecord, CreateMCPToken, KnownNas
  <2>3. /\ token[t] = None /\ token' = [token EXCEPT ![t] = r] /\ s \notin drawn
        /\ UNCHANGED <<revision, born, refresh>> /\ drawn' = drawn \union {s}
        /\ digest' = [digest EXCEPT ![s] = t]
    BY <1>1 DEF CreateMCPToken, profileVars
  <2> HIDE DEF r
  <2>4. AllowlistKeepsIncarnation'
    BY <2>1, <2>2, <2>3, AllowlistWrite
  <2>5. DigestIndexExact'
    <3>1. \A u \in Secret : digest[u] # t
      BY <1>0, <2>3, NoneAssumption DEF DigestIndexExact
    <3>2. \A u \in Secret : digest'[u] = IF u = s THEN t
                                        ELSE IF digest[u] = t THEN None ELSE digest[u]
      BY <1>0, <2>3, <3>1 DEF TypeOK
    <3> QED BY <2>1, <2>2, <2>3, <3>2, DigestWrite
  <2>6. RefreshChainSound'
    BY <1>0, <2>3 DEF RefreshChainSound, TypeOK, RefreshRecord
  <2>7. IndexedSecretsDrawn'
    BY <1>0, <2>3 DEF IndexedSecretsDrawn, TypeOK
  <2> QED BY <2>4, <2>5, <2>6, <2>7 DEF CredentialFacts
<1>2. ASSUME NEW t \in TokenId, NEW s \in Secret, RotateMCPToken(t, s)
      PROVE  CredentialFacts'
  <2> DEFINE r == [token[t] EXCEPT !.digest = s, !.closed = TRUE]
  <2>1. token[t] \in TokenRecord /\ token[t] # None /\ r \in TokenRecord
    BY <1>0, <1>2, TokenEdits DEF RotateMCPToken
  <2>2. r.digest = s /\ r.allow = token[t].allow /\ r.incarnation = token[t].incarnation
    BY <2>1 DEF TokenRecord
  <2>3. /\ token' = [token EXCEPT ![t] = r] /\ s \notin drawn
        /\ UNCHANGED <<revision, born>> /\ drawn' = drawn \union {s}
        /\ digest' = [digest EXCEPT ![token[t].digest] = None, ![s] = t]
        /\ refresh' = WithoutRefresh(t)
    BY <1>2 DEF RotateMCPToken, profileVars
  <2> HIDE DEF r
  <2>4. AllowlistKeepsIncarnation'
    BY <1>0, <2>1, <2>2, <2>3, AllowlistWrite DEF AllowlistKeepsIncarnation
  <2>5. \A u \in Secret : digest'[u] = IF u = s THEN t
                                      ELSE IF digest[u] = t THEN None ELSE digest[u]
    <3>1. token[t].digest \in Secret /\ digest[token[t].digest] = t
      BY <1>0, <2>1 DEF DigestIndexExact, TokenRecord
    <3>2. \A u \in Secret : digest[u] = t => u = token[t].digest
      BY <1>0, NoneAssumption DEF DigestIndexExact
    <3> QED
      BY <1>0, <2>3, <3>1, <3>2 DEF TypeOK
  <2>6. DigestIndexExact'
    BY <2>1, <2>2, <2>3, <2>5, DigestWrite
  <2>7. RefreshChainSound'
    BY <1>0, <2>3 DEF RefreshChainSound, WithoutRefresh, TypeOK, RefreshRecord
  <2>8. IndexedSecretsDrawn'
    BY <1>0, <2>3, <2>5 DEF IndexedSecretsDrawn, WithoutRefresh, TypeOK
  <2> QED BY <2>4, <2>6, <2>7, <2>8 DEF CredentialFacts
<1>3. ASSUME NEW t \in TokenId, NEW r \in TokenRecord,
             token[t] # None, token' = [token EXCEPT ![t] = r],
             r.digest = token[t].digest, r.allow = token[t].allow,
             r.incarnation = token[t].incarnation,
             refresh' = WithoutRefresh(t),
             UNCHANGED <<revision, born, digest, drawn>>
      PROVE  CredentialFacts'
  <2>1. AllowlistKeepsIncarnation'
    BY <1>0, <1>3, AllowlistWrite DEF AllowlistKeepsIncarnation
  <2>2. DigestIndexExact'
    BY <1>0, <1>3, NoneAssumption DEF DigestIndexExact, TypeOK
  <2>3. RefreshChainSound'
    BY <1>0, <1>3 DEF RefreshChainSound, WithoutRefresh, TypeOK, RefreshRecord
  <2>4. IndexedSecretsDrawn'
    BY <1>0, <1>3 DEF IndexedSecretsDrawn, WithoutRefresh
  <2> QED BY <2>1, <2>2, <2>3, <2>4 DEF CredentialFacts
<1>4. ASSUME NEW t \in TokenId, RevokeMCPToken(t)
      PROVE  CredentialFacts'
  <2> DEFINE r == [token[t] EXCEPT !.revoked = TRUE, !.closed = TRUE]
  <2>1. token[t] \in TokenRecord /\ token[t] # None /\ r \in TokenRecord
    BY <1>0, <1>4, TokenEdits DEF RevokeMCPToken
  <2>2. /\ r.digest = token[t].digest /\ r.allow = token[t].allow
        /\ r.incarnation = token[t].incarnation
    BY <2>1 DEF TokenRecord
  <2>3. /\ token' = [token EXCEPT ![t] = r] /\ refresh' = WithoutRefresh(t)
        /\ UNCHANGED <<revision, born, digest, drawn>>
    BY <1>4 DEF RevokeMCPToken, profileVars
  <2> HIDE DEF r
  <2> QED BY <1>3, <2>1, <2>2, <2>3
<1>5. ASSUME NEW t \in TokenId, NEW at \in 1 .. MaxTime, ExpireMCPToken(t, at)
      PROVE  CredentialFacts'
  <2> DEFINE r == [token[t] EXCEPT !.expires = at, !.closed = TRUE]
  <2>0. at \in Nat
    BY ConstantsAssumption
  <2>1. token[t] \in TokenRecord /\ token[t] # None /\ r \in TokenRecord
    BY <1>0, <1>5, <2>0, TokenEdits DEF ExpireMCPToken
  <2>2. /\ r.digest = token[t].digest /\ r.allow = token[t].allow
        /\ r.incarnation = token[t].incarnation
    BY <2>1 DEF TokenRecord
  <2>3. /\ token' = [token EXCEPT ![t] = r] /\ refresh' = WithoutRefresh(t)
        /\ UNCHANGED <<revision, born, digest, drawn>>
    BY <1>5 DEF ExpireMCPToken, profileVars
  <2> HIDE DEF r
  <2> QED BY <1>3, <2>1, <2>2, <2>3
<1> QED
  BY <1>1, <1>2, <1>4, <1>5 DEF TokenStep

\* Issuing and renewing an OAuth token set keeps the credential invariant.
LEMMA OAuthStepCredentials ==
  ASSUME CredentialInv, OAuthStep
  PROVE  CredentialFacts'
<1>0. /\ TypeOK /\ token \in [TokenId -> TokenRecord \union {None}]
      /\ \A t \in TokenId : token[t] # None => token[t] \in TokenRecord
      /\ IndexedSecretsDrawn /\ AllowlistKeepsIncarnation
      /\ DigestIndexExact /\ RefreshChainSound
  BY DEF CredentialInv, CredentialFacts, TypeInv, TypeOK
<1>1. ASSUME NEW t \in TokenId, NEW access \in Secret, NEW renew \in Secret,
             NEW cl \in Client, NEW in \in TokenInput,
             IssueOAuthTokenSet(t, access, renew, cl, in)
      PROVE  CredentialFacts'
  <2> DEFINE asked == [in EXCEPT !.mode = "interactive", !.ttl = AccessTTL]
             r == NewTokenRecord(access, asked)
             f == [token |-> t, client |-> cl, expires |-> now + RefreshTTL]
  <2>1. r \in TokenRecord
    BY <1>0, InputAssumption, NeverAssumption, ConstantsAssumption
    DEF NewTokenRecord, TokenRecord, Expiry, TypeOK, Mode
  <2>2. /\ r.digest = access /\ ~r.closed /\ r.created = now
        /\ \A n \in r.allow : revision[n] # 0 /\ r.incarnation[n] = born[n]
    BY <1>1, InputAssumption DEF NewTokenRecord, IssueOAuthTokenSet, KnownNas
  <2>3. /\ token[t] = None /\ token' = [token EXCEPT ![t] = r]
        /\ access \notin drawn /\ renew \notin drawn /\ access # renew
        /\ UNCHANGED <<revision, born>> /\ drawn' = drawn \union {access, renew}
        /\ digest' = [digest EXCEPT ![access] = t]
        /\ refresh' = [refresh EXCEPT ![renew] = f]
    BY <1>1 DEF IssueOAuthTokenSet, profileVars
  <2>4. f # None /\ f.token = t /\ f.expires = now + RefreshTTL
    <3>1. f \in RefreshRecord
      BY <1>0, ConstantsAssumption DEF RefreshRecord, TypeOK
    <3> QED BY <3>1, NoneAssumption
  <2> HIDE DEF r, f
  <2>5. AllowlistKeepsIncarnation'
    BY <2>1, <2>2, <2>3, AllowlistWrite
  <2>6. DigestIndexExact'
    <3>1. \A u \in Secret : digest[u] # t
      BY <1>0, <2>3, NoneAssumption DEF DigestIndexExact
    <3>2. \A u \in Secret : digest'[u] = IF u = access THEN t
                                        ELSE IF digest[u] = t THEN None ELSE digest[u]
      BY <1>0, <2>3, <3>1 DEF TypeOK
    <3> QED BY <2>1, <2>2, <2>3, <3>2, DigestWrite
  <2>7. RefreshChainSound'
    <3>1. \A s \in Secret : refresh[s] # None => refresh[s].token # t
      BY <1>0, <2>3 DEF RefreshChainSound
    <3>2. token'[t] = r /\ r # None /\ \A u \in TokenId : u # t => token'[u] = token[u]
      BY <1>0, <2>1, <2>3, NoneAssumption
    <3>3. \A s \in Secret : refresh'[s] = IF s = renew THEN f ELSE refresh[s]
      BY <1>0, <2>3 DEF TypeOK
    <3>4. \A s \in Secret : refresh[s] # None => refresh[s].token \in TokenId
      BY <1>0 DEF TypeOK, RefreshRecord
    <3> QED
      BY <1>0, <2>2, <2>4, <3>1, <3>2, <3>3, <3>4 DEF RefreshChainSound
  <2>8. IndexedSecretsDrawn'
    BY <1>0, <2>3 DEF IndexedSecretsDrawn, TypeOK
  <2> QED BY <2>5, <2>6, <2>7, <2>8 DEF CredentialFacts
<1>2. ASSUME NEW old \in Secret, NEW cl \in Client, NEW access \in Secret,
             NEW renew \in Secret, RefreshOAuthTokenSet(old, cl, access, renew)
      PROVE  CredentialFacts'
  <2> DEFINE t == refresh[old].token
             r == [token[t] EXCEPT !.digest = access, !.expires = now + AccessTTL]
  <2>1. refresh[old] # None /\ t \in TokenId
    BY <1>0, <1>2 DEF RefreshOAuthTokenSet, TypeOK, RefreshRecord
  <2>2. token[t] # None /\ token[t] \in TokenRecord /\ r \in TokenRecord
    <3>1. token[t] # None /\ now + AccessTTL \in Nat
      BY <1>0, <1>2, ConstantsAssumption DEF RefreshOAuthTokenSet, TypeOK
    <3> QED BY <1>0, <2>1, <3>1, TokenEdits
  <2>3. /\ r.digest = access /\ r.allow = token[t].allow
        /\ r.incarnation = token[t].incarnation
        /\ r.closed = token[t].closed /\ r.created = token[t].created
    BY <2>2 DEF TokenRecord
  <2>4. /\ token' = [token EXCEPT ![t] = r]
        /\ access \notin drawn /\ renew \notin drawn /\ access # renew
        /\ UNCHANGED <<revision, born>> /\ drawn' = drawn \union {access, renew}
        /\ digest' = [digest EXCEPT ![token[t].digest] = None, ![access] = t]
        /\ refresh' = [refresh EXCEPT ![old] = None, ![renew] = refresh[old]]
    BY <1>2 DEF RefreshOAuthTokenSet, profileVars
  <2> HIDE DEF t, r
  <2>5. AllowlistKeepsIncarnation'
    BY <1>0, <2>1, <2>2, <2>3, <2>4, AllowlistWrite DEF AllowlistKeepsIncarnation
  <2>6. \A u \in Secret : digest'[u] = IF u = access THEN t
                                      ELSE IF digest[u] = t THEN None ELSE digest[u]
    <3>1. token[t].digest \in Secret /\ digest[token[t].digest] = t
      BY <1>0, <2>1, <2>2 DEF DigestIndexExact, TokenRecord
    <3>2. \A u \in Secret : digest[u] = t => u = token[t].digest
      BY <1>0, <2>1, NoneAssumption DEF DigestIndexExact
    <3> QED
      BY <1>0, <2>4, <3>1, <3>2 DEF TypeOK
  <2>7. DigestIndexExact'
    BY <2>1, <2>2, <2>3, <2>4, <2>6, DigestWrite
  <2>8. \A s \in Secret : refresh'[s] = IF s = renew THEN refresh[old]
                                       ELSE IF s = old THEN None ELSE refresh[s]
    BY <1>0, <2>4 DEF TypeOK
  <2>9. RefreshChainSound'
    <3>1. /\ token'[t] = r /\ r # None
          /\ \A u \in TokenId : u # t => token'[u] = token[u]
      BY <1>0, <2>1, <2>2, <2>4, NoneAssumption
    <3>2. \A s \in Secret : refresh[s] # None => refresh[s].token \in TokenId
      BY <1>0 DEF TypeOK, RefreshRecord
    <3>3. refresh[renew] = None
      BY <2>4, FreshSecretUnindexed
    <3> QED
      BY <1>0, <2>1, <2>3, <2>8, <3>1, <3>2, <3>3 DEF RefreshChainSound, t
  <2>10. IndexedSecretsDrawn'
    BY <1>0, <2>4, <2>6, <2>8 DEF IndexedSecretsDrawn
  <2> QED BY <2>5, <2>7, <2>9, <2>10 DEF CredentialFacts
<1> QED
  BY <1>1, <1>2 DEF OAuthStep

\* The strengthened invariant holds in every reachable state.
LEMMA CredentialInvariant == Spec => []CredentialInv
<1>1. Init => CredentialInv
  <2>1. Init => TypeInv
    BY ConstantsAssumption, NoneAssumption
    DEF Init, TypeInv, TypeOK, CallsBound, IdleCall, CallRecord, PC
  <2> QED
    BY <2>1 DEF Init, CredentialInv, CredentialFacts, IndexedSecretsDrawn,
                AllowlistKeepsIncarnation, DigestIndexExact, RefreshChainSound
<1>2. CredentialInv /\ [Next]_vars => CredentialInv'
  <2> SUFFICES ASSUME CredentialInv, [Next]_vars PROVE CredentialInv'
    OBVIOUS
  <2>1. TypeInv'
    BY TypeStep, CallsBoundStep DEF CredentialInv, TypeInv
  <2>2. ASSUME UNCHANGED <<profileVars, tokenVars>> PROVE CredentialFacts'
    BY <2>2 DEF CredentialInv, CredentialFacts, profileVars, tokenVars,
       IndexedSecretsDrawn, AllowlistKeepsIncarnation, DigestIndexExact,
       RefreshChainSound
  <2> QED
    BY <2>1, <2>2, ProfileStepCredentials, TokenStepCredentials,
       OAuthStepCredentials, OthersKeepCredentials DEF CredentialInv
<1> QED
  BY <1>1, <1>2, PTL DEF Spec

\* Deleting a NAS and creating its name again restores no old access
\* (DeleteProfile's pass over the allowlists).
THEOREM AllowlistsKeepTheirProfiles == Spec => []AllowlistKeepsIncarnation
<1>1. CredentialInv => AllowlistKeepsIncarnation
  BY DEF CredentialInv, CredentialFacts
<1> QED BY <1>1, CredentialInvariant, PTL

\* A bearer secret opens the token that carries it and a replaced one opens
\* nothing (putMCPTokenRecord, RotateMCPToken, RefreshOAuthTokenSet).
THEOREM DigestIndexCorrect == Spec => []DigestIndexExact
<1>1. CredentialInv => DigestIndexExact
  BY DEF CredentialInv, CredentialFacts
<1> QED BY <1>1, CredentialInvariant, PTL

\* A token has at most one refresh secret, which an administrator's change
\* ends and no renewal prolongs (RefreshOAuthTokenSet).
THEOREM RefreshChainCorrect == Spec => []RefreshChainSound
<1>1. CredentialInv => RefreshChainSound
  BY DEF CredentialInv, CredentialFacts
<1> QED BY <1>1, CredentialInvariant, PTL

\* No call is admitted for a revoked token, or on a profile other than the
\* one its token was issued for (AdmitRemoteApply rechecks the record).
THEOREM AdmissionsAreCurrent == Spec => AdmissionIsCurrent
<1>1. CredentialInv /\ [Next]_vars =>
        [\A c \in Call :
           call[c].pc # "admitted" /\ call'[c].pc = "admitted" =>
             LET t == call[c].token
                 n == call[c].plan.nas
             IN ~token[t].revoked /\ token[t].incarnation[n] = born[n]]_vars
  <2> SUFFICES ASSUME CredentialInv, [Next]_vars, NEW c \in Call,
                      call[c].pc # "admitted", call'[c].pc = "admitted"
               PROVE  /\ ~token[call[c].token].revoked
                      /\ token[call[c].token].incarnation[call[c].plan.nas]
                           = born[call[c].plan.nas]
    OBVIOUS
  <2>1. Admissible(c)
    BY AdmissionSteps DEF CredentialInv, AdmitMediumRisk, AdmitApproved, AdmitInteractive
  <2>2. call[c].token \in TokenId
    BY <2>1 DEF CredentialInv, TypeInv, CallsBound, Admissible
  <2> QED
    BY <2>1, <2>2
    DEF Admissible, Active, CredentialInv, CredentialFacts, AllowlistKeepsIncarnation
<1> QED
  BY <1>1, CredentialInvariant, PTL DEF Spec, AdmissionIsCurrent

===========================================================================
