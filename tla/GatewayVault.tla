---------------------------- MODULE GatewayVault ----------------------------
(***************************************************************************)
(* internal/gateway/state/vault.go and the console handlers in front of    *)
(* it: the secrets of one NAS profile (the password book, the trusted      *)
(* device, the DSM session, secrets for applies) and the sign-ins that     *)
(* store them.  A sign-in reads the profile, talks to the NAS at the URL   *)
(* it has read, and commits later, when the profile may have been moved,   *)
(* signed in otherwise, or deleted and created again under its name.       *)
(*                                                                         *)
(* A secret is known by the order of its random ID.  What is encrypted is  *)
(* abstracted to the account it belongs to and the URL it was verified at. *)
(*                                                                         *)
(* Bounds: the profiles, revisions and secrets ever created.               *)
(***************************************************************************)
EXTENDS Integers, FiniteSets

CONSTANTS VaultURL, Account, Enrolment, MaxProfileIds, MaxVaultRevision, MaxSecretIds, NoProfile

ASSUME VaultAssumption ==
    /\ {MaxProfileIds, MaxVaultRevision, MaxSecretIds} \subseteq Nat
    /\ NoProfile \notin [id : Nat, revision : Nat, url : VaultURL, username : Account \union {0},
                        password : Nat, device : Nat, session : Nat]

VARIABLES
    record,        \* bucketProfiles: the profile, or NoProfile
    secrets,       \* bucketSecrets: ID -> [type, profile, account, url]
    enrolment,     \* a sign-in under way: what it has read
    profileIds, revisions, secretIds,
    retained,      \* history: profiles deleted with their secrets kept
    switched       \* history: the login has changed under the stored password

vaultVars ==
    <<record, secrets, enrolment, profileIds, revisions, secretIds, retained, switched>>

NoEnrolment == [does |-> "nothing", revision |-> 0, url |-> 0, account |-> 0]

VaultInit ==
    /\ record = NoProfile /\ secrets = << >>
    /\ enrolment = [e \in Enrolment |-> NoEnrolment]
    /\ profileIds = 0 /\ revisions = 0 /\ secretIds = 0
    /\ retained = {} /\ switched = FALSE

Exists == record # NoProfile
nextProfileRevision == revisions < MaxVaultRevision /\ revisions' = revisions + 1
Sealed(type, account, url) ==
    [type |-> type, profile |-> record.id, account |-> account, url |-> url]

\* putSecret: in place of existing, or under a new ID.  Several secrets of one
\* transaction are put together.
Renumbered(existing, n) == IF existing = 0 THEN secretIds + n ELSE existing

PutAll(puts) ==
    /\ secretIds + Cardinality({p \in DOMAIN puts : p > secretIds}) <= MaxSecretIds
    /\ secretIds' = secretIds + Cardinality({p \in DOMAIN puts : p > secretIds})
    /\ secrets' = [i \in DOMAIN secrets \union DOMAIN puts |->
                      IF i \in DOMAIN puts THEN puts[i] ELSE secrets[i]]
Without(ids) == [i \in DOMAIN secrets \ ids |-> secrets[i]]

\* passwordSecretIDForAccount
EntriesOf(account) ==
    {i \in DOMAIN secrets : secrets[i].type = "password" /\ secrets[i].profile = record.id
                            /\ secrets[i].account = account}

(***************************************************************************)
(* The profile.                                                            *)
(***************************************************************************)
CreateRecord(url) ==
    /\ ~Exists /\ profileIds < MaxProfileIds /\ nextProfileRevision
    /\ profileIds' = profileIds + 1
    /\ record' = [id |-> profileIds + 1, revision |-> revisions + 1, url |-> url, username |-> 0,
                  password |-> 0, device |-> 0, session |-> 0]
    /\ switched' = FALSE
    /\ UNCHANGED <<secrets, enrolment, secretIds, retained>>

\* The secrets stay, also when the profile moves to another URL.
UpdateRecord(url) ==
    /\ Exists /\ record.url # url /\ nextProfileRevision
    /\ record' = [record EXCEPT !.url = url, !.revision = revisions + 1]
    /\ UNCHANGED <<secrets, enrolment, profileIds, secretIds, retained, switched>>

Referenced == {record.password, record.device, record.session} \* Fault: not the whole book

OfProfile == {i \in DOMAIN secrets : secrets[i].profile = record.id}

DeleteRecord(retain) ==
    /\ Exists
    /\ secrets' = IF retain THEN secrets ELSE Without(OfProfile)
    /\ retained' = IF retain THEN retained \union {record.id} ELSE retained
    /\ record' = NoProfile
    /\ UNCHANGED <<enrolment, profileIds, revisions, secretIds, switched>>

(***************************************************************************)
(* Sign-ins: reading the profile and authenticating ...                    *)
(***************************************************************************)
BeginEnrolment(e, does, account) ==
    /\ Exists /\ enrolment[e] = NoEnrolment
    /\ enrolment' = [enrolment EXCEPT ![e] =
            [does |-> does, revision |-> record.revision, url |-> record.url,
             account |-> account]]
    /\ UNCHANGED <<record, secrets, profileIds, revisions, secretIds, retained, switched>>

(***************************************************************************)
(* ... and storing what came of it.                                        *)
(***************************************************************************)
Ends(e, does) ==
    /\ enrolment[e].does = does
    /\ enrolment' = [enrolment EXCEPT ![e] = NoEnrolment]
    /\ UNCHANGED <<profileIds, retained>>

Refused == UNCHANGED <<record, secrets, revisions, secretIds, switched>>

AtAnyRevision(e) == Exists \* Fault: no expected revision

AtExpectedRevision(e) == Exists /\ record.revision = enrolment[e].revision

\* a login under another account leaves the password of the old one in place
Switches(account) == switched \/ (record.password # 0 /\ record.username # account)

\* savePasswordForAccount: the primary account with its session, at the
\* revision the handler has decided on that
SavePasswordForAccount(e) ==
    /\ Ends(e, "password")
    /\ LET account == enrolment[e].account
           Verified(type) == Sealed(type, account, enrolment[e].url)
           password == Renumbered(record.password, 1)
           session == Renumbered(record.session, IF record.password = 0 THEN 2 ELSE 1)
           existing == EntriesOf(account)
       IN
       IF ~AtExpectedRevision(e) THEN Refused
       ELSE IF record.password = 0 \/ record.username = account
       THEN /\ PutAll([i \in {password, session} |->
                          Verified(IF i = password THEN "password" ELSE "session")])
            /\ record' = [record EXCEPT !.password = password, !.username = account,
                                        !.session = session, !.revision = revisions + 1]
            /\ nextProfileRevision /\ switched' = FALSE
       ELSE /\ \E i \in IF existing = {} THEN {secretIds + 1} ELSE existing :
                    PutAll([j \in {i} |-> Verified("password")])
            /\ record' = [record EXCEPT !.revision = revisions + 1]
            /\ nextProfileRevision /\ UNCHANGED switched

SaveEnrolledSession(e) ==
    LET session == Renumbered(record.session, 1) IN
    /\ nextProfileRevision
    /\ PutAll([i \in {session} |-> Sealed("session", enrolment[e].account, enrolment[e].url)])
    /\ switched' = Switches(enrolment[e].account)
    /\ record' = [record EXCEPT !.session = session, !.username = enrolment[e].account,
                                !.revision = revisions + 1]

\* connect without remembering the password
EnrollSessionAtRevision(e) ==
    /\ Ends(e, "connect")
    /\ IF AtExpectedRevision(e) THEN SaveEnrolledSession(e) ELSE Refused

\* web login: whatever the profile of that name is by then
EnrollSession(e) ==
    /\ Ends(e, "weblogin")
    /\ IF Exists THEN SaveEnrolledSession(e) ELSE Refused

\* PersistProvisioned reads the revision it expects just before it enrols,
\* long after the password was set at the URL that was read
EnrollPasswordForAccount(e) ==
    /\ Ends(e, "provision")
    /\ IF ~Exists THEN Refused
       ELSE LET password == Renumbered(record.password, 1) IN
            /\ nextProfileRevision
            /\ PutAll([i \in {password} |->
                          Sealed("password", enrolment[e].account, enrolment[e].url)])
            /\ record' = [record EXCEPT !.password = password, !.username = enrolment[e].account,
                                        !.revision = revisions + 1]
            /\ switched' = FALSE

(***************************************************************************)
(* Removing.                                                               *)
(***************************************************************************)
Removes(ids, new) ==
    /\ Exists /\ ids # {} /\ nextProfileRevision
    /\ secrets' = Without(ids)
    /\ record' = [new EXCEPT !.revision = revisions + 1]
    /\ UNCHANGED <<enrolment, profileIds, secretIds, retained>>

DeletePasswordForAccount(account) ==
    /\ Exists
    /\ IF record.username = account
       THEN /\ Removes({record.password} \ {0}, [record EXCEPT !.password = 0])
            /\ switched' = FALSE
       ELSE /\ \E i \in EntriesOf(account) : Removes({i}, record)
            /\ UNCHANGED switched

DeleteSession ==
    /\ Exists /\ Removes({record.session} \ {0}, [record EXCEPT !.session = 0])
    /\ UNCHANGED switched

DeleteTrustedDevice ==
    /\ Exists /\ Removes({record.device} \ {0}, [record EXCEPT !.device = 0])
    /\ UNCHANGED switched

(***************************************************************************)
(* What changes no revision.                                               *)
(***************************************************************************)
SaveTrustedDevice ==
    /\ Exists
    /\ LET device == Renumbered(record.device, 1) IN
       /\ PutAll([i \in {device} |-> Sealed("device", record.username, record.url)])
       /\ record' = [record EXCEPT !.device = device]
    /\ UNCHANGED <<enrolment, profileIds, revisions, retained, switched>>

StoreApplySecret ==
    /\ Exists
    /\ PutAll([i \in {secretIds + 1} |-> Sealed("apply", 0, record.url)])
    /\ UNCHANGED <<record, enrolment, profileIds, revisions, retained, switched>>

DeleteApplySecret(i) ==
    /\ Exists /\ secrets[i].profile = record.id /\ secrets[i].type = "apply"
    /\ secrets' = Without({i})
    /\ UNCHANGED <<record, enrolment, profileIds, revisions, secretIds, retained, switched>>

DeleteOrphanedSecret(i) ==
    /\ ~(Exists /\ secrets[i].profile = record.id)
    /\ secrets' = Without({i})
    /\ UNCHANGED <<record, enrolment, profileIds, revisions, secretIds, retained, switched>>

VaultNext ==
    \/ \E url \in VaultURL : CreateRecord(url) \/ UpdateRecord(url)
    \/ \E retain \in BOOLEAN : DeleteRecord(retain)
    \/ \E e \in Enrolment, account \in Account, does \in {"password", "connect", "weblogin", "provision"} :
        BeginEnrolment(e, does, account)
    \/ \E e \in Enrolment :
        \/ SavePasswordForAccount(e) \/ EnrollSessionAtRevision(e)
        \/ EnrollSession(e) \/ EnrollPasswordForAccount(e)
    \/ \E account \in Account : DeletePasswordForAccount(account)
    \/ DeleteSession \/ DeleteTrustedDevice \/ SaveTrustedDevice \/ StoreApplySecret
    \/ \E i \in DOMAIN secrets : DeleteApplySecret(i) \/ DeleteOrphanedSecret(i)

VaultSpec == VaultInit /\ [][VaultNext]_vaultVars

-----------------------------------------------------------------------------

\* Every variable of the vault has its type, and a profile has at most one
\* session and one trusted device, however often they are renewed.
VaultTypeOK ==
    /\ Exists => /\ record.id \in 1..profileIds /\ record.revision \in 1..revisions
                 /\ record.username \in Account \union {0}
                 /\ {record.password, record.device, record.session} \subseteq 0..secretIds
    /\ DOMAIN secrets \subseteq 1..secretIds /\ secretIds <= MaxSecretIds
    /\ \A i \in DOMAIN secrets :
        /\ secrets[i].type \in {"password", "session", "device", "apply"}
        /\ secrets[i].type \in {"session", "device"} =>
            ~\E j \in DOMAIN secrets \ {i} :
                secrets[j].type = secrets[i].type /\ secrets[j].profile = secrets[i].profile

\* A secret belongs to the profile that exists, or to one whose deletion kept
\* its secrets; and what the profile refers to is a secret of its own, of the
\* right kind.  The password alone may be gone, when the entry of the account
\* that was stored as the primary one is deleted after a sign-in as another.
SecretsAccounted ==
    /\ \A i \in DOMAIN secrets :
        secrets[i].profile \in retained \union (IF Exists THEN {record.id} ELSE {})
    /\ Exists =>
        \A ref \in {<<record.password, "password">>, <<record.device, "device">>,
                    <<record.session, "session">>} :
            ref[1] # 0 =>
                \/ /\ ref[1] \in DOMAIN secrets
                   /\ secrets[ref[1]].type = ref[2] /\ secrets[ref[1]].profile = record.id
                \/ ref[1] = record.password /\ switched

\* What is stored without a revision from before the NAS was asked: a web login
\* compares none, and provisioning compares the one that the profile has by
\* then, so that the race which the comments of EnrollPasswordForAccount and of
\* vaultProvisionSink take for closed is open.
Uncompared == {"weblogin", "provision"}

\* The expected revision closes the race with a profile edit: whatever a sign-in
\* stores, the password or, when it is not kept, the session alone, was verified
\* at the URL the profile has when it is stored, or is of an uncompared kind.
PasswordVerifiedHere ==
    [][\A e \in Enrolment :
            enrolment[e] # NoEnrolment /\ enrolment'[e] = NoEnrolment /\ secrets' # secrets
            => enrolment[e].url = record'.url \/ enrolment[e].does \in Uncompared]_vaultVars

\* The primary entry of the password book is the one of the profile's login,
\* through provisioning, further accounts and deletions, unless a session was
\* enrolled under another account: saveSession changes the login and leaves the
\* password of the old account in its place.
PrimaryIsLogin ==
    Exists /\ record.password \in DOMAIN secrets /\ ~switched =>
        secrets[record.password].account = record.username

\* The secrets of the vault and the profile that refers to them agree, through
\* sign-ins that race with edits, further accounts, deletion and re-creation.
VaultSafe == SecretsAccounted /\ PrimaryIsLogin

=============================================================================
