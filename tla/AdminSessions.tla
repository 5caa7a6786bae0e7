---------------------------- MODULE AdminSessions ----------------------------
(***************************************************************************)
(* internal/gateway/state/admin.go: the one local administrator, its       *)
(* password, and the bounded table of browser sessions.  Hashing a         *)
(* password takes long and happens outside the transactions, so a call     *)
(* reads, works and commits in separate steps, and every commit has to     *)
(* check again what the call has read.                                     *)
(*                                                                         *)
(* A verifier is the number of the password it was made from, 0 before the *)
(* administrator is set up.  A wrong password changes nothing and is left  *)
(* out.                                                                    *)
(*                                                                         *)
(* Bounds: the sessions ever created, the passwords and the clock.         *)
(***************************************************************************)
EXTENDS Integers, FiniteSets

CONSTANTS AdminCall, MaxAdminSessions, AdminSessionTTL, MaxSignIns, MaxPasswords, MaxAdminTime

ASSUME AdminAssumption ==
    /\ {MaxAdminSessions, AdminSessionTTL} \subseteq Nat \ {0}
    /\ {MaxSignIns, MaxPasswords, MaxAdminTime} \subseteq Nat

VARIABLES
    verifier,        \* keyAdminPassword
    adminSessions,   \* bucketAdminSessions: ID -> [created, provider, under]
    adminCall,       \* call -> what it has read so far
    signIns,         \* sessions ever created
    passwords,       \* passwords ever hashed
    changer,         \* history: the session that changed the password last
    firstSession,    \* history: the session CreateAdministrator made
    adminNow

adminVars ==
    <<verifier, adminSessions, adminCall, signIns, passwords, changer, firstSession, adminNow>>

NoCall == [does |-> "nothing", seen |-> 0, id |-> 0, created |-> 0, hash |-> 0]

AdminInit ==
    /\ verifier = 0 /\ adminSessions = << >> /\ signIns = 0 /\ passwords = 0
    /\ adminCall = [c \in AdminCall |-> NoCall]
    /\ changer = 0 /\ firstSession = 0 /\ adminNow = 0

Live(id) == id \in DOMAIN adminSessions /\ adminNow < adminSessions[id].created + AdminSessionTTL

(***************************************************************************)
(* The first half of a call: read, verify, hash, make a session.           *)
(***************************************************************************)
Begins(c, does, id, hash) ==
    /\ adminCall[c] = NoCall
    /\ adminCall' = [adminCall EXCEPT ![c] = [does |-> does, seen |-> verifier, id |-> id,
                                              created |-> adminNow, hash |-> hash]]
    /\ UNCHANGED <<verifier, adminSessions, changer, firstSession, adminNow>>

newAdministratorSession == signIns < MaxSignIns /\ signIns' = signIns + 1
hashPassword == passwords < MaxPasswords /\ passwords' = passwords + 1

BeginLogin(c) ==
    /\ verifier # 0
    /\ newAdministratorSession /\ Begins(c, "login", signIns + 1, 0) /\ UNCHANGED passwords

BeginDSMSession(c) ==
    newAdministratorSession /\ Begins(c, "dsm", signIns + 1, 0) /\ UNCHANGED passwords

BeginCreate(c) ==
    newAdministratorSession /\ hashPassword /\ Begins(c, "create", signIns + 1, passwords + 1)

BeginConfigure(c) ==
    /\ \E id \in DOMAIN adminSessions : Live(id)
    /\ hashPassword /\ Begins(c, "configure", 0, passwords + 1) /\ UNCHANGED signIns

BeginChange(c, id) ==
    /\ Live(id) /\ verifier # 0
    /\ hashPassword /\ Begins(c, "change", id, passwords + 1) /\ UNCHANGED signIns

BeginRevoke(c, id) ==
    Live(id) /\ Begins(c, "revoke", id, 0) /\ UNCHANGED <<signIns, passwords>>

(***************************************************************************)
(* The second half: one transaction.                                       *)
(***************************************************************************)
Does(c, what) ==
    /\ adminCall[c].does = what
    /\ adminCall' = [adminCall EXCEPT ![c] = NoCall]
    /\ UNCHANGED <<signIns, passwords, adminNow>>

Record(c, provider) ==
    [created |-> adminCall[c].created, provider |-> provider,
     under |-> IF provider = "local" THEN adminCall[c].seen ELSE verifier]

With(table, id, record) == [i \in DOMAIN table \union {id} |-> IF i = id THEN record ELSE table[i]]
Only(ids) == [i \in ids |-> adminSessions[i]]

StayOldest == \* Fault: sorted the wrong way round
    LET active == {i \in DOMAIN adminSessions : Live(i)} IN
    {S \in SUBSET active :
        /\ Cardinality(S) = IF Cardinality(active) < MaxAdminSessions THEN Cardinality(active)
                            ELSE MaxAdminSessions - 1
        /\ \A i \in S, j \in active \ S : adminSessions[i].created <= adminSessions[j].created}

\* The sessions that stay when one more is put: none that has expired, and of
\* the others all but the oldest ones beyond the limit.  The first of several
\* as old as each other, in the order of the random keys, goes first.
Stay ==
    LET active == {i \in DOMAIN adminSessions : Live(i)} IN
    {S \in SUBSET active :
        /\ Cardinality(S) = IF Cardinality(active) < MaxAdminSessions THEN Cardinality(active)
                            ELSE MaxAdminSessions - 1
        /\ \A i \in S, j \in active \ S : adminSessions[j].created <= adminSessions[i].created}

PutUnbounded(c, provider) == \* Fault
    adminSessions' = With(adminSessions, adminCall[c].id, Record(c, provider))

putBoundedAdministratorSession(c, provider) ==
    \E S \in Stay : adminSessions' = With(Only(S), adminCall[c].id, Record(c, provider))

VerifierAsReadNot(c) == TRUE \* Fault: the password is not compared again

VerifierAsRead(c) == verifier = adminCall[c].seen

LoginAdministrator(c) ==
    /\ Does(c, "login")
    /\ IF VerifierAsRead(c) THEN putBoundedAdministratorSession(c, "local")
       ELSE UNCHANGED adminSessions
    /\ UNCHANGED <<verifier, changer, firstSession>>

CreateDSMAdministratorSession(c) ==
    /\ Does(c, "dsm") /\ putBoundedAdministratorSession(c, "dsm")
    /\ UNCHANGED <<verifier, changer, firstSession>>

ConfiguredNever == FALSE \* Fault: the first writer does not win

Configured == verifier # 0

CreateAdministrator(c) ==
    /\ Does(c, "create")
    /\ IF Configured THEN UNCHANGED <<verifier, adminSessions, firstSession>>
       ELSE /\ verifier' = adminCall[c].hash
            /\ adminSessions' = With(adminSessions, adminCall[c].id,
                                     [Record(c, "local") EXCEPT !.under = adminCall[c].hash])
            /\ firstSession' = adminCall[c].id
    /\ UNCHANGED changer

ConfigureAdministrator(c) ==
    /\ Does(c, "configure")
    /\ verifier' = IF Configured THEN verifier ELSE adminCall[c].hash
    /\ UNCHANGED <<adminSessions, changer, firstSession>>

ChangeAdministratorPassword(c) ==
    /\ Does(c, "change")
    /\ IF VerifierAsRead(c) /\ Live(adminCall[c].id)
       THEN /\ verifier' = adminCall[c].hash
            /\ adminSessions' = Only({adminCall[c].id}) /\ changer' = adminCall[c].id
       ELSE UNCHANGED <<verifier, adminSessions, changer>>
    /\ UNCHANGED firstSession

\* The session is not looked up again: it may have been revoked meanwhile.
RevokeOtherAdministratorSessions(c) ==
    /\ Does(c, "revoke")
    /\ adminSessions' = Only({adminCall[c].id} \intersect DOMAIN adminSessions)
    /\ UNCHANGED <<verifier, changer, firstSession>>

LogoutAdministrator(id) ==
    /\ adminSessions' = Only(DOMAIN adminSessions \ {id})
    /\ UNCHANGED <<verifier, adminCall, signIns, passwords, changer, firstSession, adminNow>>

\* A session that has expired is removed when it is next used.
AuthenticateAdministratorSession(id) ==
    /\ adminSessions' = IF Live(id) THEN adminSessions ELSE Only(DOMAIN adminSessions \ {id})
    /\ UNCHANGED <<verifier, adminCall, signIns, passwords, changer, firstSession, adminNow>>

AdminTick ==
    /\ adminNow < MaxAdminTime /\ adminNow' = adminNow + 1
    /\ UNCHANGED <<verifier, adminSessions, adminCall, signIns, passwords, changer, firstSession>>

AdminNext ==
    \/ \E c \in AdminCall :
        \/ BeginLogin(c) \/ BeginDSMSession(c) \/ BeginCreate(c) \/ BeginConfigure(c)
        \/ LoginAdministrator(c) \/ CreateDSMAdministratorSession(c) \/ CreateAdministrator(c)
        \/ ConfigureAdministrator(c) \/ ChangeAdministratorPassword(c)
        \/ RevokeOtherAdministratorSessions(c)
        \/ \E id \in DOMAIN adminSessions : BeginChange(c, id) \/ BeginRevoke(c, id)
    \/ \E id \in DOMAIN adminSessions : LogoutAdministrator(id) \/ AuthenticateAdministratorSession(id)
    \/ AdminTick

AdminSpec == AdminInit /\ [][AdminNext]_adminVars

-----------------------------------------------------------------------------

\* Every variable of the administrators' store has its type, and the table
\* exceeds its limit by the session of the set-up at most, which is put
\* without a look at the limit.
AdminTypeOK ==
    /\ verifier \in 0..passwords /\ passwords \in 0..MaxPasswords
    /\ DOMAIN adminSessions \subseteq 1..signIns /\ signIns \in 0..MaxSignIns
    /\ \A i \in DOMAIN adminSessions : adminSessions[i].provider \in {"local", "dsm"}
    /\ Cardinality(DOMAIN adminSessions) <=
        MaxAdminSessions + IF firstSession \in DOMAIN adminSessions THEN 1 ELSE 0

\* After a password change nobody stays signed in on the old one but the
\* session that changed it: also when a login with the old password was being
\* verified, or a DSM sign-in was under way, during the change.
OldPasswordRetired ==
    changer # 0 =>
        \A i \in DOMAIN adminSessions \ {changer} : adminSessions[i].under = verifier

\* The password, once set up, is replaced only by a session that is live then,
\* and which is the only one left: of several set-ups the first one wins, of
\* two changes made at once one is refused.
ReplacedByLiveSession ==
    [][verifier # 0 /\ verifier' # verifier =>
        \E i \in DOMAIN adminSessions : Live(i) /\ DOMAIN adminSessions' = {i}]_adminVars

\* A sign-in pushes out a live session only when the table is full of live
\* ones, no more of them than there have to go, and none that is younger than
\* one that stays.
OldestPushedOut ==
    [][signIns' = signIns /\ (\E i \in DOMAIN adminSessions' : i \notin DOMAIN adminSessions) =>
        \A i \in DOMAIN adminSessions \ DOMAIN adminSessions' :
            Live(i) =>
                /\ Cardinality({j \in DOMAIN adminSessions : Live(j)}) >= MaxAdminSessions
                /\ Cardinality(DOMAIN adminSessions') = MaxAdminSessions
                /\ \A j \in DOMAIN adminSessions' \intersect DOMAIN adminSessions :
                      Live(j) /\ adminSessions[i].created <= adminSessions[j].created]_adminVars

\* What a commit of admin.go may do to the others that are under way: it
\* replaces the password under a live session, and ends only the sessions that
\* have to go.
AdminCommits == ReplacedByLiveSession /\ OldestPushedOut

=============================================================================
