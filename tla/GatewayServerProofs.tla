------------------------ MODULE GatewayServerProofs ------------------------
(***************************************************************************)
(* Proofs about the parts of the gateway server that keep tables of their  *)
(* own: the administrators (AdminSessions), the vault (GatewayVault), and   *)
(* the edge, with its limiter and its table of MCP sessions (GatewayEdge).  *)
(***************************************************************************)
EXTENDS AdminSessions, GatewayVault, GatewayEdge, FiniteSetTheorems, TLAPS

-----------------------------------------------------------------------------
(***************************************************************************)
(* Administrators.                                                         *)
(***************************************************************************)
\* What a call holds between its two halves: the identifier of a session it
\* made or that it was called with, and a verifier that is nobody else's.
CallShape(c) ==
    /\ c.does \in {"nothing", "login", "dsm", "create", "configure", "change", "revoke"}
    /\ c.seen \in 0..passwords /\ c.hash \in 0..passwords /\ c.id \in 0..signIns
    /\ c.created \in Nat
    /\ c.does \in {"create", "configure", "change"} => c.hash # 0
    /\ c.does \in {"login", "dsm", "create", "change"} => c.id # 0

SessionShape == [created : Nat, provider : {"local", "dsm"}, under : Nat]

\* Before the set-up there is no verifier, no first session and no change.
AdminInv ==
    /\ passwords \in 0..MaxPasswords /\ signIns \in 0..MaxSignIns /\ adminNow \in Nat
    /\ verifier \in 0..passwords
    /\ \A c \in AdminCall : CallShape(adminCall[c])
    /\ DOMAIN adminCall = AdminCall
    /\ DOMAIN adminSessions \subseteq 1..signIns
    /\ adminSessions \in [DOMAIN adminSessions -> SessionShape]
    /\ verifier = 0 => firstSession = 0 /\ changer = 0
    /\ Cardinality(DOMAIN adminSessions) <=
        MaxAdminSessions + IF firstSession \in DOMAIN adminSessions THEN 1 ELSE 0
    /\ OldPasswordRetired

\* The table after a transaction that only removes sessions.
LEMMA AdminOnly ==
    ASSUME AdminAssumption, AdminInv, NEW ids \in SUBSET DOMAIN adminSessions
    PROVE  /\ DOMAIN Only(ids) = ids
           /\ \A i \in ids : Only(ids)[i] = adminSessions[i]
           /\ Only(ids) \in [ids -> SessionShape]
           /\ IsFiniteSet(ids) /\ Cardinality(ids) \in Nat
           /\ Cardinality(ids) <= MaxAdminSessions + IF firstSession \in ids THEN 1 ELSE 0
<1>1. /\ DOMAIN Only(ids) = ids
      /\ \A i \in ids : Only(ids)[i] = adminSessions[i]
      /\ Only(ids) \in [ids -> SessionShape]
  BY DEF Only, AdminInv
<1>2. IsFiniteSet(DOMAIN adminSessions) /\ Cardinality(DOMAIN adminSessions) \in Nat
  <2>1. IsFiniteSet(1..signIns)
    <3>1. signIns \in Int /\ 1 \in Int BY DEF AdminInv, AdminAssumption
    <3> QED BY <3>1, FS_Interval
  <2> QED BY <2>1, FS_Subset, FS_CardinalityType DEF AdminInv
<1>3. IsFiniteSet(ids) /\ Cardinality(ids) \in Nat /\ Cardinality(ids) <= Cardinality(DOMAIN adminSessions)
  BY <1>2, FS_Subset, FS_CardinalityType
<1>4. Cardinality(ids) <= MaxAdminSessions + IF firstSession \in ids THEN 1 ELSE 0
  <2>1. MaxAdminSessions \in Nat BY DEF AdminAssumption
  <2>2. CASE firstSession \in ids
    BY <1>2, <1>3, <2>1, <2>2 DEF AdminInv
  <2>3. CASE firstSession \notin DOMAIN adminSessions
    BY <1>2, <1>3, <2>1, <2>3 DEF AdminInv
  <2>4. CASE firstSession \in DOMAIN adminSessions \ ids
    <3> DEFINE rest == DOMAIN adminSessions \ {firstSession}
    <3>1. Cardinality(rest) = Cardinality(DOMAIN adminSessions) - 1
      BY <1>2, <2>4, FS_RemoveElement
    <3>2. IsFiniteSet(rest) /\ ids \in SUBSET rest
      BY <1>2, <2>4, FS_Subset
    <3>3. Cardinality(ids) <= Cardinality(rest)
      BY <3>2, FS_Subset
    <3> QED BY <1>2, <1>3, <2>1, <2>4, <3>1, <3>3 DEF AdminInv
  <2> QED BY <2>2, <2>3, <2>4
<1> QED BY <1>1, <1>3, <1>4

\* putBoundedAdministratorSession leaves room for the session it puts.
LEMMA AdminPuts ==
    ASSUME AdminAssumption, AdminInv, NEW S \in Stay, NEW id
    PROVE  /\ S \subseteq DOMAIN adminSessions
           /\ \A i \in S : Live(i)
           /\ IsFiniteSet(S \union {id}) /\ Cardinality(S \union {id}) <= MaxAdminSessions
<1>1. IsFiniteSet(DOMAIN adminSessions)
  <2>1. IsFiniteSet(1..signIns)
    <3>1. signIns \in Int /\ 1 \in Int BY DEF AdminInv, AdminAssumption
    <3> QED BY <3>1, FS_Interval
  <2> QED BY <2>1, FS_Subset DEF AdminInv
<1> DEFINE live == {i \in DOMAIN adminSessions : Live(i)}
<1>2. /\ S \subseteq live
      /\ Cardinality(S) = IF Cardinality(live) < MaxAdminSessions THEN Cardinality(live)
                          ELSE MaxAdminSessions - 1
  BY DEF Stay
<1>3. IsFiniteSet(live) /\ IsFiniteSet(S)
  BY <1>1, <1>2, FS_Subset
<1>4. Cardinality(live) \in Nat /\ Cardinality(S) \in Nat
  BY <1>3, FS_CardinalityType
<1>5. Cardinality(S) <= MaxAdminSessions - 1
  BY <1>2, <1>4 DEF AdminAssumption
<1>6. IsFiniteSet(S \union {id}) /\ Cardinality(S \union {id}) <= Cardinality(S) + 1
  BY <1>3, <1>4, FS_AddElement
<1>7. Cardinality(S \union {id}) \in Nat
  BY <1>6, FS_CardinalityType
<1> QED BY <1>2, <1>4, <1>5, <1>6, <1>7 DEF AdminAssumption

\* The steps that put a session.
LEMMA AdminPutting ==
    ASSUME AdminAssumption, AdminInv, NEW id \in 1..signIns, NEW new \in SessionShape,
           new.under = verifier,
           \E S \in Stay : adminSessions' = With(Only(S), id, new),
           UNCHANGED <<verifier, changer, firstSession, signIns, passwords, adminNow>>,
           DOMAIN adminCall' = AdminCall, \A c \in AdminCall : CallShape(adminCall[c])' 
    PROVE  AdminInv'
<1>1. PICK S \in Stay : adminSessions' = With(Only(S), id, new) OBVIOUS
<1>2. /\ S \in SUBSET DOMAIN adminSessions
      /\ IsFiniteSet(S \union {id}) /\ Cardinality(S \union {id}) <= MaxAdminSessions
  BY AdminPuts
<1>3. /\ \A i \in S : Only(S)[i] = adminSessions[i]
      /\ Only(S) \in [S -> SessionShape]
  BY <1>2, AdminOnly
<1>4. /\ DOMAIN adminSessions' = S \union {id} /\ adminSessions'[id] = new
      /\ \A i \in S \ {id} : adminSessions'[i] = adminSessions[i]
      /\ adminSessions' \in [S \union {id} -> SessionShape]
  BY <1>1, <1>3 DEF With
<1>5. OldPasswordRetired'
  BY <1>2, <1>4 DEF OldPasswordRetired, AdminInv
<1>6. Cardinality(DOMAIN adminSessions') <=
        MaxAdminSessions + IF firstSession \in DOMAIN adminSessions' THEN 1 ELSE 0
  <2>1. Cardinality(S \union {id}) \in Nat /\ MaxAdminSessions \in Nat
    BY <1>2, FS_CardinalityType DEF AdminAssumption
  <2> QED BY <1>2, <1>4, <2>1
<1>7. /\ DOMAIN adminSessions' \subseteq 1..signIns
      /\ adminSessions' \in [DOMAIN adminSessions' -> SessionShape]
  BY <1>2, <1>4 DEF AdminInv
<1> QED BY <1>5, <1>6, <1>7 DEF AdminInv

\* The steps that remove sessions.
LEMMA AdminRemoving ==
    ASSUME AdminAssumption, AdminInv, NEW ids \in SUBSET DOMAIN adminSessions,
           adminSessions' = Only(ids),
           UNCHANGED <<verifier, changer, firstSession, signIns, passwords, adminNow>>,
           DOMAIN adminCall' = AdminCall, \A c \in AdminCall : CallShape(adminCall[c])' 
    PROVE  AdminInv'
<1>1. /\ DOMAIN adminSessions' = ids
      /\ \A i \in ids : adminSessions'[i] = adminSessions[i]
      /\ adminSessions' \in [ids -> SessionShape]
      /\ Cardinality(ids) <= MaxAdminSessions + IF firstSession \in ids THEN 1 ELSE 0
  BY AdminOnly
<1>2. OldPasswordRetired'
  BY <1>1 DEF OldPasswordRetired, AdminInv
<1> QED BY <1>1, <1>2 DEF AdminInv

\* The first half of an operation reserves identifiers and changes nothing else.
LEMMA AdminBegins ==
    ASSUME AdminAssumption, AdminInv, NEW c \in AdminCall, NEW does, NEW id, NEW hash,
           Begins(c, does, id, hash),
           signIns' \in {signIns, signIns + 1} /\ signIns' <= MaxSignIns,
           passwords' \in {passwords, passwords + 1} /\ passwords' <= MaxPasswords,
           id \in 0..signIns', hash \in 0..passwords',
           does \in {"login", "dsm", "create", "configure", "change", "revoke"},
           does \in {"create", "configure", "change"} => hash # 0,
           does \in {"login", "dsm", "create", "change"} => id # 0
    PROVE  AdminInv'
<1>1. /\ signIns \in Nat /\ passwords \in Nat /\ signIns <= signIns' /\ passwords <= passwords'
      /\ signIns' \in 0..MaxSignIns /\ passwords' \in 0..MaxPasswords
  BY DEF AdminInv, AdminAssumption
<1> DEFINE new == [does |-> does, seen |-> verifier, id |-> id, created |-> adminNow, hash |-> hash]
<1>2. /\ DOMAIN adminCall' = AdminCall /\ adminCall'[c] = new
      /\ \A d \in AdminCall \ {c} : adminCall'[d] = adminCall[d]
  BY DEF Begins, AdminInv
<1>3. CallShape(adminCall[c])'
  BY <1>1, <1>2 DEF CallShape, AdminInv
<1>4. ASSUME NEW d \in AdminCall \ {c} PROVE CallShape(adminCall[d])'
  <2>1. CallShape(adminCall[d]) BY DEF AdminInv
  <2> QED BY <1>1, <1>2, <2>1 DEF CallShape
<1>5. UNCHANGED <<verifier, adminSessions, changer, firstSession, adminNow>>
  BY DEF Begins
<1>6. \A d \in AdminCall : CallShape(adminCall[d])' BY <1>3, <1>4
<1>7. OldPasswordRetired' BY <1>5 DEF AdminInv, OldPasswordRetired
<1>8. DOMAIN adminSessions \subseteq 1..signIns' /\ verifier \in 0..passwords'
  BY <1>1 DEF AdminInv
<1> QED BY <1>1, <1>2, <1>5, <1>6, <1>7, <1>8 DEF AdminInv

\* Both halves of every operation, and the clock, keep the invariant.
LEMMA AdminStep ==
    ASSUME AdminAssumption, AdminInv, [AdminNext]_adminVars
    PROVE  AdminInv'
<1>0. /\ signIns \in Nat /\ passwords \in Nat /\ verifier \in Nat
      /\ MaxSignIns \in Nat /\ MaxPasswords \in Nat /\ MaxAdminSessions \in Nat
      /\ signIns <= MaxSignIns /\ passwords <= MaxPasswords
      /\ DOMAIN adminSessions \subseteq 1..signIns
  BY DEF AdminInv, AdminAssumption
<1>1. ASSUME NEW c \in AdminCall,
             \/ BeginLogin(c) \/ BeginDSMSession(c) \/ BeginCreate(c) \/ BeginConfigure(c)
             \/ \E id \in DOMAIN adminSessions : BeginChange(c, id) \/ BeginRevoke(c, id)
      PROVE  AdminInv'
  <2>1. CASE BeginLogin(c)
    <3>1. /\ Begins(c, "login", signIns + 1, 0) /\ signIns' = signIns + 1 /\ passwords' = passwords
          /\ signIns < MaxSignIns
      BY <2>1 DEF BeginLogin, newAdministratorSession
    <3> QED BY <1>0, <3>1, AdminBegins
  <2>2. CASE BeginDSMSession(c)
    <3>1. /\ Begins(c, "dsm", signIns + 1, 0) /\ signIns' = signIns + 1 /\ passwords' = passwords
          /\ signIns < MaxSignIns
      BY <2>2 DEF BeginDSMSession, newAdministratorSession
    <3> QED BY <1>0, <3>1, AdminBegins
  <2>3. CASE BeginCreate(c)
    <3>1. /\ Begins(c, "create", signIns + 1, passwords + 1)
          /\ signIns' = signIns + 1 /\ passwords' = passwords + 1
          /\ signIns < MaxSignIns /\ passwords < MaxPasswords
      BY <2>3 DEF BeginCreate, newAdministratorSession, hashPassword
    <3> QED BY <1>0, <3>1, AdminBegins
  <2>4. CASE BeginConfigure(c)
    <3>1. /\ Begins(c, "configure", 0, passwords + 1)
          /\ signIns' = signIns /\ passwords' = passwords + 1 /\ passwords < MaxPasswords
      BY <2>4 DEF BeginConfigure, hashPassword
    <3> QED BY <1>0, <3>1, AdminBegins
  <2>5. ASSUME NEW id \in DOMAIN adminSessions, BeginChange(c, id) PROVE AdminInv'
    <3>1. /\ Begins(c, "change", id, passwords + 1) /\ id \in 1..signIns
          /\ signIns' = signIns /\ passwords' = passwords + 1 /\ passwords < MaxPasswords
      BY <1>0, <2>5 DEF BeginChange, hashPassword
    <3> QED BY <1>0, <3>1, AdminBegins
  <2>6. ASSUME NEW id \in DOMAIN adminSessions, BeginRevoke(c, id) PROVE AdminInv'
    <3>1. /\ Begins(c, "revoke", id, 0) /\ id \in 1..signIns
          /\ signIns' = signIns /\ passwords' = passwords
      BY <1>0, <2>6 DEF BeginRevoke
    <3> QED BY <1>0, <3>1, AdminBegins
  <2> QED BY <1>1, <2>1, <2>2, <2>3, <2>4, <2>5, <2>6
<1>2. ASSUME NEW c \in AdminCall, NEW what, Does(c, what)
      PROVE  /\ DOMAIN adminCall' = AdminCall /\ \A d \in AdminCall : CallShape(adminCall[d])'
             /\ UNCHANGED <<signIns, passwords, adminNow>> /\ adminCall[c].does = what
             /\ CallShape(adminCall[c])
  <2>1. /\ DOMAIN adminCall' = AdminCall /\ UNCHANGED <<signIns, passwords, adminNow>>
        /\ \A d \in AdminCall : adminCall'[d] = IF d = c THEN NoCall ELSE adminCall[d]
        /\ adminCall[c].does = what
    BY <1>2 DEF Does, AdminInv
  <2>2. ASSUME NEW d \in AdminCall PROVE CallShape(adminCall[d])'
    <3>1. CASE d = c
      BY <1>0, <2>1, <3>1 DEF CallShape, NoCall
    <3>2. CASE d # c
      <4>1. CallShape(adminCall[d]) BY DEF AdminInv
      <4> QED BY <2>1, <3>2, <4>1 DEF CallShape
    <3> QED BY <3>1, <3>2
  <2> QED BY <2>1, <2>2 DEF AdminInv
<1>3. ASSUME NEW c \in AdminCall, LoginAdministrator(c) \/ CreateDSMAdministratorSession(c)
      PROVE  AdminInv'
  <2>1. CASE LoginAdministrator(c) /\ ~VerifierAsRead(c)
    <3>1. Does(c, "login") /\ UNCHANGED <<verifier, changer, firstSession, adminSessions>>
      BY <2>1 DEF LoginAdministrator
    <3>2. OldPasswordRetired' BY <3>1 DEF AdminInv, OldPasswordRetired
    <3> QED BY <1>2, <3>1, <3>2 DEF AdminInv
  <2>2. CASE LoginAdministrator(c) /\ VerifierAsRead(c)
    <3>1. /\ Does(c, "login") /\ UNCHANGED <<verifier, changer, firstSession>>
          /\ \E S \in Stay : adminSessions' = With(Only(S), adminCall[c].id, Record(c, "local"))
      BY <2>2 DEF LoginAdministrator, putBoundedAdministratorSession
    <3>2. CallShape(adminCall[c]) /\ adminCall[c].does = "login" BY <1>2, <3>1
    <3>3. /\ adminCall[c].id \in 1..signIns /\ Record(c, "local") \in SessionShape
          /\ Record(c, "local").under = verifier
      BY <1>0, <2>2, <3>2 DEF CallShape, Record, VerifierAsRead, SessionShape
    <3> QED BY <1>2, <3>1, <3>3, AdminPutting
  <2>3. CASE CreateDSMAdministratorSession(c)
    <3>1. /\ Does(c, "dsm") /\ UNCHANGED <<verifier, changer, firstSession>>
          /\ \E S \in Stay : adminSessions' = With(Only(S), adminCall[c].id, Record(c, "dsm"))
      BY <2>3 DEF CreateDSMAdministratorSession, putBoundedAdministratorSession
    <3>2. CallShape(adminCall[c]) /\ adminCall[c].does = "dsm" BY <1>2, <3>1
    <3>3. /\ adminCall[c].id \in 1..signIns /\ Record(c, "dsm") \in SessionShape
          /\ Record(c, "dsm").under = verifier
      BY <1>0, <3>2 DEF CallShape, Record, SessionShape
    <3> QED BY <1>2, <3>1, <3>3, AdminPutting
  <2> QED BY <1>3, <2>1, <2>2, <2>3
<1>4. ASSUME NEW c \in AdminCall, CreateAdministrator(c) PROVE AdminInv'
  <2>1. Does(c, "create") /\ UNCHANGED changer BY <1>4 DEF CreateAdministrator
  <2>2. CASE Configured
    <3>1. UNCHANGED <<verifier, adminSessions, firstSession>> BY <1>4, <2>2 DEF CreateAdministrator
    <3>2. OldPasswordRetired' BY <2>1, <3>1 DEF AdminInv, OldPasswordRetired
    <3> QED BY <1>2, <2>1, <3>1, <3>2 DEF AdminInv
  <2>3. CASE ~Configured
    <3> DEFINE id == adminCall[c].id
               new == [Record(c, "local") EXCEPT !.under = adminCall[c].hash]
    <3>1. /\ verifier' = adminCall[c].hash /\ firstSession' = id
          /\ adminSessions' = With(adminSessions, id, new)
          /\ verifier = 0 /\ changer = 0 /\ firstSession = 0
      BY <1>4, <2>3 DEF CreateAdministrator, Configured, AdminInv
    <3>2. CallShape(adminCall[c]) /\ adminCall[c].does = "create" BY <1>2, <2>1
    <3>3. id \in 1..signIns /\ new \in SessionShape /\ verifier' \in 1..passwords
      BY <1>0, <3>1, <3>2 DEF CallShape, Record, SessionShape
    <3> HIDE DEF new, id
    <3>4. adminSessions \in [DOMAIN adminSessions -> SessionShape] BY DEF AdminInv
    <3>5. /\ DOMAIN adminSessions' = DOMAIN adminSessions \union {id}
          /\ adminSessions' \in [DOMAIN adminSessions \union {id} -> SessionShape]
      BY <3>1, <3>3, <3>4 DEF With
    <3>6. IsFiniteSet(DOMAIN adminSessions) /\ Cardinality(DOMAIN adminSessions) <= MaxAdminSessions
          /\ Cardinality(DOMAIN adminSessions) \in Nat
      <4>1. firstSession \notin DOMAIN adminSessions BY <1>0, <3>1
      <4>2. IsFiniteSet(DOMAIN adminSessions) /\ Cardinality(DOMAIN adminSessions) \in Nat
        BY AdminOnly
      <4> QED BY <1>0, <4>1, <4>2 DEF AdminInv
    <3>7. Cardinality(DOMAIN adminSessions') <= MaxAdminSessions + 1
      <4> DEFINE ids == DOMAIN adminSessions
      <4>0. IsFiniteSet(ids) /\ Cardinality(ids) \in Nat BY <3>6
      <4> HIDE DEF ids
      <4>1. Cardinality(ids \union {id}) <= Cardinality(ids) + 1 /\ IsFiniteSet(ids \union {id})
        BY <4>0, FS_AddElement
      <4>2. Cardinality(ids \union {id}) \in Nat BY <4>1, FS_CardinalityType
      <4> QED BY <1>0, <3>5, <3>6, <4>1, <4>2 DEF ids
    <3>8. OldPasswordRetired' BY <2>1, <3>1 DEF OldPasswordRetired
    <3> QED BY <1>0, <1>2, <2>1, <3>1, <3>3, <3>5, <3>7, <3>8 DEF AdminInv
  <2> QED BY <2>2, <2>3
<1>5. ASSUME NEW c \in AdminCall, ConfigureAdministrator(c) PROVE AdminInv'
  <2>1. /\ Does(c, "configure") /\ UNCHANGED <<adminSessions, changer, firstSession>>
        /\ verifier' = IF verifier # 0 THEN verifier ELSE adminCall[c].hash
    BY <1>5 DEF ConfigureAdministrator, Configured
  <2>2. CallShape(adminCall[c]) /\ adminCall[c].does = "configure" BY <1>2, <2>1
  <2>3. verifier' \in 1..passwords
    BY <1>0, <2>1, <2>2 DEF CallShape, AdminInv
  <2>4. OldPasswordRetired' BY <2>1 DEF AdminInv, OldPasswordRetired
  <2> QED BY <1>0, <1>2, <2>1, <2>3, <2>4 DEF AdminInv
<1>6. ASSUME NEW c \in AdminCall, ChangeAdministratorPassword(c) PROVE AdminInv'
  <2>1. Does(c, "change") /\ UNCHANGED firstSession BY <1>6 DEF ChangeAdministratorPassword
  <2>2. CASE VerifierAsRead(c) /\ Live(adminCall[c].id)
    <3> DEFINE id == adminCall[c].id
    <3>1. /\ verifier' = adminCall[c].hash /\ adminSessions' = Only({id}) /\ changer' = id
          /\ id \in DOMAIN adminSessions
      BY <1>6, <2>2 DEF ChangeAdministratorPassword, Live
    <3>2. CallShape(adminCall[c]) /\ adminCall[c].does = "change" BY <1>2, <2>1
    <3>3. verifier' \in 1..passwords BY <1>0, <3>1, <3>2 DEF CallShape
    <3>4. /\ DOMAIN adminSessions' = {id} /\ adminSessions' \in [{id} -> SessionShape]
          /\ Cardinality({id}) <= MaxAdminSessions + IF firstSession \in {id} THEN 1 ELSE 0
      BY <3>1, AdminOnly
    <3>5. OldPasswordRetired' BY <3>1, <3>4 DEF OldPasswordRetired
    <3>6. /\ DOMAIN adminSessions' \subseteq 1..signIns
          /\ adminSessions' \in [DOMAIN adminSessions' -> SessionShape]
          /\ Cardinality(DOMAIN adminSessions') <=
              MaxAdminSessions + IF firstSession \in DOMAIN adminSessions' THEN 1 ELSE 0
      BY <1>0, <3>1, <3>4
    <3>7. verifier' # 0 /\ verifier' \in 0..passwords BY <1>0, <3>3
    <3> QED BY <1>2, <2>1, <3>5, <3>6, <3>7 DEF AdminInv
  <2>3. CASE ~(VerifierAsRead(c) /\ Live(adminCall[c].id))
    <3>1. UNCHANGED <<verifier, adminSessions, changer>> BY <1>6, <2>3 DEF ChangeAdministratorPassword
    <3>2. OldPasswordRetired' BY <3>1 DEF AdminInv, OldPasswordRetired
    <3> QED BY <1>2, <2>1, <3>1, <3>2 DEF AdminInv
  <2> QED BY <2>2, <2>3
<1>7. ASSUME NEW c \in AdminCall, RevokeOtherAdministratorSessions(c) PROVE AdminInv'
  <2>1. /\ Does(c, "revoke") /\ UNCHANGED <<verifier, changer, firstSession>>
        /\ adminSessions' = Only({adminCall[c].id} \intersect DOMAIN adminSessions)
    BY <1>7 DEF RevokeOtherAdministratorSessions
  <2> QED BY <1>2, <2>1, AdminRemoving
<1>8. ASSUME NEW id \in DOMAIN adminSessions,
             LogoutAdministrator(id) \/ AuthenticateAdministratorSession(id)
      PROVE  AdminInv'
  <2>1. UNCHANGED <<verifier, adminCall, signIns, passwords, changer, firstSession, adminNow>>
    BY <1>8 DEF LogoutAdministrator, AuthenticateAdministratorSession
  <2>2. adminSessions' = adminSessions \/ adminSessions' = Only(DOMAIN adminSessions \ {id})
    BY <1>8 DEF LogoutAdministrator, AuthenticateAdministratorSession
  <2>3. DOMAIN adminCall' = AdminCall /\ \A c \in AdminCall : CallShape(adminCall[c])'
    BY <2>1 DEF AdminInv, CallShape
  <2>4. CASE adminSessions' = adminSessions
    BY <2>1, <2>3, <2>4 DEF AdminInv, OldPasswordRetired
  <2>5. CASE adminSessions' = Only(DOMAIN adminSessions \ {id})
    BY <2>1, <2>3, <2>5, AdminRemoving
  <2> QED BY <2>2, <2>4, <2>5
<1>9. CASE AdminTick
  BY <1>9 DEF AdminTick, AdminInv, CallShape, OldPasswordRetired
<1>10. CASE UNCHANGED adminVars
  BY <1>10 DEF adminVars, AdminInv, CallShape, OldPasswordRetired
<1> QED BY <1>1, <1>3, <1>4, <1>5, <1>6, <1>7, <1>8, <1>9, <1>10 DEF AdminNext

\* The invariant holds always.
LEMMA AdminInvariant == AdminSpec => []AdminInv
<1>1. AdminInit => AdminInv
  <2> SUFFICES ASSUME AdminInit PROVE AdminInv OBVIOUS
  <2>1. DOMAIN adminSessions = {} BY DEF AdminInit
  <2>2. adminSessions \in [{} -> SessionShape] BY <2>1 DEF AdminInit
  <2>3. Cardinality({}) = 0 BY FS_EmptySet
  <2> QED BY <2>1, <2>2, <2>3, AdminAssumption
       DEF AdminInit, AdminInv, CallShape, NoCall, OldPasswordRetired, AdminAssumption
<1>2. AdminInv /\ [AdminNext]_adminVars => AdminInv'
  BY AdminStep, AdminAssumption
<1> QED BY <1>1, <1>2, PTL DEF AdminSpec

\* The administrator's store has its types, and the table of sessions exceeds
\* its limit by the session of the set-up at most.
THEOREM AdminTypes == AdminSpec => []AdminTypeOK
<1>1. AdminInv => AdminTypeOK
  BY DEF AdminInv, AdminTypeOK, SessionShape
<1> QED BY <1>1, AdminInvariant, PTL

\* After a password change nobody stays signed in on the old one but the
\* session that changed it, for every number of calls under way.
THEOREM OldPasswordIsRetired == AdminSpec => []OldPasswordRetired
BY AdminInvariant, PTL DEF AdminInv

\* A commit of admin.go replaces a password only under a session that is live
\* then, which is the only one left; and a sign-in pushes out live sessions
\* only from a table that is full of them, no more than have to go, and none
\* that is younger than one that stays.
THEOREM AdminCommitsAreChecked == AdminSpec => AdminCommits
<1> DEFINE Replaces == verifier # 0 /\ verifier' # verifier =>
               \E i \in DOMAIN adminSessions : Live(i) /\ DOMAIN adminSessions' = {i}
           Pushes == signIns' = signIns
                     /\ (\E i \in DOMAIN adminSessions' : i \notin DOMAIN adminSessions) =>
               \A i \in DOMAIN adminSessions \ DOMAIN adminSessions' :
                   Live(i) =>
                     /\ Cardinality({j \in DOMAIN adminSessions : Live(j)}) >= MaxAdminSessions
                     /\ Cardinality(DOMAIN adminSessions') = MaxAdminSessions
                     /\ \A j \in DOMAIN adminSessions' \intersect DOMAIN adminSessions :
                           Live(j) /\ adminSessions[i].created <= adminSessions[j].created
<1>1. AdminInv /\ [AdminNext]_adminVars => Replaces
  <2> SUFFICES ASSUME AdminInv, [AdminNext]_adminVars, verifier # 0, verifier' # verifier
               PROVE  \E i \in DOMAIN adminSessions : Live(i) /\ DOMAIN adminSessions' = {i}
    OBVIOUS
  <2>1. \E c \in AdminCall : ChangeAdministratorPassword(c)
    BY DEF AdminNext, adminVars, BeginLogin, BeginDSMSession, BeginCreate, BeginConfigure,
       BeginChange, BeginRevoke, Begins, LoginAdministrator, CreateDSMAdministratorSession,
       CreateAdministrator, ConfigureAdministrator, Configured, RevokeOtherAdministratorSessions,
       LogoutAdministrator, AuthenticateAdministratorSession, AdminTick
  <2>2. PICK c \in AdminCall : ChangeAdministratorPassword(c) BY <2>1
  <2>3. Live(adminCall[c].id) /\ adminSessions' = Only({adminCall[c].id})
    BY <2>2 DEF ChangeAdministratorPassword
  <2> QED BY <2>3 DEF Only, Live
<1>2. AdminInv /\ [AdminNext]_adminVars => Pushes
  <2> DEFINE active == {j \in DOMAIN adminSessions : Live(j)}
             Pushed(i) ==
               /\ Cardinality(active) >= MaxAdminSessions
               /\ Cardinality(DOMAIN adminSessions') = MaxAdminSessions
               /\ \A j \in DOMAIN adminSessions' \intersect DOMAIN adminSessions :
                     Live(j) /\ adminSessions[i].created <= adminSessions[j].created
  <2> SUFFICES ASSUME AdminInv, [AdminNext]_adminVars, signIns' = signIns,
                      NEW new \in DOMAIN adminSessions', new \notin DOMAIN adminSessions,
                      NEW i \in DOMAIN adminSessions \ DOMAIN adminSessions', Live(i)
               PROVE  Pushed(i)
    OBVIOUS
  <2>1. ASSUME NEW S \in Stay, NEW id, NEW r, adminSessions' = With(Only(S), id, r)
        PROVE  Pushed(i)
    <3>1. DOMAIN adminSessions' = S \union {id}
      BY <2>1 DEF With, Only
    <3>2. S \subseteq DOMAIN adminSessions /\ \A k \in S : Live(k)
      BY DEF Stay
    <3>3. id \notin S /\ i \in active /\ i \notin S /\ S \in SUBSET active
      BY <3>1, <3>2
    <3>4. IsFiniteSet(active)
      <4>1. signIns \in Int /\ active \in SUBSET (1..signIns)
        BY AdminAssumption DEF AdminInv, AdminAssumption
      <4>2. IsFiniteSet(1..signIns)
        BY <4>1, FS_Interval
      <4> HIDE DEF active
      <4> QED BY <4>1, <4>2, FS_Subset
    <3>5. IsFiniteSet(S) /\ Cardinality(S) < Cardinality(active)
          /\ Cardinality(S) \in Nat /\ Cardinality(active) \in Nat
      BY <3>3, <3>4, FS_Subset, FS_CardinalityType
    <3>6. /\ Cardinality(S) = IF Cardinality(active) < MaxAdminSessions
                              THEN Cardinality(active) ELSE MaxAdminSessions - 1
          /\ \A k \in S, l \in active \ S : adminSessions[l].created <= adminSessions[k].created
      BY DEF Stay
    <3>7. Cardinality(S \union {id}) = Cardinality(S) + 1
      BY <3>3, <3>5, FS_AddElement
    <3> HIDE DEF active
    <3>8. Cardinality(active) >= MaxAdminSessions
          /\ Cardinality(DOMAIN adminSessions') = MaxAdminSessions
      BY <3>1, <3>5, <3>6, <3>7, AdminAssumption DEF AdminAssumption
    <3>9. \A j \in DOMAIN adminSessions' \intersect DOMAIN adminSessions : j \in S
      BY <3>1, <3>2, <2>1
    <3> QED BY <3>2, <3>3, <3>6, <3>8, <3>9 DEF active
  <2>2. ASSUME NEW c \in AdminCall,
               LoginAdministrator(c) \/ CreateDSMAdministratorSession(c)
        PROVE  Pushed(i)
    <3>1. \/ adminSessions' = adminSessions
          \/ \E S \in Stay : \E id, r : adminSessions' = With(Only(S), id, r)
      BY <2>2 DEF LoginAdministrator, CreateDSMAdministratorSession, putBoundedAdministratorSession
    <3> QED BY <2>1, <3>1
  <2>3. \A c \in AdminCall : ~CreateAdministrator(c)
    BY DEF CreateAdministrator, With
  <2>4. \A c \in AdminCall : ~ChangeAdministratorPassword(c) /\ ~RevokeOtherAdministratorSessions(c)
                             /\ ~ConfigureAdministrator(c)
    BY DEF ChangeAdministratorPassword, RevokeOtherAdministratorSessions, ConfigureAdministrator,
       Only, Live
  <2>5. \A c \in AdminCall : \A does, id, hash : ~Begins(c, does, id, hash)
    BY DEF Begins
  <2>6. \A id \in DOMAIN adminSessions :
          ~LogoutAdministrator(id) /\ ~AuthenticateAdministratorSession(id)
    BY DEF LogoutAdministrator, AuthenticateAdministratorSession, Only
  <2>7. ~AdminTick /\ ~UNCHANGED adminVars
    BY DEF AdminTick, adminVars
  <2> QED BY <2>2, <2>3, <2>4, <2>5, <2>6, <2>7 DEF AdminNext, BeginLogin, BeginDSMSession,
       BeginCreate, BeginConfigure, BeginChange, BeginRevoke
<1>3. AdminInv /\ [AdminNext]_adminVars => [Replaces]_adminVars /\ [Pushes]_adminVars
  BY <1>1, <1>2
<1>4. AdminSpec => [][Replaces]_adminVars /\ [][Pushes]_adminVars
  BY <1>3, AdminInvariant, PTL DEF AdminSpec
<1> QED BY <1>4 DEF AdminCommits, ReplacedByLiveSession, OldestPushedOut

-----------------------------------------------------------------------------
(***************************************************************************)
(* The vault.                                                              *)
(***************************************************************************)
ProfileRecord ==
    [id : Nat, revision : Nat, url : VaultURL, username : Account \union {0},
     password : Nat, device : Nat, session : Nat]

VaultTyped ==
    /\ profileIds \in Nat /\ revisions \in Nat /\ secretIds \in 0..MaxSecretIds
    /\ retained \subseteq 1..profileIds
    /\ Exists => /\ record \in ProfileRecord
                 /\ record.id \in 1..profileIds /\ record.revision \in 1..revisions
                 /\ {record.password, record.device, record.session} \subseteq 0..secretIds
    /\ DOMAIN enrolment = Enrolment
    /\ DOMAIN secrets \subseteq 1..secretIds
    /\ \A i \in DOMAIN secrets :
        /\ secrets[i].type \in {"password", "session", "device", "apply"}
        /\ secrets[i].profile \in 1..profileIds

\* What a sign-in has read stays true of the revision it has read.
EnrolmentsRead ==
    \A e \in Enrolment : enrolment[e].does # "nothing" =>
        /\ enrolment[e].account \in Account
        /\ enrolment[e].revision \in 0..revisions
        /\ Exists /\ enrolment[e].revision = record.revision => enrolment[e].url = record.url

\* The profile refers to secrets of its own, of the right kind; a reference
\* to a password that is gone is to none that will be there again.
RefersTo(id, type) ==
    id # 0 => id \in DOMAIN secrets /\ secrets[id].type = type /\ secrets[id].profile = record.id

ReferencesKept ==
    Exists => /\ RefersTo(record.device, "device") /\ RefersTo(record.session, "session")
              /\ \/ RefersTo(record.password, "password")
                 \/ switched /\ record.password \notin DOMAIN secrets

\* A secret belongs to a profile that accounts for it.
SecretsOwned ==
    \A i \in DOMAIN secrets : secrets[i].profile \in retained \/ (Exists /\ secrets[i].profile = record.id)

\* The session and the device of the profile are those it refers to, and a
\* profile that is gone had one each.
OneOfEach ==
    /\ Exists => /\ record.id \notin retained
                 /\ \A i \in DOMAIN secrets : secrets[i].profile = record.id =>
                        /\ secrets[i].type = "session" => i = record.session
                        /\ secrets[i].type = "device" => i = record.device
    /\ \A i, j \in DOMAIN secrets :
        secrets[i].type \in {"session", "device"} /\ secrets[j].type = secrets[i].type
        /\ secrets[j].profile = secrets[i].profile => i = j

VaultInv ==
    VaultTyped /\ EnrolmentsRead /\ ReferencesKept /\ SecretsOwned /\ OneOfEach /\ PrimaryIsLogin

\* One secret put, in place of another or under a new identifier.
LEMMA PuttingOne ==
    ASSUME VaultAssumption, VaultTyped, NEW i \in 1..secretIds + 1, NEW x,
           PutAll([j \in {i} |-> x])
    PROVE  /\ DOMAIN secrets' = DOMAIN secrets \union {i} /\ secrets'[i] = x
           /\ \A j \in DOMAIN secrets \ {i} : secrets'[j] = secrets[j]
           /\ secretIds' \in 0..MaxSecretIds /\ secretIds <= secretIds' /\ i <= secretIds'
<1> DEFINE new == {p \in DOMAIN [j \in {i} |-> x] : p > secretIds}
<1>0. secretIds \in Nat /\ i \in Nat /\ MaxSecretIds \in Nat
  BY DEF VaultTyped, VaultAssumption
<1>1. Cardinality(new) = IF i > secretIds THEN 1 ELSE 0
  <2>1. CASE i > secretIds
    <3>1. new = {i} BY <2>1
    <3> QED BY <2>1, <3>1, FS_Singleton
  <2>2. CASE ~(i > secretIds)
    <3>1. new = {} BY <2>2
    <3> QED BY <2>2, <3>1, FS_EmptySet
  <2> QED BY <2>1, <2>2
<1>2. secretIds + Cardinality(new) <= MaxSecretIds /\ secretIds' = secretIds + Cardinality(new)
  BY DEF PutAll
<1>3. secretIds' \in 0..MaxSecretIds /\ secretIds <= secretIds' /\ i <= secretIds'
  BY <1>0, <1>1, <1>2
<1>4. /\ DOMAIN secrets' = DOMAIN secrets \union {i} /\ secrets'[i] = x
      /\ \A j \in DOMAIN secrets \ {i} : secrets'[j] = secrets[j]
  BY DEF PutAll
<1> QED BY <1>3, <1>4

\* A password and the session that was opened with it, put together.
LEMMA PuttingTwo ==
    ASSUME VaultAssumption, VaultTyped, NEW i \in 1..secretIds + 1, NEW k \in 1..secretIds + 2, i # k,
           k = secretIds + 2 => i = secretIds + 1, NEW puts, DOMAIN puts = {i, k},
           PutAll(puts)
    PROVE  /\ DOMAIN secrets' = DOMAIN secrets \union {i, k}
           /\ secrets'[i] = puts[i] /\ secrets'[k] = puts[k]
           /\ \A j \in DOMAIN secrets \ {i, k} : secrets'[j] = secrets[j]
           /\ secretIds' \in 0..MaxSecretIds /\ secretIds <= secretIds'
           /\ i <= secretIds' /\ k <= secretIds'
<1> DEFINE new == {p \in DOMAIN puts : p > secretIds}
<1>0. secretIds \in Nat /\ i \in Nat /\ k \in Nat /\ MaxSecretIds \in Nat
  BY DEF VaultTyped, VaultAssumption
<1>1. Cardinality(new) = (IF i > secretIds THEN 1 ELSE 0) + (IF k > secretIds THEN 1 ELSE 0)
  <2>1. CASE i > secretIds /\ k > secretIds
    <3>1. new = {i} \union {k} BY <2>1
    <3>2. IsFiniteSet({i}) /\ Cardinality({i}) = 1 BY FS_Singleton
    <3>3. Cardinality({i} \union {k}) = 2 BY <3>2, FS_AddElement
    <3>4. Cardinality(new) = 2 BY <3>1, <3>3, Zenon
    <3> QED BY <2>1, <3>4
  <2>2. CASE i > secretIds /\ ~(k > secretIds)
    <3>1. new = {i} BY <2>2
    <3>2. Cardinality({i}) = 1 BY FS_Singleton
    <3>3. Cardinality(new) = 1 BY <3>1, <3>2, Zenon
    <3> QED BY <2>2, <3>3
  <2>3. CASE ~(i > secretIds) /\ k > secretIds
    <3>1. new = {k} BY <2>3
    <3>2. Cardinality({k}) = 1 BY FS_Singleton
    <3>3. Cardinality(new) = 1 BY <3>1, <3>2, Zenon
    <3> QED BY <2>3, <3>3
  <2>4. CASE ~(i > secretIds) /\ ~(k > secretIds)
    <3>1. new = {} BY <2>4
    <3>2. Cardinality(new) = 0 BY <3>1, FS_EmptySet, Zenon
    <3> QED BY <2>4, <3>2
  <2> QED BY <2>1, <2>2, <2>3, <2>4
<1>2. secretIds + Cardinality(new) <= MaxSecretIds /\ secretIds' = secretIds + Cardinality(new)
  BY DEF PutAll
<1>3. /\ secretIds' \in 0..MaxSecretIds /\ secretIds <= secretIds'
      /\ i <= secretIds' /\ k <= secretIds'
  BY <1>0, <1>1, <1>2
<1>4. /\ DOMAIN secrets' = DOMAIN secrets \union {i, k}
      /\ secrets'[i] = puts[i] /\ secrets'[k] = puts[k]
      /\ \A j \in DOMAIN secrets \ {i, k} : secrets'[j] = secrets[j]
  BY DEF PutAll
<1> QED BY <1>3, <1>4

\* A sign-in that ends, or is not touched, leaves the others what they read:
\* the profile gets a new revision or keeps its URL.
LEMMA EnrolmentsKept ==
    ASSUME VaultInv, DOMAIN enrolment' = Enrolment,
           \A e \in Enrolment : enrolment'[e] \in {NoEnrolment, enrolment[e]},
           revisions' \in Nat, revisions <= revisions',
           Exists' => \/ record'.revision = revisions + 1
                      \/ Exists /\ record'.revision = record.revision /\ record'.url = record.url
    PROVE  EnrolmentsRead'
<1> SUFFICES ASSUME NEW e \in Enrolment, enrolment'[e].does # "nothing"
             PROVE  /\ enrolment'[e].account \in Account
                    /\ enrolment'[e].revision \in 0..revisions'
                    /\ Exists' /\ enrolment'[e].revision = record'.revision =>
                            enrolment'[e].url = record'.url
  BY DEF EnrolmentsRead
<1>1. enrolment'[e] = enrolment[e] BY DEF NoEnrolment
<1>2. revisions \in Nat BY DEF VaultInv, VaultTyped
<1> QED BY <1>1, <1>2 DEF VaultInv, EnrolmentsRead

\* An enrolment that ends leaves the others as they are.
LEMMA EndingKeepsEnrolments ==
    ASSUME VaultInv, NEW e \in Enrolment, NEW does, Ends(e, does)
    PROVE  /\ DOMAIN enrolment' = Enrolment
           /\ \A d \in Enrolment : enrolment'[d] \in {NoEnrolment, enrolment[d]}
           /\ UNCHANGED <<profileIds, retained>> /\ enrolment[e].does = does
BY DEF Ends, VaultInv, VaultTyped

\* The steps that keep the profile and give it, or a secret of its own, a new
\* value: what they have in common.
Stores(ids) ==
    /\ Exists /\ record' \in ProfileRecord /\ record'.id = record.id
    /\ \/ record'.revision = revisions + 1 /\ revisions' = revisions + 1
       \/ record'.revision = record.revision /\ revisions' = revisions /\ record'.url = record.url
    /\ {record'.password, record'.device, record'.session} \subseteq 0..secretIds'
    /\ secretIds' \in 0..MaxSecretIds /\ secretIds <= secretIds'
    /\ DOMAIN secrets' = DOMAIN secrets \union ids
    /\ ids \subseteq 1..secretIds'
    /\ \A j \in DOMAIN secrets \ ids : secrets'[j] = secrets[j]
    /\ \A i \in ids : /\ secrets'[i].profile = record.id
                      /\ secrets'[i].type \in {"password", "session", "device", "apply"}
    /\ UNCHANGED <<profileIds, retained>>
    /\ DOMAIN enrolment' = Enrolment
    /\ \A d \in Enrolment : enrolment'[d] \in {NoEnrolment, enrolment[d]}

\* What every step that stores a secret keeps.
LEMMA StoringKeepsTypes ==
    ASSUME VaultAssumption, VaultInv, NEW ids, Stores(ids)
    PROVE  Exists' /\ VaultTyped' /\ EnrolmentsRead' /\ SecretsOwned'
<1>0. profileIds \in Nat /\ revisions \in Nat /\ secretIds \in Nat /\ MaxSecretIds \in Nat
  BY DEF VaultInv, VaultTyped, VaultAssumption
<1>1. Exists' BY DEF Stores, Exists, VaultAssumption, ProfileRecord
<1>2. revisions' \in Nat /\ revisions <= revisions' /\ record'.revision \in 1..revisions'
  BY <1>0 DEF Stores, VaultInv, VaultTyped
<1>3. DOMAIN secrets' \subseteq 1..secretIds'
  <2>1. DOMAIN secrets \subseteq 1..secretIds BY DEF VaultInv, VaultTyped
  <2>2. secretIds' \in Nat /\ secretIds <= secretIds' /\ ids \subseteq 1..secretIds'
        /\ DOMAIN secrets' = DOMAIN secrets \union ids
    BY <1>0 DEF Stores
  <2>3. 1..secretIds \subseteq 1..secretIds' BY <1>0, <2>2
  <2> QED BY <2>1, <2>2, <2>3
<1>4. \A i \in DOMAIN secrets' :
        /\ secrets'[i].type \in {"password", "session", "device", "apply"}
        /\ secrets'[i].profile \in 1..profileIds
  BY DEF Stores, VaultInv, VaultTyped
<1>5. VaultTyped'
  BY <1>1, <1>2, <1>3, <1>4 DEF Stores, VaultInv, VaultTyped
<1>6. EnrolmentsRead'
  BY <1>1, <1>2, EnrolmentsKept DEF Stores
<1>7. SecretsOwned'
  BY <1>1 DEF Stores, SecretsOwned, VaultInv
<1> QED BY <1>1, <1>5, <1>6, <1>7

\* A session is put for the profile, or a device: there is no other of it.
LEMMA StoringKeepsOne ==
    ASSUME VaultAssumption, VaultInv, NEW ids, Stores(ids),
           \A i \in ids : /\ secrets'[i].type = "session" => i = record'.session
                          /\ secrets'[i].type = "device" => i = record'.device,
           record'.session = record.session \/ record.session = 0,
           record'.device = record.device \/ record.device = 0
    PROVE  OneOfEach'
<1>1. Exists' BY StoringKeepsTypes
<1>2. 0 \notin DOMAIN secrets BY DEF VaultInv, VaultTyped
<1>3. \A i \in DOMAIN secrets' : secrets'[i].profile = record.id =>
        /\ secrets'[i].type = "session" => i = record'.session
        /\ secrets'[i].type = "device" => i = record'.device
  <2> SUFFICES ASSUME NEW i \in DOMAIN secrets', secrets'[i].profile = record.id
               PROVE  /\ secrets'[i].type = "session" => i = record'.session
                      /\ secrets'[i].type = "device" => i = record'.device
    OBVIOUS
  <2>1. CASE i \in ids
    BY <2>1
  <2>2. CASE i \notin ids
    <3>1. i \in DOMAIN secrets /\ secrets'[i] = secrets[i] BY <2>2 DEF Stores
    <3>2. /\ secrets[i].type = "session" => i = record.session
          /\ secrets[i].type = "device" => i = record.device
      BY <3>1 DEF Stores, VaultInv, OneOfEach
    <3> QED BY <1>2, <3>1, <3>2
  <2> QED BY <2>1, <2>2
<1>4. record.id \notin retained BY DEF Stores, VaultInv, OneOfEach
<1>5. ASSUME NEW i \in DOMAIN secrets', NEW j \in DOMAIN secrets',
             secrets'[i].type \in {"session", "device"}, secrets'[j].type = secrets'[i].type,
             secrets'[j].profile = secrets'[i].profile
      PROVE  i = j
  <2>1. CASE secrets'[i].profile = record.id
    BY <1>3, <1>5, <2>1
  <2>2. CASE secrets'[i].profile # record.id
    BY <1>5, <2>2 DEF Stores, VaultInv, OneOfEach
  <2> QED BY <2>1, <2>2
<1> QED BY <1>1, <1>3, <1>4, <1>5 DEF OneOfEach, Stores

\* The password of the login account, as the first in the book.
LEMMA SavePasswordKeepsInv ==
    ASSUME VaultAssumption, VaultInv, NEW e \in Enrolment, SavePasswordForAccount(e),
           AtExpectedRevision(e), record.password = 0 \/ record.username = enrolment[e].account
    PROVE  VaultInv'
<1> DEFINE account == enrolment[e].account
           password == Renumbered(record.password, 1)
           session == Renumbered(record.session, IF record.password = 0 THEN 2 ELSE 1)
           f(i) == Sealed(IF i = password THEN "password" ELSE "session", account, enrolment[e].url)
<1>0. /\ Exists /\ Ends(e, "password")
      /\ PutAll([i \in {password, session} |-> f(i)])
      /\ record' = [record EXCEPT !.password = password, !.username = account,
                                  !.session = session, !.revision = revisions + 1]
      /\ revisions' = revisions + 1 /\ switched' = FALSE
  BY DEF SavePasswordForAccount, AtExpectedRevision, nextProfileRevision
<1>1. /\ record \in ProfileRecord /\ secretIds \in Nat /\ revisions \in Nat
      /\ {record.password, record.device, record.session} \subseteq 0..secretIds
      /\ DOMAIN secrets \subseteq 1..secretIds
  BY <1>0 DEF VaultInv, VaultTyped
<1>2. account \in Account
  BY <1>0 DEF Ends, VaultInv, EnrolmentsRead
<1>3. /\ RefersTo(record.device, "device") /\ RefersTo(record.session, "session")
      /\ RefersTo(record.password, "password") \/ record.password \notin DOMAIN secrets
  BY <1>0 DEF VaultInv, ReferencesKept
<1>4. /\ password \in 1..secretIds + 1 /\ session \in 1..secretIds + 2
      /\ session = secretIds + 2 => password = secretIds + 1
      /\ password = secretIds + 1 \/ password = record.password
      /\ session > secretIds \/ session = record.session
  BY <1>1 DEF Renumbered
<1>5. password # session
  BY <1>1, <1>3 DEF Renumbered, RefersTo
<1>6. record.device # 0 => record.device \notin {password, session}
  BY <1>1, <1>3, <1>4 DEF Renumbered, RefersTo
<1>7. /\ record' \in ProfileRecord /\ record'.password = password /\ record'.session = session
      /\ record'.device = record.device /\ record'.id = record.id /\ record'.username = account
      /\ record'.revision = revisions + 1
  <2>1. password \in Nat /\ session \in Nat BY <1>1, <1>4
  <2> HIDE DEF password, session
  <2>2. record' = [record EXCEPT !.password = password, !.username = account,
                                !.session = session, !.revision = revisions + 1]
    BY <1>0
  <2>3. revisions + 1 \in Nat BY <1>1
  <2> QED BY <1>1, <1>2, <2>1, <2>2, <2>3 DEF ProfileRecord
<1>8. /\ f(password).type = "password" /\ f(session).type = "session"
      /\ f(password).profile = record.id /\ f(session).profile = record.id
      /\ f(password).account = account
  BY <1>5 DEF Sealed
<1> HIDE DEF f, password, session
<1>9. /\ DOMAIN secrets' = DOMAIN secrets \union {password, session}
      /\ secrets'[password] = f(password) /\ secrets'[session] = f(session)
      /\ \A j \in DOMAIN secrets \ {password, session} : secrets'[j] = secrets[j]
      /\ secretIds' \in 0..MaxSecretIds /\ secretIds <= secretIds'
      /\ password <= secretIds' /\ session <= secretIds'
  <2> DEFINE puts == [i \in {password, session} |-> f(i)]
  <2>1. /\ PutAll(puts) /\ DOMAIN puts = {password, session}
        /\ puts[password] = f(password) /\ puts[session] = f(session)
    BY <1>0
  <2>2. VaultTyped BY DEF VaultInv
  <2> HIDE DEF puts
  <2>3. /\ DOMAIN secrets' = DOMAIN secrets \union {password, session}
        /\ secrets'[password] = puts[password] /\ secrets'[session] = puts[session]
        /\ \A j \in DOMAIN secrets \ {password, session} : secrets'[j] = secrets[j]
        /\ secretIds' \in 0..MaxSecretIds /\ secretIds <= secretIds'
        /\ password <= secretIds' /\ session <= secretIds'
    BY <1>4, <1>5, <2>1, <2>2, PuttingTwo, ZenonT(30)
  <2> QED BY <2>1, <2>3, Zenon
<1>10. Stores({password, session})
  <2>1. {password, session} \subseteq 1..secretIds' /\ record.device \in 0..secretIds'
    BY <1>1, <1>4, <1>9, VaultAssumption DEF VaultAssumption
  <2>2. {record'.password, record'.device, record'.session} \subseteq 0..secretIds'
    BY <1>7, <2>1
  <2> QED BY <1>0, <1>7, <1>8, <1>9, <2>1, <2>2, EndingKeepsEnrolments DEF Stores
<1>11. ReferencesKept'
  BY <1>3, <1>6, <1>7, <1>8, <1>9 DEF ReferencesKept, RefersTo
<1>12. PrimaryIsLogin'
  BY <1>7, <1>8, <1>9 DEF PrimaryIsLogin
<1>13. OneOfEach'
  BY <1>1, <1>4, <1>7, <1>8, <1>9, <1>10, StoringKeepsOne DEF session, Renumbered
<1> QED BY <1>10, <1>11, <1>12, <1>13, StoringKeepsTypes DEF VaultInv

\* What the profile refers to is in place, before a step that stores.
LEMMA References ==
    ASSUME VaultAssumption, VaultInv, Exists
    PROVE  /\ record \in ProfileRecord /\ secretIds \in Nat /\ revisions \in Nat /\ VaultTyped
           /\ {record.password, record.device, record.session} \subseteq 0..secretIds
           /\ DOMAIN secrets \subseteq 1..secretIds
           /\ RefersTo(record.device, "device") /\ RefersTo(record.session, "session")
           /\ \/ RefersTo(record.password, "password")
              \/ switched /\ record.password \notin DOMAIN secrets
           /\ MaxSecretIds \in Nat
BY DEF VaultInv, VaultTyped, ReferencesKept, VaultAssumption

\* The password of a further account.
LEMMA SaveFurtherKeepsInv ==
    ASSUME VaultAssumption, VaultInv, NEW e \in Enrolment, SavePasswordForAccount(e),
           AtExpectedRevision(e), ~(record.password = 0 \/ record.username = enrolment[e].account)
    PROVE  VaultInv'
<1> DEFINE account == enrolment[e].account
           x == Sealed("password", account, enrolment[e].url)
<1>0. /\ Exists /\ Ends(e, "password")
      /\ \E i \in IF EntriesOf(account) = {} THEN {secretIds + 1} ELSE EntriesOf(account) :
            PutAll([j \in {i} |-> x])
      /\ record' = [record EXCEPT !.revision = revisions + 1]
      /\ revisions' = revisions + 1 /\ switched' = switched
  BY DEF SavePasswordForAccount, AtExpectedRevision, nextProfileRevision
<1>1. PICK i \in EntriesOf(account) \union {secretIds + 1} : PutAll([j \in {i} |-> x])
  BY <1>0
<1>2. /\ record \in ProfileRecord /\ secretIds \in Nat /\ revisions \in Nat /\ VaultTyped
      /\ {record.password, record.device, record.session} \subseteq 0..secretIds
      /\ DOMAIN secrets \subseteq 1..secretIds /\ MaxSecretIds \in Nat
  BY <1>0, References
<1>3. /\ RefersTo(record.device, "device") /\ RefersTo(record.session, "session")
      /\ \/ RefersTo(record.password, "password")
         \/ switched /\ record.password \notin DOMAIN secrets
  BY <1>0, References
<1>4. /\ record' \in ProfileRecord /\ record'.password = record.password
      /\ record'.session = record.session /\ record'.device = record.device
      /\ record'.id = record.id /\ record'.username = record.username
      /\ record'.revision = revisions + 1
  BY <1>0, <1>2 DEF ProfileRecord
<1>5. x.type = "password" /\ x.profile = record.id /\ x.account = account
  BY DEF Sealed
<1>6. /\ i \in 1..secretIds + 1
      /\ i \in DOMAIN secrets => secrets[i].type = "password" /\ secrets[i].account = account
      /\ i \notin DOMAIN secrets => i = secretIds + 1
  BY <1>2 DEF EntriesOf
<1> HIDE DEF x
<1>7. /\ DOMAIN secrets' = DOMAIN secrets \union {i} /\ secrets'[i] = x
      /\ \A j \in DOMAIN secrets \ {i} : secrets'[j] = secrets[j]
      /\ secretIds' \in 0..MaxSecretIds /\ secretIds <= secretIds' /\ i <= secretIds'
  BY <1>1, <1>2, <1>6, PuttingOne
<1>8. Stores({i})
  <2>1. /\ {i} \subseteq 1..secretIds'
        /\ {record'.password, record'.device, record'.session} \subseteq 0..secretIds'
    BY <1>2, <1>4, <1>6, <1>7
  <2> QED BY <1>0, <1>4, <1>5, <1>7, <2>1, EndingKeepsEnrolments DEF Stores
<1>9. ReferencesKept'
  BY <1>0, <1>2, <1>3, <1>4, <1>5, <1>6, <1>7 DEF ReferencesKept, RefersTo
<1>10. PrimaryIsLogin'
  BY <1>0, <1>2, <1>4, <1>6, <1>7 DEF PrimaryIsLogin, VaultInv
<1>11. OneOfEach'
  BY <1>4, <1>5, <1>7, <1>8, StoringKeepsOne
<1> QED BY <1>8, <1>9, <1>10, <1>11, StoringKeepsTypes DEF VaultInv

\* A session, which may change the login account.
LEMMA SaveSessionKeepsInv ==
    ASSUME VaultAssumption, VaultInv, Exists, NEW e \in Enrolment, SaveEnrolledSession(e),
           NEW does \in {"connect", "weblogin"}, Ends(e, does)
    PROVE  VaultInv'
<1> DEFINE account == enrolment[e].account
           x == Sealed("session", account, enrolment[e].url)
           i == Renumbered(record.session, 1)
<1>0. /\ PutAll([j \in {i} |-> x])
      /\ record' = [record EXCEPT !.session = i, !.username = account, !.revision = revisions + 1]
      /\ revisions' = revisions + 1 /\ switched' = Switches(account)
  BY DEF SaveEnrolledSession, nextProfileRevision
<1>1. account \in Account
  BY DEF Ends, VaultInv, EnrolmentsRead
<1>2. /\ record \in ProfileRecord /\ secretIds \in Nat /\ revisions \in Nat /\ VaultTyped
      /\ {record.password, record.device, record.session} \subseteq 0..secretIds
      /\ DOMAIN secrets \subseteq 1..secretIds /\ MaxSecretIds \in Nat
  BY References
<1>3. /\ RefersTo(record.device, "device") /\ RefersTo(record.session, "session")
      /\ \/ RefersTo(record.password, "password")
         \/ switched /\ record.password \notin DOMAIN secrets
  BY References
<1>4. /\ i \in 1..secretIds + 1 /\ i \in Nat
      /\ \/ i = record.session
         \/ record.session = 0 /\ i = secretIds + 1
      /\ i \in DOMAIN secrets => secrets[i].type = "session"
  <2>1. CASE record.session = 0
    <3>1. i = secretIds + 1 BY <2>1 DEF Renumbered
    <3> QED BY <1>2, <2>1, <3>1
  <2>2. CASE record.session # 0
    <3>1. i = record.session BY <2>2 DEF Renumbered
    <3>2. secrets[record.session].type = "session" BY <1>3, <2>2 DEF RefersTo
    <3> QED BY <1>2, <2>2, <3>1, <3>2
  <2> QED BY <2>1, <2>2
<1>5. x.type = "session" /\ x.profile = record.id
  BY DEF Sealed
<1> HIDE DEF x, i
<1>6. /\ record' \in ProfileRecord /\ record'.password = record.password
      /\ record'.session = i /\ record'.device = record.device
      /\ record'.id = record.id /\ record'.username = account
      /\ record'.revision = revisions + 1
  <2>1. record' = [record EXCEPT !.session = i, !.username = account, !.revision = revisions + 1]
    BY <1>0
  <2>2. revisions + 1 \in Nat /\ i \in Nat BY <1>2, <1>4
  <2>3. account \in Account \union {0} BY <1>1
  <2> HIDE DEF account
  <2> QED BY <1>2, <2>1, <2>2, <2>3 DEF ProfileRecord
<1>7. /\ DOMAIN secrets' = DOMAIN secrets \union {i} /\ secrets'[i] = x
      /\ \A j \in DOMAIN secrets \ {i} : secrets'[j] = secrets[j]
      /\ secretIds' \in 0..MaxSecretIds /\ secretIds <= secretIds' /\ i <= secretIds'
  BY <1>0, <1>2, <1>4, PuttingOne
<1>8. Stores({i})
  <2>1. /\ {i} \subseteq 1..secretIds'
        /\ {record'.password, record'.device, record'.session} \subseteq 0..secretIds'
    BY <1>2, <1>4, <1>6, <1>7
  <2> QED BY <1>0, <1>5, <1>6, <1>7, <2>1, EndingKeepsEnrolments DEF Stores
<1>12. /\ switched => switched'
       /\ ~switched' => ~switched /\ (record.password = 0 \/ record.username = account)
  BY <1>0, Zenon DEF Switches
<1>13. record.password # i
  BY <1>2, <1>3, <1>4 DEF RefersTo
<1>9. ReferencesKept'
  BY <1>2, <1>3, <1>4, <1>5, <1>6, <1>7, <1>12, <1>13 DEF ReferencesKept, RefersTo
<1>10. PrimaryIsLogin'
  <2>1. SUFFICES ASSUME record.password \in DOMAIN secrets', ~switched'
                 PROVE  secrets'[record.password].account = account
    BY <1>6 DEF PrimaryIsLogin
  <2>2. record.password \in DOMAIN secrets /\ secrets'[record.password] = secrets[record.password]
    BY <1>7, <1>13, <2>1
  <2>3. record.username = account BY <1>2, <1>12, <2>1, <2>2
  <2> QED BY <1>12, <2>1, <2>2, <2>3 DEF PrimaryIsLogin, VaultInv
<1>11. OneOfEach'
  BY <1>4, <1>5, <1>6, <1>7, <1>8, StoringKeepsOne
<1> QED BY <1>8, <1>9, <1>10, <1>11, StoringKeepsTypes DEF VaultInv

\* The password of a NAS that was just provisioned.
LEMMA ProvisionKeepsInv ==
    ASSUME VaultAssumption, VaultInv, Exists, NEW e \in Enrolment, EnrollPasswordForAccount(e)
    PROVE  VaultInv'
<1> DEFINE account == enrolment[e].account
           x == Sealed("password", account, enrolment[e].url)
           i == Renumbered(record.password, 1)
<1>0. /\ PutAll([j \in {i} |-> x]) /\ Ends(e, "provision")
      /\ record' = [record EXCEPT !.password = i, !.username = account, !.revision = revisions + 1]
      /\ revisions' = revisions + 1 /\ switched' = FALSE
  BY DEF EnrollPasswordForAccount, nextProfileRevision
<1>1. account \in Account
  BY <1>0 DEF Ends, VaultInv, EnrolmentsRead
<1>2. /\ record \in ProfileRecord /\ secretIds \in Nat /\ revisions \in Nat /\ VaultTyped
      /\ {record.password, record.device, record.session} \subseteq 0..secretIds
      /\ DOMAIN secrets \subseteq 1..secretIds /\ MaxSecretIds \in Nat
  BY References
<1>3. /\ RefersTo(record.device, "device") /\ RefersTo(record.session, "session")
      /\ \/ RefersTo(record.password, "password")
         \/ switched /\ record.password \notin DOMAIN secrets
  BY References
<1>4. /\ i \in 1..secretIds + 1 /\ i \in Nat
      /\ i \in DOMAIN secrets => secrets[i].type = "password"
  BY <1>2, <1>3 DEF Renumbered, RefersTo
<1>5. x.type = "password" /\ x.profile = record.id /\ x.account = account
  BY DEF Sealed
<1> HIDE DEF x, i
<1>6. /\ record' \in ProfileRecord /\ record'.password = i
      /\ record'.session = record.session /\ record'.device = record.device
      /\ record'.id = record.id /\ record'.username = account
      /\ record'.revision = revisions + 1
  <2>1. record' = [record EXCEPT !.password = i, !.username = account, !.revision = revisions + 1]
    BY <1>0
  <2>2. revisions + 1 \in Nat /\ i \in Nat BY <1>2, <1>4
  <2>3. account \in Account \union {0} BY <1>1
  <2> HIDE DEF account
  <2> QED BY <1>2, <2>1, <2>2, <2>3 DEF ProfileRecord
<1>7. /\ DOMAIN secrets' = DOMAIN secrets \union {i} /\ secrets'[i] = x
      /\ \A j \in DOMAIN secrets \ {i} : secrets'[j] = secrets[j]
      /\ secretIds' \in 0..MaxSecretIds /\ secretIds <= secretIds' /\ i <= secretIds'
  BY <1>0, <1>2, <1>4, PuttingOne
<1>8. Stores({i})
  <2>1. /\ {i} \subseteq 1..secretIds'
        /\ {record'.password, record'.device, record'.session} \subseteq 0..secretIds'
    BY <1>2, <1>4, <1>6, <1>7
  <2> QED BY <1>0, <1>5, <1>6, <1>7, <2>1, EndingKeepsEnrolments DEF Stores
<1>9. ReferencesKept'
  BY <1>2, <1>3, <1>4, <1>5, <1>6, <1>7 DEF ReferencesKept, RefersTo
<1>10. PrimaryIsLogin'
  BY <1>5, <1>6, <1>7 DEF PrimaryIsLogin
<1>11. OneOfEach'
  BY <1>5, <1>6, <1>7, <1>8, StoringKeepsOne
<1> QED BY <1>8, <1>9, <1>10, <1>11, StoringKeepsTypes DEF VaultInv

\* A trusted device.
LEMMA SaveDeviceKeepsInv ==
    ASSUME VaultAssumption, VaultInv, SaveTrustedDevice
    PROVE  VaultInv'
<1> DEFINE x == Sealed("device", record.username, record.url)
           i == Renumbered(record.device, 1)
<1>0. /\ Exists /\ PutAll([j \in {i} |-> x]) /\ record' = [record EXCEPT !.device = i]
      /\ UNCHANGED <<enrolment, profileIds, revisions, retained, switched>>
  BY DEF SaveTrustedDevice
<1>2. /\ record \in ProfileRecord /\ secretIds \in Nat /\ revisions \in Nat /\ VaultTyped
      /\ {record.password, record.device, record.session} \subseteq 0..secretIds
      /\ DOMAIN secrets \subseteq 1..secretIds /\ MaxSecretIds \in Nat
  BY <1>0, References
<1>3. /\ RefersTo(record.device, "device") /\ RefersTo(record.session, "session")
      /\ \/ RefersTo(record.password, "password")
         \/ switched /\ record.password \notin DOMAIN secrets
  BY <1>0, References
<1>4. /\ i \in 1..secretIds + 1 /\ i \in Nat
      /\ \/ i = record.device
         \/ record.device = 0 /\ i = secretIds + 1
      /\ i \in DOMAIN secrets => secrets[i].type = "device"
  <2>1. CASE record.device = 0
    <3>1. i = secretIds + 1 BY <2>1 DEF Renumbered
    <3> QED BY <1>2, <2>1, <3>1
  <2>2. CASE record.device # 0
    <3>1. i = record.device BY <2>2 DEF Renumbered
    <3>2. secrets[record.device].type = "device" BY <1>3, <2>2 DEF RefersTo
    <3> QED BY <1>2, <2>2, <3>1, <3>2
  <2> QED BY <2>1, <2>2
<1>5. x.type = "device" /\ x.profile = record.id
  BY DEF Sealed
<1> HIDE DEF x, i
<1>6. /\ record' \in ProfileRecord /\ record'.password = record.password
      /\ record'.session = record.session /\ record'.device = i
      /\ record'.id = record.id /\ record'.username = record.username
      /\ record'.revision = record.revision /\ record'.url = record.url
  BY <1>0, <1>2, <1>4 DEF ProfileRecord
<1>7. /\ DOMAIN secrets' = DOMAIN secrets \union {i} /\ secrets'[i] = x
      /\ \A j \in DOMAIN secrets \ {i} : secrets'[j] = secrets[j]
      /\ secretIds' \in 0..MaxSecretIds /\ secretIds <= secretIds' /\ i <= secretIds'
  BY <1>0, <1>2, <1>4, PuttingOne
<1>8. Stores({i})
  <2>1. /\ {i} \subseteq 1..secretIds'
        /\ {record'.password, record'.device, record'.session} \subseteq 0..secretIds'
    BY <1>2, <1>4, <1>6, <1>7
  <2>2. DOMAIN enrolment' = Enrolment /\ \A d \in Enrolment : enrolment'[d] = enrolment[d]
    BY <1>0, <1>2 DEF VaultTyped
  <2> QED BY <1>0, <1>5, <1>6, <1>7, <2>1, <2>2 DEF Stores
<1>9. record.password # i
  BY <1>2, <1>3, <1>4 DEF RefersTo
<1>10. ReferencesKept'
  BY <1>0, <1>2, <1>3, <1>4, <1>5, <1>6, <1>7, <1>9 DEF ReferencesKept, RefersTo
<1>11. PrimaryIsLogin'
  BY <1>0, <1>6, <1>7, <1>9 DEF PrimaryIsLogin, VaultInv
<1>12. OneOfEach'
  BY <1>4, <1>5, <1>6, <1>7, <1>8, StoringKeepsOne
<1> QED BY <1>8, <1>10, <1>11, <1>12, StoringKeepsTypes DEF VaultInv

\* A secret that a plan refers to.
LEMMA StoreApplyKeepsInv ==
    ASSUME VaultAssumption, VaultInv, StoreApplySecret
    PROVE  VaultInv'
<1> DEFINE x == Sealed("apply", 0, record.url)
           i == secretIds + 1
<1>0. /\ Exists /\ PutAll([j \in {i} |-> x])
      /\ UNCHANGED <<record, enrolment, profileIds, revisions, retained, switched>>
  BY DEF StoreApplySecret
<1>2. /\ record \in ProfileRecord /\ secretIds \in Nat /\ revisions \in Nat /\ VaultTyped
      /\ {record.password, record.device, record.session} \subseteq 0..secretIds
      /\ DOMAIN secrets \subseteq 1..secretIds /\ MaxSecretIds \in Nat
  BY <1>0, References
<1>3. /\ RefersTo(record.device, "device") /\ RefersTo(record.session, "session")
      /\ \/ RefersTo(record.password, "password")
         \/ switched /\ record.password \notin DOMAIN secrets
  BY <1>0, References
<1>4. i \in 1..secretIds + 1 /\ i \in Nat /\ i \notin DOMAIN secrets
      /\ i \notin {record.password, record.device, record.session}
  BY <1>2
<1>5. x.type = "apply" /\ x.profile = record.id
  BY DEF Sealed
<1> HIDE DEF x, i
<1>7. /\ DOMAIN secrets' = DOMAIN secrets \union {i} /\ secrets'[i] = x
      /\ \A j \in DOMAIN secrets \ {i} : secrets'[j] = secrets[j]
      /\ secretIds' \in 0..MaxSecretIds /\ secretIds <= secretIds' /\ i <= secretIds'
  BY <1>0, <1>2, <1>4, PuttingOne
<1>8. Stores({i})
  <2>1. /\ {i} \subseteq 1..secretIds'
        /\ {record'.password, record'.device, record'.session} \subseteq 0..secretIds'
    BY <1>0, <1>2, <1>4, <1>7
  <2>2. DOMAIN enrolment' = Enrolment /\ \A d \in Enrolment : enrolment'[d] = enrolment[d]
    BY <1>0, <1>2 DEF VaultTyped
  <2> QED BY <1>0, <1>2, <1>5, <1>7, <2>1, <2>2 DEF Stores
<1>9. ReferencesKept'
  BY <1>0, <1>3, <1>4, <1>7 DEF ReferencesKept, RefersTo
<1>10. PrimaryIsLogin'
  BY <1>0, <1>4, <1>7 DEF PrimaryIsLogin, VaultInv, Exists
<1>11. OneOfEach'
  BY <1>0, <1>5, <1>7, <1>8, StoringKeepsOne
<1> QED BY <1>8, <1>9, <1>10, <1>11, StoringKeepsTypes DEF VaultInv

\* An edit, which drops the secrets of another URL or account.
LEMMA UpdateKeepsInv ==
    ASSUME VaultAssumption, VaultInv, NEW url \in VaultURL, UpdateRecord(url)
    PROVE  VaultInv'
<1>0. /\ Exists /\ record' = [record EXCEPT !.url = url, !.revision = revisions + 1]
      /\ revisions' = revisions + 1
      /\ UNCHANGED <<secrets, enrolment, profileIds, secretIds, retained, switched>>
  BY DEF UpdateRecord, nextProfileRevision
<1>2. /\ record \in ProfileRecord /\ secretIds \in Nat /\ revisions \in Nat /\ VaultTyped
      /\ {record.password, record.device, record.session} \subseteq 0..secretIds
      /\ MaxSecretIds \in Nat
  BY <1>0, References
<1>3. /\ RefersTo(record.device, "device") /\ RefersTo(record.session, "session")
      /\ \/ RefersTo(record.password, "password")
         \/ switched /\ record.password \notin DOMAIN secrets
  BY <1>0, References
<1>4. /\ record' \in ProfileRecord /\ record'.password = record.password
      /\ record'.session = record.session /\ record'.device = record.device
      /\ record'.id = record.id /\ record'.username = record.username
      /\ record'.revision = revisions + 1
  <2>1. revisions + 1 \in Nat /\ record' = [record EXCEPT !.url = url, !.revision = revisions + 1]
    BY <1>2, <1>0
  <2> QED BY <1>2, <2>1 DEF ProfileRecord
<1>5. Stores({})
  <2>1. DOMAIN enrolment' = Enrolment /\ \A d \in Enrolment : enrolment'[d] = enrolment[d]
    BY <1>0, <1>2 DEF VaultTyped
  <2>2. secretIds' \in 0..MaxSecretIds /\ secretIds <= secretIds'
    BY <1>0, <1>2 DEF VaultTyped
  <2> QED BY <1>0, <1>2, <1>4, <2>1, <2>2 DEF Stores
<1>6. ReferencesKept'
  BY <1>0, <1>3, <1>4 DEF ReferencesKept, RefersTo
<1>7. PrimaryIsLogin'
  BY <1>0, <1>4 DEF PrimaryIsLogin, VaultInv
<1>8. OneOfEach'
  BY <1>2, <1>4, <1>5, StoringKeepsOne
<1> QED BY <1>5, <1>6, <1>7, <1>8, StoringKeepsTypes DEF VaultInv

\* The steps that keep the profile and take secrets away.
Drops(ids) ==
    /\ Exists /\ record' \in ProfileRecord /\ record'.id = record.id
    /\ \/ record'.revision = revisions + 1 /\ revisions' = revisions + 1
       \/ record'.revision = record.revision /\ revisions' = revisions /\ record'.url = record.url
    /\ record'.username = record.username
    /\ record'.password \in {0, record.password} /\ record'.device \in {0, record.device}
    /\ record'.session \in {0, record.session}
    /\ record'.session = record.session \/ record.session \in ids
    /\ record'.device = record.device \/ record.device \in ids
    /\ DOMAIN secrets' = DOMAIN secrets \ ids
    /\ \A j \in DOMAIN secrets' : secrets'[j] = secrets[j]
    /\ UNCHANGED <<enrolment, profileIds, secretIds, retained>>

\* What every step that drops a secret keeps.
LEMMA DroppingKeepsRest ==
    ASSUME VaultAssumption, VaultInv, NEW ids, Drops(ids)
    PROVE  Exists' /\ VaultTyped' /\ EnrolmentsRead' /\ SecretsOwned' /\ OneOfEach'
<1>0. revisions \in Nat /\ secretIds \in Nat BY DEF VaultInv, VaultTyped
<1>1. Exists' BY DEF Drops, Exists, VaultAssumption, ProfileRecord
<1>2. revisions' \in Nat /\ revisions <= revisions' /\ record'.revision \in 1..revisions'
  BY <1>0 DEF Drops, VaultInv, VaultTyped
<1>3. {record'.password, record'.device, record'.session} \subseteq 0..secretIds'
  BY <1>0 DEF Drops, VaultInv, VaultTyped
<1>4. VaultTyped'
  BY <1>1, <1>2, <1>3 DEF Drops, VaultInv, VaultTyped
<1>5. EnrolmentsRead'
  <2>1. DOMAIN enrolment' = Enrolment /\ \A e \in Enrolment : enrolment'[e] = enrolment[e]
    BY DEF Drops, VaultInv, VaultTyped
  <2> QED BY <1>2, <2>1, EnrolmentsKept DEF Drops
<1>6. SecretsOwned'
  BY <1>1 DEF Drops, SecretsOwned, VaultInv
<1>7. OneOfEach'
  BY <1>1 DEF Drops, OneOfEach, VaultInv
<1> QED BY <1>1, <1>4, <1>5, <1>6, <1>7

\* Removal of a password, of the login account or a further one.
LEMMA DeletePasswordKeepsInv ==
    ASSUME VaultAssumption, VaultInv, NEW account \in Account, DeletePasswordForAccount(account)
    PROVE  VaultInv'
<1>0. Exists BY DEF DeletePasswordForAccount
<1>1. /\ record \in ProfileRecord /\ revisions \in Nat
      /\ RefersTo(record.device, "device") /\ RefersTo(record.session, "session")
      /\ \/ RefersTo(record.password, "password")
         \/ switched /\ record.password \notin DOMAIN secrets
  BY <1>0, References
<1>2. CASE record.username = account
  <2>1. /\ record.password # 0 /\ secrets' = Without({record.password})
        /\ record' = [[record EXCEPT !.password = 0] EXCEPT !.revision = revisions + 1]
        /\ revisions' = revisions + 1 /\ switched' = FALSE
        /\ UNCHANGED <<enrolment, profileIds, secretIds, retained>>
    <3>1. {record.password} \ {0} # {} /\ secrets' = Without({record.password} \ {0})
      BY <1>2 DEF DeletePasswordForAccount, Removes
    <3>2. record.password # 0 /\ {record.password} \ {0} = {record.password} BY <3>1
    <3>3. secrets' = Without({record.password}) BY <3>1, <3>2
    <3> QED BY <1>2, <3>2, <3>3 DEF DeletePasswordForAccount, Removes, nextProfileRevision
  <2>2. /\ record' \in ProfileRecord /\ record'.password = 0 /\ record'.device = record.device
        /\ record'.session = record.session /\ record'.id = record.id
        /\ record'.username = record.username /\ record'.revision = revisions + 1
    <3> DEFINE r == [record EXCEPT !.password = 0]
    <3>1. revisions + 1 \in Nat /\ record' = [r EXCEPT !.revision = revisions + 1]
      BY <1>1, <2>1
    <3>2. /\ r \in ProfileRecord /\ r.password = 0 /\ r.id = record.id /\ r.username = record.username
         /\ r.device = record.device /\ r.session = record.session
      BY <1>1 DEF ProfileRecord
    <3> HIDE DEF r
    <3> QED BY <3>1, <3>2 DEF ProfileRecord
  <2>3. /\ DOMAIN secrets' = DOMAIN secrets \ {record.password}
        /\ \A j \in DOMAIN secrets' : secrets'[j] = secrets[j]
    BY <2>1 DEF Without
  <2>4. Drops({record.password})
    BY <1>0, <2>1, <2>2, <2>3 DEF Drops
  <2>5. ReferencesKept'
    BY <1>1, <2>1, <2>2, <2>3 DEF ReferencesKept, RefersTo
  <2>6. PrimaryIsLogin'
    <3>1. VaultTyped' BY <2>4, DroppingKeepsRest
    <3>2. 0 \notin DOMAIN secrets' BY <3>1 DEF VaultTyped
    <3> QED BY <2>2, <3>2 DEF PrimaryIsLogin
  <2> QED BY <2>4, <2>5, <2>6, DroppingKeepsRest DEF VaultInv
<1>3. CASE record.username # account
  <2>1. PICK i \in EntriesOf(account) : Removes({i}, record) /\ UNCHANGED switched
    BY <1>3 DEF DeletePasswordForAccount
  <2>2. /\ secrets' = Without({i}) /\ record' = [record EXCEPT !.revision = revisions + 1]
        /\ revisions' = revisions + 1 /\ switched' = switched
        /\ UNCHANGED <<enrolment, profileIds, secretIds, retained>>
    BY <2>1 DEF Removes, nextProfileRevision
  <2>3. /\ record' \in ProfileRecord /\ record'.password = record.password
        /\ record'.device = record.device /\ record'.session = record.session
        /\ record'.id = record.id /\ record'.username = record.username
        /\ record'.revision = revisions + 1
    BY <1>1, <2>2 DEF ProfileRecord
  <2>4. /\ DOMAIN secrets' = DOMAIN secrets \ {i}
        /\ \A j \in DOMAIN secrets' : secrets'[j] = secrets[j]
    BY <2>2 DEF Without
  <2>5. /\ i \in DOMAIN secrets /\ secrets[i].type = "password" /\ secrets[i].account = account
    BY DEF EntriesOf
  <2>6. Drops({i})
    BY <1>0, <2>2, <2>3, <2>4 DEF Drops
  <2>7. i = record.password => switched
    BY <1>0, <1>3, <2>5 DEF VaultInv, PrimaryIsLogin
  <2>8. ReferencesKept'
    BY <1>1, <2>2, <2>3, <2>4, <2>5, <2>7, ZenonT(60) DEF ReferencesKept, RefersTo
  <2>9. PrimaryIsLogin'
    BY <1>0, <2>2, <2>3, <2>4 DEF VaultInv, PrimaryIsLogin
  <2> QED BY <2>6, <2>8, <2>9, DroppingKeepsRest DEF VaultInv
<1> QED BY <1>2, <1>3

\* Removal of the session.
LEMMA DeleteSessionKeepsInv ==
    ASSUME VaultAssumption, VaultInv, DeleteSession
    PROVE  VaultInv'
<1>0. Exists BY DEF DeleteSession
<1>1. /\ record \in ProfileRecord /\ revisions \in Nat
      /\ RefersTo(record.device, "device") /\ RefersTo(record.session, "session")
      /\ \/ RefersTo(record.password, "password")
         \/ switched /\ record.password \notin DOMAIN secrets
  BY <1>0, References
<1>2. /\ record.session # 0 /\ secrets' = Without({record.session})
      /\ record' = [[record EXCEPT !.session = 0] EXCEPT !.revision = revisions + 1]
      /\ revisions' = revisions + 1 /\ switched' = switched
      /\ UNCHANGED <<enrolment, profileIds, secretIds, retained>>
  <2>1. {record.session} \ {0} # {} /\ secrets' = Without({record.session} \ {0})
    BY DEF DeleteSession, Removes
  <2>2. record.session # 0 /\ {record.session} \ {0} = {record.session} BY <2>1
  <2>3. secrets' = Without({record.session}) BY <2>1, <2>2
  <2> QED BY <2>2, <2>3 DEF DeleteSession, Removes, nextProfileRevision
<1>3. /\ record' \in ProfileRecord /\ record'.password = record.password
      /\ record'.device = record.device /\ record'.session = 0 /\ record'.id = record.id
      /\ record'.username = record.username /\ record'.revision = revisions + 1
  <2> DEFINE r == [record EXCEPT !.session = 0]
  <2>1. revisions + 1 \in Nat /\ record' = [r EXCEPT !.revision = revisions + 1]
    BY <1>1, <1>2
  <2>2. /\ r \in ProfileRecord /\ r.session = 0 /\ r.id = record.id /\ r.username = record.username
       /\ r.password = record.password /\ r.device = record.device
    BY <1>1 DEF ProfileRecord
  <2> HIDE DEF r
  <2> QED BY <2>1, <2>2 DEF ProfileRecord
<1>4. /\ DOMAIN secrets' = DOMAIN secrets \ {record.session}
      /\ \A j \in DOMAIN secrets' : secrets'[j] = secrets[j]
  BY <1>2 DEF Without
<1>5. Drops({record.session})
  BY <1>0, <1>2, <1>3, <1>4 DEF Drops
<1>6. ReferencesKept'
  BY <1>1, <1>2, <1>3, <1>4, ZenonT(60) DEF ReferencesKept, RefersTo
<1>7. PrimaryIsLogin'
  BY <1>0, <1>2, <1>3, <1>4 DEF VaultInv, PrimaryIsLogin
<1> QED BY <1>5, <1>6, <1>7, DroppingKeepsRest DEF VaultInv

\* Removal of the trusted device.
LEMMA DeleteDeviceKeepsInv ==
    ASSUME VaultAssumption, VaultInv, DeleteTrustedDevice
    PROVE  VaultInv'
<1>0. Exists BY DEF DeleteTrustedDevice
<1>1. /\ record \in ProfileRecord /\ revisions \in Nat
      /\ RefersTo(record.device, "device") /\ RefersTo(record.session, "session")
      /\ \/ RefersTo(record.password, "password")
         \/ switched /\ record.password \notin DOMAIN secrets
  BY <1>0, References
<1>2. /\ record.device # 0 /\ secrets' = Without({record.device})
      /\ record' = [[record EXCEPT !.device = 0] EXCEPT !.revision = revisions + 1]
      /\ revisions' = revisions + 1 /\ switched' = switched
      /\ UNCHANGED <<enrolment, profileIds, secretIds, retained>>
  <2>1. {record.device} \ {0} # {} /\ secrets' = Without({record.device} \ {0})
    BY DEF DeleteTrustedDevice, Removes
  <2>2. record.device # 0 /\ {record.device} \ {0} = {record.device} BY <2>1
  <2>3. secrets' = Without({record.device}) BY <2>1, <2>2
  <2> QED BY <2>2, <2>3 DEF DeleteTrustedDevice, Removes, nextProfileRevision
<1>3. /\ record' \in ProfileRecord /\ record'.password = record.password
      /\ record'.device = 0 /\ record'.session = record.session /\ record'.id = record.id
      /\ record'.username = record.username /\ record'.revision = revisions + 1
  <2> DEFINE r == [record EXCEPT !.device = 0]
  <2>1. revisions + 1 \in Nat /\ record' = [r EXCEPT !.revision = revisions + 1]
    BY <1>1, <1>2
  <2>2. /\ r \in ProfileRecord /\ r.device = 0 /\ r.id = record.id /\ r.username = record.username
       /\ r.password = record.password /\ r.session = record.session
    BY <1>1 DEF ProfileRecord
  <2> HIDE DEF r
  <2> QED BY <2>1, <2>2 DEF ProfileRecord
<1>4. /\ DOMAIN secrets' = DOMAIN secrets \ {record.device}
      /\ \A j \in DOMAIN secrets' : secrets'[j] = secrets[j]
  BY <1>2 DEF Without
<1>5. Drops({record.device})
  BY <1>0, <1>2, <1>3, <1>4 DEF Drops
<1>6. ReferencesKept'
  BY <1>1, <1>2, <1>3, <1>4, ZenonT(60) DEF ReferencesKept, RefersTo
<1>7. PrimaryIsLogin'
  BY <1>0, <1>2, <1>3, <1>4 DEF VaultInv, PrimaryIsLogin
<1> QED BY <1>5, <1>6, <1>7, DroppingKeepsRest DEF VaultInv

\* A secret of an apply, or one of no profile, is not one the profile refers to.
LEMMA DeleteSecretKeepsInv ==
    ASSUME VaultAssumption, VaultInv, NEW i \in DOMAIN secrets,
           DeleteApplySecret(i) \/ DeleteOrphanedSecret(i)
    PROVE  VaultInv'
<1>1. /\ UNCHANGED <<record, enrolment, profileIds, revisions, secretIds, retained, switched>>
      /\ DOMAIN secrets' = DOMAIN secrets \ {i}
      /\ \A j \in DOMAIN secrets' : secrets'[j] = secrets[j]
      /\ Exists => secrets[i].type = "apply" \/ secrets[i].profile # record.id
  BY DEF DeleteApplySecret, DeleteOrphanedSecret, Without
<1>2. Exists' <=> Exists BY <1>1 DEF Exists
<1>3. VaultTyped' BY <1>1, <1>2 DEF VaultInv, VaultTyped
<1>4. EnrolmentsRead' BY <1>1, <1>2 DEF VaultInv, EnrolmentsRead
<1>5. ReferencesKept' BY <1>1, <1>2 DEF VaultInv, ReferencesKept, RefersTo
<1>6. SecretsOwned' BY <1>1, <1>2 DEF VaultInv, SecretsOwned
<1>7. OneOfEach' BY <1>1, <1>2 DEF VaultInv, OneOfEach
<1>8. PrimaryIsLogin' BY <1>1, <1>2 DEF VaultInv, PrimaryIsLogin
<1> QED BY <1>3, <1>4, <1>5, <1>6, <1>7, <1>8 DEF VaultInv

\* Creation of the profile, under an identifier never used before.
LEMMA CreateKeepsInv ==
    ASSUME VaultAssumption, VaultInv, NEW url \in VaultURL, CreateRecord(url)
    PROVE  VaultInv'
<1>0. /\ ~Exists /\ profileIds' = profileIds + 1 /\ revisions' = revisions + 1 /\ switched' = FALSE
      /\ record' = [id |-> profileIds + 1, revision |-> revisions + 1, url |-> url, username |-> 0,
                    password |-> 0, device |-> 0, session |-> 0]
      /\ UNCHANGED <<secrets, enrolment, secretIds, retained>>
  BY DEF CreateRecord, nextProfileRevision
<1>1. profileIds \in Nat /\ revisions \in Nat /\ secretIds \in Nat
  BY DEF VaultInv, VaultTyped
<1>2. /\ record' \in ProfileRecord /\ record'.id = profileIds + 1 /\ record'.password = 0
      /\ record'.device = 0 /\ record'.session = 0 /\ record'.revision = revisions + 1
  BY <1>0, <1>1 DEF ProfileRecord
<1>3. Exists' BY <1>2 DEF Exists, VaultAssumption, ProfileRecord
<1>4. /\ \A i \in DOMAIN secrets : secrets[i].profile \in 1..profileIds /\ secrets[i].profile \in retained
      /\ retained \subseteq 1..profileIds /\ DOMAIN secrets \subseteq 1..secretIds
  BY <1>0 DEF VaultInv, VaultTyped, SecretsOwned
<1>5. 1..profileIds \subseteq 1..profileIds' /\ profileIds + 1 \in 1..profileIds'
      /\ profileIds + 1 \notin 1..profileIds /\ profileIds' \in Nat
  BY <1>0, <1>1
<1>6. VaultTyped'
  <2>1. record'.revision \in 1..revisions' /\ revisions' \in Nat BY <1>0, <1>1, <1>2
  <2>2. {record'.password, record'.device, record'.session} \subseteq 0..secretIds'
    BY <1>0, <1>1, <1>2
  <2> QED BY <1>0, <1>2, <1>4, <1>5, <2>1, <2>2 DEF VaultInv, VaultTyped
<1>7. EnrolmentsRead'
  <2>1. DOMAIN enrolment' = Enrolment /\ \A e \in Enrolment : enrolment'[e] = enrolment[e]
    BY <1>0 DEF VaultInv, VaultTyped
  <2> QED BY <1>0, <1>1, <1>2, <2>1, EnrolmentsKept
<1>8. ReferencesKept' BY <1>2 DEF ReferencesKept, RefersTo
<1>9. SecretsOwned' BY <1>0, <1>4 DEF SecretsOwned
<1>10. OneOfEach' BY <1>0, <1>2, <1>4, <1>5 DEF VaultInv, OneOfEach
<1>11. PrimaryIsLogin' BY <1>0, <1>1, <1>2, <1>4 DEF PrimaryIsLogin
<1> QED BY <1>6, <1>7, <1>8, <1>9, <1>10, <1>11 DEF VaultInv

\* Deletion of the profile, with its secrets or without.
LEMMA DeleteKeepsInv ==
    ASSUME VaultAssumption, VaultInv, NEW retain \in BOOLEAN, DeleteRecord(retain)
    PROVE  VaultInv'
<1>0. /\ Exists /\ record' = NoProfile
      /\ UNCHANGED <<enrolment, profileIds, revisions, secretIds, switched>>
  BY DEF DeleteRecord
<1>1. ~Exists' BY <1>0 DEF Exists
<1>2. \/ secrets' = secrets /\ retained' = retained \union {record.id}
      \/ secrets' = Without(OfProfile) /\ retained' = retained
  BY DEF DeleteRecord
<1>3. /\ DOMAIN secrets' \subseteq DOMAIN secrets
      /\ \A j \in DOMAIN secrets' : secrets'[j] = secrets[j] /\ secrets[j].profile \in retained'
      /\ retained' \subseteq 1..profileIds
  BY <1>0, <1>2 DEF Without, OfProfile, VaultInv, SecretsOwned, VaultTyped
<1>4. VaultTyped' BY <1>0, <1>1, <1>3 DEF VaultInv, VaultTyped
<1>5. EnrolmentsRead' BY <1>0, <1>1 DEF VaultInv, EnrolmentsRead
<1>6. ReferencesKept' BY <1>1 DEF ReferencesKept
<1>7. SecretsOwned' BY <1>3 DEF SecretsOwned
<1>8. OneOfEach' BY <1>1, <1>3 DEF VaultInv, OneOfEach
<1>9. PrimaryIsLogin' BY <1>1 DEF PrimaryIsLogin
<1> QED BY <1>4, <1>5, <1>6, <1>7, <1>8, <1>9 DEF VaultInv

\* Reading the profile, and ending without having stored anything.
LEMMA EnrolmentStepsKeepInv ==
    ASSUME VaultInv,
           \/ \E e \in Enrolment, does \in {"password", "connect", "weblogin", "provision"},
                 account \in Account : BeginEnrolment(e, does, account)
           \/ \E e \in Enrolment, does \in {"password", "connect", "weblogin", "provision"} :
                 Ends(e, does) /\ Refused
    PROVE  VaultInv'
<1>1. UNCHANGED <<record, secrets, profileIds, revisions, secretIds, retained, switched>>
  BY DEF BeginEnrolment, Ends, Refused
<1>2. /\ DOMAIN enrolment' = Enrolment
      /\ \A d \in Enrolment :
            \/ enrolment'[d] = NoEnrolment \/ enrolment'[d] = enrolment[d]
            \/ /\ Exists /\ enrolment'[d].account \in Account
               /\ enrolment'[d].revision = record.revision /\ enrolment'[d].url = record.url
  BY DEF BeginEnrolment, Ends, VaultInv, VaultTyped
<1>3. Exists' <=> Exists BY <1>1 DEF Exists
<1>4. VaultTyped' BY <1>1, <1>2, <1>3 DEF VaultInv, VaultTyped
<1>5. EnrolmentsRead'
  <2> SUFFICES ASSUME NEW d \in Enrolment, enrolment'[d].does # "nothing"
               PROVE  /\ enrolment'[d].account \in Account
                      /\ enrolment'[d].revision \in 0..revisions
                      /\ Exists /\ enrolment'[d].revision = record.revision =>
                              enrolment'[d].url = record.url
    BY <1>1, <1>3 DEF EnrolmentsRead
  <2>1. enrolment'[d] # NoEnrolment BY DEF NoEnrolment
  <2>2. CASE enrolment'[d] = enrolment[d]
    BY <2>2 DEF VaultInv, EnrolmentsRead
  <2>3. CASE enrolment'[d] # enrolment[d]
    <3>1. Exists => record.revision \in 0..revisions BY DEF VaultInv, VaultTyped
    <3> QED BY <1>2, <2>1, <2>3, <3>1
  <2> QED BY <2>2, <2>3
<1>6. ReferencesKept' BY <1>1, <1>3 DEF VaultInv, ReferencesKept, RefersTo
<1>7. SecretsOwned' BY <1>1, <1>3 DEF VaultInv, SecretsOwned
<1>8. OneOfEach' BY <1>1, <1>3 DEF VaultInv, OneOfEach
<1>9. PrimaryIsLogin' BY <1>1, <1>3 DEF VaultInv, PrimaryIsLogin
<1> QED BY <1>4, <1>5, <1>6, <1>7, <1>8, <1>9 DEF VaultInv

\* Every step keeps the invariant.
LEMMA VaultInductive ==
    ASSUME VaultAssumption, VaultInv, [VaultNext]_vaultVars
    PROVE  VaultInv'
<1>1. CASE UNCHANGED vaultVars
  BY <1>1 DEF vaultVars, VaultInv, VaultTyped, EnrolmentsRead, ReferencesKept, RefersTo,
     SecretsOwned, OneOfEach, PrimaryIsLogin, Exists
<1>2. ASSUME NEW url \in VaultURL, CreateRecord(url) \/ UpdateRecord(url) PROVE VaultInv'
  BY <1>2, CreateKeepsInv, UpdateKeepsInv
<1>3. ASSUME NEW retain \in BOOLEAN, DeleteRecord(retain) PROVE VaultInv'
  BY <1>3, DeleteKeepsInv
<1>4. ASSUME NEW e \in Enrolment, NEW account \in Account,
             NEW does \in {"password", "connect", "weblogin", "provision"},
             BeginEnrolment(e, does, account)
      PROVE  VaultInv'
  BY <1>4, EnrolmentStepsKeepInv
<1>5. ASSUME NEW e \in Enrolment, SavePasswordForAccount(e) PROVE VaultInv'
  <2>1. CASE AtExpectedRevision(e)
    BY <1>5, <2>1, SavePasswordKeepsInv, SaveFurtherKeepsInv
  <2>2. CASE ~AtExpectedRevision(e)
    <3>1. Ends(e, "password") /\ Refused BY <1>5, <2>2 DEF SavePasswordForAccount
    <3> QED BY <3>1, EnrolmentStepsKeepInv
  <2> QED BY <2>1, <2>2
<1>6. ASSUME NEW e \in Enrolment, EnrollSessionAtRevision(e) PROVE VaultInv'
  <2>1. CASE AtExpectedRevision(e)
    <3>1. Exists /\ Ends(e, "connect") /\ SaveEnrolledSession(e)
      BY <1>6, <2>1 DEF EnrollSessionAtRevision, AtExpectedRevision
    <3> QED BY <3>1, SaveSessionKeepsInv
  <2>2. CASE ~AtExpectedRevision(e)
    <3>1. Ends(e, "connect") /\ Refused BY <1>6, <2>2 DEF EnrollSessionAtRevision
    <3> QED BY <3>1, EnrolmentStepsKeepInv
  <2> QED BY <2>1, <2>2
<1>7. ASSUME NEW e \in Enrolment, EnrollSession(e) PROVE VaultInv'
  <2>1. CASE Exists
    <3>1. Ends(e, "weblogin") /\ SaveEnrolledSession(e) BY <1>7, <2>1 DEF EnrollSession
    <3> QED BY <2>1, <3>1, SaveSessionKeepsInv
  <2>2. CASE ~Exists
    <3>1. Ends(e, "weblogin") /\ Refused BY <1>7, <2>2 DEF EnrollSession
    <3> QED BY <3>1, EnrolmentStepsKeepInv
  <2> QED BY <2>1, <2>2
<1>8. ASSUME NEW e \in Enrolment, EnrollPasswordForAccount(e) PROVE VaultInv'
  <2>1. CASE Exists
    BY <1>8, <2>1, ProvisionKeepsInv
  <2>2. CASE ~Exists
    <3>1. Ends(e, "provision") /\ Refused BY <1>8, <2>2 DEF EnrollPasswordForAccount
    <3> QED BY <3>1, EnrolmentStepsKeepInv
  <2> QED BY <2>1, <2>2
<1>9. ASSUME NEW account \in Account, DeletePasswordForAccount(account) PROVE VaultInv'
  BY <1>9, DeletePasswordKeepsInv
<1>10. CASE DeleteSession \/ DeleteTrustedDevice \/ SaveTrustedDevice \/ StoreApplySecret
  BY <1>10, DeleteSessionKeepsInv, DeleteDeviceKeepsInv, SaveDeviceKeepsInv, StoreApplyKeepsInv
<1>11. ASSUME NEW i \in DOMAIN secrets, DeleteApplySecret(i) \/ DeleteOrphanedSecret(i)
       PROVE  VaultInv'
  BY <1>11, DeleteSecretKeepsInv
<1> QED BY <1>1, <1>2, <1>3, <1>4, <1>5, <1>6, <1>7, <1>8, <1>9, <1>10, <1>11 DEF VaultNext

\* The invariant holds always.
LEMMA VaultInvariant == VaultSpec => []VaultInv
<1>1. VaultInit => VaultInv
  <2> SUFFICES ASSUME VaultInit PROVE VaultInv
    OBVIOUS
  <2>1. /\ ~Exists /\ DOMAIN secrets = {} /\ retained = {} /\ profileIds = 0 /\ revisions = 0
        /\ secretIds = 0 /\ DOMAIN enrolment = Enrolment
        /\ \A e \in Enrolment : enrolment[e].does = "nothing"
    BY DEF VaultInit, Exists, NoEnrolment
  <2>2. VaultTyped BY <2>1, VaultAssumption DEF VaultTyped, VaultAssumption
  <2>3. EnrolmentsRead BY <2>1 DEF EnrolmentsRead
  <2> QED BY <2>1, <2>2, <2>3 DEF VaultInv, ReferencesKept, SecretsOwned, OneOfEach, PrimaryIsLogin
<1>2. VaultInv /\ [VaultNext]_vaultVars => VaultInv'
  BY VaultAssumption, VaultInductive
<1> QED BY <1>1, <1>2, PTL DEF VaultSpec

\* Every variable of the vault keeps its type, and a profile has at most one
\* session and one trusted device.
THEOREM VaultTypes == VaultSpec => []VaultTypeOK
<1>1. VaultInv => VaultTypeOK
  <2> SUFFICES ASSUME VaultInv PROVE VaultTypeOK
    OBVIOUS
  <2>1. /\ Exists => /\ record.id \in 1..profileIds /\ record.revision \in 1..revisions
                     /\ record.username \in Account \union {0}
                     /\ {record.password, record.device, record.session} \subseteq 0..secretIds
        /\ DOMAIN secrets \subseteq 1..secretIds /\ secretIds <= MaxSecretIds
    BY VaultAssumption DEF VaultInv, VaultTyped, ProfileRecord, VaultAssumption
  <2>2. \A i \in DOMAIN secrets :
          /\ secrets[i].type \in {"password", "session", "device", "apply"}
          /\ secrets[i].type \in {"session", "device"} =>
              ~\E j \in DOMAIN secrets \ {i} :
                  secrets[j].type = secrets[i].type /\ secrets[j].profile = secrets[i].profile
    BY DEF VaultInv, VaultTyped, OneOfEach
  <2> QED BY <2>1, <2>2 DEF VaultTypeOK
<1> QED BY <1>1, VaultInvariant, PTL

\* The secrets of the vault and the profile that refers to them agree, and the
\* primary entry of the password book is the one of the login, for any number
\* of sign-ins that race with edits, deletions and each other.
THEOREM VaultIsSafe == VaultSpec => []VaultSafe
<1>1. VaultInv => VaultSafe
  <2> SUFFICES ASSUME VaultInv PROVE VaultSafe
    OBVIOUS
  <2>1. \A i \in DOMAIN secrets :
          secrets[i].profile \in retained \union (IF Exists THEN {record.id} ELSE {})
    BY DEF VaultInv, SecretsOwned
  <2>2. ASSUME Exists,
               NEW ref \in {<<record.password, "password">>, <<record.device, "device">>,
                            <<record.session, "session">>},
               ref[1] # 0
        PROVE  \/ /\ ref[1] \in DOMAIN secrets
                  /\ secrets[ref[1]].type = ref[2] /\ secrets[ref[1]].profile = record.id
               \/ ref[1] = record.password /\ switched
    BY <2>2 DEF VaultInv, ReferencesKept, RefersTo
  <2> QED BY <2>1, <2>2 DEF VaultSafe, SecretsAccounted, VaultInv
<1> QED BY <1>1, VaultInvariant, PTL

\* What comes of a sign-in by password was verified at the URL the profile has
\* when it is stored: the expected revision that savePasswordForAccount and
\* EnrollSessionAtRevision compare stands for the URL that was read with it.
\* Web logins and provisioned passwords are not compared.
THEOREM PasswordIsVerifiedHere == VaultSpec => PasswordVerifiedHere
<1> DEFINE Verified == \A e \in Enrolment : enrolment[e] # NoEnrolment
                          /\ enrolment'[e] = NoEnrolment /\ secrets' # secrets
                          => enrolment[e].url = record'.url \/ enrolment[e].does \in Uncompared
<1>1. VaultInv /\ [VaultNext]_vaultVars => [Verified]_vaultVars
  <2> SUFFICES ASSUME VaultInv, VaultNext, NEW e \in Enrolment,
                      enrolment[e] # NoEnrolment, enrolment'[e] = NoEnrolment, secrets' # secrets,
                      enrolment[e].does \notin Uncompared
               PROVE  enrolment[e].url = record'.url
    BY DEF vaultVars
  <2>1. enrolment'[e] # enrolment[e] OBVIOUS
  <2>2. /\ \A url \in VaultURL : ~CreateRecord(url) /\ ~UpdateRecord(url)
        /\ \A retain \in BOOLEAN : ~DeleteRecord(retain)
        /\ \A d \in Enrolment, account \in Account : \A does : ~BeginEnrolment(d, does, account)
    BY <2>1 DEF CreateRecord, UpdateRecord, DeleteRecord, BeginEnrolment
  <2>3. /\ ~DeleteSession /\ ~DeleteTrustedDevice /\ ~SaveTrustedDevice /\ ~StoreApplySecret
        /\ \A account \in Account : ~DeletePasswordForAccount(account)
        /\ \A i \in DOMAIN secrets : ~DeleteApplySecret(i) /\ ~DeleteOrphanedSecret(i)
    BY <2>1 DEF DeleteSession, DeleteTrustedDevice, SaveTrustedDevice, StoreApplySecret,
       DeletePasswordForAccount, DeleteApplySecret, DeleteOrphanedSecret, Removes
  <2>4. \A d \in Enrolment : \A does : Ends(d, does) => d = e
    BY <2>1 DEF Ends, VaultInv, VaultTyped
  <2>5. \A d \in Enrolment : ~EnrollSession(d) /\ ~EnrollPasswordForAccount(d)
    BY <2>4 DEF EnrollSession, EnrollPasswordForAccount, Ends, Uncompared
  <2>6. SavePasswordForAccount(e) \/ EnrollSessionAtRevision(e)
    <3>1. \E d \in Enrolment : SavePasswordForAccount(d) \/ EnrollSessionAtRevision(d)
      BY <2>2, <2>3, <2>5 DEF VaultNext
    <3> QED BY <2>4, <3>1 DEF SavePasswordForAccount, EnrollSessionAtRevision
  <2>7. AtExpectedRevision(e)
    BY <2>6 DEF SavePasswordForAccount, EnrollSessionAtRevision, Refused
  <2>8. Exists /\ record.url = enrolment[e].url
    <3>1. enrolment[e].does # "nothing"
      BY <2>6 DEF SavePasswordForAccount, EnrollSessionAtRevision, Ends
    <3> QED BY <2>7, <3>1 DEF AtExpectedRevision, VaultInv, EnrolmentsRead
  <2>9. record \in ProfileRecord BY <2>8 DEF VaultInv, VaultTyped
  <2>10. record'.url = record.url
    BY <2>6, <2>7, <2>9
    DEF SavePasswordForAccount, EnrollSessionAtRevision, SaveEnrolledSession, ProfileRecord
  <2> QED BY <2>8, <2>10
<1> QED BY <1>1, VaultInvariant, PTL DEF VaultSpec, PasswordVerifiedHere

-----------------------------------------------------------------------------
(***************************************************************************)
(* The edge.  First the identity limiter, for each token's own history of  *)
(* requests let through: h, of length n.                                   *)
(***************************************************************************)
Spaced(h, n) ==
    \A i \in 1..n : i + 2 * RateLimit <= n => h[i + 2 * RateLimit] >= h[i] + RateWindow

UpTo(h, n, time) == \A i \in 1..n : h[i] <= time

\* All that was let through before the last limit's worth is a window old.
Old(h, n, time) == \A i \in 1..n : i <= n - RateLimit => h[i] + RateWindow <= time

\* A window counts the last requests; what came before the window before it
\* is a window older.
Counted(h, n, w) ==
    /\ w.count \in 1..RateLimit /\ w.count <= n
    /\ \A i \in 1..n :
        /\ h[i] < w.started + RateWindow
        /\ i <= n - w.count => h[i] <= w.started
        /\ i <= n - w.count - RateLimit => h[i] + RateWindow <= w.started

Window == [started : Nat, count : Nat]

\* An admission that starts a window: all before it are older than one.
LEMMA NewWindow ==
    ASSUME EdgeAssumption, NEW n \in Nat, NEW h, \A i \in 1..n : h[i] \in Nat, NEW time \in Nat,
           NEW g, \A i \in 1..n : g[i] = h[i], g[n + 1] = time,
           Spaced(h, n), UpTo(h, n, time), Old(h, n, time), NEW w, w.started = time, w.count = 1
    PROVE  Spaced(g, n + 1) /\ UpTo(g, n + 1, time) /\ Counted(g, n + 1, w)
<1>1. RateLimit \in Nat \ {0} /\ RateWindow \in Nat \ {0}
  BY DEF EdgeAssumption
<1>2. \A i \in 1..n + 1 : i \in 1..n \/ i = n + 1
  OBVIOUS
<1>3. UpTo(g, n + 1, time)
  BY <1>2 DEF UpTo
<1>4. Spaced(g, n + 1)
  <2> SUFFICES ASSUME NEW i \in 1..n + 1, i + 2 * RateLimit <= n + 1
               PROVE  g[i + 2 * RateLimit] >= g[i] + RateWindow
    BY DEF Spaced
  <2>1. i \in 1..n BY <1>1
  <2>2. CASE i + 2 * RateLimit = n + 1
    <3>1. i <= n - RateLimit BY <1>1, <2>2
    <3>2. h[i] + RateWindow <= time BY <2>1, <3>1 DEF Old
    <3> QED BY <2>1, <2>2, <3>2
  <2>3. CASE i + 2 * RateLimit # n + 1
    <3>1. i + 2 * RateLimit \in 1..n /\ i + 2 * RateLimit <= n BY <1>1, <2>3
    <3>2. h[i + 2 * RateLimit] >= h[i] + RateWindow BY <2>1, <3>1 DEF Spaced
    <3> QED BY <2>1, <3>1, <3>2
  <2> QED BY <2>2, <2>3
<1>5. Counted(g, n + 1, w)
  <2>1. ASSUME NEW i \in 1..n + 1
        PROVE  /\ g[i] < time + RateWindow
               /\ i <= n + 1 - 1 => g[i] <= time
               /\ i <= n + 1 - 1 - RateLimit => g[i] + RateWindow <= time
    <3>1. CASE i \in 1..n
      <4>1. g[i] = h[i] /\ h[i] \in Nat /\ h[i] <= time BY <3>1 DEF UpTo
      <4>2. i <= n - RateLimit => h[i] + RateWindow <= time BY <3>1 DEF Old
      <4> QED BY <1>1, <4>1, <4>2
    <3>2. CASE i = n + 1
      BY <1>1, <3>2
    <3> QED BY <1>2, <3>1, <3>2
  <2>2. 1 \in 1..RateLimit /\ 1 <= n + 1 BY <1>1
  <2> QED BY <2>1, <2>2 DEF Counted
<1> QED BY <1>3, <1>4, <1>5

\* An admission counted in the window that is open.
LEMMA SameWindow ==
    ASSUME EdgeAssumption, NEW n \in Nat, NEW h, \A i \in 1..n : h[i] \in Nat, NEW time \in Nat,
           NEW g, \A i \in 1..n : g[i] = h[i], g[n + 1] = time,
           Spaced(h, n), UpTo(h, n, time), NEW v \in Window, Counted(h, n, v),
           v.started <= time, time - v.started < RateWindow, v.count < RateLimit,
           NEW w, w.started = v.started, w.count = v.count + 1
    PROVE  Spaced(g, n + 1) /\ UpTo(g, n + 1, time) /\ Counted(g, n + 1, w)
<1>1. /\ RateLimit \in Nat \ {0} /\ RateWindow \in Nat \ {0}
      /\ v.started \in Nat /\ v.count \in 1..RateLimit /\ v.count \in Nat /\ v.count <= n
  BY DEF EdgeAssumption, Window, Counted
<1>2. \A i \in 1..n + 1 : i \in 1..n \/ i = n + 1
  OBVIOUS
<1>3. UpTo(g, n + 1, time)
  BY <1>2 DEF UpTo
<1>4. Spaced(g, n + 1)
  <2> SUFFICES ASSUME NEW i \in 1..n + 1, i + 2 * RateLimit <= n + 1
               PROVE  g[i + 2 * RateLimit] >= g[i] + RateWindow
    BY DEF Spaced
  <2>1. i \in 1..n BY <1>1
  <2>2. CASE i + 2 * RateLimit = n + 1
    <3>1. i <= n - v.count - RateLimit BY <1>1, <2>2
    <3>2. h[i] + RateWindow <= v.started /\ h[i] \in Nat BY <2>1, <3>1 DEF Counted
    <3>3. h[i] + RateWindow <= time BY <1>1, <3>2
    <3> QED BY <2>1, <2>2, <3>3
  <2>3. CASE i + 2 * RateLimit # n + 1
    <3>1. i + 2 * RateLimit \in 1..n /\ i + 2 * RateLimit <= n BY <1>1, <2>3
    <3>2. h[i + 2 * RateLimit] >= h[i] + RateWindow BY <2>1, <3>1 DEF Spaced
    <3> QED BY <2>1, <3>1, <3>2
  <2> QED BY <2>2, <2>3
<1>5. Counted(g, n + 1, w)
  <2>1. ASSUME NEW i \in 1..n + 1
        PROVE  /\ g[i] < w.started + RateWindow
               /\ i <= n + 1 - w.count => g[i] <= w.started
               /\ i <= n + 1 - w.count - RateLimit => g[i] + RateWindow <= w.started
    <3>1. CASE i \in 1..n
      <4>1. /\ g[i] = h[i] /\ h[i] < v.started + RateWindow
            /\ i <= n - v.count => h[i] <= v.started
            /\ i <= n - v.count - RateLimit => h[i] + RateWindow <= v.started
        BY <3>1 DEF Counted
      <4>2. /\ i <= n + 1 - w.count => i <= n - v.count
            /\ i <= n + 1 - w.count - RateLimit => i <= n - v.count - RateLimit
        BY <1>1
      <4> QED BY <4>1, <4>2
    <3>2. CASE i = n + 1
      BY <1>1, <3>2
    <3> QED BY <1>2, <3>1, <3>2
  <2>2. w.count \in 1..RateLimit /\ w.count <= n + 1 BY <1>1
  <2> QED BY <2>1, <2>2 DEF Counted
<1> QED BY <1>3, <1>4, <1>5

\* The window that counts a token's requests goes on, or has run out.
LEMMA WindowRunsOut ==
    ASSUME EdgeAssumption, NEW n \in Nat, NEW h, \A i \in 1..n : h[i] \in Nat, NEW time \in Nat,
           NEW v \in Window, Counted(h, n, v)
    PROVE  /\ time - v.started >= RateWindow => Old(h, n, time)
           /\ time - v.started >= 2 * RateWindow => UpTo(h, n, time - RateWindow)
<1>1. /\ RateLimit \in Nat \ {0} /\ RateWindow \in Nat \ {0}
      /\ v.started \in Nat /\ v.count \in 1..RateLimit /\ v.count \in Nat
  BY DEF EdgeAssumption, Window, Counted
<1>2. ASSUME NEW i \in 1..n, time - v.started >= RateWindow, i <= n - RateLimit
      PROVE  h[i] + RateWindow <= time
  <2>1. i <= n - v.count BY <1>1, <1>2
  <2>2. h[i] <= v.started /\ h[i] \in Nat BY <2>1 DEF Counted
  <2> QED BY <1>1, <1>2, <2>2
<1>3. ASSUME NEW i \in 1..n, time - v.started >= 2 * RateWindow
      PROVE  h[i] <= time - RateWindow
  <2>1. h[i] < v.started + RateWindow /\ h[i] \in Nat BY DEF Counted
  <2> QED BY <1>1, <1>3, <2>1
<1> QED BY <1>2, <1>3 DEF Old, UpTo

LimiterTyped ==
    /\ edgeNow \in Nat /\ admitted \in [Bearer -> Seq(Nat)]
    /\ DOMAIN windows \subseteq Bearer
    /\ \A b \in DOMAIN windows : windows[b] \in Window

\* A token without a window has not been let through for a window.
TokenKept(h, n, b, table, time) ==
    /\ Spaced(h, n) /\ UpTo(h, n, time)
    /\ b \in DOMAIN table => Counted(h, n, table[b]) /\ table[b].started <= time
    /\ b \notin DOMAIN table => UpTo(h, n, time - RateWindow)

LimiterKept ==
    \A b \in Bearer : TokenKept(admitted[b], Len(admitted[b]), b, windows, edgeNow)

LimiterInv == LimiterTyped /\ LimiterKept

\* The same of the primed state, where the operators below have constant
\* arguments.
LEMMA LimiterKeptNext ==
    ASSUME \A b \in Bearer : TokenKept(admitted'[b], Len(admitted'[b]), b, windows', edgeNow')
    PROVE  LimiterKept'
BY DEF LimiterKept

\* Time passes.
LEMMA TickKeepsLimiter ==
    ASSUME EdgeAssumption, LimiterInv, EdgeTick
    PROVE  LimiterInv'
<1>1. edgeNow' = edgeNow + 1 /\ windows' = windows /\ admitted' = admitted /\ edgeNow \in Nat
  BY DEF EdgeTick, limiterVars, LimiterInv, LimiterTyped
<1>2. RateWindow \in Nat BY DEF EdgeAssumption
<1>3. LimiterTyped' BY <1>1 DEF LimiterInv, LimiterTyped
<1>4. ASSUME NEW n \in Nat, NEW h, \A i \in 1..n : h[i] \in Nat, NEW t \in Int, UpTo(h, n, t)
      PROVE  UpTo(h, n, t + 1)
  BY <1>4 DEF UpTo
<1>5. ASSUME NEW b \in Bearer
      PROVE  TokenKept(admitted[b], Len(admitted[b]), b, windows, edgeNow + 1)
  <2> DEFINE h == admitted[b]
             n == Len(h)
  <2>1. n \in Nat /\ \A i \in 1..n : h[i] \in Nat
    BY DEF LimiterInv, LimiterTyped
  <2>2. TokenKept(h, n, b, windows, edgeNow) BY DEF LimiterInv, LimiterKept
  <2>3. b \in DOMAIN windows => windows[b].started \in Nat
    BY DEF LimiterInv, LimiterTyped, Window
  <2>4. edgeNow - RateWindow \in Int /\ edgeNow - RateWindow + 1 = edgeNow + 1 - RateWindow
    BY <1>1, <1>2
  <2> HIDE DEF h, n
  <2>5. UpTo(h, n, edgeNow + 1)
    <3>1. edgeNow \in Int /\ UpTo(h, n, edgeNow) BY <1>1, <2>2 DEF TokenKept
    <3> QED BY <1>4, <2>1, <3>1
  <2>6. b \notin DOMAIN windows => UpTo(h, n, edgeNow + 1 - RateWindow)
    BY <1>4, <2>1, <2>2, <2>4 DEF TokenKept
  <2>7. TokenKept(h, n, b, windows, edgeNow + 1)
    BY <1>1, <2>2, <2>3, <2>5, <2>6 DEF TokenKept
  <2> QED BY <2>7 DEF h, n
<1>6. LimiterKept' BY <1>1, <1>5, LimiterKeptNext
<1> QED BY <1>3, <1>6 DEF LimiterInv

\* A decision of the limiter, which may make room in its table first.
LEMMA AllowKeepsLimiter ==
    ASSUME EdgeAssumption, LimiterInv, NEW b \in Bearer, Allow(b)
    PROVE  LimiterInv'
<1> DEFINE h == admitted[b]
           n == Len(h)
           g == Append(h, edgeNow)
           window == CurrentWindow(b)
           counted == [window EXCEPT !.count = @ + 1]
<1>1. /\ RateLimit \in Nat \ {0} /\ RateWindow \in Nat \ {0} /\ edgeNow \in Nat /\ edgeNow' = edgeNow
      /\ h \in Seq(Nat)
  BY DEF EdgeAssumption, LimiterInv, LimiterTyped, Allow
<1>2. /\ n \in Nat /\ \A i \in 1..n : h[i] \in Nat
  BY <1>1
<1>3. g \in Seq(Nat) /\ Len(g) = n + 1 /\ g[n + 1] = edgeNow /\ \A i \in 1..n : g[i] = h[i]
  BY <1>1
<1>4. TokenKept(h, n, b, windows, edgeNow)
  BY DEF LimiterInv, LimiterKept
<1>5. CASE window.count >= RateLimit
  <2>1. windows' = Put(windows, b, window) /\ admitted' = admitted
    BY <1>5 DEF Allow
  <2>2. b \in DOMAIN windows /\ window = windows[b]
    BY <1>1, <1>5 DEF CurrentWindow
  <2>3. DOMAIN windows' = DOMAIN windows /\ \A d \in DOMAIN windows : windows'[d] = windows[d]
    BY <2>1, <2>2 DEF Put
  <2>4. LimiterTyped' BY <1>1, <2>1, <2>3 DEF LimiterInv, LimiterTyped
  <2>5. \A d \in Bearer : TokenKept(admitted'[d], Len(admitted'[d]), d, windows', edgeNow')
    BY <1>1, <2>1, <2>3 DEF LimiterInv, LimiterKept, TokenKept
  <2> QED BY <2>4, <2>5, LimiterKeptNext DEF LimiterInv
<1>6. CASE ~(window.count >= RateLimit)
  <2>1. /\ windows' = Pruned(Put(windows, b, counted))
        /\ admitted' = [admitted EXCEPT ![b] = g]
    BY <1>6 DEF Allow
  <2> HIDE DEF g, n
  <2>2. /\ counted \in Window /\ counted.started <= edgeNow /\ edgeNow - counted.started < RateWindow
        /\ Spaced(g, n + 1) /\ UpTo(g, n + 1, edgeNow) /\ Counted(g, n + 1, counted)
    <3>1. CASE b \in DOMAIN windows /\ edgeNow - windows[b].started < RateWindow
      <4>1. window = windows[b] BY <3>1 DEF CurrentWindow
      <4>2. window \in Window /\ Counted(h, n, window) /\ window.started <= edgeNow
        BY <1>4, <3>1, <4>1 DEF LimiterInv, LimiterTyped, TokenKept
      <4>3. edgeNow - window.started < RateWindow BY <3>1, <4>1
      <4> HIDE DEF window
      <4>4. counted \in Window /\ counted.started = window.started /\ counted.count = window.count + 1
        BY <4>2 DEF Window
      <4>5. window.count < RateLimit BY <1>1, <1>6, <4>2 DEF Window
      <4>6. Spaced(h, n) /\ UpTo(h, n, edgeNow) BY <1>4 DEF TokenKept
      <4> HIDE DEF counted, h
      <4> QED BY <1>1, <1>2, <1>3, <4>2, <4>3, <4>4, <4>5, <4>6, SameWindow
    <3>2. CASE ~(b \in DOMAIN windows /\ edgeNow - windows[b].started < RateWindow)
      <4>1. window = [started |-> edgeNow, count |-> 0] BY <3>2 DEF CurrentWindow
      <4>2. counted = [started |-> edgeNow, count |-> 1] BY <4>1
      <4>3. counted \in Window /\ counted.started = edgeNow /\ counted.count = 1
        BY <1>1, <4>2 DEF Window
      <4>4. Old(h, n, edgeNow)
        <5>1. CASE b \notin DOMAIN windows
          <6>1. UpTo(h, n, edgeNow - RateWindow) BY <1>4, <5>1 DEF TokenKept
          <6> HIDE DEF h
          <6> QED BY <1>1, <1>2, <6>1 DEF UpTo, Old
        <5>2. CASE b \in DOMAIN windows
          <6>1. windows[b] \in Window /\ Counted(h, n, windows[b])
            BY <1>4, <5>2 DEF LimiterInv, LimiterTyped, TokenKept
          <6>2. edgeNow - windows[b].started >= RateWindow
            BY <1>1, <3>2, <5>2, <6>1 DEF Window
          <6> HIDE DEF h
          <6> QED BY <1>1, <1>2, <6>1, <6>2, WindowRunsOut
        <5> QED BY <5>1, <5>2
      <4>5. Spaced(h, n) /\ UpTo(h, n, edgeNow) BY <1>4 DEF TokenKept
      <4> HIDE DEF window, counted, h
      <4>6. Spaced(g, n + 1) /\ UpTo(g, n + 1, edgeNow) /\ Counted(g, n + 1, counted)
        BY <1>1, <1>2, <1>3, <4>3, <4>4, <4>5, NewWindow
      <4> QED BY <1>1, <4>3, <4>6
    <3> QED BY <3>1, <3>2
  <2> HIDE DEF counted, window
  <2>3. /\ b \in DOMAIN windows' /\ windows'[b] = counted
        /\ DOMAIN windows' \subseteq DOMAIN windows \union {b}
        /\ \A d \in DOMAIN windows' : d # b => windows'[d] = windows[d]
        /\ \A d \in DOMAIN windows : d \in DOMAIN windows' \/ edgeNow - windows[d].started >= 2 * RateWindow
    <3> DEFINE all == Put(windows, b, counted)
    <3>1. /\ DOMAIN all = DOMAIN windows \union {b} /\ all[b] = counted
          /\ \A d \in DOMAIN windows : d # b => all[d] = windows[d]
      BY DEF Put
    <3>2. ~(edgeNow - all[b].started >= 2 * RateWindow)
      BY <1>1, <2>2, <3>1 DEF Window
    <3> HIDE DEF all
    <3>3. \/ windows' = all
          \/ windows' = [d \in DOMAIN all \ {e \in DOMAIN all : edgeNow - all[e].started >= 2 * RateWindow}
                            |-> all[d]]
      BY <2>1 DEF Pruned, Drop, all
    <3> QED BY <3>1, <3>2, <3>3
  <2>4. /\ admitted'[b] = g /\ admitted' \in [Bearer -> Seq(Nat)]
        /\ \A d \in Bearer : d # b => admitted'[d] = admitted[d]
    BY <1>3, <2>1 DEF LimiterInv, LimiterTyped
  <2>5. LimiterTyped'
    BY <1>1, <2>2, <2>3, <2>4 DEF LimiterInv, LimiterTyped
  <2>6. ASSUME NEW d \in Bearer
        PROVE  TokenKept(admitted'[d], Len(admitted'[d]), d, windows', edgeNow)
    <3>1. CASE d = b
      BY <1>3, <2>2, <2>3, <2>4, <3>1 DEF TokenKept
    <3>2. CASE d # b
      <4> DEFINE f == admitted[d]
                 m == Len(f)
      <4>1. TokenKept(f, m, d, windows, edgeNow) /\ admitted'[d] = f
        BY <2>4, <3>2 DEF LimiterInv, LimiterKept
      <4>2. m \in Nat /\ \A i \in 1..m : f[i] \in Nat BY DEF LimiterInv, LimiterTyped
      <4> HIDE DEF f, m
      <4>3. CASE d \in DOMAIN windows'
        <5>1. d \in DOMAIN windows /\ windows'[d] = windows[d] BY <2>3, <3>2, <4>3
        <5>2. TokenKept(f, m, d, windows', edgeNow) BY <4>1, <4>3, <5>1 DEF TokenKept
        <5> QED BY <4>1, <5>2 DEF f, m
      <4>4. CASE d \notin DOMAIN windows' /\ d \in DOMAIN windows
        <5>1. windows[d] \in Window /\ edgeNow - windows[d].started >= 2 * RateWindow
          BY <2>3, <4>4 DEF LimiterInv, LimiterTyped
        <5>2. Counted(f, m, windows[d]) BY <4>1, <4>4 DEF TokenKept
        <5>3. UpTo(f, m, edgeNow - RateWindow)
          BY <1>1, <4>2, <5>1, <5>2, WindowRunsOut
        <5>4. TokenKept(f, m, d, windows', edgeNow) BY <4>1, <4>4, <5>3 DEF TokenKept
        <5> QED BY <4>1, <5>4 DEF f, m
      <4>5. CASE d \notin DOMAIN windows' /\ d \notin DOMAIN windows
        <5>1. TokenKept(f, m, d, windows', edgeNow) BY <4>1, <4>5 DEF TokenKept
        <5> QED BY <4>1, <5>1 DEF f, m
      <4> QED BY <4>3, <4>4, <4>5
    <3> QED BY <3>1, <3>2
  <2>7. LimiterKept' BY <1>1, <2>6, LimiterKeptNext
  <2> QED BY <2>5, <2>7 DEF LimiterInv
<1> QED BY <1>5, <1>6

(***************************************************************************)
(* Then the session binder.                                                *)
(***************************************************************************)
Place == {"idle", "authorized", "inside", "answered", "refused", "left"}
Token == Bearer \union {NoSession}

BinderTyped ==
    /\ opened \subseteq McpSession /\ DOMAIN bindings \subseteq opened /\ DOMAIN sdk \subseteq opened
    /\ edgeNow \in Nat
    /\ \A s \in DOMAIN bindings : bindings[s] \in [token : Token, seen : Nat]
    /\ \A s \in DOMAIN sdk : sdk[s] \in [token : Token, last : Nat]
    /\ serving \in [HttpRequest -> [at : Place, token : Token, session : opened \union {NoSession},
                                    method : {"none", "POST", "DELETE"}]]

TablesBounded ==
    /\ IsFiniteSet(DOMAIN bindings) /\ Cardinality(DOMAIN bindings) <= MaxBound
    /\ IsFiniteSet(Inside) /\ Cardinality(Inside) <= MaxConcurrent

\* Requests and bindings hold the token that the session was created for,
\* while the session is there.
RequestsOwn ==
    \A r \in HttpRequest :
        serving[r].at \in {"authorized", "inside", "answered"} /\ serving[r].session \in DOMAIN sdk
            => sdk[serving[r].session].token = serving[r].token

BindingsOwn ==
    \A s \in DOMAIN bindings : s \in DOMAIN sdk => bindings[s].token = sdk[s].token

\* What is deleted is gone from the SDK when the request leaves it, and only
\* the concurrency limit keeps it from getting there.
DeletionsServed ==
    \A r \in HttpRequest :
        /\ serving[r].at = "answered" => serving[r].method # "DELETE" /\ serving[r].session # NoSession
        /\ serving[r].at = "left" /\ serving[r].method = "DELETE" => serving[r].session \notin DOMAIN sdk
        /\ serving[r].session = NoSession => serving[r].method # "DELETE"

BinderInv ==
    /\ BinderTyped /\ TablesBounded /\ RequestsOwn /\ BindingsOwn /\ DeletionsServed
    /\ SessionsReachable

\* What the proofs below use of the assumption.
LEMMA InvOfEdge ==
    ASSUME EdgeAssumption
    PROVE  /\ NoSession \notin McpSession /\ MaxBound \in Nat \ {0} /\ MaxConcurrent \in Nat \ {0}
           /\ SessionTTL \in Nat
BY DEF EdgeAssumption

\* A request moves to another place and keeps the rest.
LEMMA Moving ==
    ASSUME BinderTyped, NEW r \in HttpRequest, NEW at \in Place, Goes(r, at), opened' = opened
    PROVE  /\ serving' \in [HttpRequest -> [at : Place, token : Token, session : opened' \union {NoSession},
                                            method : {"none", "POST", "DELETE"}]]
           /\ serving'[r].at = at /\ serving'[r].token = serving[r].token
           /\ serving'[r].session = serving[r].session /\ serving'[r].method = serving[r].method
           /\ \A q \in HttpRequest : q # r => serving'[q] = serving[q]
<1>1. serving[r] \in [at : Place, token : Token, session : opened \union {NoSession},
                      method : {"none", "POST", "DELETE"}]
  BY DEF BinderTyped
<1>2. serving' = [serving EXCEPT ![r] = [serving[r] EXCEPT !.at = at]]
  BY DEF Goes, BinderTyped
<1>3. [serving[r] EXCEPT !.at = at] \in [at : Place, token : Token, session : opened \union {NoSession},
                                         method : {"none", "POST", "DELETE"}]
  BY <1>1
<1>4. serving'[r] = [serving[r] EXCEPT !.at = at] BY <1>2 DEF BinderTyped
<1> QED BY <1>1, <1>2, <1>3, <1>4 DEF BinderTyped

\* The places that hold a slot, and the slots after a step of one request.
LEMMA Slots ==
    ASSUME NEW r \in HttpRequest, BinderInv, \A q \in HttpRequest : q # r => serving'[q] = serving[q],
           EdgeAssumption,
           \/ serving'[r].at \notin {"inside", "answered"}
           \/ serving[r].at \in {"inside", "answered"}
           \/ Cardinality(Inside) < MaxConcurrent
    PROVE  IsFiniteSet(Inside') /\ Cardinality(Inside') <= MaxConcurrent
<1>0. /\ IsFiniteSet(Inside) /\ Cardinality(Inside) <= MaxConcurrent /\ MaxConcurrent \in Nat
      /\ Cardinality(Inside) \in Nat
  BY FS_CardinalityType, InvOfEdge DEF BinderInv, TablesBounded
<1>1. CASE Inside' \subseteq Inside
  <2>1. IsFiniteSet(Inside') /\ Cardinality(Inside') <= Cardinality(Inside)
    BY <1>0, <1>1, FS_Subset
  <2>2. Cardinality(Inside') \in Nat BY <2>1, FS_CardinalityType
  <2> QED BY <1>0, <2>1, <2>2
<1>2. CASE ~(Inside' \subseteq Inside)
  <2>1. r \in Inside' /\ r \notin Inside /\ Cardinality(Inside) < MaxConcurrent
    BY <1>2 DEF Inside
  <2>2. Inside' = Inside \union {r} BY <2>1 DEF Inside
  <2>3. /\ IsFiniteSet(Inside \union {r})
        /\ Cardinality(Inside \union {r}) = Cardinality(Inside) + 1
    BY <1>0, <2>1, FS_AddElement
  <2>4. Cardinality(Inside') = Cardinality(Inside) + 1 /\ IsFiniteSet(Inside')
    BY <2>2, <2>3, Zenon
  <2> QED BY <1>0, <2>1, <2>4
<1> QED BY <1>1, <1>2

\* The table of bindings after pruning.
LEMMA Pruning ==
    ASSUME EdgeAssumption, BinderInv
    PROVE  /\ DOMAIN LiveBindings \subseteq DOMAIN bindings
           /\ \A s \in DOMAIN LiveBindings : LiveBindings[s] = bindings[s]
           /\ DOMAIN bindings \ DOMAIN LiveBindings = Expired
           /\ IsFiniteSet(DOMAIN LiveBindings) /\ Cardinality(DOMAIN LiveBindings) <= MaxBound
           /\ Cardinality(DOMAIN LiveBindings) \in Nat
<1>1. /\ DOMAIN LiveBindings \subseteq DOMAIN bindings
      /\ \A s \in DOMAIN LiveBindings : LiveBindings[s] = bindings[s]
      /\ DOMAIN bindings \ DOMAIN LiveBindings = Expired
  BY DEF LiveBindings, Drop, Expired
<1>2. /\ IsFiniteSet(DOMAIN bindings) /\ Cardinality(DOMAIN bindings) <= MaxBound
      /\ MaxBound \in Nat /\ Cardinality(DOMAIN bindings) \in Nat
  BY FS_CardinalityType, InvOfEdge DEF BinderInv, TablesBounded
<1>3. /\ IsFiniteSet(DOMAIN LiveBindings)
      /\ Cardinality(DOMAIN LiveBindings) <= Cardinality(DOMAIN bindings)
  BY <1>1, <1>2, FS_Subset
<1>4. Cardinality(DOMAIN LiveBindings) \in Nat BY <1>3, FS_CardinalityType
<1> QED BY <1>1, <1>2, <1>3, <1>4

\* Steps of one request that leave the SDK alone and take bindings away: what
\* is lost is written down.
Prunes(r) ==
    /\ UNCHANGED <<sdk, opened, edgeNow>>
    /\ DOMAIN bindings' \subseteq DOMAIN bindings
    /\ \A s \in DOMAIN bindings' :
        bindings'[s] \in [token : Token, seen : Nat] /\ bindings'[s].token = bindings[s].token
    /\ \A s \in DOMAIN sdk : s \in DOMAIN bindings /\ s \notin DOMAIN bindings' => s \in DOMAIN unbound'
    /\ DOMAIN unbound \subseteq DOMAIN unbound'
    /\ serving' \in [HttpRequest -> [at : Place, token : Token, session : opened \union {NoSession},
                                     method : {"none", "POST", "DELETE"}]]
    /\ \A q \in HttpRequest : q # r => serving'[q] = serving[q]

\* A step of one request that may drop expired bindings.
LEMMA PruningKeepsInv ==
    ASSUME EdgeAssumption, BinderInv, NEW r \in HttpRequest, Prunes(r),
           serving[r].at # "answered",
           \/ serving'[r].at \notin {"inside", "answered"}
           \/ serving[r].at \in {"inside", "answered"}
           \/ Cardinality(Inside) < MaxConcurrent,
           serving'[r].at \in {"authorized", "inside", "answered"} /\ serving'[r].session \in DOMAIN sdk
               => sdk[serving'[r].session].token = serving'[r].token,
           serving'[r].at # "answered", serving'[r].at # "left",
           serving'[r].session = NoSession => serving'[r].method # "DELETE"
    PROVE  BinderInv'
<1>1. BinderTyped'
  BY DEF Prunes, BinderInv, BinderTyped
<1>2. TablesBounded'
  <2>1. IsFiniteSet(Inside') /\ Cardinality(Inside') <= MaxConcurrent
    BY Slots DEF Prunes
  <2>2. /\ IsFiniteSet(DOMAIN bindings) /\ Cardinality(DOMAIN bindings) <= MaxBound
        /\ MaxBound \in Nat /\ Cardinality(DOMAIN bindings) \in Nat
    BY FS_CardinalityType, InvOfEdge DEF BinderInv, TablesBounded
  <2>3. /\ IsFiniteSet(DOMAIN bindings') /\ Cardinality(DOMAIN bindings') <= Cardinality(DOMAIN bindings)
    BY <2>2, FS_Subset DEF Prunes
  <2>4. Cardinality(DOMAIN bindings') \in Nat BY <2>3, FS_CardinalityType
  <2>5. Cardinality(DOMAIN bindings') <= MaxBound BY <2>2, <2>3, <2>4
  <2> QED BY <2>1, <2>3, <2>5 DEF TablesBounded
<1>3. RequestsOwn' BY DEF Prunes, BinderInv, RequestsOwn
<1>4. BindingsOwn' BY DEF Prunes, BinderInv, BindingsOwn
<1>5. DeletionsServed' BY DEF Prunes, BinderInv, DeletionsServed
<1>6. SessionsReachable'
  <2> SUFFICES ASSUME NEW s \in DOMAIN sdk, s \notin DOMAIN bindings'
               PROVE  \/ \E q \in HttpRequest : serving'[q].at = "answered" /\ serving'[q].session = s
                      \/ s \in DOMAIN unbound'
    BY DEF SessionsReachable, Prunes
  <2>1. CASE s \in DOMAIN bindings
    BY <2>1 DEF Prunes
  <2>2. CASE s \notin DOMAIN bindings
    <3>1. \/ \E q \in HttpRequest : serving[q].at = "answered" /\ serving[q].session = s
          \/ s \in DOMAIN unbound
      BY <2>2 DEF BinderInv, SessionsReachable
    <3> QED BY <3>1 DEF Prunes
  <2> QED BY <2>1, <2>2
<1> QED BY <1>1, <1>2, <1>3, <1>4, <1>5, <1>6 DEF BinderInv

\* Forgetting a session adds to those that were forgotten.
LEMMA ForgottenKeeps ==
    ASSUME NEW S, NEW why, unbound' = Forgotten(S, why)
    PROVE  DOMAIN unbound' = DOMAIN unbound \union S
BY DEF Forgotten

\* A request that names a session is let in as its owner only.
LEMMA AuthorizeKeepsInv ==
    ASSUME EdgeAssumption, BinderInv, NEW r \in HttpRequest, NEW b \in Bearer, NEW s \in opened,
           NEW method \in {"POST", "DELETE"}, Authorize(r, b, s, method)
    PROVE  BinderInv'
<1> DEFINE entered == [at |-> "authorized", token |-> b, session |-> s, method |-> method]
<1>0. /\ BinderTyped /\ serving[r] = Idle /\ UNCHANGED <<sdk, opened, edgeNow>>
      /\ DOMAIN unbound' = DOMAIN unbound \union Expired /\ edgeNow \in Nat
  BY ForgottenKeeps DEF BinderInv, BinderTyped, Authorize
<1>1. /\ DOMAIN LiveBindings \subseteq DOMAIN bindings
      /\ \A x \in DOMAIN LiveBindings : LiveBindings[x] = bindings[x]
                                        /\ LiveBindings[x] \in [token : Token, seen : Nat]
      /\ DOMAIN bindings \ DOMAIN LiveBindings = Expired
  BY <1>0, Pruning DEF BinderTyped
<1>2. s # NoSession BY <1>0, InvOfEdge DEF BinderTyped
<1>3. serving[r].at = "idle" /\ serving[r].session = NoSession /\ serving[r].method = "none"
  BY <1>0 DEF Idle
<1>4. CASE s \in DOMAIN LiveBindings /\ LiveBindings[s].token = b
  <2>1. /\ bindings' = [LiveBindings EXCEPT ![s].seen = edgeNow]
        /\ serving' = [serving EXCEPT ![r] = entered]
    BY <1>4 DEF Authorize
  <2>2. /\ DOMAIN bindings' = DOMAIN LiveBindings
        /\ \A x \in DOMAIN bindings' : bindings'[x] \in [token : Token, seen : Nat]
                                       /\ bindings'[x].token = bindings[x].token
    BY <1>0, <1>1, <2>1
  <2>3. /\ entered \in [at : Place, token : Token, session : opened \union {NoSession},
                        method : {"none", "POST", "DELETE"}]
        /\ entered.at = "authorized" /\ entered.session = s /\ entered.token = b
    BY DEF Place, Token
  <2> HIDE DEF entered
  <2>4. /\ serving'[r] = entered /\ \A q \in HttpRequest : q # r => serving'[q] = serving[q]
        /\ serving' \in [HttpRequest -> [at : Place, token : Token, session : opened \union {NoSession},
                                         method : {"none", "POST", "DELETE"}]]
    BY <1>0, <2>1, <2>3 DEF BinderTyped
  <2>5. Prunes(r)
    BY <1>0, <1>1, <2>2, <2>4 DEF Prunes
  <2>6. s \in DOMAIN sdk => sdk[s].token = b
    BY <1>1, <1>4 DEF BinderInv, BindingsOwn
  <2> QED BY <1>2, <1>3, <2>3, <2>4, <2>5, <2>6, PruningKeepsInv
<1>5. CASE ~(s \in DOMAIN LiveBindings /\ LiveBindings[s].token = b)
  <2>1. bindings' = LiveBindings /\ serving' = serving
    BY <1>5 DEF Authorize
  <2>2. Prunes(r)
    BY <1>0, <1>1, <2>1 DEF Prunes, BinderTyped
  <2> QED BY <1>3, <2>1, <2>2, PruningKeepsInv
<1> QED BY <1>4, <1>5

\* A request for a new session finds room.
LEMMA CanCreateKeepsInv ==
    ASSUME EdgeAssumption, BinderInv, NEW r \in HttpRequest, NEW b \in Bearer, CanCreate(r, b)
    PROVE  BinderInv'
<1> DEFINE entered == [at |-> "authorized", token |-> b, session |-> NoSession, method |-> "POST"]
<1>0. /\ BinderTyped /\ serving[r] = Idle /\ UNCHANGED <<sdk, opened, edgeNow>>
      /\ DOMAIN unbound' = DOMAIN unbound \union Expired /\ bindings' = LiveBindings
      /\ NoSession \notin DOMAIN sdk
  BY ForgottenKeeps, InvOfEdge DEF BinderInv, BinderTyped, CanCreate
<1>1. /\ DOMAIN bindings' \subseteq DOMAIN bindings
      /\ \A x \in DOMAIN bindings' : bindings'[x] = bindings[x]
                                     /\ bindings'[x] \in [token : Token, seen : Nat]
      /\ DOMAIN bindings \ DOMAIN bindings' = Expired
  BY <1>0, Pruning DEF BinderTyped
<1>2. serving[r].at = "idle" /\ serving[r].session = NoSession /\ serving[r].method = "none"
  BY <1>0 DEF Idle
<1>3. CASE Full
  <2>1. serving' = serving BY <1>3 DEF CanCreate
  <2>2. Prunes(r)
    BY <1>0, <1>1, <2>1 DEF Prunes, BinderTyped
  <2> QED BY <1>2, <2>1, <2>2, PruningKeepsInv
<1>4. CASE ~Full
  <2>1. serving' = [serving EXCEPT ![r] = entered] BY <1>4 DEF CanCreate
  <2>2. /\ entered \in [at : Place, token : Token, session : opened \union {NoSession},
                        method : {"none", "POST", "DELETE"}]
        /\ entered.at = "authorized" /\ entered.session = NoSession /\ entered.method = "POST"
    BY DEF Place, Token
  <2> HIDE DEF entered
  <2>3. /\ serving'[r] = entered /\ \A q \in HttpRequest : q # r => serving'[q] = serving[q]
        /\ serving' \in [HttpRequest -> [at : Place, token : Token, session : opened \union {NoSession},
                                         method : {"none", "POST", "DELETE"}]]
    BY <1>0, <2>1, <2>2 DEF BinderTyped
  <2>4. Prunes(r)
    BY <1>0, <1>1, <2>3 DEF Prunes
  <2> QED BY <1>0, <1>2, <2>2, <2>3, <2>4, PruningKeepsInv
<1> QED BY <1>3, <1>4

\* The concurrency limit admits or refuses.
LEMMA LimitKeepsInv ==
    ASSUME EdgeAssumption, BinderInv, NEW r \in HttpRequest, limitConcurrent(r)
    PROVE  BinderInv'
<1>0. /\ BinderTyped /\ serving[r].at = "authorized"
      /\ UNCHANGED <<bindings, sdk, opened, unbound, edgeNow>>
  BY DEF BinderInv, limitConcurrent
<1>1. PICK at \in {"inside", "refused"} :
        Goes(r, at) /\ (at = "inside" => Cardinality(Inside) < MaxConcurrent)
  BY DEF limitConcurrent
<1>2. /\ serving' \in [HttpRequest -> [at : Place, token : Token, session : opened' \union {NoSession},
                                       method : {"none", "POST", "DELETE"}]]
      /\ serving'[r].at = at /\ serving'[r].token = serving[r].token
      /\ serving'[r].session = serving[r].session /\ serving'[r].method = serving[r].method
      /\ \A q \in HttpRequest : q # r => serving'[q] = serving[q]
  <2>1. at \in Place BY DEF Place
  <2> QED BY <1>0, <1>1, <2>1, Moving
<1>3. Prunes(r)
  BY <1>0, <1>2 DEF Prunes, BinderTyped
<1>4. serving[r].session \in DOMAIN sdk => sdk[serving[r].session].token = serving[r].token
  BY <1>0 DEF BinderInv, RequestsOwn
<1>5. serving[r].session = NoSession => serving[r].method # "DELETE"
  BY DEF BinderInv, DeletionsServed
<1> QED BY <1>0, <1>1, <1>2, <1>3, <1>4, <1>5, PruningKeepsInv

\* Steps that leave the bindings alone, and take sessions from the SDK or
\* refresh them.
Shrinks ==
    /\ UNCHANGED <<bindings, opened, unbound, edgeNow>>
    /\ DOMAIN sdk' \subseteq DOMAIN sdk
    /\ \A s \in DOMAIN sdk' : sdk'[s] \in [token : Token, last : Nat] /\ sdk'[s].token = sdk[s].token

\* A session that the SDK drops.
LEMMA DroppingShrinks ==
    ASSUME BinderInv, NEW s, sdk' = Drop(sdk, {s}), UNCHANGED <<bindings, opened, unbound, edgeNow>>
    PROVE  Shrinks /\ s \notin DOMAIN sdk'
BY DEF BinderInv, BinderTyped, Drop, Shrinks

\* The SDK's session times out.
LEMMA IdleOutKeepsInv ==
    ASSUME EdgeAssumption, BinderInv, NEW s \in DOMAIN sdk, IdleOut(s)
    PROVE  BinderInv'
<1>0. Shrinks /\ serving' = serving
  BY DroppingShrinks DEF IdleOut
<1>1. BinderTyped' BY <1>0 DEF Shrinks, BinderInv, BinderTyped
<1>2. TablesBounded' BY <1>0 DEF Shrinks, BinderInv, TablesBounded, Inside
<1>3. RequestsOwn' BY <1>0 DEF Shrinks, BinderInv, RequestsOwn
<1>4. BindingsOwn' BY <1>0 DEF Shrinks, BinderInv, BindingsOwn
<1>5. DeletionsServed' BY <1>0 DEF Shrinks, BinderInv, DeletionsServed
<1>6. SessionsReachable' BY <1>0 DEF Shrinks, BinderInv, SessionsReachable
<1> QED BY <1>1, <1>2, <1>3, <1>4, <1>5, <1>6 DEF BinderInv

\* The SDK carries out a request in its session.
LEMMA ServeKeepsInv ==
    ASSUME EdgeAssumption, BinderInv, NEW r \in HttpRequest, Serve(r)
    PROVE  BinderInv'
<1> DEFINE s == serving[r].session
<1>0. /\ BinderTyped /\ serving[r].at = "inside" /\ s # NoSession
      /\ UNCHANGED <<bindings, opened, unbound, edgeNow>> /\ edgeNow \in Nat
  BY DEF BinderInv, BinderTyped, Serve
<1>1. PICK at \in {"left", "answered"} :
        /\ Goes(r, at) /\ Shrinks
        /\ at = "left" /\ serving[r].method = "DELETE" => s \notin DOMAIN sdk'
        /\ at = "answered" => serving[r].method # "DELETE"
  <2>1. CASE s \notin DOMAIN sdk
    <3>1. Goes(r, "left") /\ sdk' = sdk BY <2>1 DEF Serve
    <3>2. Shrinks BY <1>0, <3>1 DEF Shrinks, BinderTyped
    <3> QED BY <2>1, <3>1, <3>2
  <2>2. CASE s \in DOMAIN sdk /\ serving[r].method = "DELETE"
    <3>1. Goes(r, "left") /\ sdk' = Drop(sdk, {s}) BY <2>2 DEF Serve
    <3>2. Shrinks /\ s \notin DOMAIN sdk' BY <1>0, <3>1, DroppingShrinks
    <3> QED BY <3>1, <3>2
  <2>3. CASE s \in DOMAIN sdk /\ serving[r].method # "DELETE"
    <3>1. Goes(r, "answered") /\ sdk' = [sdk EXCEPT ![s].last = edgeNow] BY <2>3 DEF Serve
    <3> HIDE DEF s
    <3>2. sdk' = [sdk EXCEPT ![s] = [sdk[s] EXCEPT !.last = edgeNow]] BY <3>1
    <3>3. sdk[s] \in [token : Token, last : Nat] BY <1>0, <2>3 DEF BinderTyped
    <3>4. /\ [sdk[s] EXCEPT !.last = edgeNow] \in [token : Token, last : Nat]
          /\ [sdk[s] EXCEPT !.last = edgeNow].token = sdk[s].token
      BY <1>0, <3>3
    <3>5. Shrinks BY <1>0, <3>2, <3>4 DEF Shrinks, BinderTyped
    <3> QED BY <2>3, <3>1, <3>5
  <2> QED BY <2>1, <2>2, <2>3
<1>2. /\ serving' \in [HttpRequest -> [at : Place, token : Token, session : opened' \union {NoSession},
                                       method : {"none", "POST", "DELETE"}]]
      /\ serving'[r].at = at /\ serving'[r].token = serving[r].token
      /\ serving'[r].session = s /\ serving'[r].method = serving[r].method
      /\ \A q \in HttpRequest : q # r => serving'[q] = serving[q]
  <2>1. at \in Place BY DEF Place
  <2> QED BY <1>0, <1>1, <2>1, Moving
<1> HIDE DEF s
<1>3. BinderTyped' BY <1>0, <1>1, <1>2 DEF Shrinks, BinderTyped
<1>4. TablesBounded'
  <2>1. IsFiniteSet(Inside') /\ Cardinality(Inside') <= MaxConcurrent
    BY <1>0, <1>2, Slots
  <2> QED BY <1>0, <2>1 DEF BinderInv, TablesBounded
<1>5. RequestsOwn'
  <2>1. s \in DOMAIN sdk => sdk[s].token = serving[r].token
    BY <1>0 DEF BinderInv, RequestsOwn, s
  <2> QED BY <1>1, <1>2, <2>1 DEF Shrinks, BinderInv, RequestsOwn
<1>6. BindingsOwn' BY <1>1 DEF Shrinks, BinderInv, BindingsOwn
<1>7. DeletionsServed' BY <1>0, <1>1, <1>2 DEF Shrinks, BinderInv, DeletionsServed
<1>8. SessionsReachable'
  <2> SUFFICES ASSUME NEW x \in DOMAIN sdk, x \notin DOMAIN bindings
               PROVE  \/ \E q \in HttpRequest : serving'[q].at = "answered" /\ serving'[q].session = x
                      \/ x \in DOMAIN unbound
    BY <1>0, <1>1 DEF SessionsReachable, Shrinks
  <2>1. \/ \E q \in HttpRequest : serving[q].at = "answered" /\ serving[q].session = x
        \/ x \in DOMAIN unbound
    BY DEF BinderInv, SessionsReachable
  <2> QED BY <1>0, <1>2, <2>1
<1> QED BY <1>3, <1>4, <1>5, <1>6, <1>7, <1>8 DEF BinderInv

\* The SDK creates a session for the token of the request.
LEMMA ServeNewKeepsInv ==
    ASSUME EdgeAssumption, BinderInv, NEW r \in HttpRequest, ServeNew(r)
    PROVE  BinderInv'
<1>0. /\ BinderTyped /\ serving[r].at = "inside" /\ serving[r].session = NoSession
      /\ UNCHANGED <<bindings, unbound, edgeNow>> /\ edgeNow \in Nat /\ NoSession \notin McpSession
      /\ serving[r].method # "DELETE"
      /\ serving[r] \in [at : Place, token : Token, session : opened \union {NoSession},
                         method : {"none", "POST", "DELETE"}]
  BY InvOfEdge DEF BinderInv, BinderTyped, DeletionsServed, ServeNew
<1>1. PICK s \in McpSession \ opened :
        /\ opened' = opened \union {s}
        /\ sdk' = Put(sdk, s, [token |-> serving[r].token, last |-> edgeNow])
        /\ serving' = [serving EXCEPT ![r].session = s, ![r].at = "answered"]
  BY DEF ServeNew
<1> DEFINE answer == [[serving[r] EXCEPT !.session = s] EXCEPT !.at = "answered"]
           created == [token |-> serving[r].token, last |-> edgeNow]
<1>2. /\ created \in [token : Token, last : Nat] /\ created.token = serving[r].token
  BY <1>0
<1>3. /\ answer \in [at : Place, token : Token, session : opened \union {s, NoSession},
                     method : {"none", "POST", "DELETE"}]
      /\ answer.at = "answered" /\ answer.session = s /\ answer.token = serving[r].token
      /\ answer.method = serving[r].method
  BY <1>0 DEF Place
<1>4. serving' = [serving EXCEPT ![r] = answer]
  BY <1>0, <1>1 DEF BinderTyped
<1> HIDE DEF answer, created
<1>5. /\ serving' \in [HttpRequest -> [at : Place, token : Token, session : opened' \union {NoSession},
                                       method : {"none", "POST", "DELETE"}]]
      /\ serving'[r] = answer
      /\ \A q \in HttpRequest : q # r => serving'[q] = serving[q]
  <2>1. /\ serving' \in [HttpRequest -> [at : Place, token : Token, session : opened \union {s, NoSession},
                                         method : {"none", "POST", "DELETE"}]]
        /\ serving'[r] = answer
        /\ \A q \in HttpRequest : q # r => serving'[q] = serving[q]
    BY <1>0, <1>3, <1>4 DEF BinderTyped
  <2>2. opened' \union {NoSession} = opened \union {s, NoSession} BY <1>1
  <2> QED BY <2>1, <2>2
<1>6. /\ DOMAIN sdk' = DOMAIN sdk \union {s} /\ sdk'[s] = created /\ s \notin DOMAIN sdk
      /\ \A x \in DOMAIN sdk : sdk'[x] = sdk[x]
  BY <1>0, <1>1 DEF Put, BinderTyped, created
<1>7. BinderTyped' BY <1>0, <1>1, <1>2, <1>5, <1>6 DEF BinderTyped
<1>8. TablesBounded'
  <2>1. IsFiniteSet(Inside') /\ Cardinality(Inside') <= MaxConcurrent
    BY <1>0, <1>5, Slots
  <2> QED BY <1>0, <2>1 DEF BinderInv, TablesBounded
<1>9. \A q \in HttpRequest : q # r => serving[q].session # s
  BY <1>0, <1>1 DEF BinderTyped
<1>10. RequestsOwn' BY <1>2, <1>3, <1>5, <1>6, <1>9 DEF BinderInv, RequestsOwn
<1>11. BindingsOwn'
  <2>1. s \notin DOMAIN bindings BY <1>0, <1>1 DEF BinderTyped
  <2> QED BY <1>0, <1>6, <2>1 DEF BinderInv, BindingsOwn
<1>12. DeletionsServed'
  BY <1>0, <1>1, <1>3, <1>5, <1>6, <1>9 DEF BinderInv, DeletionsServed
<1>13. SessionsReachable'
  <2> SUFFICES ASSUME NEW x \in DOMAIN sdk', x \notin DOMAIN bindings
               PROVE  \/ \E q \in HttpRequest : serving'[q].at = "answered" /\ serving'[q].session = x
                      \/ x \in DOMAIN unbound
    BY <1>0 DEF SessionsReachable
  <2>1. CASE x = s BY <1>3, <1>5, <2>1
  <2>2. CASE x # s
    <3>1. \/ \E q \in HttpRequest : serving[q].at = "answered" /\ serving[q].session = x
          \/ x \in DOMAIN unbound
      BY <1>6, <2>2 DEF BinderInv, SessionsReachable
    <3> QED BY <1>0, <1>5, <3>1
  <2> QED BY <2>1, <2>2
<1> QED BY <1>7, <1>8, <1>10, <1>11, <1>12, <1>13 DEF BinderInv

\* The answer binds its session, in a table with room for it.
LEMMA BindKeepsInv ==
    ASSUME EdgeAssumption, BinderInv, NEW r \in HttpRequest, Bind(r)
    PROVE  BinderInv'
<1> DEFINE s == serving[r].session
           other == s \in DOMAIN LiveBindings /\ LiveBindings[s].token # serving[r].token
           lost == Forgotten(Expired, "idle")
           bound == [token |-> serving[r].token, seen |-> edgeNow]
<1>0. /\ BinderTyped /\ serving[r].at = "answered" /\ s # NoSession /\ serving[r].method # "DELETE"
      /\ UNCHANGED <<sdk, opened, edgeNow>> /\ edgeNow \in Nat /\ MaxBound \in Nat
      /\ s \in opened /\ serving[r].token \in Token /\ Goes(r, "left")
  BY InvOfEdge DEF BinderInv, BinderTyped, DeletionsServed, Bind
<1>1. /\ serving' \in [HttpRequest -> [at : Place, token : Token, session : opened' \union {NoSession},
                                       method : {"none", "POST", "DELETE"}]]
      /\ serving'[r].at = "left" /\ serving'[r].token = serving[r].token
      /\ serving'[r].session = s /\ serving'[r].method = serving[r].method
      /\ \A q \in HttpRequest : q # r => serving'[q] = serving[q]
  <2>1. "left" \in Place BY DEF Place
  <2> QED BY <1>0, <2>1, Moving
<1>2. bindings' = IF other \/ Full THEN LiveBindings ELSE Put(LiveBindings, s, bound)
  BY DEF Bind
<1>3. unbound' = IF s \in DOMAIN bindings' THEN Drop(lost, {s}) ELSE Put(lost, s, "full")
  BY DEF Bind
<1>4. /\ DOMAIN LiveBindings \subseteq DOMAIN bindings
      /\ \A x \in DOMAIN LiveBindings : LiveBindings[x] = bindings[x]
                                        /\ LiveBindings[x] \in [token : Token, seen : Nat]
      /\ DOMAIN bindings \ DOMAIN LiveBindings = Expired
      /\ IsFiniteSet(DOMAIN LiveBindings) /\ Cardinality(DOMAIN LiveBindings) <= MaxBound
      /\ Cardinality(DOMAIN LiveBindings) \in Nat
  BY <1>0, Pruning DEF BinderTyped
<1>5. DOMAIN lost = DOMAIN unbound \union Expired BY DEF Forgotten
<1>6. bound \in [token : Token, seen : Nat] /\ bound.token = serving[r].token
  BY <1>0
<1>7. /\ \A x \in DOMAIN lost : x # s => x \in DOMAIN unbound'
      /\ s \in DOMAIN bindings' \/ s \in DOMAIN unbound'
  <2> HIDE DEF lost, s
  <2> QED BY <1>3 DEF Drop, Put
<1> HIDE DEF s, bound, lost
<1>8. /\ DOMAIN LiveBindings \subseteq DOMAIN bindings'
      /\ DOMAIN bindings' \subseteq DOMAIN LiveBindings \union {s}
      /\ \A x \in DOMAIN bindings' : x # s => bindings'[x] = LiveBindings[x]
      /\ s \in DOMAIN bindings' => bindings'[s] = bound \/ (s \in DOMAIN LiveBindings /\ bindings'[s] = LiveBindings[s])
      /\ DOMAIN bindings' = DOMAIN LiveBindings \/ ~Full
  BY <1>2 DEF Put
<1>9. BinderTyped'
  BY <1>0, <1>1, <1>4, <1>6, <1>8 DEF BinderTyped
<1>10. TablesBounded'
  <2>1. IsFiniteSet(Inside') /\ Cardinality(Inside') <= MaxConcurrent
    BY <1>1, Slots
  <2>2. IsFiniteSet(DOMAIN bindings') /\ Cardinality(DOMAIN bindings') <= MaxBound
    <3>1. CASE DOMAIN bindings' = DOMAIN LiveBindings
      BY <1>4, <3>1, Zenon
    <3>2. CASE DOMAIN bindings' # DOMAIN LiveBindings
      <4>1. DOMAIN bindings' = DOMAIN LiveBindings \union {s} /\ s \notin DOMAIN LiveBindings
        BY <1>8, <3>2
      <4>2. Cardinality(DOMAIN LiveBindings) < MaxBound
        BY <1>0, <1>4, <1>8, <3>2 DEF Full
      <4>3. /\ IsFiniteSet(DOMAIN LiveBindings \union {s})
            /\ Cardinality(DOMAIN LiveBindings \union {s}) = Cardinality(DOMAIN LiveBindings) + 1
        BY <1>4, <4>1, FS_AddElement
      <4>4. /\ IsFiniteSet(DOMAIN bindings')
            /\ Cardinality(DOMAIN bindings') = Cardinality(DOMAIN LiveBindings) + 1
        BY <4>1, <4>3, Zenon
      <4> QED BY <1>0, <1>4, <4>2, <4>4
    <3> QED BY <3>1, <3>2
  <2> QED BY <2>1, <2>2 DEF TablesBounded
<1>11. RequestsOwn' BY <1>0, <1>1 DEF BinderInv, RequestsOwn
<1>12. BindingsOwn'
  <2>1. s \in DOMAIN sdk => sdk[s].token = serving[r].token
    BY <1>0 DEF BinderInv, RequestsOwn, s
  <2> QED BY <1>0, <1>4, <1>6, <1>8, <2>1 DEF BinderInv, BindingsOwn
<1>13. DeletionsServed' BY <1>0, <1>1 DEF BinderInv, DeletionsServed
<1>14. SessionsReachable'
  <2> SUFFICES ASSUME NEW x \in DOMAIN sdk, x \notin DOMAIN bindings'
               PROVE  \/ \E q \in HttpRequest : serving'[q].at = "answered" /\ serving'[q].session = x
                      \/ x \in DOMAIN unbound'
    BY <1>0 DEF SessionsReachable
  <2>1. CASE x = s BY <1>7, <2>1
  <2>2. CASE x # s /\ x \in DOMAIN bindings
    BY <1>4, <1>5, <1>7, <1>8, <2>2
  <2>3. CASE x # s /\ x \notin DOMAIN bindings
    <3>1. \/ \E q \in HttpRequest : serving[q].at = "answered" /\ serving[q].session = x
          \/ x \in DOMAIN unbound
      BY <2>3 DEF BinderInv, SessionsReachable
    <3> QED BY <1>1, <1>5, <1>7, <2>3, <3>1 DEF s
  <2> QED BY <2>1, <2>2, <2>3
<1> QED BY <1>9, <1>10, <1>11, <1>12, <1>13, <1>14 DEF BinderInv

\* The end of authenticateMCP: a deleted session is gone from the SDK, or its
\* loss is written down.
LEMMA LeaveKeepsInv ==
    ASSUME EdgeAssumption, BinderInv, NEW r \in HttpRequest, Leave(r)
    PROVE  BinderInv'
<1>0. /\ BinderTyped /\ serving[r].at \in {"left", "refused"}
      /\ UNCHANGED <<sdk, opened, edgeNow>> /\ bindings' = Drop(bindings, DeletedBy(r))
      /\ serving' = [serving EXCEPT ![r] = Idle]
  BY DEF BinderInv, Leave
<1>1. /\ Idle \in [at : Place, token : Token, session : opened \union {NoSession},
                   method : {"none", "POST", "DELETE"}]
      /\ Idle.at = "idle" /\ Idle.method = "none"
  BY DEF Idle, Place, Token
<1>2. /\ serving'[r] = Idle /\ \A q \in HttpRequest : q # r => serving'[q] = serving[q]
      /\ serving' \in [HttpRequest -> [at : Place, token : Token, session : opened \union {NoSession},
                                       method : {"none", "POST", "DELETE"}]]
  BY <1>0, <1>1 DEF BinderTyped
<1>3. /\ DOMAIN bindings' = DOMAIN bindings \ DeletedBy(r)
      /\ \A x \in DOMAIN bindings' : bindings'[x] = bindings[x]
  BY <1>0 DEF Drop
<1>4. /\ DOMAIN unbound \subseteq DOMAIN unbound'
      /\ serving[r].at = "refused" => DeletedBy(r) \subseteq DOMAIN unbound'
  BY DEF Leave, Forgotten
<1>5. serving[r].at = "left" => \A x \in DeletedBy(r) : x \notin DOMAIN sdk
  BY DEF BinderInv, DeletionsServed, DeletedBy
<1>6. Prunes(r)
  BY <1>0, <1>2, <1>3, <1>4, <1>5 DEF Prunes, BinderTyped
<1> QED BY <1>0, <1>1, <1>2, <1>6, PruningKeepsInv

\* Time, and the limiter.
LEMMA BinderStands ==
    ASSUME BinderInv, UNCHANGED binderVars, edgeNow' \in Nat
    PROVE  BinderInv'
BY DEF BinderInv, binderVars, BinderTyped, TablesBounded, RequestsOwn, BindingsOwn, DeletionsServed,
       SessionsReachable, Inside

\* Steps of the sessions leave the limiter alone.
LEMMA LimiterStands ==
    ASSUME LimiterInv, UNCHANGED limiterVars, edgeNow' = edgeNow
    PROVE  LimiterInv'
BY DEF LimiterInv, LimiterTyped, LimiterKept, limiterVars

\* Every step of either table keeps both invariants.
LEMMA EdgeInductive ==
    ASSUME EdgeAssumption, LimiterInv, BinderInv, [LimiterNext \/ BinderNext]_edgeVars
    PROVE  LimiterInv' /\ BinderInv'
<1>0. edgeNow \in Nat BY DEF LimiterInv, LimiterTyped
<1>1. CASE EdgeTick
  <2>1. UNCHANGED binderVars /\ edgeNow' \in Nat BY <1>0, <1>1 DEF EdgeTick
  <2> QED BY <1>1, <2>1, TickKeepsLimiter, BinderStands
<1>2. ASSUME NEW b \in Bearer, Allow(b) PROVE LimiterInv' /\ BinderInv'
  <2>1. UNCHANGED binderVars /\ edgeNow' \in Nat BY <1>0, <1>2 DEF Allow
  <2> QED BY <1>2, <2>1, AllowKeepsLimiter, BinderStands
<1>3. ASSUME NEW r \in HttpRequest, NEW b \in Bearer, CanCreate(r, b) PROVE LimiterInv' /\ BinderInv'
  <2>1. UNCHANGED limiterVars /\ edgeNow' = edgeNow BY <1>3 DEF CanCreate
  <2> QED BY <1>3, <2>1, CanCreateKeepsInv, LimiterStands
<1>4. ASSUME NEW r \in HttpRequest, NEW b \in Bearer, NEW s \in opened, NEW method \in {"POST", "DELETE"},
             Authorize(r, b, s, method)
      PROVE  LimiterInv' /\ BinderInv'
  <2>1. UNCHANGED limiterVars /\ edgeNow' = edgeNow BY <1>4 DEF Authorize
  <2> QED BY <1>4, <2>1, AuthorizeKeepsInv, LimiterStands
<1>5. ASSUME NEW r \in HttpRequest, limitConcurrent(r) \/ ServeNew(r) \/ Serve(r) \/ Bind(r) \/ Leave(r)
      PROVE  LimiterInv' /\ BinderInv'
  <2>1. UNCHANGED limiterVars /\ edgeNow' = edgeNow
    BY <1>5 DEF limitConcurrent, ServeNew, Serve, Bind, Leave
  <2> QED BY <1>5, <2>1, LimiterStands, LimitKeepsInv, ServeNewKeepsInv, ServeKeepsInv, BindKeepsInv,
             LeaveKeepsInv
<1>6. ASSUME NEW s \in DOMAIN sdk, IdleOut(s) PROVE LimiterInv' /\ BinderInv'
  <2>1. UNCHANGED limiterVars /\ edgeNow' = edgeNow BY <1>6 DEF IdleOut
  <2> QED BY <1>6, <2>1, IdleOutKeepsInv, LimiterStands
<1>7. CASE UNCHANGED edgeVars
  <2>1. UNCHANGED limiterVars /\ UNCHANGED binderVars /\ edgeNow' = edgeNow BY <1>7 DEF edgeVars
  <2> QED BY <1>0, <2>1, BinderStands, LimiterStands
<1> QED BY <1>1, <1>2, <1>3, <1>4, <1>5, <1>6, <1>7 DEF LimiterNext, BinderNext

\* Both tables start empty.
LEMMA EdgeStarts ==
    ASSUME EdgeAssumption, EdgeInit
    PROVE  LimiterInv /\ BinderInv
<1>1. LimiterTyped BY DEF EdgeInit, LimiterTyped
<1>2. LimiterKept
  <2> SUFFICES ASSUME NEW b \in Bearer
               PROVE  TokenKept(admitted[b], Len(admitted[b]), b, windows, edgeNow)
    BY DEF LimiterKept
  <2>1. admitted[b] = << >> /\ Len(admitted[b]) = 0 /\ DOMAIN windows = {}
    BY DEF EdgeInit
  <2>2. RateLimit \in Nat \ {0} BY DEF EdgeAssumption
  <2> QED BY <2>1, <2>2 DEF TokenKept, Spaced, UpTo
<1>3. /\ DOMAIN bindings = {} /\ DOMAIN sdk = {} /\ serving = [r \in HttpRequest |-> Idle]
      /\ edgeNow = 0 /\ opened = {}
  BY DEF EdgeInit
<1>4. BinderTyped
  <2>1. Idle \in [at : Place, token : Token, session : opened \union {NoSession},
                  method : {"none", "POST", "DELETE"}]
    BY DEF Idle, Place, Token
  <2> QED BY <1>3, <2>1 DEF BinderTyped
<1>5. TablesBounded
  <2>1. Inside = {} BY <1>3 DEF Inside, Idle
  <2>2. IsFiniteSet({}) /\ Cardinality({}) = 0 BY FS_EmptySet
  <2>3. MaxBound \in Nat /\ MaxConcurrent \in Nat BY InvOfEdge
  <2> QED BY <1>3, <2>1, <2>2, <2>3 DEF TablesBounded
<1>6. RequestsOwn /\ BindingsOwn /\ DeletionsServed /\ SessionsReachable
  BY <1>3 DEF RequestsOwn, BindingsOwn, DeletionsServed, SessionsReachable, Idle
<1> QED BY <1>1, <1>2, <1>4, <1>5, <1>6 DEF LimiterInv, BinderInv

\* The invariants hold always.
LEMMA EdgeInvariant == EdgeSpec => [](LimiterInv /\ BinderInv)
<1>1. EdgeInit => LimiterInv /\ BinderInv BY EdgeStarts, EdgeAssumption
<1>2. (LimiterInv /\ BinderInv) /\ [LimiterNext \/ BinderNext]_edgeVars => (LimiterInv /\ BinderInv)'
  BY EdgeInductive, EdgeAssumption
<1> QED BY <1>1, <1>2, PTL DEF EdgeSpec

\* The tables of the gateway's edge keep their types and their limits: the
\* bindings never outgrow maxBoundMCPSessions and the requests inside never
\* outgrow the concurrency limit, whatever the numbers of tokens, sessions
\* and requests.
THEOREM EdgeTypes == EdgeSpec => []EdgeTypeOK
<1>1. LimiterInv /\ BinderInv => EdgeTypeOK
  <2> SUFFICES ASSUME LimiterInv, BinderInv PROVE EdgeTypeOK
    OBVIOUS
  <2>1. /\ DOMAIN windows \subseteq Bearer
        /\ \A b \in DOMAIN windows : windows[b].count \in 0..RateLimit
    <3>1. RateLimit \in Nat BY EdgeAssumption DEF EdgeAssumption
    <3> QED BY <3>1 DEF LimiterInv, LimiterTyped, LimiterKept, TokenKept, Counted, Window
  <2>2. \A r \in HttpRequest : serving[r].at \in Place
    BY DEF BinderInv, BinderTyped
  <2> QED BY <2>1, <2>2 DEF EdgeTypeOK, BinderInv, BinderTyped, TablesBounded, Place
<1> QED BY <1>1, EdgeInvariant, PTL

\* identityLimiter and sessionBinder keep what they are for, for every limit,
\* window and TTL: a token gets at most two limits through within a window,
\* also when its window is pruned; no request is carried out in the session
\* of another token; and a session that no token reaches has lost its binding
\* in one of the three known ways.
THEOREM EdgeIsSafe == EdgeSpec => []EdgeSafe
<1>1. LimiterInv /\ BinderInv => EdgeSafe
  <2> SUFFICES ASSUME LimiterInv, BinderInv PROVE EdgeSafe
    OBVIOUS
  <2>1. RateBounded
    <3> SUFFICES ASSUME NEW b \in Bearer, NEW i \in 1..(Len(admitted[b]) - 2 * RateLimit)
                 PROVE  admitted[b][i + 2 * RateLimit] >= admitted[b][i] + RateWindow
      BY DEF RateBounded
    <3> DEFINE n == Len(admitted[b])
    <3>1. Spaced(admitted[b], n) BY DEF LimiterInv, LimiterKept, TokenKept
    <3>2. n \in Nat /\ RateLimit \in Nat
      BY EdgeAssumption DEF EdgeAssumption, LimiterInv, LimiterTyped
    <3> HIDE DEF n
    <3>3. i \in 1..n /\ i + 2 * RateLimit <= n BY <3>2 DEF n
    <3> QED BY <3>1, <3>3 DEF Spaced
  <2>2. SessionIsolation
    BY DEF BinderInv, RequestsOwn, SessionIsolation, Inside
  <2> QED BY <2>1, <2>2 DEF EdgeSafe, BinderInv
<1> QED BY <1>1, EdgeInvariant, PTL
=============================================================================
