------------------------ MODULE SessionManagerProofs ------------------------
(***************************************************************************)
(* Proofs about SessionManager, for every number of processes, requests,   *)
(* administrators, clients and sessions: the state has its types, every    *)
(* open client can still be closed, a request only ever resolves a client  *)
(* of the committed revision, and no goroutines wait for each other.       *)
(***************************************************************************)
EXTENDS SessionManager, TLAPS

\* Where executeLocked keeps the client's mutex.
InCall == {"login", "send", "resume", "renew", "keep", "saveRead", "saveWrite"}

\* Where a goroutine refers to a client.
WithClient == InCall \union {"ready", "closing", "inserting", "store"}

\* A goroutine has a client wherever it uses one, and only
\* ConnectWithStoredPassword connects.
PlacesKept ==
  /\ \A a \in Actor : act[a].pc \in WithClient => act[a].client \in Client
  /\ \A a \in Admin : act[a].pc \in {"connect", "store"} => act[a].op = "connect"

\* One call at a time works on a client.
MutexHeld ==
  \A r \in Request : act[r].pc \in InCall => client[act[r].client].mu = r

\* A session that is about to be stored has an identifier.
SidsThere ==
  /\ \A r \in Request :
       /\ act[r].pc \in {"saveRead", "saveWrite"} => client[act[r].client].sid \in Sid
       /\ act[r].pc = "keep" => client[act[r].client].known \in Sid
  /\ \A a \in Admin : act[a].pc = "store" => client[act[a].client].sid \in Sid

\* Nobody else knows a client that has not been published yet.
Unshared ==
  \A a \in Actor : act[a].pc \in {"inserting", "store"} =>
    /\ \A p \in Process : cache[p] # act[a].client
    /\ \A b \in Actor : act[b].client = act[a].client => b = a

\* The profile gate of a process excludes, and its holder emptied the cache.
GateHeld ==
  \A a \in Admin : Holding(a) =>
    /\ cache[Home[a]] = None
    /\ \A r \in Request : Home[r] = Home[a] => ~Reading(r)
    /\ \A b \in Admin : Home[b] = Home[a] /\ Holding(b) => b = a

\* While a request is under the read gate, the revision it read stays the
\* committed one, for its own client and for the one in the cache.
RevisionRead ==
  \A r \in Request : Reading(r) =>
    /\ act[r].rev = revision
    /\ cache[Home[r]] # None => client[cache[Home[r]]].rev = revision
    /\ act[r].pc = "inserting" => client[act[r].client].rev = revision

SessionInv ==
  /\ TypeOK
  /\ PlacesKept /\ MutexHeld /\ SidsThere
  /\ Unshared /\ GateHeld /\ RevisionRead
  /\ OpenClientOwned

-----------------------------------------------------------------------------
(***************************************************************************)
(* Fresh identities.                                                       *)
(***************************************************************************)
\* The client that is allocated is one that nobody refers to.
LEMMA NewClientIsFresh ==
  ASSUME MayAllocate
  PROVE  NewClient \in Client /\ ~Reachable(NewClient, cache, act)
BY DEF MayAllocate, NewClient

\* DSM issues an identifier.
LEMMA NewSidIsOne == Issues => NewSid \in Sid /\ live' \subseteq Sid \union live
BY DEF Issues, NewSid

\* Collecting leaves what is referred to, and closes the rest.
LEMMA Collecting ==
  ASSUME NEW cl, NEW ca, NEW ac, NEW c \in Client
  PROVE  /\ Reachable(c, ca, ac) => Collected(cl, ca, ac)[c] = cl[c]
         /\ ~Reachable(c, ca, ac) => Collected(cl, ca, ac)[c] = Unused
BY DEF Collected

\* Collecting unreferenced clients keeps the types.
LEMMA CollectedTypes ==
  ASSUME NEW cl \in [Client -> ClientRecord], NEW ca, NEW ac
  PROVE  Collected(cl, ca, ac) \in [Client -> ClientRecord]
<1>1. Unused \in ClientRecord
  BY DEF Unused, ClientRecord, Kind
<1> QED BY <1>1 DEF Collected

\* A save writes the session it is given or fails.
LEMMA SavingKeepsTypes ==
  ASSUME ConstantsOK, TypeOK, NEW session \in Session, Save(session)
  PROVE  store' \in Session \union {None} /\ faults' \in 0..MaxFaults
BY DEF Save, Fault, TypeOK, ConstantsOK

-----------------------------------------------------------------------------
(***************************************************************************)
(* Steps inside one DSM call.                                              *)
(***************************************************************************)
Calls(r) ==
  \/ Begin(r) \/ Reject(r) \/ Adopt(r) \/ NothingNewer(r)
  \/ Renew(r) \/ RenewRefused(r) \/ Keep(r)
  \/ Login(r) \/ SaveRead(r) \/ SaveWrite(r)

\* What such a step leaves alone, and that it keeps the mutex.
CallFrame(r) ==
  /\ act[r].pc \in InCall \union {"ready"} /\ act'[r].pc \in InCall
  /\ act'[r].client = act[r].client
  /\ \A b \in Actor : b # r => act'[b] = act[b]
  /\ \A c \in Client : /\ c # act[r].client => client'[c] = client[c]
                       /\ client'[c].open = client[c].open
                       /\ client'[c].rev = client[c].rev
  /\ client[act[r].client].mu \in {None, r}
  /\ client'[act[r].client].mu = r
  /\ cache' = cache /\ revision' = revision

\* A step inside a call keeps the types.
LEMMA CallsKeepTypes ==
  ASSUME ConstantsOK, SessionInv, NEW r \in Request, Calls(r)
  PROVE  TypeOK'
<1> USE DEF SessionInv
<1>0. r \in Actor BY DEF Actor
<1>1. /\ act[r] \in ActorRecord /\ act \in [Actor -> ActorRecord]
      /\ client \in [Client -> ClientRecord]
      /\ store \in Session \union {None}
  BY <1>0 DEF TypeOK
<1>2. act[r].pc \in WithClient => Mine(r) \in Client
  BY <1>0 DEF PlacesKept, Mine
<1>3. CASE Begin(r)
  <2>1. act' \in [Actor -> ActorRecord]
    <3>1. PICK pc \in PC : act' = [act EXCEPT ![r].pc = pc, ![r].retried = FALSE]
      BY <1>3 DEF Begin, PC
    <3> QED BY <1>0, <1>1, <3>1 DEF ActorRecord
  <2>2. client' \in [Client -> ClientRecord]
    BY <1>0, <1>1, <1>2, <1>3 DEF Begin, ClientRecord, WithClient, InCall
  <2> QED BY <1>3, <2>1, <2>2 DEF Begin, TypeOK, bounds
<1>4. CASE Reject(r)
  <2>1. act' \in [Actor -> ActorRecord]
    BY <1>0, <1>1, <1>4 DEF Reject, ActorRecord, PC
  <2>2. client' \in [Client -> ClientRecord]
    BY <1>0, <1>1, <1>2, <1>4 DEF Reject, ClientRecord, WithClient, InCall
  <2> QED BY <1>4, <2>1, <2>2 DEF Reject, TypeOK, bounds
<1>5. CASE Adopt(r)
  <2>1. act' \in [Actor -> ActorRecord]
    BY <1>0, <1>1, <1>5 DEF Adopt, ActorRecord, PC
  <2>2. client' \in [Client -> ClientRecord]
    BY <1>0, <1>1, <1>2, <1>5 DEF Adopt, ClientRecord, WithClient, InCall, Session
  <2> QED BY <1>5, <2>1, <2>2 DEF Adopt, TypeOK, bounds
<1>6. CASE NothingNewer(r)
  <2>1. act' \in [Actor -> ActorRecord]
    BY <1>0, <1>1, <1>6 DEF NothingNewer, ActorRecord, PC
  <2> QED BY <1>6, <2>1 DEF NothingNewer, TypeOK, bounds
<1>7. CASE Renew(r)
  <2>1. act' \in [Actor -> ActorRecord]
    BY <1>0, <1>1, <1>7 DEF Renew, ActorRecord, PC
  <2>2. client' \in [Client -> ClientRecord]
    BY <1>0, <1>1, <1>2, <1>7, NewSidIsOne DEF Renew, ClientRecord, WithClient, InCall
  <2> QED BY <1>7, <2>1, <2>2, NewSidIsOne DEF Renew, TypeOK, bounds
<1>8. CASE RenewRefused(r)
  <2>1. act' \in [Actor -> ActorRecord]
    BY <1>0, <1>1, <1>8 DEF RenewRefused, ActorRecord, PC
  <2> QED BY <1>8, <2>1 DEF RenewRefused, TypeOK, bounds
<1>9. CASE Keep(r)
  <2>1. act' \in [Actor -> ActorRecord]
    BY <1>0, <1>1, <1>9 DEF Keep, ActorRecord, PC
  <2>2. client' \in [Client -> ClientRecord]
    BY <1>0, <1>1, <1>2, <1>9 DEF Keep, ClientRecord, WithClient, InCall, SidsThere
  <2>3. store' \in Session \union {None} /\ faults' \in 0..MaxFaults
    <3>1. [sid |-> client[Mine(r)].known, keys |-> TRUE] \in Session
      BY <1>9 DEF Keep, SidsThere, Mine, Session
    <3> QED BY <1>9, <3>1, SavingKeepsTypes DEF Keep, TypeOK
  <2> QED BY <1>9, <2>1, <2>2, <2>3 DEF Keep, TypeOK
<1>10. CASE Login(r)
  <2>1. act' \in [Actor -> ActorRecord]
    BY <1>0, <1>1, <1>10 DEF Login, ActorRecord, PC
  <2>2. client' \in [Client -> ClientRecord]
    BY <1>0, <1>1, <1>2, <1>10, NewSidIsOne DEF Login, ClientRecord, WithClient, InCall
  <2> QED BY <1>10, <2>1, <2>2, NewSidIsOne DEF Login, TypeOK, bounds
<1>11. CASE SaveRead(r)
  <2>1. act' \in [Actor -> ActorRecord]
    BY <1>0, <1>1, <1>11, ZenonT(60) DEF SaveRead, ActorRecord, PC
  <2> QED BY <1>11, <2>1 DEF SaveRead, TypeOK, bounds
<1>12. CASE SaveWrite(r)
  <2>1. act' \in [Actor -> ActorRecord]
    BY <1>0, <1>1, <1>12, ZenonT(60) DEF SaveWrite, ActorRecord, PC
  <2>2. Mine(r) \in Client
    BY <1>2, <1>12 DEF SaveWrite, WithClient, InCall
  <2>3. SavedKeys(r) \in BOOLEAN
    <3>1. client[Mine(r)].keys \in BOOLEAN
      BY <1>1, <2>2 DEF ClientRecord
    <3>2. act[r].saw # None => act[r].saw.keys \in BOOLEAN
      BY <1>1 DEF ActorRecord, Session
    <3> QED BY <3>1, <3>2, Zenon DEF SavedKeys
  <2>4. client' \in [Client -> ClientRecord]
    <3>1. PICK k \in BOOLEAN :
            \/ client' = client
            \/ client' = [client EXCEPT ![Mine(r)].known = client[Mine(r)].sid,
                                        ![Mine(r)].keys = k]
      BY <1>12, <2>3 DEF SaveWrite
    <3>2. client[Mine(r)] \in ClientRecord BY <1>1, <2>2
    <3> QED BY <1>1, <2>2, <3>1, <3>2 DEF ClientRecord
  <2>5. store' \in Session \union {None} /\ faults' \in 0..MaxFaults
    <3>1. [sid |-> client[Mine(r)].sid, keys |-> SavedKeys(r)] \in Session
      BY <1>12, <2>3 DEF SaveWrite, SidsThere, Mine, Session
    <3> QED BY <1>12, <3>1, SavingKeepsTypes DEF SaveWrite, TypeOK
  <2> QED BY <1>12, <2>1, <2>4, <2>5 DEF SaveWrite, TypeOK
<1> QED BY <1>3, <1>4, <1>5, <1>6, <1>7, <1>8, <1>9, <1>10, <1>11, <1>12, Calls(r) DEF Calls

\* A step inside a call stays within its frame.
LEMMA CallsKeepFrame ==
  ASSUME ConstantsOK, SessionInv, NEW r \in Request, Calls(r)
  PROVE  CallFrame(r)
<1> USE DEF SessionInv
<1>0. r \in Actor BY DEF Actor
<1>1. /\ act[r] \in ActorRecord /\ act \in [Actor -> ActorRecord]
      /\ client \in [Client -> ClientRecord]
  BY <1>0 DEF TypeOK
<1>2. act[r].pc \in InCall \union {"ready"}
  BY DEF Calls, InCall, Begin, Reject, Adopt, NothingNewer, Renew, RenewRefused, Keep,
     Login, SaveRead, SaveWrite
<1>3. act[r].client \in Client
  BY <1>0, <1>2 DEF PlacesKept, WithClient
<1>4. /\ act'[r].pc \in InCall /\ act'[r].client = act[r].client
      /\ \A b \in Actor : b # r => act'[b] = act[b]
  <2>1. CASE Begin(r)
    BY <1>0, <1>1, <2>1 DEF Begin, InCall, ActorRecord
  <2>2. CASE Reject(r)
    BY <1>0, <1>1, <2>2 DEF Reject, InCall, ActorRecord
  <2>3. CASE Adopt(r) \/ NothingNewer(r)
    BY <1>0, <1>1, <2>3 DEF Adopt, NothingNewer, InCall, ActorRecord
  <2>4. CASE Renew(r) \/ RenewRefused(r) \/ Keep(r)
    BY <1>0, <1>1, <2>4 DEF Renew, RenewRefused, Keep, InCall, ActorRecord
  <2>5. CASE Login(r) \/ SaveRead(r) \/ SaveWrite(r)
    BY <1>0, <1>1, <2>5 DEF Login, SaveRead, SaveWrite, InCall, ActorRecord
  <2> QED BY <2>1, <2>2, <2>3, <2>4, <2>5 DEF Calls
<1>5. /\ \A c \in Client : /\ c # act[r].client => client'[c] = client[c]
                           /\ client'[c].open = client[c].open
                           /\ client'[c].rev = client[c].rev
      /\ client[act[r].client].mu \in {None, r}
      /\ client'[act[r].client].mu = r
  <2>1. CASE Begin(r)
    BY <1>1, <1>3, <2>1 DEF Begin, ClientRecord, Mine
  <2>2. ASSUME ~Begin(r) PROVE client[act[r].client].mu = r
    <3>1. act[r].pc \in InCall
      BY <2>2 DEF Calls, InCall, Reject, Adopt, NothingNewer, Renew, RenewRefused, Keep,
         Login, SaveRead, SaveWrite
    <3> QED BY <3>1 DEF MutexHeld
  <2>3. CASE Reject(r) \/ Adopt(r)
    BY <1>1, <1>3, <2>1, <2>2, <2>3 DEF Reject, Adopt, ClientRecord, Mine
  <2>4. CASE NothingNewer(r) \/ RenewRefused(r) \/ SaveRead(r)
    BY <2>1, <2>2, <2>4 DEF NothingNewer, RenewRefused, SaveRead
  <2>5. CASE Renew(r) \/ Keep(r) \/ Login(r)
    BY <1>1, <1>3, <2>1, <2>2, <2>5 DEF Renew, Keep, Login, ClientRecord, Mine
  <2>6. CASE SaveWrite(r)
    <3>1. PICK k :
            \/ client' = client
            \/ client' = [client EXCEPT ![Mine(r)].known = client[Mine(r)].sid,
                                        ![Mine(r)].keys = k]
      BY <2>6 DEF SaveWrite
    <3> QED BY <1>1, <1>3, <2>1, <2>2, <3>1 DEF ClientRecord, Mine
  <2> QED BY <2>1, <2>3, <2>4, <2>5, <2>6 DEF Calls
<1>6. cache' = cache /\ revision' = revision
  BY DEF Calls, Begin, Reject, Adopt, NothingNewer, Renew, RenewRefused, Keep,
     Login, SaveRead, SaveWrite
<1> QED BY <1>2, <1>4, <1>5, <1>6 DEF CallFrame

\* Every step inside a call keeps the invariant.
LEMMA CallsKeepInv ==
  ASSUME ConstantsOK, SessionInv, NEW r \in Request, Calls(r)
  PROVE  SessionInv'
<1> USE DEF SessionInv
<1>0. r \in Actor /\ r \notin Admin BY DEF Actor, ConstantsOK
<1>1. CallFrame(r) BY CallsKeepFrame
<1>2. /\ act[r].client \in Client /\ None \notin Actor
      /\ Request \subseteq Actor /\ Admin \subseteq Actor
  BY <1>0, <1>1 DEF CallFrame, PlacesKept, WithClient, ConstantsOK, Actor
<1>3. TypeOK' BY CallsKeepTypes
<1>4. PlacesKept'
  BY <1>0, <1>1, <1>2 DEF CallFrame, PlacesKept, WithClient
<1>5. MutexHeld'
  BY <1>0, <1>1, <1>2 DEF CallFrame, MutexHeld, PlacesKept, WithClient
<1>6. SidsThere'
  <2>1. /\ act'[r].pc \in {"saveRead", "saveWrite"} => client'[act[r].client].sid \in Sid
        /\ act'[r].pc = "keep" => client'[act[r].client].known \in Sid
    <3>0. /\ act[r] \in ActorRecord /\ act \in [Actor -> ActorRecord]
          /\ client \in [Client -> ClientRecord]
      BY <1>0 DEF TypeOK
    <3>1. CASE Begin(r) \/ Reject(r) \/ Adopt(r) \/ NothingNewer(r) \/ RenewRefused(r) \/ Keep(r)
      <4>1. act'[r].pc \in {"login", "send", "resume", "renew"}
        <5>1. CASE Begin(r)
          BY <1>0, <3>0, <5>1 DEF Begin, ActorRecord
        <5>2. CASE Reject(r) \/ Adopt(r)
          BY <1>0, <3>0, <5>2 DEF Reject, Adopt, ActorRecord
        <5>3. CASE NothingNewer(r) \/ RenewRefused(r) \/ Keep(r)
          BY <1>0, <3>0, <5>3 DEF NothingNewer, RenewRefused, Keep, ActorRecord
        <5> QED BY <3>1, <5>1, <5>2, <5>3
      <4> QED BY <4>1
    <3>2. CASE Renew(r)
      BY <1>0, <1>2, <3>0, <3>2, NewSidIsOne DEF Renew, Mine, ClientRecord
    <3>3. CASE Login(r)
      BY <1>0, <1>2, <3>0, <3>3, NewSidIsOne DEF Login, Mine, ClientRecord
    <3>4. CASE SaveRead(r)
      BY <1>0, <3>0, <3>4 DEF SaveRead, SidsThere
    <3>5. CASE SaveWrite(r)
      BY <1>0, <3>0, <3>5 DEF SaveWrite
    <3> QED BY <3>1, <3>2, <3>3, <3>4, <3>5 DEF Calls
  <2>2. ASSUME NEW b \in Request, b # r, act[b].pc \in InCall
        PROVE  act[b].client \in Client /\ act[b].client # act[r].client
    BY <1>0, <1>1, <1>2, <2>2 DEF CallFrame, MutexHeld, PlacesKept, WithClient
  <2>3. ASSUME NEW a \in Admin, act[a].pc = "store"
        PROVE  act[a].client \in Client /\ act[a].client # act[r].client
    BY <1>0, <1>2, <2>3 DEF Unshared, PlacesKept, WithClient
  <2> QED BY <1>0, <1>1, <1>2, <2>1, <2>2, <2>3 DEF CallFrame, SidsThere, InCall
<1>7. Unshared'
  BY <1>0, <1>1, <1>2 DEF CallFrame, Unshared, InCall
<1>8. GateHeld'
  BY <1>0, <1>1, <1>2 DEF CallFrame, GateHeld, InCall, Holding, Reading
<1>9. RevisionRead'
  <2>1. \A b \in Request : Reading(b)' => b # r /\ act'[b] = act[b]
    BY <1>0, <1>1, <1>2 DEF CallFrame, InCall, Reading
  <2>2. \A p \in Process : cache[p] \in Client \union {None}
    BY DEF TypeOK
  <2> QED BY <1>0, <1>1, <1>2, <2>1, <2>2 DEF CallFrame, RevisionRead, Reading, PlacesKept, WithClient, ConstantsOK
<1>10. OpenClientOwned'
  BY <1>0, <1>1, <1>2 DEF CallFrame, OpenClientOwned, InCall
<1> QED BY <1>3, <1>4, <1>5, <1>6, <1>7, <1>8, <1>9, <1>10

-----------------------------------------------------------------------------
(***************************************************************************)
(* A goroutine that lets go of its client, at the end of a call, of a      *)
(* close and of a connection that could not be stored, or has none.        *)
(***************************************************************************)
Returns(r) == Serve(r) \/ RejectAgain(r) \/ LoginImpossible(r) \/ Unreachable(r)

LetsGo(a) ==
  /\ act'[a].pc \notin WithClient /\ act'[a].client \in {None, act[a].client}
  /\ \A b \in Actor : b # a => act'[b] = act[b]
  /\ \A c \in Client :
       /\ c # act[a].client /\ Reachable(c, cache, act') => client'[c] = client[c]
       /\ Reachable(c, cache, act') => client'[c].rev = client[c].rev
       /\ client'[c].open => client[c].open
  /\ cache' = cache /\ revision' = revision

\* Letting go of a client that no call of another goroutine works on
\* disturbs none of them.
LEMMA LettingGo ==
  ASSUME ConstantsOK, SessionInv, NEW a \in Actor, LetsGo(a), TypeOK',
         \/ client' = client
         \/ \A r \in Request :
              r # a /\ act[r].pc \in InCall => act[r].client # act[a].client,
         \A c \in Client : act[a].pc \in {"inserting", "closing", "store"}
                             /\ c = act[a].client => ~client'[c].open,
         a \in Admin => /\ act'[a].pc = "connect" => act'[a].op = "connect"
                        /\ Holding(a)' => Holding(a),
         a \in Request => (Reading(a)' => Reading(a) /\ act'[a].rev = act[a].rev)
  PROVE  SessionInv'
<1> USE DEF SessionInv
<1>0. /\ None \notin Actor /\ None \notin Client /\ Request \intersect Admin = {}
      /\ Request \subseteq Actor /\ Admin \subseteq Actor
      /\ \A p \in Process : cache[p] \in Client \union {None}
      /\ Home \in [Actor -> Process]
  BY DEF ConstantsOK, Actor, TypeOK
<1>1. /\ \A b \in Actor : b # a => Reachable(act[b].client, cache, act')
      /\ \A p \in Process : Reachable(cache[p], cache, act')
  BY DEF Reachable, LetsGo
<1>4. PlacesKept'
  BY <1>0 DEF LetsGo, PlacesKept, WithClient
<1>5. MutexHeld'
  BY <1>0, <1>1 DEF LetsGo, MutexHeld, PlacesKept, WithClient
<1>6. SidsThere'
  <2>1. \A b \in Request : b # a /\ act[b].pc \in InCall => client'[act[b].client] = client[act[b].client]
    BY <1>0, <1>1 DEF LetsGo, PlacesKept, WithClient
  <2>2. \A b \in Admin : b # a /\ act[b].pc = "store" => client'[act[b].client] = client[act[b].client]
    BY <1>0, <1>1 DEF LetsGo, Unshared, PlacesKept, WithClient
  <2> QED BY <1>0, <2>1, <2>2 DEF LetsGo, SidsThere, InCall, WithClient
<1>7. Unshared'
  <2>1. \A b \in Actor : act'[b].pc \in {"inserting", "store"} =>
          b # a /\ act'[b] = act[b] /\ act[b].client \in Client
    BY DEF LetsGo, WithClient, PlacesKept
  <2> QED BY <1>0, <2>1 DEF LetsGo, Unshared
<1>8. GateHeld'
  <2>1. \A b \in Admin : Holding(b)' => Holding(b)
    BY <1>0 DEF LetsGo, Holding
  <2>2. \A b \in Request : Reading(b)' => Reading(b)
    BY <1>0 DEF LetsGo, Reading
  <2> QED BY <2>1, <2>2 DEF LetsGo, GateHeld
<1>9. RevisionRead'
  <2>1. \A b \in Request : Reading(b)' => Reading(b) /\ act'[b].rev = act[b].rev
    BY <1>0 DEF LetsGo, Reading
  <2>2. \A b \in Request : act'[b].pc = "inserting" =>
          /\ b # a /\ act'[b] = act[b] /\ act[b].client \in Client
          /\ Reachable(act[b].client, cache, act')
    BY <1>0, <1>1 DEF LetsGo, WithClient, PlacesKept
  <2>3. \A b \in Request : Home[b] \in Process
    BY <1>0
  <2> QED BY <1>0, <1>1, <2>1, <2>2, <2>3 DEF LetsGo, RevisionRead
<1>10. OpenClientOwned'
  BY DEF LetsGo, OpenClientOwned
<1> QED BY <1>4, <1>5, <1>6, <1>7, <1>8, <1>9, <1>10

\* A call that returns lets go of its client.
LEMMA ReturnsKeepInv ==
  ASSUME ConstantsOK, SessionInv, NEW r \in Request, Returns(r)
  PROVE  SessionInv'
<1> USE DEF SessionInv
<1>0. r \in Actor /\ r \notin Admin BY DEF Actor, ConstantsOK
<1>1. /\ act[r] \in ActorRecord /\ act \in [Actor -> ActorRecord]
      /\ client \in [Client -> ClientRecord]
  BY <1>0 DEF TypeOK
<1>2. PICK served \in BOOLEAN : Return(r, served)
  BY Zenon DEF Returns, Serve, RejectAgain, LoginImpossible, Unreachable
<1>3. /\ act[r].pc \in {"send", "login"} /\ cache' = cache /\ revision' = revision
      /\ store' = store /\ live' = live
  BY DEF Returns, Serve, RejectAgain, LoginImpossible, Unreachable
<1>4. faults' \in 0..MaxFaults /\ operations' = operations
  <2>1. faults' = faults \/ Fault
    BY DEF Returns, Serve, RejectAgain, LoginImpossible, Unreachable, bounds
  <2>2. operations' = operations
    BY DEF Returns, Serve, RejectAgain, LoginImpossible, Unreachable, bounds
  <2> QED BY <2>1, <2>2 DEF Fault, TypeOK, ConstantsOK
<1>5. act[r].client \in Client
  BY <1>0, <1>3 DEF PlacesKept, WithClient, InCall
<1> DEFINE cl == [client EXCEPT ![act[r].client].mu = None]
<1>6. cl \in [Client -> ClientRecord]
  BY <1>1, <1>5 DEF ClientRecord
<1>7. client' = Collected(cl, cache, act')
  BY <1>2 DEF Return, Mine
<1>8. act' = [act EXCEPT ![r] = [Idle("call") EXCEPT !.served = served]]
  BY <1>2 DEF Return
<1>9. [Idle("call") EXCEPT !.served = served] \in ActorRecord
  BY DEF Idle, ActorRecord, PC
<1>10. /\ act'[r] = [Idle("call") EXCEPT !.served = served]
       /\ \A b \in Actor : b # r => act'[b] = act[b]
       /\ act' \in [Actor -> ActorRecord]
  BY <1>0, <1>1, <1>8, <1>9
<1>11. act'[r].pc = "idle" /\ act'[r].client = None
  BY <1>10 DEF Idle
<1>12. \A c \in Client : /\ c # act[r].client => cl[c] = client[c]
                         /\ cl[c].rev = client[c].rev /\ cl[c].open = client[c].open
  BY <1>1, <1>5 DEF ClientRecord
<1>13. TypeOK'
  BY <1>3, <1>4, <1>6, <1>7, <1>10, CollectedTypes DEF TypeOK
<1> HIDE DEF cl
<1>14. LetsGo(r)
  <2>1. ~Unused.open BY DEF Unused
  <2>2. ASSUME NEW c \in Client
        PROVE  /\ Reachable(c, cache, act') => client'[c] = cl[c]
               /\ ~Reachable(c, cache, act') => client'[c] = Unused
    BY <1>7, Collecting
  <2>3. ASSUME NEW c \in Client
        PROVE  /\ c # act[r].client /\ Reachable(c, cache, act') => client'[c] = client[c]
               /\ Reachable(c, cache, act') => client'[c].rev = client[c].rev
               /\ client'[c].open => client[c].open
    BY <1>12, <2>1, <2>2
  <2>4. act'[r].pc \notin WithClient
    BY <1>11 DEF WithClient, InCall
  <2> QED BY <1>3, <1>10, <1>11, <2>3, <2>4 DEF LetsGo
<1>15. \A b \in Request : b # r /\ act[b].pc \in InCall => act[b].client # act[r].client
  BY <1>3 DEF MutexHeld, InCall
<1>16. ~Reading(r)'
  BY <1>11 DEF Reading
<1> QED BY <1>0, <1>3, <1>13, <1>14, <1>15, <1>16, LettingGo

\* Closing an evicted client.
LEMMA CloseKeepsInv ==
  ASSUME ConstantsOK, SessionInv, NEW a \in Actor, CloseClient(a)
  PROVE  SessionInv'
<1> USE DEF SessionInv
<1>1. /\ act[a] \in ActorRecord /\ act \in [Actor -> ActorRecord]
      /\ client \in [Client -> ClientRecord] /\ Request \subseteq Actor
      /\ None \notin Actor /\ Request \intersect Admin = {}
  BY DEF TypeOK, Actor, ConstantsOK
<1>2. /\ act[a].pc = "closing" /\ cache' = cache /\ revision' = revision
      /\ store' = store /\ UNCHANGED bounds
      /\ client[act[a].client].mu = None
  BY DEF CloseClient, bounds
<1>2a. live' \subseteq live
  BY DEF CloseClient
<1>3. act[a].client \in Client
  BY <1>2 DEF PlacesKept, WithClient
<1> DEFINE cl == [client EXCEPT ![act[a].client].sid = None, ![act[a].client].open = FALSE]
<1>4. cl \in [Client -> ClientRecord]
  <2>1. client[act[a].client] \in ClientRecord BY <1>1, <1>3
  <2>2. [client[act[a].client] EXCEPT !.sid = None, !.open = FALSE] \in ClientRecord
    BY <2>1 DEF ClientRecord
  <2>3. cl = [client EXCEPT ![act[a].client] =
               [client[act[a].client] EXCEPT !.sid = None, !.open = FALSE]]
    BY <1>1, <1>3, <2>1 DEF ClientRecord
  <2> QED BY <1>1, <2>2, <2>3
<1>5. client' = Collected(cl, cache, act') /\ act' = Continue(a, AfterClose(a), None)
  BY DEF CloseClient
<1>6. \A c \in Client : /\ c # act[a].client => cl[c] = client[c]
                        /\ cl[c].rev = client[c].rev
                        /\ c = act[a].client => ~cl[c].open
  BY <1>1, <1>3 DEF ClientRecord
<1>7. /\ act' \in [Actor -> ActorRecord]
      /\ \A b \in Actor : b # a => act'[b] = act[b]
      /\ act'[a].client = None
      /\ AfterClose(a) # "idle" => /\ act'[a].pc = AfterClose(a) /\ act'[a].op = act[a].op
                                  /\ act'[a].rev = act[a].rev
      /\ AfterClose(a) = "idle" => act'[a].pc = "idle"
  <2>1. AfterClose(a) \in PC
    BY DEF AfterClose, PC
  <2>2. CASE AfterClose(a) = "idle"
    BY <1>1, <1>5, <2>2 DEF Continue, Idle, ActorRecord, PC
  <2>3. CASE AfterClose(a) # "idle"
    <3>1. act' = [act EXCEPT ![a] = [act[a] EXCEPT !.pc = AfterClose(a), !.client = None]]
      BY <1>5, <2>3 DEF Continue
    <3> QED BY <1>1, <2>1, <2>3, <3>1 DEF ActorRecord
  <2> QED BY <2>2, <2>3
<1>8. TypeOK'
  BY <1>2, <1>2a, <1>4, <1>5, <1>7, CollectedTypes DEF TypeOK, bounds
<1> HIDE DEF cl
<1>9. ASSUME NEW c \in Client
      PROVE  /\ Reachable(c, cache, act') => client'[c] = cl[c]
             /\ ~Reachable(c, cache, act') => client'[c] = Unused
  BY <1>5, Collecting
<1>10. ~Unused.open BY DEF Unused
<1>11. AfterClose(a) \in {"reading", "connect", "idle"}
  BY DEF AfterClose
<1>12. LetsGo(a)
  <2>1. act'[a].pc \notin WithClient
    BY <1>7, <1>11 DEF WithClient, InCall
  <2>2. ASSUME NEW c \in Client
        PROVE  /\ c # act[a].client /\ Reachable(c, cache, act') => client'[c] = client[c]
               /\ Reachable(c, cache, act') => client'[c].rev = client[c].rev
               /\ client'[c].open => client[c].open
    BY <1>6, <1>9, <1>10
  <2> QED BY <1>2, <1>7, <2>1, <2>2 DEF LetsGo
<1>13. \A b \in Request : b # a /\ act[b].pc \in InCall => act[b].client # act[a].client
  BY <1>1, <1>2 DEF MutexHeld
<1>14. \A c \in Client : c = act[a].client => ~client'[c].open
  BY <1>6, <1>9, <1>10
<1>15. a \in Admin => /\ act'[a].pc = "connect" => act'[a].op = "connect"
                      /\ Holding(a)' => Holding(a)
  BY <1>1, <1>2, <1>7 DEF AfterClose, Holding, Exclusive
<1>16. a \in Request => (Reading(a)' => Reading(a) /\ act'[a].rev = act[a].rev)
  BY <1>2, <1>7 DEF Reading
<1> QED BY <1>8, <1>12, <1>13, <1>14, <1>15, <1>16, LettingGo

\* A connect whose session could not be stored closes its client.
LEMMA UnstoredKeepsInv ==
  ASSUME ConstantsOK, SessionInv, NEW a \in Admin, ConnectUnstored(a)
  PROVE  SessionInv'
<1> USE DEF SessionInv
<1>1. /\ a \in Actor /\ a \notin Request /\ Request \subseteq Actor
      /\ act \in [Actor -> ActorRecord] /\ client \in [Client -> ClientRecord]
  BY DEF TypeOK, Actor, ConstantsOK
<1>2. /\ act[a].pc = "store" /\ cache' = cache /\ revision' = revision
      /\ store' = store /\ operations' = operations /\ live' \subseteq live
      /\ client' = Collected(client, cache, act')
      /\ act' = [act EXCEPT ![a] = Idle("call")]
  BY DEF ConnectUnstored, Continue
<1>3. act[a].client \in Client
  BY <1>1, <1>2 DEF PlacesKept, WithClient
<1>4. Idle("call") \in ActorRecord
  BY DEF Idle, ActorRecord, PC
<1>5. /\ act' \in [Actor -> ActorRecord] /\ act'[a] = Idle("call")
      /\ \A b \in Actor : b # a => act'[b] = act[b]
  BY <1>1, <1>2, <1>4
<1>6. act'[a].pc = "idle" /\ act'[a].client = None
  BY <1>5 DEF Idle
<1>7. faults' \in 0..MaxFaults
  BY DEF ConnectUnstored, Fault, TypeOK, ConstantsOK
<1>8. TypeOK'
  BY <1>1, <1>2, <1>5, <1>7, CollectedTypes DEF TypeOK
<1>9. ASSUME NEW c \in Client
      PROVE  /\ Reachable(c, cache, act') => client'[c] = client[c]
             /\ ~Reachable(c, cache, act') => client'[c] = Unused
  BY <1>2, Collecting
<1>10. ~Unused.open BY DEF Unused
<1>11. LetsGo(a)
  <2>1. act'[a].pc \notin WithClient
    BY <1>6 DEF WithClient, InCall
  <2> QED BY <1>2, <1>5, <1>6, <1>9, <1>10, <2>1 DEF LetsGo
<1>12. ~Reachable(act[a].client, cache, act')
  BY <1>1, <1>2, <1>3, <1>5, <1>6 DEF Reachable, Unshared, ConstantsOK
<1>13. \A b \in Request : b # a /\ act[b].pc \in InCall => act[b].client # act[a].client
  BY <1>1, <1>2 DEF Unshared
<1>14. act'[a].pc # "connect" /\ ~Holding(a)'
  BY <1>6 DEF Holding
<1> QED BY <1>1, <1>3, <1>8, <1>9, <1>10, <1>11, <1>12, <1>13, <1>14, LettingGo

-----------------------------------------------------------------------------
(***************************************************************************)
(* Steps that touch no client.                                             *)
(***************************************************************************)
\* A goroutine without a client goes on to where it needs none.
Walks(a) ==
  /\ act[a].pc \notin WithClient /\ act'[a].pc \notin WithClient \union {"connect"}
  /\ act'[a].client \in {None, act[a].client}
  /\ \A b \in Actor : b # a => act'[b] = act[b]
  /\ cache' = cache /\ revision' = revision /\ client' = client

\* A step that touches no client keeps the invariant.
LEMMA WalkingKeepsInv ==
  ASSUME ConstantsOK, SessionInv, NEW a \in Actor, Walks(a), TypeOK',
         act'[a].pc # "reading"
  PROVE  SessionInv'
<1>1. LetsGo(a)
  BY DEF LetsGo, Walks
<1>2. act[a].pc \notin {"inserting", "closing", "store"}
  BY DEF Walks, WithClient
<1>3. ~Holding(a)' /\ ~Reading(a)' /\ act'[a].pc # "connect"
  BY DEF Walks, WithClient, Holding, Reading
<1> QED BY <1>1, <1>2, <1>3, LettingGo DEF Walks

\* A step that only touches the store, DSM's sessions and the bounds.
LEMMA OutsideKeepsInv ==
  ASSUME SessionInv, TypeOK', UNCHANGED <<revision, cache, client, act>>
  PROVE  SessionInv'
BY DEF SessionInv, PlacesKept, MutexHeld, SidsThere, Unshared, GateHeld, Holding, Reading,
   RevisionRead, OpenClientOwned

\* A resolution that finds no credential.
LEMMA NoCredentialKeepsInv ==
  ASSUME ConstantsOK, SessionInv, NEW r \in Request, NoCredential(r)
  PROVE  SessionInv'
<1> USE DEF SessionInv
<1>1. /\ r \in Actor /\ act \in [Actor -> ActorRecord]
      /\ act[r].pc = "reading" /\ act' = [act EXCEPT ![r] = Idle("call")]
  BY DEF Actor, TypeOK, NoCredential
<1>2. Idle("call") \in ActorRecord /\ Idle("call").pc = "idle" /\ Idle("call").client = None
  BY DEF Idle, ActorRecord, PC
<1>3. TypeOK'
  BY <1>1, <1>2 DEF TypeOK, NoCredential, bounds
<1>4. Walks(r)
  BY <1>1, <1>2 DEF Walks, NoCredential, WithClient, InCall
<1> QED BY <1>1, <1>2, <1>3, <1>4, WalkingKeepsInv

\* The steps of an administrator that touch no client.
LEMMA AdminWalksKeepInv ==
  ASSUME ConstantsOK, SessionInv, NEW a \in Admin,
         \/ ConnectRefused(a) \/ RevokeRead(a) \/ Revoke(a) \/ DeleteSession(a)
         \/ \E op \in Operation : Ask(a, op)
  PROVE  SessionInv'
<1> USE DEF SessionInv
<1>1. /\ a \in Actor /\ act \in [Actor -> ActorRecord] /\ act[a] \in ActorRecord
      /\ store \in Session \union {None}
  BY DEF Actor, TypeOK
<1>2. Idle("call") \in ActorRecord /\ Idle("call").pc = "idle" /\ Idle("call").client = None
  BY DEF Idle, ActorRecord, PC
<1> DEFINE Rest == {"idle", "waiting", "revokeRead", "revoke", "delete"}
           Goal == /\ TypeOK' /\ act'[a].pc \in Rest
                   /\ act[a].pc \in Rest \union {"connect"}
                   /\ act'[a].client \in {None, act[a].client}
                   /\ \A b \in Actor : b # a => act'[b] = act[b]
                   /\ cache' = cache /\ revision' = revision /\ client' = client
<1>3. ASSUME ConnectRefused(a) PROVE Goal
  <2>1. act' = [act EXCEPT ![a] = Idle("call")]
    BY <1>3 DEF ConnectRefused, Continue
  <2>2. faults' \in 0..MaxFaults
    BY <1>3 DEF ConnectRefused, Fault, TypeOK, ConstantsOK
  <2> QED BY <1>1, <1>2, <1>3, <2>1, <2>2 DEF ConnectRefused, TypeOK
<1>4. ASSUME DeleteSession(a) PROVE Goal
  <2>1. act' = [act EXCEPT ![a] = Idle("call")]
    BY <1>4 DEF DeleteSession, Continue
  <2> QED BY <1>1, <1>2, <1>4, <2>1 DEF DeleteSession, TypeOK, bounds
<1>5. ASSUME RevokeRead(a) PROVE Goal
  <2>1. PICK pc \in {"revoke", "delete", "waiting"} :
          act' = [act EXCEPT ![a].saw = store, ![a].pc = pc]
    BY <1>5 DEF RevokeRead, AfterRevoke
  <2>2. /\ act' \in [Actor -> ActorRecord] /\ act'[a].pc = pc
        /\ act'[a].client = act[a].client
        /\ \A b \in Actor : b # a => act'[b] = act[b]
    BY <1>1, <2>1 DEF ActorRecord, PC
  <2> QED BY <1>5, <2>2 DEF RevokeRead, TypeOK, bounds
<1>6. ASSUME Revoke(a) PROVE Goal
  <2>1. PICK pc \in {"delete", "waiting"} :
          act' = [act EXCEPT ![a].saw = None, ![a].pc = pc]
    BY <1>6 DEF Revoke, AfterRevoke
  <2>2. /\ act' \in [Actor -> ActorRecord] /\ act'[a].pc = pc
        /\ act'[a].client = act[a].client
        /\ \A b \in Actor : b # a => act'[b] = act[b]
    BY <1>1, <2>1 DEF ActorRecord, PC
  <2>3. faults' \in 0..MaxFaults
    BY <1>6 DEF Revoke, Fault, TypeOK, ConstantsOK
  <2> QED BY <1>6, <2>2, <2>3 DEF Revoke, TypeOK
<1>7. ASSUME \E op \in Operation : Ask(a, op) PROVE Goal
  <2>1. PICK op \in Operation : Ask(a, op) BY <1>7
  <2>2. PICK pc \in {"revokeRead", "waiting"} :
          act' = [act EXCEPT ![a].op = op, ![a].pc = pc]
    BY <2>1 DEF Ask
  <2>3. /\ act' \in [Actor -> ActorRecord] /\ act'[a].pc = pc
        /\ act'[a].client = act[a].client
        /\ \A b \in Actor : b # a => act'[b] = act[b]
    BY <1>1, <2>2 DEF ActorRecord, PC
  <2>4. operations' \in 0..MaxOperations /\ act[a].pc = "idle"
    BY <2>1 DEF Ask, Begins, TypeOK, ConstantsOK
  <2> QED BY <2>1, <2>3, <2>4 DEF Ask, TypeOK
<1>8. Goal BY <1>3, <1>4, <1>5, <1>6, <1>7
<1>9. Walks(a)
  BY <1>8 DEF Walks, WithClient, InCall
<1> QED BY <1>1, <1>8, <1>9, WalkingKeepsInv

\* A login of the CLI writes the session store only.
LEMMA AuthLoginKeepsInv ==
  ASSUME ConstantsOK, SessionInv, NEW a \in Admin, AuthLogin(a)
  PROVE  SessionInv'
<1> USE DEF SessionInv
<1>1. store' \in Session /\ live' \subseteq Sid
  BY NewSidIsOne DEF AuthLogin, Session, TypeOK
<1>2. operations' \in 0..MaxOperations
  BY DEF AuthLogin, Begins, TypeOK, ConstantsOK
<1>3. TypeOK' BY <1>1, <1>2 DEF AuthLogin, TypeOK
<1> QED BY <1>3, OutsideKeepsInv DEF AuthLogin

\* DSM drops a session.
LEMMA ExpireKeepsInv ==
  ASSUME ConstantsOK, SessionInv, Expire
  PROVE  SessionInv'
<1> USE DEF SessionInv
<1>1. TypeOK' BY DEF Expire, Fault, TypeOK, ConstantsOK
<1> QED BY <1>1, OutsideKeepsInv DEF Expire

-----------------------------------------------------------------------------
(***************************************************************************)
(* Resolving: a hit, and the evictions of ClientMiss, MutateProfile and    *)
(* TakeGate.                                                               *)
(***************************************************************************)
LEMMA HitKeepsInv ==
  ASSUME ConstantsOK, SessionInv, NEW r \in Request, ClientHit(r)
  PROVE  SessionInv'
<1> USE DEF SessionInv
<1>0. /\ r \in Actor /\ r \notin Admin /\ Request \subseteq Actor /\ Admin \subseteq Actor
      /\ act \in [Actor -> ActorRecord] /\ act[r] \in ActorRecord
      /\ Home[r] \in Process /\ cache[Home[r]] \in Client \union {None}
  BY DEF Actor, ConstantsOK, TypeOK
<1>1. /\ act[r].pc = "idle" /\ cache[Home[r]] \in Client
      /\ UNCHANGED <<revision, cache, client>>
  BY <1>0 DEF ClientHit
<1>2. /\ act' \in [Actor -> ActorRecord]
      /\ act'[r].pc = "ready" /\ act'[r].client = cache[Home[r]]
      /\ \A b \in Actor : b # r => act'[b] = act[b]
  <2>1. act' = [act EXCEPT ![r] = [act[r] EXCEPT !.pc = "ready", !.client = cache[Home[r]],
                                               !.served = FALSE]]
    BY <1>0 DEF ClientHit, ActorRecord
  <2> QED BY <1>0, <2>1, ZenonT(60) DEF ActorRecord, PC
<1>3. TypeOK' BY <1>2 DEF ClientHit, TypeOK, bounds
<1>4. PlacesKept' BY <1>0, <1>1, <1>2 DEF PlacesKept
<1>5. MutexHeld' BY <1>0, <1>1, <1>2 DEF MutexHeld, InCall
<1>6. SidsThere' BY <1>0, <1>1, <1>2 DEF SidsThere
<1>7. Unshared' BY <1>0, <1>1, <1>2 DEF Unshared
<1>8. GateHeld' BY <1>0, <1>1, <1>2 DEF GateHeld, Holding, Reading
<1>9. RevisionRead' BY <1>0, <1>1, <1>2 DEF RevisionRead, Reading
<1>10. OpenClientOwned' BY <1>0, <1>1, <1>2 DEF OpenClientOwned
<1> QED BY <1>3, <1>4, <1>5, <1>6, <1>7, <1>8, <1>9, <1>10

\* The goroutine takes the client out of the cache of its process, to close
\* it if there is one.
Evicts(a) ==
  /\ act[a].pc \in {"idle", "waiting"}
  /\ cache' = [cache EXCEPT ![Home[a]] = None]
  /\ client' = client
  /\ act'[a].client = cache[Home[a]]
  /\ IF cache[Home[a]] = None THEN act'[a].pc \in {"reading", "connect", "idle"}
                              ELSE act'[a].pc = "closing"
  /\ \A b \in Actor : b # a => act'[b] = act[b]

\* An eviction hands the client to the one who evicts it, who will close it.
LEMMA EvictingKeepsInv ==
  ASSUME ConstantsOK, SessionInv, NEW a \in Actor, Evicts(a), TypeOK',
         a \in Request => /\ Reading(a)' /\ act'[a].rev = revision'
                          /\ MayRead(Home[a]) /\ revision' = revision,
         a \in Admin => /\ MayWrite(Home[a])
                        /\ act'[a].pc = "connect" => act'[a].op = "connect",
         revision' # revision => \A b \in Actor : Home[b] = Home[a]
  PROVE  SessionInv'
<1> USE DEF SessionInv
<1>0. /\ None \notin Actor /\ None \notin Client /\ Request \intersect Admin = {}
      /\ Request \subseteq Actor /\ Admin \subseteq Actor
      /\ cache \in [Process -> Client \union {None}]
      /\ \A b \in Actor : Home[b] \in Process
  BY DEF ConstantsOK, Actor, TypeOK
<1>1. /\ \A p \in Process : /\ p # Home[a] => cache'[p] = cache[p]
                           /\ cache'[p] \in {None, cache[p]}
      /\ cache'[Home[a]] = None
  BY <1>0 DEF Evicts
<1>2. act'[a].pc \in {"closing", "reading", "connect", "idle"}
  BY DEF Evicts
<1>4. PlacesKept'
  BY <1>0, <1>1 DEF Evicts, PlacesKept, WithClient, InCall
<1>5. MutexHeld'
  BY <1>0, <1>2 DEF Evicts, MutexHeld, InCall
<1>6. SidsThere'
  BY <1>0, <1>2 DEF Evicts, SidsThere
<1>7. Unshared'
  <2>1. \A b \in Actor : act'[b].pc \in {"inserting", "store"} =>
          b # a /\ act'[b] = act[b] /\ act[b].client \in Client
    BY <1>2 DEF Evicts, PlacesKept, WithClient
  <2> QED BY <1>0, <1>1, <2>1 DEF Evicts, Unshared
<1>8. GateHeld'
  <2> SUFFICES ASSUME NEW b \in Admin, Holding(b)'
               PROVE  /\ cache'[Home[b]] = None
                      /\ \A r \in Request : Home[r] = Home[b] => ~Reading(r)'
                      /\ \A d \in Admin : Home[d] = Home[b] /\ Holding(d)' => d = b
    BY DEF GateHeld
  <2>1. CASE b = a
    BY <1>0, <1>1, <2>1 DEF Evicts, MayWrite, Reading, Holding
  <2>2. CASE b # a
    <3>1. Holding(b)
      BY <1>0, <2>2 DEF Evicts, Holding
    <3>2. cache'[Home[b]] = None
      BY <1>0, <1>1, <3>1 DEF GateHeld
    <3>3. ASSUME NEW r \in Request, Home[r] = Home[b] PROVE ~Reading(r)'
      <4>1. r # a
        BY <3>1, <3>3 DEF MayRead
      <4> QED BY <1>0, <3>1, <3>3, <4>1 DEF Evicts, Reading, GateHeld
    <3>4. ASSUME NEW d \in Admin, Home[d] = Home[b], Holding(d)' PROVE d = b
      <4>1. d # a
        BY <3>1, <3>4 DEF MayWrite
      <4> QED BY <1>0, <3>1, <3>4, <4>1 DEF Evicts, Holding, GateHeld
    <3> QED BY <3>2, <3>3, <3>4
  <2> QED BY <2>1, <2>2
<1>9. RevisionRead'
  <2>1. ASSUME NEW r \in Request, Reading(r)'
        PROVE  /\ act'[r].rev = revision'
               /\ cache'[Home[r]] # None => client'[cache'[Home[r]]].rev = revision'
               /\ act'[r].pc = "inserting" => client'[act'[r].client].rev = revision'
    <3>1. CASE r = a
      BY <1>1, <1>2, <2>1, <3>1
    <3>2. CASE r # a
      <4>1. act'[r] = act[r] /\ Reading(r)
        BY <1>0, <2>1, <3>2 DEF Evicts, Reading
      <4>2. revision' = revision
        BY <1>0, <3>2, <4>1 DEF MayWrite, Actor
      <4> QED BY <1>0, <1>1, <4>1, <4>2 DEF Evicts, RevisionRead
    <3> QED BY <3>1, <3>2
  <2> QED BY <2>1 DEF RevisionRead
<1>10. OpenClientOwned'
  <2> SUFFICES ASSUME NEW c \in Client, client[c].open
               PROVE  \/ \E p \in Process : cache'[p] = c
                      \/ \E b \in Actor : act'[b].client = c
                                          /\ act'[b].pc \in {"inserting", "closing", "store"}
    BY DEF OpenClientOwned, Evicts
  <2>1. CASE \E p \in Process : cache[p] = c
    BY <1>0, <1>1, <2>1 DEF Evicts
  <2>2. CASE \E b \in Actor : act[b].client = c /\ act[b].pc \in {"inserting", "closing", "store"}
    BY <2>2 DEF Evicts
  <2> QED BY <2>1, <2>2 DEF OpenClientOwned
<1> QED BY <1>4, <1>5, <1>6, <1>7, <1>8, <1>9, <1>10

\* A resolution that finds no client, or one of an old revision.
LEMMA MissKeepsInv ==
  ASSUME ConstantsOK, SessionInv, NEW r \in Request, ClientMiss(r)
  PROVE  SessionInv'
<1> USE DEF SessionInv
<1>0. /\ r \in Actor /\ r \notin Admin
      /\ act \in [Actor -> ActorRecord] /\ act[r] \in ActorRecord
      /\ Home[r] \in Process /\ cache \in [Process -> Client \union {None}]
      /\ revision \in Nat
  BY DEF Actor, ConstantsOK, TypeOK
<1>1. PICK pc \in {"reading", "closing"} :
        /\ act' = [act EXCEPT ![r].pc = pc, ![r].client = cache[Home[r]],
                              ![r].rev = revision, ![r].served = FALSE]
        /\ pc = "reading" <=> cache[Home[r]] = None
  BY DEF ClientMiss
<1>2. /\ act' \in [Actor -> ActorRecord] /\ act'[r].pc = pc
      /\ act'[r].client = cache[Home[r]] /\ act'[r].rev = revision
      /\ \A b \in Actor : b # r => act'[b] = act[b]
  BY <1>0, <1>1, ZenonT(60) DEF ActorRecord, PC
<1>3. TypeOK'
  BY <1>0, <1>2 DEF ClientMiss, TypeOK, bounds
<1>4. Evicts(r)
  BY <1>1, <1>2 DEF ClientMiss, Evicts
<1>5. Reading(r)' /\ MayRead(Home[r]) /\ revision' = revision
  BY <1>1, <1>2 DEF Reading, ClientMiss
<1> QED BY <1>0, <1>2, <1>3, <1>4, <1>5, EvictingKeepsInv

\* Where Continue leaves an administrator.
LEMMA Continuing ==
  ASSUME ConstantsOK, TypeOK, NEW a \in Admin, NEW pc \in PC, NEW c \in Client \union {None},
         act' = Continue(a, pc, c)
  PROVE  /\ act' \in [Actor -> ActorRecord]
         /\ act'[a].pc = pc
         /\ act'[a].client = (IF pc = "idle" THEN None ELSE c)
         /\ pc # "idle" => act'[a].op = act[a].op
         /\ \A b \in Actor : b # a => act'[b] = act[b]
<1>1. a \in Actor /\ act \in [Actor -> ActorRecord] /\ act[a] \in ActorRecord
  BY DEF Actor, TypeOK
<1>2. CASE pc = "idle"
  <2>1. Idle("call") \in ActorRecord /\ Idle("call").pc = "idle" /\ Idle("call").client = None
    BY DEF Idle, ActorRecord, PC
  <2>2. act' = [act EXCEPT ![a] = Idle("call")]
    BY <1>2 DEF Continue
  <2> QED BY <1>1, <1>2, <2>1, <2>2
<1>3. CASE pc # "idle"
  <2>1. act' = [act EXCEPT ![a] = [act[a] EXCEPT !.pc = pc, !.client = c]]
    BY <1>3 DEF Continue
  <2> DEFINE y == [act[a] EXCEPT !.pc = pc, !.client = c]
  <2>2. y \in ActorRecord /\ y.pc = pc /\ y.client = c /\ y.op = act[a].op
    BY <1>1 DEF ActorRecord
  <2> HIDE DEF y
  <2>3. act'[a] = y /\ act' \in [Actor -> ActorRecord]
        /\ \A b \in Actor : b # a => act'[b] = act[b]
    BY <1>1, <2>1, <2>2 DEF y
  <2> QED BY <1>3, <2>2, <2>3
<1> QED BY <1>2, <1>3

\* A change of the profile, which commits under the gate.
LEMMA MutateKeepsInv ==
  ASSUME ConstantsOK, SessionInv, NEW a \in Admin, MutateProfile(a)
  PROVE  SessionInv'
<1> USE DEF SessionInv
<1>0. /\ a \in Actor /\ a \notin Request /\ act[a] \in ActorRecord
      /\ Home[a] \in Process /\ cache \in [Process -> Client \union {None}]
      /\ cache[Home[a]] \in Client \union {None}
      /\ revision \in Nat \ {0}
  BY DEF Actor, ConstantsOK, TypeOK
<1>1. /\ act[a].pc = "waiting" /\ act[a].op \in Mutation /\ MayWrite(Home[a])
      /\ cache' = [cache EXCEPT ![Home[a]] = None]
      /\ UNCHANGED <<client, faults, operations>>
  BY DEF MutateProfile, bounds
<1>2. PICK pc \in {"idle", "closing"} :
        /\ act' = Continue(a, pc, cache[Home[a]])
        /\ pc = "idle" <=> cache[Home[a]] = None
  BY DEF MutateProfile
<1>3. pc \in PC BY DEF PC
<1>4. /\ act' \in [Actor -> ActorRecord] /\ act'[a].pc = pc
      /\ act'[a].client = cache[Home[a]]
      /\ \A b \in Actor : b # a => act'[b] = act[b]
  BY <1>0, <1>2, <1>3, Continuing
<1>5. revision' \in Nat \ {0}
  <2>1. revision' \in {revision, revision + 1}
    BY <1>1 DEF MutateProfile, NextRevision, Mutation
  <2> QED BY <1>0, <2>1
<1>6. store' \in Session \union {None} /\ live' \subseteq Sid
  <2>1. CASE act[a].op = "enroll"
    <3>1. store' = [sid |-> NewSid, keys |-> TRUE] /\ Issues
      BY <2>1 DEF MutateProfile
    <3> QED BY <3>1, NewSidIsOne DEF Session, TypeOK
  <2>2. CASE act[a].op = "forget"
    BY <2>2 DEF MutateProfile, TypeOK
  <2>3. CASE act[a].op = "update"
    BY <2>3 DEF MutateProfile, TypeOK
  <2> QED BY <1>1, <2>1, <2>2, <2>3 DEF Mutation
<1>7. TypeOK'
  BY <1>0, <1>1, <1>4, <1>5, <1>6 DEF TypeOK
<1>8. Evicts(a)
  BY <1>1, <1>2, <1>4 DEF Evicts
<1>9. \A b \in Actor : Home[b] = Home[a]
  <2>1. act[a].op \in Operation
    BY <1>0, <1>1 DEF ActorRecord, Mutation
  <2> QED BY <1>0, <1>1, <2>1 DEF ConstantsOK
<1> QED BY <1>0, <1>1, <1>4, <1>7, <1>8, <1>9, EvictingKeepsInv

\* An administrator takes the gate and evicts.
LEMMA TakeGateKeepsInv ==
  ASSUME ConstantsOK, SessionInv, NEW a \in Admin, TakeGate(a)
  PROVE  SessionInv'
<1> USE DEF SessionInv
<1>0. /\ a \in Actor /\ a \notin Request
      /\ Home[a] \in Process /\ cache \in [Process -> Client \union {None}]
      /\ cache[Home[a]] \in Client \union {None}
  BY DEF Actor, ConstantsOK, TypeOK
<1>1. /\ act[a].pc = "waiting" /\ act[a].op \in Exclusive /\ MayWrite(Home[a])
      /\ cache' = [cache EXCEPT ![Home[a]] = None]
      /\ UNCHANGED <<revision, store, live, client, faults, operations>>
  BY DEF TakeGate, bounds
<1>2. PICK pc \in {"idle", "connect", "closing"} :
        /\ act' = Continue(a, pc, cache[Home[a]])
        /\ pc = "closing" <=> cache[Home[a]] # None
        /\ pc = "connect" => act[a].op = "connect"
  BY <1>0 DEF TakeGate, AfterClose
<1>3. pc \in PC BY DEF PC
<1>4. /\ act' \in [Actor -> ActorRecord] /\ act'[a].pc = pc
      /\ act'[a].client = cache[Home[a]]
      /\ pc # "idle" => act'[a].op = act[a].op
      /\ \A b \in Actor : b # a => act'[b] = act[b]
  BY <1>0, <1>2, <1>3, Continuing
<1>5. TypeOK'
  BY <1>0, <1>1, <1>4 DEF TypeOK
<1>6. Evicts(a)
  BY <1>1, <1>2, <1>4 DEF Evicts
<1> QED BY <1>0, <1>1, <1>2, <1>4, <1>5, <1>6, EvictingKeepsInv

-----------------------------------------------------------------------------
(***************************************************************************)
(* New clients: Build and Connect allocate one, Insert and Connected       *)
(* publish it.                                                             *)
(***************************************************************************)
Allocates(a, x) ==
  /\ act[a].pc \in {"reading", "connect"} /\ act'[a].pc \in {"inserting", "store"}
  /\ act'[a].client = NewClient
  /\ \A b \in Actor : b # a => act'[b] = act[b]
  /\ client' = [client EXCEPT ![NewClient] = x]
  /\ cache' = cache /\ revision' = revision

\* A client that is made belongs to the one who makes it.
LEMMA AllocatingKeepsInv ==
  ASSUME ConstantsOK, SessionInv, NEW a \in Actor, NEW x, MayAllocate, Allocates(a, x), TypeOK',
         x.rev = revision,
         act'[a].pc = "store" => x.sid \in Sid,
         a \in Admin => /\ act'[a].op = "connect"
                        /\ Holding(a)' => Holding(a),
         a \in Request => /\ Reading(a)' => Reading(a) /\ act'[a].rev = act[a].rev
                          /\ ~(act'[a].pc = "store")
  PROVE  SessionInv'
<1> USE DEF SessionInv
<1>0. /\ None \notin Actor /\ None \notin Client /\ Request \intersect Admin = {}
      /\ Request \subseteq Actor /\ Admin \subseteq Actor
      /\ cache \in [Process -> Client \union {None}]
      /\ \A b \in Actor : Home[b] \in Process
      /\ client \in [Client -> ClientRecord]
  BY DEF ConstantsOK, Actor, TypeOK
<1>1. /\ NewClient \in Client
      /\ \A b \in Actor : act[b].client # NewClient
      /\ \A p \in Process : cache[p] # NewClient
  BY NewClientIsFresh DEF Reachable
<1>2. /\ client'[NewClient] = x
      /\ \A c \in Client : c # NewClient => client'[c] = client[c]
  BY <1>0, <1>1 DEF Allocates
<1>4. PlacesKept'
  BY <1>0, <1>1 DEF Allocates, PlacesKept
<1>5. MutexHeld'
  BY <1>0, <1>1, <1>2 DEF Allocates, MutexHeld, InCall, PlacesKept, WithClient
<1>6. SidsThere'
  BY <1>0, <1>1, <1>2 DEF Allocates, SidsThere, PlacesKept, WithClient, InCall
<1>7. Unshared'
  BY <1>0, <1>1 DEF Allocates, Unshared
<1>8. GateHeld'
  <2>1. \A b \in Admin : Holding(b)' => Holding(b)
    BY <1>0 DEF Allocates, Holding
  <2>2. \A b \in Request : Reading(b)' => Reading(b)
    BY <1>0 DEF Allocates, Reading
  <2> QED BY <2>1, <2>2 DEF Allocates, GateHeld
<1>9. RevisionRead'
  <2>1. \A b \in Request : Reading(b)' => Reading(b) /\ act'[b].rev = act[b].rev
    BY <1>0 DEF Allocates, Reading
  <2>2. \A b \in Request : act'[b].pc = "inserting" /\ b # a =>
          act'[b] = act[b] /\ act[b].client \in Client
    BY <1>0 DEF Allocates, PlacesKept, WithClient
  <2> QED BY <1>0, <1>1, <1>2, <2>1, <2>2 DEF Allocates, RevisionRead
<1>10. OpenClientOwned'
  BY <1>0, <1>1, <1>2 DEF Allocates, OpenClientOwned
<1> QED BY <1>4, <1>5, <1>6, <1>7, <1>8, <1>9, <1>10

\* A request builds a client from the stored session.
LEMMA BuildKeepsInv ==
  ASSUME ConstantsOK, SessionInv, NEW r \in Request, Build(r)
  PROVE  SessionInv'
<1> USE DEF SessionInv
<1>0. /\ r \in Actor /\ r \notin Admin
      /\ act \in [Actor -> ActorRecord] /\ act[r] \in ActorRecord
      /\ client \in [Client -> ClientRecord] /\ store \in Session \union {None}
      /\ revision \in Nat
  BY DEF Actor, ConstantsOK, TypeOK
<1>1. act[r].pc = "reading" /\ act[r].rev = revision /\ MayAllocate
  BY DEF Build, RevisionRead, Reading
<1>2. NewClient \in Client BY <1>1, NewClientIsFresh
<1> DEFINE x == IF store # None THEN SeededClient(act[r].rev) ELSE PasswordClient(act[r].rev)
<1>3. x \in ClientRecord /\ x.rev = revision
  BY <1>0, <1>1 DEF SeededClient, PasswordClient, Unused, ClientRecord, Kind, Session
<1>4. client' = [client EXCEPT ![NewClient] = x]
  BY DEF Build
<1>5. /\ act' \in [Actor -> ActorRecord]
      /\ act'[r].pc = "inserting" /\ act'[r].client = NewClient /\ act'[r].rev = act[r].rev
      /\ \A b \in Actor : b # r => act'[b] = act[b]
  BY <1>0, <1>2 DEF Build, ActorRecord, PC
<1> HIDE DEF x
<1>6. TypeOK'
  BY <1>0, <1>2, <1>3, <1>4, <1>5 DEF Build, TypeOK, bounds
<1>7. Allocates(r, x)
  BY <1>1, <1>4, <1>5 DEF Build, Allocates
<1>8. Reading(r) BY <1>1 DEF Reading
<1> QED BY <1>0, <1>1, <1>3, <1>5, <1>6, <1>7, <1>8, AllocatingKeepsInv

\* A connect logs in with a client of its own.
LEMMA ConnectKeepsInv ==
  ASSUME ConstantsOK, SessionInv, NEW a \in Admin, Connect(a)
  PROVE  SessionInv'
<1> USE DEF SessionInv
<1>0. /\ a \in Actor /\ a \notin Request /\ act[a] \in ActorRecord
      /\ client \in [Client -> ClientRecord] /\ revision \in Nat
  BY DEF Actor, ConstantsOK, TypeOK
<1>1. /\ act[a].pc = "connect" /\ act[a].op = "connect" /\ MayAllocate /\ Issues
      /\ act' = Continue(a, "store", NewClient)
  BY DEF Connect, PlacesKept
<1>2. NewClient \in Client /\ NewSid \in Sid /\ live' \subseteq Sid
  BY <1>1, NewClientIsFresh, NewSidIsOne DEF TypeOK
<1> DEFINE x == [Unused EXCEPT !.rev = revision, !.kind = "connected", !.open = TRUE,
                               !.sid = NewSid]
<1>3. x \in ClientRecord /\ x.rev = revision /\ x.sid \in Sid
  BY <1>0, <1>2 DEF Unused, ClientRecord, Kind
<1>4. client' = [client EXCEPT ![NewClient] = x]
  BY DEF Connect
<1>5. "store" \in PC BY DEF PC
<1>6. /\ act' \in [Actor -> ActorRecord]
      /\ act'[a].pc = "store" /\ act'[a].client = NewClient /\ act'[a].op = act[a].op
      /\ \A b \in Actor : b # a => act'[b] = act[b]
  BY <1>1, <1>2, <1>5, Continuing
<1> HIDE DEF x
<1>7. TypeOK'
  BY <1>0, <1>2, <1>3, <1>4, <1>6 DEF Connect, TypeOK, bounds
<1>8. Allocates(a, x)
  BY <1>1, <1>4, <1>6 DEF Connect, Allocates
<1>9. Holding(a) BY <1>1 DEF Holding, Exclusive
<1> QED BY <1>0, <1>1, <1>3, <1>6, <1>7, <1>8, <1>9, AllocatingKeepsInv

\* What a request publishes, or finds published, is of the committed
\* revision; an entry that is there is kept, so none is lost open.
InsertFrame(r) ==
  /\ act[r].pc = "inserting" /\ act[r].client \in Client
  /\ act'[r].pc = "ready" /\ act'[r].client = cache'[Home[r]]
  /\ \A b \in Actor : b # r => act'[b] = act[b]
  /\ cache'[Home[r]] \in Client
  /\ cache'[Home[r]] = (IF cache[Home[r]] = None THEN act[r].client ELSE cache[Home[r]])
  /\ \A p \in Process : p # Home[r] => cache'[p] = cache[p]
  /\ client[cache'[Home[r]]].rev = revision
  /\ \A c \in Client : /\ Reachable(c, cache', act') => client'[c] = client[c]
                       /\ ~Reachable(c, cache', act') => ~client'[c].open
  /\ revision' = revision

\* An insertion touches the cache, the request and its client only.
LEMMA InsertKeepsFrame ==
  ASSUME ConstantsOK, SessionInv, NEW r \in Request, Insert(r)
  PROVE  InsertFrame(r) /\ TypeOK'
<1> USE DEF SessionInv
<1>0. /\ r \in Actor /\ act \in [Actor -> ActorRecord] /\ act[r] \in ActorRecord
      /\ client \in [Client -> ClientRecord]
      /\ Home[r] \in Process /\ cache \in [Process -> Client \union {None}]
      /\ None \notin Client
  BY DEF Actor, ConstantsOK, TypeOK
<1>1. /\ act[r].pc = "inserting" /\ act[r].client \in Client /\ act[r].rev = revision
      /\ client[act[r].client].rev = revision
      /\ cache[Home[r]] # None => client[cache[Home[r]]].rev = revision
  BY <1>0 DEF Insert, PlacesKept, WithClient, RevisionRead, Reading
<1>2. cache' = IF cache[Home[r]] = None THEN [cache EXCEPT ![Home[r]] = act[r].client]
                                       ELSE cache
  BY <1>1 DEF Insert
<1>3. /\ cache'[Home[r]] = (IF cache[Home[r]] = None THEN act[r].client ELSE cache[Home[r]])
      /\ \A p \in Process : p # Home[r] => cache'[p] = cache[p]
      /\ cache' \in [Process -> Client \union {None}]
  BY <1>0, <1>1, <1>2
<1>4. cache'[Home[r]] \in Client /\ client[cache'[Home[r]]].rev = revision
  BY <1>0, <1>1, <1>3
<1>5. act' = [act EXCEPT ![r].pc = "ready", ![r].client = cache'[Home[r]], ![r].rev = 0]
  BY DEF Insert
<1>6. /\ act' \in [Actor -> ActorRecord]
      /\ act'[r].pc = "ready" /\ act'[r].client = cache'[Home[r]]
      /\ \A b \in Actor : b # r => act'[b] = act[b]
  BY <1>0, <1>4, <1>5 DEF ActorRecord, PC
<1>7. client' = Collected(client, cache', act') /\ UNCHANGED <<revision, store, live, faults, operations>>
  BY DEF Insert, bounds
<1>8. ~Unused.open BY DEF Unused
<1>9. \A c \in Client : /\ Reachable(c, cache', act') => client'[c] = client[c]
                        /\ ~Reachable(c, cache', act') => ~client'[c].open
  BY <1>7, <1>8, Collecting
<1>10. TypeOK'
  BY <1>0, <1>3, <1>6, <1>7, CollectedTypes DEF TypeOK
<1> QED BY <1>1, <1>3, <1>4, <1>6, <1>7, <1>9, <1>10 DEF InsertFrame

\* An insertion gives the client to the cache, or discards it for one that is there.
LEMMA InsertKeepsInv ==
  ASSUME ConstantsOK, SessionInv, NEW r \in Request, Insert(r)
  PROVE  SessionInv'
<1> USE DEF SessionInv
<1>0. /\ r \in Actor /\ r \notin Admin
      /\ None \notin Actor /\ None \notin Client /\ Request \intersect Admin = {}
      /\ Request \subseteq Actor /\ Admin \subseteq Actor
      /\ cache \in [Process -> Client \union {None}]
      /\ \A b \in Actor : Home[b] \in Process
  BY DEF ConstantsOK, Actor, TypeOK
<1>1. InsertFrame(r) /\ TypeOK' BY InsertKeepsFrame
<1>2. /\ \A b \in Actor : Reachable(act'[b].client, cache', act')
      /\ \A p \in Process : Reachable(cache'[p], cache', act')
  BY DEF Reachable
<1>3. \A p \in Process : cache[p] # act[r].client
  BY <1>0, <1>1 DEF InsertFrame, Unshared
<1>4. PlacesKept'
  BY <1>0, <1>1 DEF InsertFrame, PlacesKept
<1>5. MutexHeld'
  BY <1>0, <1>1, <1>2 DEF InsertFrame, MutexHeld, InCall, PlacesKept, WithClient
<1>6. SidsThere'
  BY <1>0, <1>1, <1>2, SMTT(30) DEF InsertFrame, SidsThere, InCall, PlacesKept, WithClient
<1>7. Unshared'
  <2>1. \A b \in Actor : act'[b].pc \in {"inserting", "store"} =>
          b # r /\ act'[b] = act[b] /\ act[b].client # act[r].client
    BY <1>0, <1>1 DEF InsertFrame, Unshared
  <2> QED BY <1>0, <1>1, <2>1 DEF InsertFrame, Unshared
<1>8. GateHeld'
  <2>1. \A b \in Admin : Holding(b)' => Holding(b)
    BY <1>0, <1>1 DEF InsertFrame, Holding
  <2>2. \A b \in Request : Reading(b)' => Reading(b)
    BY <1>0, <1>1 DEF InsertFrame, Reading
  <2>3. Reading(r) BY <1>1 DEF InsertFrame, Reading
  <2> QED BY <1>0, <1>1, <2>1, <2>2, <2>3 DEF InsertFrame, GateHeld
<1>9. RevisionRead'
  <2>1. \A b \in Request : Reading(b)' => b # r /\ Reading(b) /\ act'[b] = act[b]
    BY <1>0, <1>1 DEF InsertFrame, Reading
  <2>2. \A b \in Request : act[b].pc = "inserting" => act[b].client \in Client
    BY <1>0 DEF PlacesKept, WithClient
  <2>3. ASSUME NEW b \in Request, Reading(b)', cache'[Home[b]] # None
        PROVE  client'[cache'[Home[b]]].rev = revision
    <3>1. client'[cache'[Home[b]]] = client[cache'[Home[b]]]
      BY <1>0, <1>1, <1>2, <2>3 DEF InsertFrame
    <3> QED BY <1>0, <1>1, <2>1, <2>3, <3>1 DEF InsertFrame, RevisionRead
  <2> QED BY <1>0, <1>1, <1>2, <2>1, <2>2, <2>3 DEF InsertFrame, RevisionRead
<1>10. OpenClientOwned'
  <2> SUFFICES ASSUME NEW c \in Client, client'[c].open
               PROVE  \/ \E p \in Process : cache'[p] = c
                      \/ \E b \in Actor : act'[b].client = c
                                          /\ act'[b].pc \in {"inserting", "closing", "store"}
    BY DEF OpenClientOwned
  <2>1. client[c].open /\ Reachable(c, cache', act')
    BY <1>1 DEF InsertFrame
  <2>2. CASE \E p \in Process : cache[p] = c
    BY <1>0, <1>1, <2>2 DEF InsertFrame
  <2>3. CASE \E b \in Actor : b # r /\ act[b].client = c
                              /\ act[b].pc \in {"inserting", "closing", "store"}
    BY <1>1, <2>3 DEF InsertFrame
  <2>4. CASE act[r].client = c
    <3>1. \A b \in Actor : b # r => act'[b].client # c
      BY <1>0, <1>1, <2>4 DEF InsertFrame, Unshared
    <3>2. \E p \in Process : cache'[p] = c
      BY <1>0, <1>1, <2>1, <3>1 DEF InsertFrame, Reachable
    <3> QED BY <3>2
  <2> QED BY <2>1, <2>2, <2>3, <2>4 DEF OpenClientOwned
<1> QED BY <1>1, <1>4, <1>5, <1>6, <1>7, <1>8, <1>9, <1>10

\* A connect that has stored its session gives its client to the cache.
LEMMA ConnectedKeepsInv ==
  ASSUME ConstantsOK, SessionInv, NEW a \in Admin, Connected(a)
  PROVE  SessionInv'
<1> USE DEF SessionInv
<1>0. /\ a \in Actor /\ a \notin Request
      /\ None \notin Actor /\ None \notin Client /\ Request \intersect Admin = {}
      /\ Request \subseteq Actor /\ Admin \subseteq Actor
      /\ cache \in [Process -> Client \union {None}]
      /\ \A b \in Actor : Home[b] \in Process
  BY DEF ConstantsOK, Actor, TypeOK
<1>1. /\ act[a].pc = "store" /\ act[a].client \in Client /\ Holding(a)
      /\ cache[Home[a]] = None /\ client[act[a].client].sid \in Sid
      /\ act' = Continue(a, "idle", None)
      /\ cache' = [cache EXCEPT ![Home[a]] = act[a].client]
      /\ UNCHANGED <<revision, live, client, faults, operations>>
  BY <1>0 DEF Connected, PlacesKept, WithClient, Holding, Exclusive, GateHeld, SidsThere, bounds
<1>2. "idle" \in PC BY DEF PC
<1>3. /\ act' \in [Actor -> ActorRecord]
      /\ act'[a].pc = "idle" /\ act'[a].client = None
      /\ \A b \in Actor : b # a => act'[b] = act[b]
  BY <1>1, <1>2, Continuing
<1>4. /\ cache'[Home[a]] = act[a].client
      /\ \A p \in Process : p # Home[a] => cache'[p] = cache[p]
      /\ cache' \in [Process -> Client \union {None}]
  BY <1>0, <1>1
<1>5. store' \in Session
  BY <1>1 DEF Connected, Session
<1>6. TypeOK'
  BY <1>1, <1>3, <1>4, <1>5 DEF TypeOK
<1>7. PlacesKept'
  BY <1>0, <1>3 DEF PlacesKept, WithClient, InCall
<1>8. MutexHeld'
  BY <1>0, <1>1, <1>3 DEF MutexHeld
<1>9. SidsThere'
  BY <1>0, <1>1, <1>3 DEF SidsThere
<1>10. Unshared'
  <2>1. \A b \in Actor : act'[b].pc \in {"inserting", "store"} =>
          /\ b # a /\ act'[b] = act[b] /\ act[b].client # act[a].client
          /\ act[b].client \in Client
    BY <1>0, <1>1, <1>3 DEF Unshared, PlacesKept, WithClient
  <2> QED BY <1>0, <1>3, <1>4, <2>1 DEF Unshared
<1>11. GateHeld'
  <2>1. \A b \in Admin : Holding(b)' => Holding(b) /\ Home[b] # Home[a]
    BY <1>0, <1>1, <1>3 DEF Holding, GateHeld
  <2>2. \A b \in Request : Reading(b)' => Reading(b)
    BY <1>0, <1>3 DEF Reading
  <2> QED BY <1>0, <1>4, <2>1, <2>2 DEF GateHeld
<1>12. RevisionRead'
  <2>1. \A b \in Request : Reading(b)' => /\ Reading(b) /\ act'[b] = act[b]
                                          /\ Home[b] # Home[a]
    BY <1>0, <1>1, <1>3 DEF Reading, GateHeld
  <2> QED BY <1>0, <1>1, <1>4, <2>1 DEF RevisionRead
<1>13. OpenClientOwned'
  BY <1>0, <1>1, <1>3, <1>4 DEF OpenClientOwned
<1> QED BY <1>6, <1>7, <1>8, <1>9, <1>10, <1>11, <1>12, <1>13

-----------------------------------------------------------------------------
(***************************************************************************)
(* The theorems.                                                           *)
(***************************************************************************)
LEMMA SessionInit == ASSUME ConstantsOK, Init PROVE SessionInv
<1>1. Unused \in ClientRecord /\ ~Unused.open
  BY DEF Unused, ClientRecord, Kind
<1>2. /\ Idle("call") \in ActorRecord /\ Idle("call").pc = "idle"
      /\ \A a \in Actor : act[a] = Idle("call")
  BY DEF Idle, ActorRecord, PC, Init
<1>3. TypeOK
  BY <1>1, <1>2 DEF Init, TypeOK, ConstantsOK
<1>4. PlacesKept /\ MutexHeld /\ SidsThere /\ Unshared
  BY <1>2 DEF PlacesKept, MutexHeld, SidsThere, Unshared, WithClient, InCall, Actor
<1>5. GateHeld /\ RevisionRead
  BY <1>2 DEF GateHeld, RevisionRead, Holding, Reading, Actor
<1>6. OpenClientOwned
  BY <1>1 DEF OpenClientOwned, Init
<1> QED BY <1>3, <1>4, <1>5, <1>6 DEF SessionInv

\* Every step keeps the invariant.
LEMMA SessionStep == ASSUME ConstantsOK, SessionInv, [Next]_vars PROVE SessionInv'
<1>1. ASSUME NEW r \in Request, Resolving(r) \/ Begin(r) \/ CallStep(r)
      PROVE  SessionInv'
  BY <1>1, HitKeepsInv, MissKeepsInv, BuildKeepsInv, NoCredentialKeepsInv, InsertKeepsInv,
     CallsKeepInv, ReturnsKeepInv
     DEF Resolving, CallStep, Calls, Returns
<1>2. ASSUME NEW a \in Admin,
             AdminStep(a) \/ AuthLogin(a) \/ \E op \in Operation : Ask(a, op)
      PROVE  SessionInv'
  BY <1>2, MutateKeepsInv, TakeGateKeepsInv, ConnectKeepsInv, ConnectedKeepsInv,
     UnstoredKeepsInv, AdminWalksKeepInv, AuthLoginKeepsInv
     DEF AdminStep
<1>3. ASSUME NEW a \in Actor, CloseClient(a) PROVE SessionInv'
  BY <1>3, CloseKeepsInv
<1>4. ASSUME Expire PROVE SessionInv'
  BY <1>4, ExpireKeepsInv
<1>5. CASE UNCHANGED vars
  BY <1>5 DEF vars, SessionInv, TypeOK, PlacesKept, MutexHeld, SidsThere, Unshared, GateHeld,
     Holding, Reading, RevisionRead, OpenClientOwned
<1> QED BY <1>1, <1>2, <1>3, <1>4, <1>5 DEF Next

\* The invariant holds always.
LEMMA SessionInvariant == Safety => []SessionInv
<1>1. Init => SessionInv
  BY SessionInit, ConstantsOK
<1>2. SessionInv /\ [Next]_vars => SessionInv'
  BY SessionStep, ConstantsOK
<1> QED BY <1>1, <1>2, PTL DEF Safety

\* The state of the managers, the clients and the session store has its
\* types: what is stored, cached or issued is always a session, a client and
\* an identifier, whichever goroutines met.
THEOREM SessionTypes == Safety => []TypeOK
BY SessionInvariant, PTL DEF SessionInv

\* Every open client can still be closed: Manager.Client, MutateProfile and
\* ConnectWithStoredPassword lose none, whoever misses, evicts or connects at
\* the same time.
THEOREM OpenClientsAreOwned == Safety => []OpenClientOwned
BY SessionInvariant, PTL DEF SessionInv

\* No request acquires a client of an older revision: the profile gate keeps
\* the revision a request resolved against the committed one until the
\* client is in its hands.
THEOREM ResolvedIsCurrent == Safety => ResolvedCurrent
<1> DEFINE Acquires(r) == act'[r].pc = "ready" /\ act[r].pc # "ready"
           Current == \A r \in Request : Acquires(r) => client'[act'[r].client].rev = revision'
<1>1. SessionInv /\ [Next]_vars => Current
  <2> SUFFICES ASSUME SessionInv, [Next]_vars, NEW r \in Request, Acquires(r)
               PROVE  client'[act'[r].client].rev = revision'
    OBVIOUS
  <2>0. ConstantsOK BY ConstantsOK
  <2>1. r \in Actor /\ r \notin Admin /\ act \in [Actor -> ActorRecord] /\ act[r] \in ActorRecord
    BY <2>0 DEF Actor, ConstantsOK, SessionInv, TypeOK
  <2>2. CASE ClientHit(r)
    BY <2>1, <2>2 DEF ClientHit, ActorRecord
  <2>3. CASE Insert(r)
    <3>1. InsertFrame(r) BY <2>0, <2>3, InsertKeepsFrame
    <3>2. Reachable(act'[r].client, cache', act')
      BY <2>1 DEF Reachable
    <3> QED BY <3>1, <3>2 DEF InsertFrame
  <2>4. ASSUME NEW b \in Request, Resolving(b) \/ Begin(b) \/ CallStep(b),
               b # r \/ ~(ClientHit(r) \/ Insert(r))
        PROVE  FALSE
    <3>0. b \in Actor BY DEF Actor
    <3>1. CASE Calls(b)
      BY <2>0, <2>1, <3>0, <3>1, CallsKeepFrame DEF CallFrame, InCall
    <3>2. CASE Returns(b)
      <4>1. \E served \in BOOLEAN : act' = [act EXCEPT ![b] = [Idle("call") EXCEPT !.served = served]]
        BY <3>2, Zenon DEF Returns, Serve, RejectAgain, LoginImpossible, Unreachable, Return
      <4> QED BY <2>1, <3>0, <4>1 DEF Idle
    <3>3. CASE ClientHit(b) \/ Insert(b)
      BY <2>1, <2>4, <3>3 DEF ClientHit, Insert
    <3>4. CASE ClientMiss(b)
      BY <2>1, <3>0, <3>4 DEF ClientMiss, ActorRecord
    <3>5. CASE Build(b)
      BY <2>1, <3>0, <3>5 DEF Build, ActorRecord
    <3>6. CASE NoCredential(b)
      BY <2>1, <3>0, <3>6 DEF NoCredential, Idle
    <3> QED BY <2>4, <3>1, <3>2, <3>3, <3>4, <3>5, <3>6 DEF Resolving, CallStep, Calls, Returns
  <2>5. ASSUME NEW a \in Admin, AdminStep(a) \/ AuthLogin(a) \/ \E op \in Operation : Ask(a, op)
        PROVE  FALSE
    BY <2>1, <2>5 DEF AdminStep, MutateProfile, TakeGate, Connect, ConnectRefused, Connected,
       ConnectUnstored, RevokeRead, Revoke, DeleteSession, AuthLogin, Ask, Continue
  <2>6. ASSUME NEW a \in Actor, CloseClient(a) PROVE FALSE
    <3>1. CASE a = r
      <4>1. AfterClose(r) = "reading" BY <2>1 DEF AfterClose
      <4> QED BY <2>1, <2>6, <3>1, <4>1 DEF CloseClient, Continue, ActorRecord
    <3>2. CASE a # r
      BY <2>1, <2>6, <3>2 DEF CloseClient, Continue
    <3> QED BY <3>1, <3>2
  <2>7. ~Expire /\ ~UNCHANGED vars
    BY DEF Expire, vars
  <2> QED BY <2>2, <2>3, <2>4, <2>5, <2>6, <2>7 DEF Next
<1>2. SessionInv /\ [Next]_vars => [Current]_vars
  BY <1>1
<1>3. Safety => [][Current]_vars
  BY <1>2, SessionInvariant, PTL DEF Safety
<1> QED BY <1>3 DEF ResolvedCurrent

-----------------------------------------------------------------------------
(***************************************************************************)
(* No deadlock.                                                            *)
(***************************************************************************)
\* A client's mutex is held by the request whose call works on the client,
\* the converse of MutexHeld.
MutexOwned ==
  \A c \in Client : client[c].mu # None =>
    /\ client[c].mu \in Request
    /\ act[client[c].mu].client = c /\ act[client[c].mu].pc \in InCall

\* A goroutine that takes no mutex, and gives back the one it has when it
\* leaves its call, keeps the mutexes with their owners.
LEMMA OwnersStay ==
  ASSUME ConstantsOK, MutexOwned, NEW a \in Actor,
         \A b \in Actor : b # a => act'[b] = act[b],
         \A c \in Client : client'[c].mu \in {None, client[c].mu},
         act[a].pc \in InCall => client'[act[a].client].mu = None
  PROVE  MutexOwned'
<1> SUFFICES ASSUME NEW c \in Client, client'[c].mu # None
             PROVE  /\ client'[c].mu \in Request
                    /\ act'[client'[c].mu].client = c /\ act'[client'[c].mu].pc \in InCall
  BY DEF MutexOwned
<1>1. /\ client'[c].mu = client[c].mu /\ client[c].mu \in Request
      /\ act[client[c].mu].client = c /\ act[client[c].mu].pc \in InCall
  BY DEF MutexOwned
<1>2. client[c].mu # a
  BY <1>1
<1> QED BY <1>1, <1>2 DEF Actor

\* Collecting takes no mutex.
LEMMA CollectedMutexes ==
  ASSUME NEW cl, NEW ca, NEW ac, NEW c \in Client
  PROVE  Collected(cl, ca, ac)[c].mu \in {None, cl[c].mu}
BY Collecting DEF Unused

\* Every step keeps the mutexes with their owners.
LEMMA OwnersStep ==
  ASSUME ConstantsOK, SessionInv, MutexOwned, [Next]_vars
  PROVE  MutexOwned'
<1>0. /\ act \in [Actor -> ActorRecord] /\ client \in [Client -> ClientRecord]
      /\ Request \subseteq Actor /\ Admin \subseteq Actor
  BY DEF SessionInv, TypeOK, Actor
<1>1. ASSUME NEW r \in Request, Calls(r) PROVE MutexOwned'
  <2>1. CallFrame(r) BY <1>1, CallsKeepFrame
  <2>2. act[r].client \in Client
    BY <1>0, <2>1 DEF CallFrame, SessionInv, PlacesKept, WithClient
  <2>3. ASSUME NEW c \in Client, c # act[r].client, client[c].mu # None
        PROVE  client[c].mu # r /\ client[c].mu \in Actor
    BY <1>0, <2>3 DEF MutexOwned
  <2> QED BY <1>0, <2>1, <2>2, <2>3 DEF CallFrame, MutexOwned
<1>2. ASSUME NEW r \in Request, Returns(r) PROVE MutexOwned'
  <2>1. PICK served \in BOOLEAN : Return(r, served)
    BY <1>2, Zenon DEF Returns, Serve, RejectAgain, LoginImpossible, Unreachable
  <2>2. act[r].pc \in {"send", "login"}
    BY <1>2 DEF Returns, Serve, RejectAgain, LoginImpossible, Unreachable
  <2>3. act[r].client \in Client
    BY <1>0, <2>2 DEF SessionInv, PlacesKept, WithClient, InCall
  <2> DEFINE cl == [client EXCEPT ![act[r].client].mu = None]
  <2>4. \A c \in Client : cl[c].mu \in {None, client[c].mu}
    BY <1>0, <2>3 DEF ClientRecord
  <2>5. cl[act[r].client].mu = None
    BY <1>0, <2>3 DEF ClientRecord
  <2>6. client' = Collected(cl, cache, act')
    BY <2>1 DEF Return, Mine
  <2>7. \A b \in Actor : b # r => act'[b] = act[b]
    BY <1>0, <2>1 DEF Return
  <2> HIDE DEF cl
  <2>8. \A c \in Client : client'[c].mu \in {None, cl[c].mu}
    BY <2>6, CollectedMutexes
  <2>9. \A c \in Client : client'[c].mu \in {None, client[c].mu}
    BY <2>4, <2>8
  <2>10. client'[act[r].client].mu = None
    BY <2>3, <2>5, <2>8
  <2> QED BY <1>0, <2>7, <2>9, <2>10, OwnersStay
<1>3. ASSUME NEW r \in Request, Resolving(r) \/ NoCredential(r) PROVE MutexOwned'
  <2>1. \A b \in Actor : b # r => act'[b] = act[b]
    BY <1>0, <1>3 DEF Resolving, ClientHit, ClientMiss, NoCredential
  <2>2. client' = client /\ act[r].pc \notin InCall
    BY <1>3 DEF Resolving, ClientHit, ClientMiss, NoCredential, InCall
  <2> QED BY <1>0, <2>1, <2>2, OwnersStay
<1>4. ASSUME NEW r \in Request, Build(r) PROVE MutexOwned'
  <2>1. \A b \in Actor : b # r => act'[b] = act[b]
    BY <1>0, <1>4 DEF Build
  <2>2. SeededClient(act[r].rev).mu = None /\ PasswordClient(act[r].rev).mu = None
    BY DEF SeededClient, PasswordClient, Unused
  <2>3. PICK new : /\ client' = [client EXCEPT ![NewClient] = new]
                   /\ new.mu = None
    BY <1>4, <2>2 DEF Build
  <2>4. \A c \in Client : client'[c].mu \in {None, client[c].mu}
    BY <1>0, <2>3
  <2>5. act[r].pc \notin InCall BY <1>4 DEF Build, InCall
  <2> QED BY <1>0, <2>1, <2>4, <2>5, OwnersStay
<1>5. ASSUME NEW r \in Request, Insert(r) PROVE MutexOwned'
  <2>1. \A b \in Actor : b # r => act'[b] = act[b]
    BY <1>0, <1>5 DEF Insert
  <2>2. \A c \in Client : client'[c].mu \in {None, client[c].mu}
    BY <1>5, CollectedMutexes DEF Insert
  <2>3. act[r].pc \notin InCall BY <1>5 DEF Insert, InCall
  <2> QED BY <1>0, <2>1, <2>2, <2>3, OwnersStay
<1>6. ASSUME NEW a \in Admin,
             \/ MutateProfile(a) \/ TakeGate(a) \/ ConnectRefused(a) \/ Connected(a)
             \/ RevokeRead(a) \/ Revoke(a) \/ DeleteSession(a)
             \/ AuthLogin(a) \/ \E op \in Operation : Ask(a, op)
      PROVE  MutexOwned'
  <2>1. \A b \in Actor : b # a => act'[b] = act[b]
    BY <1>0, <1>6 DEF MutateProfile, TakeGate, ConnectRefused, Connected, RevokeRead, Revoke,
       DeleteSession, AuthLogin, Ask, Continue
  <2>2. client' = client
    BY <1>6 DEF MutateProfile, TakeGate, ConnectRefused, Connected, RevokeRead, Revoke,
       DeleteSession, AuthLogin, Ask
  <2>3. act[a].pc \notin InCall
    BY <1>6 DEF MutateProfile, TakeGate, ConnectRefused, Connected, RevokeRead, Revoke,
       DeleteSession, AuthLogin, Ask, Begins, InCall
  <2> QED BY <1>0, <2>1, <2>2, <2>3, OwnersStay
<1>7. ASSUME NEW a \in Admin, Connect(a) PROVE MutexOwned'
  <2>1. \A b \in Actor : b # a => act'[b] = act[b]
    BY <1>0, <1>7 DEF Connect, Continue
  <2> DEFINE new == [Unused EXCEPT !.rev = revision, !.kind = "connected", !.open = TRUE,
                                  !.sid = NewSid]
  <2>2. client' = [client EXCEPT ![NewClient] = new] /\ new.mu = None
    BY <1>7 DEF Connect, Unused
  <2> HIDE DEF new
  <2>3. \A c \in Client : client'[c].mu \in {None, client[c].mu}
    BY <1>0, <2>2
  <2>4. act[a].pc \notin InCall BY <1>7 DEF Connect, InCall
  <2> QED BY <1>0, <2>1, <2>3, <2>4, OwnersStay
<1>8. ASSUME NEW a \in Admin, ConnectUnstored(a) PROVE MutexOwned'
  <2>1. \A b \in Actor : b # a => act'[b] = act[b]
    BY <1>0, <1>8 DEF ConnectUnstored, Continue
  <2>2. \A c \in Client : client'[c].mu \in {None, client[c].mu}
    BY <1>8, CollectedMutexes DEF ConnectUnstored
  <2>3. act[a].pc \notin InCall BY <1>8 DEF ConnectUnstored, InCall
  <2> QED BY <1>0, <2>1, <2>2, <2>3, OwnersStay
<1>9. ASSUME NEW a \in Actor, CloseClient(a) PROVE MutexOwned'
  <2>1. \A b \in Actor : b # a => act'[b] = act[b]
    BY <1>0, <1>9 DEF CloseClient, Continue
  <2> DEFINE cl == [client EXCEPT ![act[a].client].sid = None, ![act[a].client].open = FALSE]
  <2>2. \A c \in Client : cl[c].mu = client[c].mu
    BY <1>0 DEF ClientRecord
  <2>3. client' = Collected(cl, cache, act')
    BY <1>9 DEF CloseClient
  <2> HIDE DEF cl
  <2>4. \A c \in Client : client'[c].mu \in {None, client[c].mu}
    BY <2>2, <2>3, CollectedMutexes
  <2>5. act[a].pc \notin InCall BY <1>9 DEF CloseClient, InCall
  <2> QED BY <2>1, <2>4, <2>5, OwnersStay
<1>10. CASE Expire \/ UNCHANGED vars
  BY <1>10 DEF Expire, vars, MutexOwned
<1>11. ASSUME NEW r \in Request, Resolving(r) \/ Begin(r) \/ CallStep(r) PROVE MutexOwned'
  BY <1>1, <1>2, <1>3, <1>4, <1>5, <1>11 DEF CallStep, Calls, Returns
<1>12. ASSUME NEW a \in Admin,
              AdminStep(a) \/ AuthLogin(a) \/ \E op \in Operation : Ask(a, op)
       PROVE  MutexOwned'
  BY <1>6, <1>7, <1>8, <1>12 DEF AdminStep
<1> QED BY <1>9, <1>10, <1>11, <1>12 DEF Next

\* A request in its call waits for nobody.
LEMMA CallsDoNotWait ==
  ASSUME NEW a \in Actor, act[a].pc \in InCall
  PROVE  act[a].pc # "idle" /\ ~Waits(a)
BY DEF Waits, WaitsFor, InCall

\* With the mutexes at their owners no wait leads further than two steps.
LEMMA WaitsAreShort ==
  ASSUME ConstantsOK, SessionInv, MutexOwned
  PROVE  NoCircularWait
<1>1. ASSUME NEW a \in Actor, NEW b \in Actor, WaitsFor(a, b), act[a].pc # "waiting"
      PROVE  act[b].pc \in InCall
  <2>1. act[a].pc \in {"ready", "closing"} /\ client[act[a].client].mu = b
    BY <1>1 DEF WaitsFor
  <2>2. act[a].client \in Client /\ b # None
    BY <2>1 DEF SessionInv, PlacesKept, WithClient, ConstantsOK
  <2> QED BY <2>1, <2>2 DEF MutexOwned
<1>2. ASSUME NEW a \in Actor, NEW b \in Actor, WaitsFor(a, b), act[a].pc = "waiting"
      PROVE  act[b].pc \notin {"idle", "waiting"}
  BY <1>2 DEF WaitsFor, Reading, Holding
<1> SUFFICES ASSUME NEW a \in Actor, NEW b \in Actor, WaitsFor(a, b)
             PROVE  /\ act[b].pc # "idle"
                    /\ \A c \in Actor : WaitsFor(b, c) => act[c].pc # "idle" /\ ~Waits(c)
  BY DEF NoCircularWait
<1>3. CASE act[a].pc # "waiting"
  <2>1. act[b].pc # "idle" /\ ~Waits(b)
    BY <1>1, <1>3, CallsDoNotWait
  <2> QED BY <2>1 DEF Waits
<1>4. CASE act[a].pc = "waiting"
  <2>1. act[b].pc \notin {"idle", "waiting"}
    BY <1>2, <1>4
  <2>2. ASSUME NEW c \in Actor, WaitsFor(b, c) PROVE act[c].pc # "idle" /\ ~Waits(c)
    BY <1>1, <2>1, <2>2, CallsDoNotWait
  <2> QED BY <2>1, <2>2
<1> QED BY <1>3, <1>4

\* The profile gate and the client mutexes never deadlock, however many
\* requests, administrators and processes there are: a goroutine that waits
\* does so for one that runs, or for one that waits for one that runs.
THEOREM GoroutinesNeverDeadlock == Safety => []NoCircularWait
<1>1. Init => MutexOwned
  BY DEF Init, MutexOwned, Unused
<1>2. SessionInv /\ MutexOwned /\ [Next]_vars => MutexOwned'
  BY OwnersStep, ConstantsOK
<1>3. SessionInv /\ MutexOwned => NoCircularWait
  BY WaitsAreShort, ConstantsOK
<1> QED BY <1>1, <1>2, <1>3, SessionInvariant, PTL DEF Safety
=============================================================================
