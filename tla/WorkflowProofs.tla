--------------------------- MODULE WorkflowProofs ---------------------------
(***************************************************************************)
(* Proofs about the operations that take several steps: creating a         *)
(* replication relation (ReplicationRelation), restoring the gateway's     *)
(* state (GatewayRecovery) and installing packages (PackageInstall), for   *)
(* every number of appliers, failures, crashes, recovery sets and          *)
(* packages, and for every catalogue.                                      *)
(***************************************************************************)
EXTENDS MCWorkflows, FiniteSetTheorems, WellFoundedInduction, TLAPS

(***************************************************************************)
(* Replication relations.                                                  *)
(***************************************************************************)

\* A credential exists only once it is paired, and a relation, also a deleted
\* one, only once the task of its applier has finished.
OnlyOnceMade ==
    /\ \A a \in Applier : at[a] \in {"idle", "planned", "refused", "pair"} => a \notin credentials
    /\ \A a \in Applier :
        at[a] \in {"idle", "planned", "refused", "pair", "connect", "create"} => tasks[a] = "none"
    /\ \A r \in relations \union torn : tasks[r] = "finished"
    /\ relations \union torn \subseteq Applier
    /\ \A a \in Applier : older[a] = {}

\* What an applier that has reported success relies on.
Applied ==
    \A a \in Applier : at[a] = "applied" =>
        a \in credentials /\ named[a] \in relations \union torn

ReplicationShape ==
    /\ relations \subseteq Applier /\ credentials \subseteq Applier
    /\ undeleted \subseteq Applier /\ unknown \subseteq Applier
    /\ tasks \in [Applier -> {"none", "running", "finished", "failed"}]
    /\ at \in [Applier -> {"idle", "planned", "refused", "failed", "applied"} \union Working]
    /\ DOMAIN reported = Applier /\ DOMAIN named = Applier /\ DOMAIN older = Applier

\* The inductive invariant of the replication: the type invariant, what has
\* been made so far, and the two halves of what is reported.
ReplicationInv ==
    /\ ReplicationShape /\ ReplicationTypeOK
    /\ OnlyOnceMade /\ Applied /\ CredentialsAccounted

\* Before anybody applies there is nothing to account for.
LEMMA ReplicationInitial == ReplicationInit => ReplicationInv
  BY DEF ReplicationInit, ReplicationInv, ReplicationShape, ReplicationTypeOK, OnlyOnceMade,
         Applied, CredentialsAccounted, Working

\* Every step of an applier, of DSM and of whoever tears down a relation keeps it.
LEMMA ReplicationStep ==
    ReplicationInv /\ [ReplicationNext]_replicationVars => ReplicationInv'
<1> SUFFICES ASSUME ReplicationInv, [ReplicationNext]_replicationVars
             PROVE  ReplicationInv'
  OBVIOUS
<1> USE DEF ReplicationInv, ReplicationShape, ReplicationTypeOK, OnlyOnceMade, Applied,
            CredentialsAccounted, Working, Goto
<1>1. ASSUME NEW a \in Applier, PlanRelation(a)
      PROVE  ReplicationInv'
  BY <1>1 DEF PlanRelation
<1>2. ASSUME NEW a \in Applier, ApplyRelation(a)
      PROVE  ReplicationInv'
  BY <1>2 DEF ApplyRelation
<1>3. ASSUME NEW a \in Applier, PairCredential(a)
      PROVE  ReplicationInv'
  BY <1>3 DEF PairCredential
<1>4. ASSUME NEW a \in Applier, CheckRemoteConn(a)
      PROVE  ReplicationInv'
  BY <1>4 DEF CheckRemoteConn, Cleanup
<1>5. ASSUME NEW a \in Applier, CreateRelation(a)
      PROVE  ReplicationInv'
  BY <1>5 DEF CreateRelation, Cleanup
<1>6. ASSUME NEW a \in Applier, AwaitCreate(a)
      PROVE  ReplicationInv'
  BY <1>6 DEF AwaitCreate, Cleanup
<1>7. ASSUME NEW a \in Applier, ConfirmRelation(a)
      PROVE  ReplicationInv'
  BY <1>7 DEF ConfirmRelation, Cleanup, Confirming
<1>8. ASSUME NEW a \in Applier, TaskRuns(a)
      PROVE  ReplicationInv'
  BY <1>8 DEF TaskRuns
<1>9. ASSUME NEW a \in Applier, DeleteRelation(a)
      PROVE  ReplicationInv'
  BY <1>9 DEF DeleteRelation
<1>10. CASE UNCHANGED replicationVars
  BY <1>10 DEF replicationVars
<1> QED
  BY <1>1, <1>2, <1>3, <1>4, <1>5, <1>6, <1>7, <1>8, <1>9, <1>10
  DEF ReplicationNext, ApplierStep

\* Every variable of the replication keeps its type, and an applier that went
\* past the pairing has its credential until it ends.
THEOREM ReplicationTypes == ReplicationSpec => []ReplicationTypeOK
<1>1. ReplicationInv => ReplicationTypeOK
  BY DEF ReplicationInv
<1> QED
  BY <1>1, ReplicationInitial, ReplicationStep, PTL DEF ReplicationSpec

\* The deferred cleanup of snapshot_replication.go leaves no credential of a
\* failed apply behind, but for one that could not be deleted or that nobody
\* knows, and takes none from a relation that was reported: for any number of
\* appliers and lost answers.
THEOREM CredentialsAreAccounted == ReplicationSpec => []CredentialsAccounted
<1>1. ReplicationInv => CredentialsAccounted
  BY DEF ReplicationInv
<1> QED
  BY <1>1, ReplicationInitial, ReplicationStep, PTL DEF ReplicationSpec

\* A relation that an applier reports as created is a new one, and while it
\* works alone its own: the confirmation by the name of the share cannot find
\* another, as a relation exists only once the task of its applier has finished.
THEOREM ReportsAreSound == ReplicationSpec => []ReportedSound
<1>1. ReplicationInv => ReportedIsNew
  BY ReplicationAssumption
  DEF ReplicationInv, ReplicationShape, OnlyOnceMade, Applied, ReportedIsNew
<1>2. ReplicationInv => ReportedWorks
  BY DEF ReplicationInv, ReplicationShape, OnlyOnceMade, Applied, ReportedWorks
<1>3. ReplicationInv => ReportedSound
  BY <1>1, <1>2 DEF ReportedSound
<1> QED
  BY <1>3, ReplicationInitial, ReplicationStep, PTL DEF ReplicationSpec

(***************************************************************************)
(* Restoring the gateway's state.                                          *)
(***************************************************************************)
Top == MaxChanges + Retention + 1
Body == Damaged..Top
Boots ==
    {"down", "serving", "read", "stage", "copy", "prune", "replace", "install",
     "clear", "consume", "report", "open"}

ShelfShape ==
    /\ DOMAIN shelf \subseteq Nat /\ IsFiniteSet(DOMAIN shelf)
    /\ shelf \in [DOMAIN shelf -> [body : Body, status : {"ok", "foreign", "incomplete"}]]

RecoveryShape ==
    /\ live \in Missing..Top /\ displaced \in Missing..Top /\ stage \in Missing..Top
    /\ ShelfShape
    /\ request \in {None} \union [backup : Nat, hash : Body, n : Nat]
    /\ result \in [of : Nat, status : {"none", "success", "failure"}]
    /\ boot \in Boots /\ verdict \in {"none", "refused", "success", "failure"}
    /\ made \in 1..Top /\ queued \in Nat /\ crashes \in Nat /\ fileFaults \in Nat
    /\ before \in {None} \union (Missing..Top)
    /\ served \in Body /\ wanted \in {None} \union Body

\* The content a start will find: the state that was moved aside counts.
Current == IF live = Missing THEN displaced ELSE live

\* Where the files are at every step of ApplyPending.
FilesInPlace ==
    /\ boot \in {"copy", "prune", "replace", "install"} => stage = request.hash
    /\ boot \in {"serving", "prune", "replace", "clear"} => live # Missing
    /\ boot = "install" => live = Missing
    /\ boot \in {"install", "clear"} => displaced # Missing

\* When there is a request, and what it has already done.
RequestInPlace ==
    /\ boot \in {"stage", "copy", "prune", "replace", "install", "clear", "consume"} =>
        request # None
    /\ boot = "report" => request = None
    /\ boot \in {"open", "serving"} => request = None \/ ~replaced
    /\ replaced => before # None
    /\ replaced /\ request # None => Current = request.hash
    /\ before # None /\ ~stuck => replaced
    /\ before # None => before # Missing

\* The result is about the last request, and is written after it is removed.
ResultInPlace ==
    /\ result.of <= queued
    /\ request # None \/ boot = "report" => result.of < queued
    /\ boot = "clear" => before # None
    /\ boot \in {"consume", "report"} /\ verdict = "success" => before # None

\* What the pending request has done to the state that was served: nothing yet;
\* replaced it, in this start or, if again, in an earlier one; or moved it aside.
Replacing ==
    verdict = "success" /\ (boot \in {"consume", "report"} \/ (boot = "open" /\ request = None))
StateAccounted ==
    /\ boot = "serving" => live = served
    /\ request # None => wanted = request.hash
    /\ request # None \/ boot = "report" \/ (boot = "open" /\ verdict # "none") =>
        \/ live = served
        \/ live = wanted /\ (again \/ displaced = served \/ Replacing)
        \/ live = Missing /\ (displaced = served \/ (again /\ displaced = wanted))
    /\ boot = "clear" \/ (boot \in {"consume", "report"} /\ verdict = "success") =>
        live = wanted /\ replaced
    /\ boot = "open" /\ verdict = "success" => live = wanted
    /\ boot \in {"down", "serving", "read", "stage", "copy", "prune", "replace", "install", "clear"}
        => verdict = "none"
    /\ boot = "consume" => verdict # "none"
    /\ boot = "open" /\ verdict # "none" /\ result.of = queued =>
        result.status = IF verdict = "success" THEN "success" ELSE "failure"

\* The inductive invariant of the files and the request.
RecoveryInv ==
    /\ RecoveryShape /\ FilesInPlace /\ RequestInPlace
    /\ ResultInPlace /\ StateAccounted


\* A set of naturals has a least element ...
LEMMA LeastNatural ==
    ASSUME NEW S \in SUBSET Nat, S # {}
    PROVE  \E x \in S : \A y \in S : x <= y
<1> DEFINE R == {p \in Nat \X Nat : p[1] < p[2]}
<1>1. OpToRel(<, Nat) = R
  BY Zenon DEF OpToRel
<1>2. IsWellFoundedOn(R, Nat)
  BY <1>1, NatLessThanWellFounded, Zenon
<1>3. \E x \in S : \A y \in S : ~(<<y, x>> \in R)
  <2> HIDE DEF R
  <2> QED BY <1>2, WFMin
<1>4. \A x, y \in Nat : <<y, x>> \in R <=> y < x
  OBVIOUS
<1>5. PICK x \in S : \A y \in S : ~(<<y, x>> \in R)
  BY <1>3
<1>6. \A y \in S : ~(y < x)
  BY <1>4, <1>5
<1>7. \A y \in S : x <= y
  BY <1>6
<1> QED
  BY <1>7

\* ... and a finite one a greatest: of the sizes for which this fails there
\* would be a least one, and taking an element away gives a smaller one.
LEMMA GreatestNatural ==
    ASSUME NEW S \in SUBSET Nat, IsFiniteSet(S), S # {}
    PROVE  \E x \in S : \A y \in S : x >= y
<1> DEFINE Bounded(T) == \E x \in T : \A y \in T : x >= y
           Bad == {n \in Nat : \E T \in SUBSET Nat :
                      IsFiniteSet(T) /\ T # {} /\ Cardinality(T) = n /\ ~Bounded(T)}
<1>1. SUFFICES ASSUME Bad # {} PROVE FALSE
  <2>1. Cardinality(S) \in Nat
    BY FS_CardinalityType
  <2> QED BY <2>1
<1>2. PICK n \in Bad : \A m \in Bad : n <= m
  BY <1>1, LeastNatural
<1>3. PICK T \in SUBSET Nat :
          IsFiniteSet(T) /\ T # {} /\ Cardinality(T) = n /\ ~Bounded(T)
  BY <1>2
<1>4. PICK t \in T : TRUE
  BY <1>3
<1>5. /\ IsFiniteSet(T \ {t}) /\ Cardinality(T \ {t}) = n - 1
      /\ n \in Nat /\ n - 1 \in Nat
  <2>1. IsFiniteSet(T \ {t}) /\ Cardinality(T \ {t}) = Cardinality(T) - 1
    BY <1>3, <1>4, FS_RemoveElement
  <2>2. Cardinality(T) \in Nat /\ Cardinality(T \ {t}) \in Nat
    BY <1>3, <2>1, FS_CardinalityType
  <2> QED
    BY <1>3, <2>1, <2>2
<1>6. T \ {t} # {}
  <2>1. ASSUME T \ {t} = {} PROVE Bounded(T)
    BY <2>1, <1>4
  <2> QED BY <2>1, <1>3
<1>7. Bounded(T \ {t})
  <2>1. n - 1 \notin Bad
    BY <1>2, <1>5
  <2> QED BY <2>1, <1>5, <1>6
<1>8. PICK x \in T \ {t} : \A y \in T \ {t} : x >= y
  BY <1>7
<1>9. CASE x >= t
  BY <1>3, <1>8, <1>9
<1>10. CASE ~(x >= t)
  BY <1>3, <1>4, <1>8, <1>10
<1> QED
  BY <1>9, <1>10

\* The set that pruning chooses is the oldest.
LEMMA OldestIs ==
    ASSUME NEW S \in SUBSET Nat, S # {}
    PROVE  Oldest(S) \in S /\ \A b \in S : Oldest(S) <= b
  BY LeastNatural DEF Oldest

\* The newest set, of finitely many.
LEMMA NewestIs ==
    ASSUME NEW S \in SUBSET Nat, IsFiniteSet(S), S # {}
    PROVE  Newest(S) \in S /\ \A b \in S : Newest(S) >= b
  BY GreatestNatural DEF Newest

\* A new set is younger than every other.
LEMMA NextAgeIs ==
    ASSUME ShelfShape
    PROVE  NextAge \in Nat \ DOMAIN shelf /\ \A b \in DOMAIN shelf : b < NextAge
<1>1. CASE DOMAIN shelf = {}
  BY <1>1 DEF NextAge
<1>2. CASE DOMAIN shelf # {}
  <2>1. Newest(DOMAIN shelf) \in DOMAIN shelf
        /\ \A b \in DOMAIN shelf : Newest(DOMAIN shelf) >= b
    BY <1>2, NewestIs DEF ShelfShape
  <2> QED
    BY <1>2, <2>1 DEF NextAge, ShelfShape
<1> QED
  BY <1>1, <1>2

\* The gateway starts with a state and up to Retention sets.
LEMMA RecoveryInitial == RecoveryInit => RecoveryInv
<1> SUFFICES ASSUME RecoveryInit PROVE RecoveryInv
  OBVIOUS
<1>1. PICK n \in 0..Retention, status \in {"ok", "foreign"} :
        /\ shelf = [a \in 1..n |-> [body |-> a, status |-> IF a = 2 THEN status ELSE "ok"]]
        /\ live = n + 1 /\ made = n + 1
  BY DEF RecoveryInit
<1>2. IsFiniteSet(DOMAIN shelf)
  BY <1>1, FS_Interval, RecoveryAssumption
<1>3. ShelfShape
  BY <1>1, <1>2, RecoveryAssumption DEF ShelfShape, Body, Damaged, Top
<1>4. RecoveryShape
  BY <1>1, <1>3, RecoveryAssumption DEF RecoveryInit, RecoveryShape, Missing, Damaged, Top, Body, Boots
<1>5. StateAccounted
  BY RecoveryAssumption DEF RecoveryInit, StateAccounted, Replacing
<1> QED
  BY <1>1, <1>4, <1>5, RecoveryAssumption
  DEF RecoveryInit, RecoveryInv, FilesInPlace, RequestInPlace, ResultInPlace, Missing

\* What the shelf may become in one step.
ShelfMove ==
    \/ shelf' = shelf
    \/ shelf' = [shelf EXCEPT ![request.backup].body = Damaged]
    \/ \E a \in DOMAIN shelf : shelf' = [shelf EXCEPT ![a].status = "incomplete"]
    \/ live # Missing /\ shelf' = Shelved
    \/ \E a \in DOMAIN shelf : shelf' = Without(a)

\* Every step leaves the shelf alone or makes one of these moves.
LEMMA ShelfMoves ==
    RecoveryInv /\ [RecoveryNext]_recoveryVars => ShelfMove
<1> SUFFICES ASSUME RecoveryInv, [RecoveryNext]_recoveryVars
             PROVE  ShelfMove
  OBVIOUS
<1> USE DEF ShelfMove
<1>1. CASE Damage
  BY <1>1 DEF Damage
<1>2. ASSUME Cardinality(Complete) > Retention
      PROVE  Oldest(Complete) \in DOMAIN shelf
  <2>1. Complete # {}
    BY <1>2, FS_EmptySet, RecoveryAssumption
  <2>2. Complete \in SUBSET Nat
    BY DEF RecoveryInv, RecoveryShape, ShelfShape, Complete
  <2> QED
    BY <2>1, <2>2, OldestIs DEF Complete
<1>3. CASE Crash
  BY <1>2, <1>3 DEF Crash
<1>4. CASE createSafetyCopy
  BY <1>4 DEF createSafetyCopy
<1>5. CASE pruneRecoverySets
  BY <1>2, <1>5 DEF pruneRecoverySets, Incomplete
<1>6. CASE UNCHANGED shelf
  BY <1>6
<1> QED
  BY <1>1, <1>3, <1>4, <1>5, <1>6
  DEF RecoveryNext, ApplyPending, recoveryVars, ChangeState, Queue, Shutdown, Start, ReadRequest,
      StageState, RenameState, InstallStaged, RemoveDisplaced, RemoveRequest, WriteResult, OpenState

\* Every move keeps the shelf a finite set of ages.
LEMMA ShelfShapeStep ==
    RecoveryInv /\ [RecoveryNext]_recoveryVars => ShelfShape'
<1> SUFFICES ASSUME RecoveryInv, ShelfMove PROVE ShelfShape'
  BY ShelfMoves
<1>1. ShelfShape /\ live \in Missing..Top
  BY DEF RecoveryInv, RecoveryShape
<1>2. CASE shelf' = shelf
  BY <1>1, <1>2 DEF ShelfShape
<1>3. CASE shelf' = [shelf EXCEPT ![request.backup].body = Damaged]
  <2>1. Damaged \in Body
    BY RecoveryAssumption DEF Body, Damaged, Top
  <2> QED
    BY <1>1, <1>3, <2>1 DEF ShelfShape
<1>4. ASSUME NEW a \in DOMAIN shelf, shelf' = [shelf EXCEPT ![a].status = "incomplete"]
      PROVE  ShelfShape'
  BY <1>1, <1>4 DEF ShelfShape
<1>5. CASE live # Missing /\ shelf' = Shelved
  <2>1. NextAge \in Nat
    BY <1>1, NextAgeIs
  <2>2. DOMAIN shelf' = DOMAIN shelf \union {NextAge}
    BY <1>5 DEF Shelved
  <2>3. IsFiniteSet(DOMAIN shelf')
    BY <1>1, <2>2, FS_AddElement DEF ShelfShape
  <2>4. live \in Body
    BY <1>1, <1>5 DEF Body, Missing, Damaged, Top
  <2>5. \A b \in DOMAIN shelf' :
            shelf'[b] \in [body : Body, status : {"ok", "foreign", "incomplete"}]
    BY <1>1, <1>5, <2>4 DEF Shelved, ShelfShape
  <2>6. shelf' = [b \in DOMAIN shelf' |-> shelf'[b]]
    BY <1>5 DEF Shelved
  <2> HIDE DEF Body
  <2> QED
    BY <1>1, <2>1, <2>2, <2>3, <2>5, <2>6 DEF ShelfShape
<1>6. ASSUME NEW a \in DOMAIN shelf, shelf' = Without(a)
      PROVE  ShelfShape'
  <2>1. DOMAIN shelf' = DOMAIN shelf \ {a}
    BY <1>6 DEF Without
  <2>2. IsFiniteSet(DOMAIN shelf')
    BY <1>1, <2>1, FS_RemoveElement DEF ShelfShape
  <2> QED
    BY <1>1, <1>6, <2>1, <2>2 DEF ShelfShape, Without
<1> QED
  BY <1>2, <1>3, <1>4, <1>5, <1>6 DEF ShelfMove

\* Every step keeps the types.
LEMMA RecoveryShapeStep ==
    RecoveryInv /\ [RecoveryNext]_recoveryVars => RecoveryShape'
<1> SUFFICES ASSUME RecoveryInv, [RecoveryNext]_recoveryVars
             PROVE  RecoveryShape'
  OBVIOUS
<1>shelf. ShelfShape'
  BY ShelfShapeStep
<1> USE RecoveryAssumption, <1>shelf
    DEF RecoveryInv, RecoveryShape, ShelfShape, FilesInPlace, Missing, Damaged, Fresh, Top, Body, Boots,
        noted
<1>1. CASE ChangeState
  BY <1>1 DEF ChangeState
<1>2. CASE Shutdown
  BY <1>2 DEF Shutdown
<1>3. CASE Damage
  BY <1>3 DEF Damage
<1>4. CASE Crash
  BY <1>4 DEF Crash
<1>5. CASE Start
  BY <1>5 DEF Start
<1>6. CASE ReadRequest
  BY <1>6 DEF ReadRequest, GoOn
<1>7. CASE StageState
  BY <1>7 DEF StageState, GoOn, finishFailure, FileFault, Complete
<1>8. CASE createSafetyCopy
  BY <1>8 DEF createSafetyCopy, GoOn, finishFailure, FileFault
<1>9. CASE pruneRecoverySets
  BY <1>9 DEF pruneRecoverySets, GoOn, finishFailure, FileFault
<1>10. CASE RenameState
  BY <1>10 DEF RenameState, GoOn, finishFailure, FileFault, Replaced
<1>11. CASE InstallStaged
  BY <1>11 DEF InstallStaged, GoOn, finishFailure, FileFault
<1>12. CASE RemoveDisplaced
  BY <1>12 DEF RemoveDisplaced, finishFailure, FileFault
<1>13. CASE RemoveRequest
  BY <1>13 DEF RemoveRequest, GoOn, FileFault
<1>14. CASE WriteResult
  BY <1>14 DEF WriteResult, GoOn, FileFault
<1>15. CASE OpenState
  BY <1>15 DEF OpenState
<1>16. ASSUME NEW a \in DOMAIN shelf, Queue(a)
      PROVE  RecoveryShape'
  BY <1>16 DEF Queue, Restorable
<1>17. CASE UNCHANGED recoveryVars
  BY <1>17 DEF recoveryVars
<1> QED
  BY <1>1, <1>2, <1>3, <1>4, <1>5, <1>6, <1>7, <1>8, <1>9, <1>10, <1>11, <1>12, <1>13, <1>14, <1>15, <1>16, <1>17
  DEF RecoveryNext, ApplyPending

\* Every file operation, failure, crash and start keeps the invariant.
LEMMA RecoveryStep == RecoveryInv /\ [RecoveryNext]_recoveryVars => RecoveryInv'
<1> SUFFICES ASSUME RecoveryInv, [RecoveryNext]_recoveryVars
             PROVE  RecoveryInv'
  OBVIOUS
<1> USE RecoveryAssumption
    DEF RecoveryInv, FilesInPlace, RequestInPlace, ResultInPlace, StateAccounted, Replacing,
        Current, noted
<1>shape. RecoveryShape'
  BY RecoveryShapeStep
<1> USE <1>shape DEF Missing, Damaged, Fresh, Top, Body, RecoveryShape, ShelfShape
<1>1. CASE ChangeState
  BY <1>1 DEF ChangeState
<1>2. CASE Shutdown
  BY <1>2 DEF Shutdown
<1>3. CASE Damage
  BY <1>3 DEF Damage
<1>4. CASE Crash
  BY <1>4 DEF Crash
<1>5. CASE Start
  BY <1>5 DEF Start
<1>6. CASE ReadRequest
  BY <1>6 DEF ReadRequest, GoOn
<1>7. CASE StageState
  BY <1>7 DEF StageState, GoOn, finishFailure, FileFault, Complete
<1>8. CASE createSafetyCopy
  BY <1>8 DEF createSafetyCopy, GoOn, finishFailure, FileFault
<1>9. CASE pruneRecoverySets
  BY <1>9 DEF pruneRecoverySets, GoOn, finishFailure, FileFault
<1>10. CASE RenameState
  BY <1>10 DEF RenameState, GoOn, finishFailure, FileFault, Replaced
<1>11. CASE InstallStaged
  BY <1>11 DEF InstallStaged, GoOn, finishFailure, FileFault
<1>12. CASE RemoveDisplaced
  BY <1>12 DEF RemoveDisplaced, finishFailure, FileFault
<1>13. CASE RemoveRequest
  BY <1>13 DEF RemoveRequest, GoOn, FileFault
<1>14. CASE WriteResult
  BY <1>14 DEF WriteResult, GoOn, FileFault
<1>15. CASE OpenState
  BY <1>15 DEF OpenState
<1>16. ASSUME NEW a \in DOMAIN shelf, Queue(a)
      PROVE  RecoveryInv'
  BY <1>16 DEF Queue, Restorable
<1>17. CASE UNCHANGED recoveryVars
  BY <1>17 DEF recoveryVars
<1> QED
  BY <1>1, <1>2, <1>3, <1>4, <1>5, <1>6, <1>7, <1>8, <1>9, <1>10, <1>11, <1>12, <1>13, <1>14, <1>15, <1>16, <1>17
  DEF RecoveryNext, ApplyPending

\* Every variable of the recovery keeps its type, and the gateway serves only
\* with a state.
THEOREM RecoveryTypes == RecoverySpec => []RecoveryTypeOK
<1>1. RecoveryInv => RecoveryTypeOK
  BY DEF RecoveryInv, RecoveryShape, ShelfShape, FilesInPlace, RecoveryTypeOK, Top, Body, Boots,
         Missing, Damaged
<1> QED
  BY <1>1, RecoveryInitial, RecoveryStep, PTL DEF RecoverySpec

\* The result an administrator reads tells what happened to the state, with any
\* number of restores, crashes and failed file operations.
THEOREM ResultIsTruthful == RecoverySpec => []ResultTruthful
<1>1. RecoveryInv => ResultTruthful
  BY DEF RecoveryInv, StateAccounted, Replacing, ResultTruthful
<1> QED
  BY <1>1, RecoveryInitial, RecoveryStep, PTL DEF RecoverySpec

\* Every step of a start is a step of the atomic restore or none.  A state that
\* is put back after a replacement is one that was restored already.
LEMMA RestoreSimulated ==
    RecoveryInv /\ [RecoveryNext]_recoveryVars => [Atomic!Next]_(Atomic!vars)
<1> SUFFICES ASSUME RecoveryInv, [RecoveryNext]_recoveryVars
             PROVE  [Atomic!Next]_(Atomic!vars)
  OBVIOUS
<1> USE RecoveryAssumption
    DEF RecoveryInv, RecoveryShape, FilesInPlace, RequestInPlace, Current, Missing, Damaged, Fresh,
        Top, Body, Atomic!vars, Atomic!Next
<1>1. CASE ChangeState
  BY <1>1 DEF ChangeState, Atomic!Change
<1>2. CASE Shutdown
  BY <1>2 DEF Shutdown
<1>3. CASE Damage
  BY <1>3 DEF Damage
<1>4. CASE Crash
  BY <1>4 DEF Crash
<1>5. CASE Start
  BY <1>5 DEF Start
<1>6. CASE ReadRequest
  BY <1>6 DEF ReadRequest, GoOn
<1>7. CASE StageState
  BY <1>7 DEF StageState, GoOn, finishFailure
<1>8. CASE createSafetyCopy
  BY <1>8 DEF createSafetyCopy, GoOn, finishFailure
<1>9. CASE pruneRecoverySets
  BY <1>9 DEF pruneRecoverySets, GoOn, finishFailure
<1>10. CASE RenameState
  BY <1>10 DEF RenameState, GoOn, finishFailure, Replaced, Atomic!Restore, Atomic!SetAside
<1>11. CASE InstallStaged
  BY <1>11 DEF InstallStaged, GoOn, finishFailure, Atomic!Restore, Atomic!PutBack
<1>12. CASE RemoveDisplaced
  BY <1>12 DEF RemoveDisplaced
<1>13. CASE RemoveRequest
  BY <1>13 DEF RemoveRequest, GoOn, Atomic!Withdraw, Atomic!CannotWithdraw
<1>14. CASE WriteResult
  BY <1>14 DEF WriteResult, GoOn
<1>15. CASE OpenState
  BY <1>15 DEF OpenState, Atomic!Lose
<1>16. ASSUME NEW a \in DOMAIN shelf, Queue(a)
      PROVE  [Atomic!Next]_(Atomic!vars)
  BY <1>16 DEF Queue, Restorable, ShelfShape, Atomic!Ask
<1>17. CASE UNCHANGED recoveryVars
  BY <1>17 DEF recoveryVars
<1> QED
  BY <1>1, <1>2, <1>3, <1>4, <1>5, <1>6, <1>7, <1>8, <1>9, <1>10, <1>11, <1>12, <1>13, <1>14, <1>15, <1>16, <1>17
  DEF RecoveryNext, ApplyPending

\* The start-up of the gateway implements the atomic restore, with a crash
\* between any two steps on the disk and any step failing: the state changes
\* only into the confirmed content.
THEOREM RestoreRefinesAtomic == RecoverySpec => RestoreIsAtomic
<1>1. RecoveryInit => Atomic!Init
  BY RecoveryAssumption DEF RecoveryInit, Atomic!Init, Missing, Damaged, Fresh
<1> QED
  BY <1>1, RecoveryInitial, RecoveryStep, RestoreSimulated, PTL
  DEF RecoverySpec, RestoreIsAtomic, Atomic!Spec

\* The safety copy of the pass that is under way is the newest set.
CopyIsNewest ==
    boot \in {"prune", "replace", "install"} =>
        \E a \in Complete :
            /\ shelf[a].body = Current /\ a > request.backup
            /\ \A b \in DOMAIN shelf : b <= a

\* The set that was staged is still there, and so older than the safety copy.
BackupThere == boot = "copy" => request.backup \in DOMAIN shelf

Newer(a) == {b \in Complete : b > a}

\* A crash costs one set: the replaced state has at most as many newer sets as
\* there were crashes, one less before the safety copy of a pass.
OriginalNotOld ==
    before # None /\ ~stuck /\ crashes < Retention =>
        \E a \in Complete :
            /\ shelf[a].body = before
            /\ request # None =>
                /\ a > request.backup
                /\ boot \in {"prune", "replace", "install", "clear", "consume"} =>
                    Cardinality(Newer(a)) <= crashes
                /\ boot \in {"down", "read", "stage", "copy"} =>
                    Cardinality(Newer(a)) + 1 <= crashes

OnlyInOnePass ==
    before # None /\ ~stuck /\ request # None => boot \notin {"serving", "open", "report"}

\* What is on the shelf beyond the limit, by where the process is.
ShelfCounted ==
    /\ Cardinality(Complete) <= Retention + crashes + fileFaults + (IF boot = "prune" THEN 1 ELSE 0)
    /\ boot \in {"replace", "install", "clear"} => Cardinality(Complete) <= Retention
    /\ boot \in {"consume", "report"} /\ verdict = "success" =>
        Cardinality(Complete) <= Retention

\* The inductive invariant of the shelf.
ShelfInv == BackupThere /\ CopyIsNewest /\ OnlyInOnePass /\ OriginalNotOld /\ ShelfCounted

\* The complete sets, and those newer than a given one, can be counted.
LEMMA CompleteFinite ==
    ASSUME ShelfShape
    PROVE  /\ Complete \in SUBSET Nat /\ IsFiniteSet(Complete) /\ Cardinality(Complete) \in Nat
           /\ \A a : /\ Newer(a) \in SUBSET Complete /\ IsFiniteSet(Newer(a))
                     /\ Cardinality(Newer(a)) \in Nat
<1>1. Complete \in SUBSET DOMAIN shelf /\ \A a : Newer(a) \in SUBSET Complete
  BY DEF Complete, Newer
<1>2. IsFiniteSet(Complete)
  BY <1>1, FS_Subset DEF ShelfShape
<1>3. \A a : IsFiniteSet(Newer(a))
  BY <1>1, <1>2, FS_Subset
<1> QED
  BY <1>1, <1>2, <1>3, FS_CardinalityType DEF ShelfShape

\* What is counted depends on the shelf alone.
LEMMA ShelfKept ==
    ASSUME shelf' = shelf
    PROVE  Complete' = Complete /\ \A a : Newer(a)' = Newer(a)
  BY DEF Complete, Newer

\* The safety copy is one set more, the newest.
LEMMA CopyAdds ==
    ASSUME ShelfShape, shelf' = Shelved
    PROVE  /\ NextAge \in Complete' /\ shelf'[NextAge].body = live
           /\ \A b \in DOMAIN shelf' : b <= NextAge
           /\ Cardinality(Complete') = Cardinality(Complete) + 1
           /\ \A a \in Complete :
                /\ a \in Complete' /\ shelf'[a] = shelf[a]
                /\ Cardinality(Newer(a)') = Cardinality(Newer(a)) + 1
<1>1. NextAge \in Nat \ DOMAIN shelf /\ \A b \in DOMAIN shelf : b < NextAge
  BY NextAgeIs
<1>2. /\ DOMAIN shelf' = DOMAIN shelf \union {NextAge}
      /\ shelf'[NextAge] = [body |-> live, status |-> "ok"]
      /\ \A a \in DOMAIN shelf : shelf'[a] = shelf[a]
  BY <1>1 DEF Shelved
<1>3. Complete' = Complete \union {NextAge} /\ NextAge \notin Complete
  BY <1>1, <1>2 DEF Complete
<1>4. ASSUME NEW a \in Complete
      PROVE  Newer(a)' = Newer(a) \union {NextAge} /\ NextAge \notin Newer(a)
  BY <1>1, <1>3 DEF Newer, Complete
<1>5. Cardinality(Complete') = Cardinality(Complete) + 1
  BY <1>3, CompleteFinite, FS_AddElement
<1>6. \A a \in Complete : Cardinality(Newer(a)') = Cardinality(Newer(a)) + 1
  <2> TAKE a \in Complete
  <2>1. IsFiniteSet(Newer(a))
    BY CompleteFinite
  <2> QED
    BY <1>4, <2>1, FS_AddElement
<1>7. \A b \in DOMAIN shelf' : b <= NextAge
  BY <1>1, <1>2 DEF ShelfShape
<1> QED
  BY <1>2, <1>3, <1>5, <1>6, <1>7 DEF Complete

\* A set that is removed, or loses files, leaves the others as they are.
LEMMA DropsOne ==
    ASSUME ShelfShape, NEW old \in DOMAIN shelf,
           shelf' = Without(old) \/ shelf' = [shelf EXCEPT ![old].status = "incomplete"]
    PROVE  /\ Complete' = Complete \ {old} /\ DOMAIN shelf' \subseteq DOMAIN shelf
           /\ Cardinality(Complete') \in Nat /\ Cardinality(Complete') <= Cardinality(Complete)
           /\ \A a \in Complete' :
                /\ shelf'[a] = shelf[a] /\ Cardinality(Newer(a)') \in Nat
                /\ Cardinality(Newer(a)') <= Cardinality(Newer(a))
<1>1. /\ Complete' = Complete \ {old} /\ DOMAIN shelf' \subseteq DOMAIN shelf
      /\ \A a \in Complete' : shelf'[a] = shelf[a]
  BY DEF Complete, Without, ShelfShape
<1>2. \A a \in Complete' : Newer(a)' \in SUBSET Newer(a)
  BY <1>1 DEF Newer
<1>3. Cardinality(Complete') \in Nat /\ Cardinality(Complete') <= Cardinality(Complete)
  BY <1>1, CompleteFinite, FS_Subset, FS_CardinalityType
<1>4. \A a \in Complete' :
        Cardinality(Newer(a)') \in Nat /\ Cardinality(Newer(a)') <= Cardinality(Newer(a))
  BY <1>2, CompleteFinite, FS_Subset, FS_CardinalityType
<1> QED
  BY <1>1, <1>3, <1>4

\* Pruning takes the oldest set, which is none of the newest Retention.
LEMMA PruneSpares ==
    ASSUME ShelfShape, Cardinality(Complete) > Retention,
           NEW a \in Complete, Cardinality(Newer(a)) < Retention
    PROVE  Oldest(Complete) \in Complete /\ a # Oldest(Complete)
<1>1. Oldest(Complete) \in Complete /\ \A b \in Complete : Oldest(Complete) <= b
  BY CompleteFinite, OldestIs
<1>2. ASSUME a = Oldest(Complete) PROVE FALSE
  <2>1. Complete = Newer(a) \union {a} /\ a \notin Newer(a)
    BY <1>1, <1>2, CompleteFinite DEF Newer
  <2>2. Cardinality(Complete) = Cardinality(Newer(a)) + 1
    BY <2>1, CompleteFinite, FS_AddElement
  <2> QED
    BY <2>2, CompleteFinite, RecoveryAssumption
<1> QED
  BY <1>1, <1>2

\* A shelf within its limit, and no restore under way.
LEMMA ShelfInitial == RecoveryInit => ShelfInv
<1> SUFFICES ASSUME RecoveryInit PROVE ShelfInv
  OBVIOUS
<1>1. PICK n \in 0..Retention, status \in {"ok", "foreign"} :
        shelf = [a \in 1..n |-> [body |-> a, status |-> IF a = 2 THEN status ELSE "ok"]]
  BY DEF RecoveryInit
<1>2. Complete = 1..n
  BY <1>1 DEF Complete
<1>3. Cardinality(Complete) = n
  BY <1>2, FS_Interval, RecoveryAssumption
<1> QED
  BY <1>3, RecoveryAssumption
  DEF RecoveryInit, ShelfInv, BackupThere, CopyIsNewest, OnlyInOnePass, OriginalNotOld, ShelfCounted

\* Every step keeps the original of a restore among the newest sets.
LEMMA ShelfStep ==
    RecoveryInv /\ RecoveryInv' /\ ShelfInv /\ [RecoveryNext]_recoveryVars => ShelfInv'
<1> SUFFICES ASSUME RecoveryInv, RecoveryInv', ShelfInv, [RecoveryNext]_recoveryVars
             PROVE  ShelfInv'
  OBVIOUS
<1>shape. ShelfShape
  BY DEF RecoveryInv, RecoveryShape
<1>finite. /\ Complete \in SUBSET Nat /\ Cardinality(Complete) \in Nat
           /\ \A a : Newer(a) \in SUBSET Complete /\ Cardinality(Newer(a)) \in Nat
  BY <1>shape, CompleteFinite
<1>types. /\ request \in {None} \union [backup : Nat, hash : Body, n : Nat]
          /\ boot \in Boots /\ crashes \in Nat /\ fileFaults \in Nat /\ Retention \in Nat \ {0}
          /\ None \notin Int /\ None \notin [backup : Nat, hash : Int, n : Nat]
  BY RecoveryAssumption DEF RecoveryInv, RecoveryShape
<1> USE <1>finite, <1>types
    DEF RecoveryInv, FilesInPlace, RequestInPlace, Current,
        ShelfInv, BackupThere, CopyIsNewest, OnlyInOnePass, OriginalNotOld, ShelfCounted
<1>kept. shelf' = shelf => Complete' = Complete /\ \A a : Newer(a)' = Newer(a)
  BY ShelfKept
<1>newest. ASSUME NEW a \in Complete, \A b \in DOMAIN shelf : b <= a
           PROVE  Cardinality(Newer(a)) = 0
  <2>1. Newer(a) = {}
    BY <1>newest DEF Newer, Complete, ShelfShape
  <2> QED
    BY <2>1, FS_EmptySet
<1>1. CASE ChangeState
  BY <1>1, <1>kept DEF ChangeState
<1>2. CASE Shutdown
  BY <1>2, <1>kept DEF Shutdown
<1>3. CASE Start
  BY <1>3, <1>kept DEF Start
<1>4. CASE ReadRequest
  BY <1>4, <1>kept DEF ReadRequest, GoOn
<1>5. CASE StageState
  BY <1>5, <1>kept DEF StageState, GoOn, finishFailure, FileFault, Complete, Missing, Body, Damaged
<1>6. CASE RenameState
  <2>1. CASE live' = stage /\ Replaced /\ boot' = "consume" /\ UNCHANGED fileFaults
    <3>1. UNCHANGED <<shelf, request, crashes, stuck, fileFaults>>
      BY <1>6, <2>1 DEF RenameState
    <3>2. PICK a \in Complete : /\ shelf[a].body = Current /\ a > request.backup
                                /\ \A b \in DOMAIN shelf : b <= a
      BY <1>6 DEF RenameState
    <3>3. Cardinality(Newer(a)) = 0 /\ Current = live
      BY <1>6, <1>newest, <3>2 DEF RenameState
    <3>4. OriginalNotOld'
      BY <1>6, <1>kept, <2>1, <3>1, <3>2, <3>3 DEF RenameState, Replaced
    <3> QED
      BY <1>6, <1>kept, <2>1, <3>1, <3>4 DEF RenameState, Replaced
  <2>2. CASE FileFault /\ displaced' = live /\ live' = Missing /\ GoOn("install")
    BY <1>6, <1>kept, <2>2 DEF RenameState, GoOn, FileFault
  <2>3. CASE FileFault /\ finishFailure /\ UNCHANGED <<live, displaced, replaced, before>>
    BY <1>6, <1>kept, <2>3 DEF RenameState, finishFailure, FileFault
  <2> QED
    BY <1>6, <2>1, <2>2, <2>3 DEF RenameState
<1>7. CASE InstallStaged
  <2>1. CASE /\ live' = stage /\ replaced' = TRUE /\ GoOn("clear") /\ UNCHANGED fileFaults
             /\ before' = IF replaced THEN before ELSE displaced
    <3>1. UNCHANGED <<shelf, request, crashes, stuck, fileFaults>>
      BY <1>7, <2>1 DEF InstallStaged
    <3>2. PICK a \in Complete : /\ shelf[a].body = Current /\ a > request.backup
                                /\ \A b \in DOMAIN shelf : b <= a
      BY <1>7 DEF InstallStaged
    <3>3. Cardinality(Newer(a)) = 0 /\ Current = displaced
      BY <1>7, <1>newest, <3>2 DEF InstallStaged
    <3>4. OriginalNotOld'
      BY <1>7, <1>kept, <2>1, <3>1, <3>2, <3>3 DEF InstallStaged, GoOn
    <3> QED
      BY <1>7, <1>kept, <2>1, <3>1, <3>4 DEF InstallStaged, GoOn
  <2>2. CASE FileFault /\ finishFailure /\ UNCHANGED <<replaced, before>>
    BY <1>7, <1>kept, <2>2 DEF InstallStaged, finishFailure, FileFault
  <2> QED
    BY <1>7, <2>1, <2>2 DEF InstallStaged
<1>8. CASE RemoveDisplaced
  BY <1>8, <1>kept DEF RemoveDisplaced, finishFailure, FileFault
<1>9. CASE RemoveRequest
  BY <1>9, <1>kept DEF RemoveRequest, GoOn, FileFault
<1>10. CASE WriteResult
  BY <1>10, <1>kept DEF WriteResult, GoOn, FileFault
<1>11. CASE OpenState
  BY <1>11, <1>kept DEF OpenState
<1>12. ASSUME NEW a \in DOMAIN shelf, Queue(a)
      PROVE  ShelfInv'
  BY <1>12, <1>kept DEF Queue, Restorable
<1>13. CASE UNCHANGED recoveryVars
  BY <1>13, <1>kept DEF recoveryVars
<1>14. CASE Crash
  <2>1. /\ boot' = "down" /\ crashes' = crashes + 1
        /\ UNCHANGED <<live, displaced, request, replaced, before, stuck, fileFaults>>
    BY <1>14 DEF Crash
  <2>2. CASE UNCHANGED shelf
    BY <1>14, <1>kept, <2>1, <2>2 DEF Boots
  <2>3. CASE /\ boot = "prune" /\ Cardinality(Complete) > Retention
             /\ shelf' = [shelf EXCEPT ![Oldest(Complete)].status = "incomplete"]
    <3>1. \A a \in Complete : Cardinality(Newer(a)) < Retention => a # Oldest(Complete)
      BY <1>shape, <2>3, PruneSpares
    <3>2. Oldest(Complete) \in DOMAIN shelf
      <4>1. Complete # {}
        BY <2>3, FS_EmptySet
      <4> QED
        BY <4>1, OldestIs DEF Complete
    <3>3. /\ Complete' = Complete \ {Oldest(Complete)}
          /\ Cardinality(Complete') \in Nat /\ Cardinality(Complete') <= Cardinality(Complete)
          /\ \A a \in Complete' :
               /\ shelf'[a] = shelf[a] /\ Cardinality(Newer(a)') \in Nat
               /\ Cardinality(Newer(a)') <= Cardinality(Newer(a))
      BY <1>shape, <2>3, <3>2, DropsOne
    <3>4. OriginalNotOld'
      BY <2>1, <2>3, <3>1, <3>3
    <3> QED
      BY <2>1, <2>3, <3>3, <3>4
  <2> QED
    BY <1>14, <2>2, <2>3 DEF Crash
<1>15. CASE Damage
  <2>1. /\ request # None /\ request.backup \in DOMAIN shelf
        /\ UNCHANGED <<live, displaced, request, boot, verdict, crashes, replaced, before, stuck,
                       fileFaults>>
    BY <1>15 DEF Damage
  <2>2. CASE shelf' = [shelf EXCEPT ![request.backup].body = Damaged]
    <3>1. /\ Complete' = Complete /\ DOMAIN shelf' = DOMAIN shelf
          /\ \A a \in Complete : a # request.backup => shelf'[a] = shelf[a]
      BY <1>shape, <2>2 DEF Complete, ShelfShape
    <3>2. \A a : Newer(a)' = Newer(a)
      BY <3>1 DEF Newer
    <3>3. CopyIsNewest'
      BY <2>1, <3>1
    <3>4. OriginalNotOld'
      BY <2>1, <3>1, <3>2
    <3> QED
      BY <2>1, <3>1, <3>3, <3>4
  <2>3. CASE shelf' = [shelf EXCEPT ![request.backup].status = "incomplete"]
    <3>1. /\ Complete' = Complete \ {request.backup} /\ DOMAIN shelf' = DOMAIN shelf
          /\ Cardinality(Complete') \in Nat /\ Cardinality(Complete') <= Cardinality(Complete)
          /\ \A a \in Complete' :
               /\ shelf'[a] = shelf[a] /\ Cardinality(Newer(a)') \in Nat
               /\ Cardinality(Newer(a)') <= Cardinality(Newer(a))
      BY <1>shape, <2>1, <2>3, DropsOne
    <3>3. CopyIsNewest'
      BY <2>1, <3>1
    <3>4. OriginalNotOld'
      BY <2>1, <3>1
    <3> QED
      BY <2>1, <3>1, <3>3, <3>4
  <2> QED
    BY <1>15, <2>2, <2>3 DEF Damage
<1>16. CASE createSafetyCopy
  <2>1. /\ boot = "copy" /\ request # None
        /\ UNCHANGED <<live, displaced, request, crashes, replaced, before, stuck>>
    BY <1>16 DEF createSafetyCopy
  <2>2. CASE live # Missing /\ shelf' = Shelved
    <3>1. /\ NextAge \in Complete' /\ shelf'[NextAge].body = live
          /\ \A b \in DOMAIN shelf' : b <= NextAge
          /\ Cardinality(Complete') = Cardinality(Complete) + 1
          /\ \A a \in Complete :
                /\ a \in Complete' /\ shelf'[a] = shelf[a]
                /\ Cardinality(Newer(a)') = Cardinality(Newer(a)) + 1
      BY <1>shape, <2>2, CopyAdds
    <3>2. CopyIsNewest'
      <4>1. request.backup \in DOMAIN shelf /\ request.backup < NextAge
        BY <1>shape, <2>1, NextAgeIs
      <4>2. Current' = live /\ request' = request
        BY <2>1, <2>2
      <4> QED
        BY <3>1, <4>1, <4>2
    <3>3. OriginalNotOld'
      BY <1>16, <2>1, <3>1 DEF createSafetyCopy, GoOn, finishFailure
    <3>4. ShelfCounted'
      <4>1. CASE GoOn("prune") /\ UNCHANGED fileFaults
        BY <2>1, <3>1, <4>1 DEF GoOn
      <4>2. CASE FileFault /\ finishFailure
        BY <2>1, <3>1, <4>2 DEF finishFailure, FileFault
      <4> QED
        BY <1>16, <2>2, <4>1, <4>2, <3>1 DEF createSafetyCopy
    <3> QED
      BY <1>16, <2>1, <3>2, <3>3, <3>4 DEF createSafetyCopy, GoOn, finishFailure
  <2>3. CASE UNCHANGED shelf /\ finishFailure
    BY <1>16, <1>kept, <2>3 DEF createSafetyCopy, finishFailure, FileFault
  <2> QED
    BY <1>16, <2>2, <2>3 DEF createSafetyCopy
<1>17. CASE pruneRecoverySets
  <2>1. /\ boot = "prune" /\ request # None
        /\ UNCHANGED <<live, displaced, request, crashes, replaced, before, stuck>>
    BY <1>17 DEF pruneRecoverySets
  <2>2. ASSUME NEW old \in DOMAIN shelf, shelf' = Without(old),
               GoOn("prune"), UNCHANGED fileFaults,
               \A a \in Complete : Cardinality(Newer(a)) < Retention => a # old
        PROVE  ShelfInv'
    <3>1. /\ Complete' = Complete \ {old} /\ DOMAIN shelf' \subseteq DOMAIN shelf
          /\ Cardinality(Complete') \in Nat /\ Cardinality(Complete') <= Cardinality(Complete)
          /\ \A a \in Complete' :
               /\ shelf'[a] = shelf[a] /\ Cardinality(Newer(a)') \in Nat
               /\ Cardinality(Newer(a)') <= Cardinality(Newer(a))
      BY <1>shape, <2>2, DropsOne
    <3>3. CopyIsNewest'
      BY <1>newest, <2>1, <2>2, <3>1
    <3>4. OriginalNotOld'
      BY <2>1, <2>2, <3>1 DEF GoOn
    <3> QED
      BY <2>1, <2>2, <3>1, <3>3, <3>4 DEF GoOn
  <2>3. CASE /\ Cardinality(Complete) > Retention /\ shelf' = Without(Oldest(Complete))
             /\ GoOn("prune") /\ UNCHANGED fileFaults
    <3>1. \A a \in Complete : Cardinality(Newer(a)) < Retention => a # Oldest(Complete)
      BY <1>shape, <2>3, PruneSpares
    <3>2. Oldest(Complete) \in DOMAIN shelf
      <4>1. Complete # {}
        BY <2>3, FS_EmptySet
      <4> QED
        BY <4>1, OldestIs DEF Complete
    <3> QED
      BY <2>2, <2>3, <3>1, <3>2
  <2>4. CASE /\ \E a \in Incomplete : shelf' = Without(a)
             /\ GoOn("prune") /\ UNCHANGED fileFaults
    BY <2>2, <2>4 DEF Incomplete
  <2>5. CASE /\ Cardinality(Complete) <= Retention
             /\ GoOn("replace") /\ UNCHANGED <<shelf, fileFaults>>
    BY <1>kept, <2>1, <2>5 DEF GoOn
  <2>6. CASE FileFault /\ finishFailure /\ UNCHANGED shelf
    BY <1>kept, <2>1, <2>6 DEF finishFailure, FileFault
  <2> QED
    BY <1>17, <2>3, <2>4, <2>5, <2>6 DEF pruneRecoverySets
<1> QED
  BY <1>1, <1>2, <1>3, <1>4, <1>5, <1>6, <1>7, <1>8, <1>9, <1>10, <1>11, <1>12, <1>13, <1>14, <1>15, <1>16, <1>17
  DEF RecoveryNext, ApplyPending

\* The shelf keeps a way back and stays within its limit, for every retention
\* and any number of crashes between copying, pruning and replacing: a crash
\* costs the replaced state one place, and pruning takes the oldest set only.
THEOREM ShelfIsSound == RecoverySpec => []ShelfSound
<1>1. RecoveryInv /\ ShelfInv => ShelfSound
  <2> SUFFICES ASSUME RecoveryInv, ShelfInv PROVE ShelfSound
    OBVIOUS
  <2>1. OriginalKept
    BY DEF ShelfInv, OriginalNotOld, OriginalKept
  <2>2. Cardinality(Complete) \in Nat /\ crashes \in Nat /\ fileFaults \in Nat /\ Retention \in Nat
    BY CompleteFinite, RecoveryAssumption DEF RecoveryInv, RecoveryShape
  <2>3. ShelfBounded
    BY <2>2 DEF ShelfInv, ShelfCounted, ShelfBounded
  <2> QED
    BY <2>1, <2>3 DEF ShelfSound
<1> QED
  BY <1>1, RecoveryInitial, ShelfInitial, RecoveryStep, ShelfStep, PTL DEF RecoverySpec

(***************************************************************************)
(* Package installation.                                                   *)
(***************************************************************************)

\* A property of 1 that passes from each number to the next holds of all.
LEMMA FromOneOn ==
    ASSUME NEW S \in SUBSET Nat, 1 \in S, \A n \in S : n + 1 \in S
    PROVE  \A n \in Nat \ {0} : n \in S
<1> DEFINE rest == (Nat \ {0}) \ S
<1> SUFFICES ASSUME rest # {} PROVE FALSE
  OBVIOUS
<1>1. PICK least \in rest : \A j \in rest : least <= j
  <2> HIDE DEF rest
  <2>1. rest \in SUBSET Nat BY DEF rest
  <2> QED BY <2>1, LeastNatural
<1>2. least \in Nat /\ least # 1 /\ least - 1 \in Nat \ {0}
  BY <1>1
<1>3. least - 1 \in S
  BY <1>1, <1>2
<1>4. least - 1 + 1 \in S
  BY <1>3
<1> QED
  BY <1>1, <1>2, <1>4

\* The loop over the rows of a package, row by row.
LEMMA CatalogPasses ==
    ASSUME NEW rows, Len(rows) \in Nat \ {0}
    PROVE  \E f : /\ catalogByID(rows) = f[Len(rows)] /\ f[1] = rows[1]
                  /\ \A n \in 2..Len(rows) : f[n] = Kept(f[n - 1], rows[n])
<1> DEFINE m == Len(rows)
           upTo[i \in 1..Len(rows)] == IF i = 1 THEN rows[1] ELSE Kept(upTo[i - 1], rows[i])
           Partial == {k \in Nat : \E g : g = [i \in 1..k |->
                         IF i = 1 THEN rows[1] ELSE Kept(g[i - 1], rows[i])]}
<1>1. \A n \in Nat \ {0} : n \in Partial
  <2>1. 1 \in Partial
    <3> DEFINE g == [i \in 1..1 |-> rows[1]]
    <3>1. g = [i \in 1..1 |-> IF i = 1 THEN rows[1] ELSE Kept(g[i - 1], rows[i])]
      OBVIOUS
    <3> HIDE DEF g
    <3> QED BY <3>1
  <2>2. ASSUME NEW k \in Partial PROVE k + 1 \in Partial
    <3>1. PICK g : g = [i \in 1..k |-> IF i = 1 THEN rows[1] ELSE Kept(g[i - 1], rows[i])]
      OBVIOUS
    <3> DEFINE h == [i \in 1..(k + 1) |->
                       IF i <= k THEN g[i] ELSE IF i = 1 THEN rows[1] ELSE Kept(g[k], rows[k + 1])]
    <3>2. ASSUME NEW i \in 1..(k + 1)
          PROVE  h[i] = IF i = 1 THEN rows[1] ELSE Kept(h[i - 1], rows[i])
      <4>1. CASE i = k + 1 /\ i # 1
        <5>1. h[i] = Kept(g[k], rows[k + 1]) /\ h[i - 1] = g[k] BY <4>1
        <5> QED BY <4>1, <5>1
      <4>2. CASE i # k + 1
        <5>1. i \in 1..k /\ h[i] = g[i] BY <4>2
        <5>2. i # 1 => h[i - 1] = g[i - 1] BY <5>1
        <5>3. g[i] = IF i = 1 THEN rows[1] ELSE Kept(g[i - 1], rows[i]) BY <3>1, <5>1
        <5> HIDE DEF h
        <5> QED BY <5>1, <5>2, <5>3
      <4>3. CASE i = k + 1 /\ i = 1
        BY <4>3
      <4> QED BY <4>1, <4>2, <4>3
    <3>3. DOMAIN h = 1..(k + 1) /\ h = [i \in 1..(k + 1) |-> h[i]] OBVIOUS
    <3> HIDE DEF h
    <3>4. h = [i \in 1..(k + 1) |-> IF i = 1 THEN rows[1] ELSE Kept(h[i - 1], rows[i])]
      BY <3>2, <3>3
    <3>5. k + 1 \in Nat OBVIOUS
    <3>6. \E f : f = [i \in 1..(k + 1) |-> IF i = 1 THEN rows[1] ELSE Kept(f[i - 1], rows[i])]
      BY <3>4, Zenon
    <3> QED BY <3>5, <3>6
  <2> HIDE DEF Partial
  <2>3. Partial \in SUBSET Nat BY DEF Partial
  <2> QED BY <2>1, <2>2, <2>3, FromOneOn
<1>2. \E g : g = [i \in 1..m |-> IF i = 1 THEN rows[1] ELSE Kept(g[i - 1], rows[i])]
  BY <1>1
<1>3. upTo = [i \in 1..m |-> IF i = 1 THEN rows[1] ELSE Kept(upTo[i - 1], rows[i])]
  BY <1>2, Zenon
<1>4. catalogByID(rows) = upTo[m]
  BY Zenon DEF catalogByID
<1> HIDE DEF upTo
<1>5. upTo[1] = rows[1]
  BY <1>3
<1>6. ASSUME NEW n \in 2..m PROVE upTo[n] = Kept(upTo[n - 1], rows[n])
  BY <1>3
<1> QED BY <1>4, <1>5, <1>6

\* The best of the first n rows: no beta if there is a stable one, and of its
\* kind the newest.
BestOf(rows, n, best) ==
    /\ \E k \in 1..n : rows[k] = best
    /\ \A k \in 1..n : ~rows[k].beta => ~best.beta
    /\ \A k \in 1..n : rows[k].beta = best.beta => rows[k].version <= best.version

\* One row more.
LEMMA KeptIsBest ==
    ASSUME NEW rows \in Seq(Row), NEW n \in 1..(Len(rows) - 1), NEW best, BestOf(rows, n, best),
           PackageAssumption
    PROVE  BestOf(rows, n + 1, Kept(best, rows[n + 1]))
<1> DEFINE row == rows[n + 1]
<1>0. /\ n \in Nat /\ n + 1 \in DOMAIN rows /\ \A k \in 1..n : k \in DOMAIN rows
      /\ \A k \in 1..(n + 1) : k \in 1..n \/ k = n + 1
      /\ \A k \in 1..n : k \in 1..(n + 1)
      /\ n + 1 \in 1..(n + 1)
  <2>1. Len(rows) \in Nat /\ DOMAIN rows = 1..Len(rows) OBVIOUS
  <2> QED BY <2>1
<1>1. \A k \in DOMAIN rows : rows[k] \in Row
  OBVIOUS
<1>2. \A k \in DOMAIN rows : rows[k].version \in Nat /\ rows[k].beta \in BOOLEAN
  BY <1>1 DEF Row, PackageAssumption
<1>3. /\ row.version \in Nat /\ row.beta \in BOOLEAN
      /\ best.version \in Nat /\ best.beta \in BOOLEAN
  BY <1>0, <1>2 DEF BestOf
<1>4. ASSUME Kept(best, row) = row, best.beta \/ ~row.beta,
             row.beta = best.beta => best.version <= row.version
      PROVE  BestOf(rows, n + 1, row)
  <2>1. ASSUME NEW k \in 1..(n + 1), ~rows[k].beta PROVE ~row.beta
    BY <1>0, <1>2, <1>3, <1>4, <2>1 DEF BestOf
  <2>2. ASSUME NEW k \in 1..(n + 1), rows[k].beta = row.beta PROVE rows[k].version <= row.version
    <3>1. CASE k = n + 1 BY <3>1, <1>3
    <3>2. CASE k \in 1..n
      <4>1. best.beta = row.beta
        BY <1>2, <1>0, <1>3, <1>4, <2>2, <3>2 DEF BestOf
      <4>2. rows[k].version <= best.version /\ best.version <= row.version
        BY <1>4, <2>2, <3>2, <4>1 DEF BestOf
      <4> QED BY <1>0, <1>2, <1>3, <3>2, <4>2
    <3> QED BY <1>0, <3>1, <3>2
  <2> QED BY <1>0, <2>1, <2>2 DEF BestOf
<1>5. ASSUME Kept(best, row) = best, ~row.beta => ~best.beta,
             row.beta = best.beta => row.version <= best.version
      PROVE  BestOf(rows, n + 1, best)
  BY <1>0, <1>5 DEF BestOf
<1> HIDE DEF row
<1>6. CASE best.beta # row.beta /\ best.beta
  BY <1>3, <1>4, <1>6 DEF Kept, row
<1>7. CASE best.beta # row.beta /\ ~best.beta
  BY <1>3, <1>5, <1>7 DEF Kept, row
<1>8. CASE best.beta = row.beta /\ row.version > best.version
  BY <1>3, <1>4, <1>8 DEF Kept, row
<1>9. CASE best.beta = row.beta /\ ~(row.version > best.version)
  BY <1>3, <1>5, <1>9 DEF Kept, row
<1> QED BY <1>3, <1>6, <1>7, <1>8, <1>9

\* catalogByID keeps the best of any number of rows.
LEMMA CatalogIsBest ==
    ASSUME NEW rows \in Seq(Row), rows # <<>>, PackageAssumption
    PROVE  BestOf(rows, Len(rows), catalogByID(rows)) /\ catalogByID(rows).version \in Version
<1> DEFINE m == Len(rows)
<1>1. m \in Nat \ {0} /\ DOMAIN rows = 1..m
  OBVIOUS
<1>2. PICK f : /\ catalogByID(rows) = f[m] /\ f[1] = rows[1]
               /\ \A n \in 2..m : f[n] = Kept(f[n - 1], rows[n])
  BY <1>1, CatalogPasses
<1> DEFINE Sound == {n \in Nat : n <= m => BestOf(rows, n, f[n])}
<1>3. 1 \in Sound
  <2>1. rows[1] \in Row BY <1>1
  <2>2. rows[1].version \in Nat BY <2>1 DEF Row, PackageAssumption
  <2>3. rows[1].version <= rows[1].version BY <2>2
  <2>4. \A k \in 1..1 : k = 1 OBVIOUS
  <2>5. 1 \in 1..1 OBVIOUS
  <2> QED BY <1>2, <2>3, <2>4, <2>5 DEF BestOf
<1>4. ASSUME NEW n \in Sound, n # 0 PROVE n + 1 \in Sound
  <2> SUFFICES ASSUME n + 1 <= m PROVE BestOf(rows, n + 1, f[n + 1])
    OBVIOUS
  <2>1. /\ n \in 1..(m - 1) /\ n + 1 \in 2..m /\ n + 1 - 1 = n
        /\ BestOf(rows, n, f[n])
    BY <1>1, <1>4
  <2>2. f[n + 1] = Kept(f[n], rows[n + 1]) BY <1>2, <2>1
  <2> QED BY <2>1, <2>2, KeptIsBest
<1>5. m \in Sound
  <2> HIDE DEF Sound
  <2>1. Sound \ {0} \in SUBSET Nat BY DEF Sound
  <2>2. 1 \in Sound \ {0} /\ \A n \in Sound \ {0} : n + 1 \in Sound \ {0}
    BY <1>3, <1>4, <2>1
  <2>3. \A n \in Nat \ {0} : n \in Sound \ {0}
    <3> DEFINE S == Sound \ {0}
    <3>1. S \in SUBSET Nat /\ 1 \in S /\ \A n \in S : n + 1 \in S BY <2>1, <2>2
    <3> HIDE DEF S
    <3>2. \A n \in Nat \ {0} : n \in S BY <3>1, FromOneOn
    <3> QED BY <3>2 DEF S
  <2> QED BY <1>1, <2>3
<1>6. BestOf(rows, m, catalogByID(rows))
  BY <1>1, <1>2, <1>5
<1>7. PICK k \in 1..m : rows[k] = catalogByID(rows)
  BY <1>6 DEF BestOf
<1>8. rows[k] \in Row BY <1>1, <1>7
<1> QED BY <1>6, <1>7, <1>8 DEF Row

-----------------------------------------------------------------------------
InstallStep == [id : PackageIds, version : Version]
WalkFrame == [id : {Root} \union PackageIds, next : Nat \ {0}]
Phases == {"none", "walking", "planned", "refused", "stale", "start", "await", "done", "failed"}
JobShape ==
    [phase : Phases, update : BOOLEAN, blind : BOOLEAN,
     from : {0} \union Version, steps : Seq(InstallStep), at : Nat \ {0},
     expect : {0} \union Version, seen : [PackageIds -> {0} \union Version],
     stack : Seq(WalkFrame)]

PackageShape ==
    /\ inventory \in [PackageIds -> {0} \union Version]
    /\ requires \in [PackageIds -> Seq(PackageIds)]
    /\ catalogue \in [PackageIds -> Seq(Row)]
    /\ job \in JobShape
    /\ dsmTasks \in SUBSET InstallStep
    /\ plans \in Nat

\* The catalogue does not change once a plan has been made, and without one
\* there is nothing that a package depends on.
CatalogueFirst ==
    /\ plans = 0 => job = NoJob /\ dsmTasks = {}
    /\ Offered = {} => requires = [p \in PackageIds |-> <<>>]

\* A package is installed in one version only, whoever asked for it.
VersionOf(p) == IF Offered = {} THEN LocalVersion ELSE catalogByID(catalogue[p]).version
OneVersion ==
    /\ \A t \in dsmTasks : t.version = VersionOf(t.id)
    /\ \A i \in DOMAIN job.steps : job.steps[i].version = VersionOf(job.steps[i].id)

\* The frames of the walk are a path of needed packages, each one a dependency
\* of the one before; what a frame has behind it is done, but for the call it
\* waits for.
PathSound ==
    job.phase = "walking" =>
        /\ Depth >= 1 /\ job.stack[1].id = Root
        /\ \A k \in 2..Depth : /\ job.stack[k].id \in Needed \intersect Downloadable
                               /\ job.stack[k].id \notin Visited \union Base
        /\ \A j, k \in 1..Depth : job.stack[j].id = job.stack[k].id => j = k
        /\ \A k \in 1..Depth : job.stack[k].next <= Len(Dependencies(job.stack[k].id)) + 1
        /\ \A k \in 1..(Depth - 1) :
            /\ job.stack[k].next > 1
            /\ Dependencies(job.stack[k].id)[job.stack[k].next - 1] = job.stack[k + 1].id
        /\ \A k \in 1..Depth : \A i \in 1..(job.stack[k].next - 1) :
            \/ Dependencies(job.stack[k].id)[i] \in Visited \union Base
            \/ k < Depth /\ Dependencies(job.stack[k].id)[i] = job.stack[k + 1].id

\* The steps found so far are needed, offered, and each there once.
StepsNeeded ==
    /\ job.phase \in {"walking", "planned"} =>
        /\ Visited \subseteq Needed \intersect Downloadable
        /\ Goal \notin Base
        /\ job.at = 1
        /\ \A i, j \in DOMAIN job.steps : job.steps[i].id = job.steps[j].id => i = j
    /\ job.phase = "planned" => Goal \in Visited

\* What a step depends on comes before it.
StepsInOrder ==
    job.phase \in {"walking", "planned", "start", "await", "done"} =>
        \A i \in DOMAIN job.steps : \A d \in Lacking(job.steps[i].id) :
            \E j \in 1..(i - 1) : job.steps[j].id = d

\* A refusal has its reason.
RefusalSound == job.phase = "refused" => ~(Needed \subseteq Downloadable) \/ Cyclic(Needed)

\* What was there when the plan was made still is, unless somebody else has
\* changed it, ...
Active == job.phase \in {"walking", "planned", "start", "await", "done"}
SeenStays == Active => \A p \in PackageIds : job.seen[p] # 0 => inventory[p] # 0 \/ p \in touched

\* ... and so is what the apply has confirmed.
Behind(i) == (job.phase \in {"start", "await"} /\ i < job.at) \/ job.phase = "done"
ConfirmedStays ==
    \A i \in DOMAIN job.steps : Behind(i) =>
        LET p == job.steps[i].id
        IN  p \notin touched =>
                /\ inventory[p] # 0
                /\ job.update /\ ~job.blind /\ p = Goal => inventory[p] = job.steps[i].version

ApplyPlaced ==
    /\ job.phase \in {"start", "await"} => job.at \in DOMAIN job.steps
    /\ job.phase = "await" => job.expect = ExpectVersion \/ job.blind

PackageInv ==
    /\ PackageShape /\ CatalogueFirst /\ OneVersion
    /\ PathSound /\ StepsNeeded /\ StepsInOrder /\ RefusalSound
    /\ SeenStays /\ ConfirmedStays /\ ApplyPlaced

-----------------------------------------------------------------------------
\* What is needed is the least set that holds the goal and is closed.
LEMMA NeededIsLeast ==
    /\ Goal \in Needed
    /\ \A p \in Needed : p \in PackageIds /\ Lacking(p) \subseteq Needed
    /\ \A s \in SUBSET PackageIds : Goal \in s /\ Closed(s) => Needed \subseteq s
<1>1. Goal \in PackageIds
  BY PackageAssumption DEF PackageAssumption, PackageIds, Goal
<1>2. Goal \in Needed
  BY <1>1 DEF Needed
<1>3. ASSUME NEW p \in Needed, NEW d \in Lacking(p) PROVE d \in Needed
  <2>1. d \in PackageIds BY DEF Lacking
  <2>2. ASSUME NEW s \in SUBSET PackageIds, Goal \in s, Closed(s) PROVE d \in s
    <3>1. p \in s BY <2>2 DEF Needed
    <3> QED BY <2>2, <3>1 DEF Closed
  <2> QED BY <2>1, <2>2 DEF Needed
<1>4. \A p \in Needed : p \in PackageIds
  BY DEF Needed
<1>5. \A s \in SUBSET PackageIds : Goal \in s /\ Closed(s) => Needed \subseteq s
  BY DEF Needed
<1> QED BY <1>2, <1>3, <1>4, <1>5

\* What is needed depends on what was seen, and on the catalogue.
LEMMA SameProblem ==
    ASSUME job'.seen = job.seen, job'.update = job.update, requires' = requires
    PROVE  /\ Base' = Base /\ Needed' = Needed
           /\ \A p : Lacking(p)' = Lacking(p)
           /\ \A s : Cyclic(s)' = Cyclic(s)
<1>1. Base' = Base
  BY DEF Base, InstalledIn
<1>2. \A p : Lacking(p)' = Lacking(p)
  BY <1>1 DEF Lacking
<1>3. \A s : Closed(s)' = Closed(s)
  BY <1>2 DEF Closed
<1>4. Needed' = Needed
  BY <1>3 DEF Needed
<1>5. \A s : Cyclic(s)' = Cyclic(s)
  BY <1>2 DEF Cyclic
<1> QED BY <1>1, <1>2, <1>4, <1>5

\* What the walk has on its stack, and what the frames list.
LEMMA WalkFacts ==
    ASSUME PackageShape
    PROVE  /\ Depth \in Nat /\ DOMAIN job.stack = 1..Depth
           /\ \A k \in 1..Depth :
               /\ job.stack[k].id \in {Root} \union PackageIds
               /\ job.stack[k].next \in Nat \ {0}
               /\ job.stack[k] = [id |-> job.stack[k].id, next |-> job.stack[k].next]
               /\ Dependencies(job.stack[k].id) \in Seq(PackageIds)
           /\ Len(job.steps) \in Nat /\ DOMAIN job.steps = 1..Len(job.steps)
           /\ \A i \in DOMAIN job.steps : job.steps[i].id \in PackageIds /\ job.steps[i].version \in Version
           /\ Visited \subseteq PackageIds
           /\ Root \notin PackageIds /\ Goal \in PackageIds
<1>1. /\ job.stack \in Seq(WalkFrame) /\ job.steps \in Seq(InstallStep)
      /\ requires \in [PackageIds -> Seq(PackageIds)]
  BY DEF PackageShape, JobShape
<1>2. Depth \in Nat /\ DOMAIN job.stack = 1..Depth
  BY <1>1 DEF Depth
<1>3. Len(job.steps) \in Nat /\ DOMAIN job.steps = 1..Len(job.steps)
  BY <1>1
<1>4. \A k \in 1..Depth : job.stack[k] \in WalkFrame
  BY <1>1, <1>2
<1>5. \A i \in DOMAIN job.steps : job.steps[i] \in InstallStep
  BY <1>1, <1>3
<1>6. Goal \in PackageIds /\ Root \notin PackageIds
  BY PackageAssumption DEF PackageAssumption, PackageIds, Goal, Root
<1>7. \A id \in {Root} \union PackageIds : Dependencies(id) \in Seq(PackageIds)
  <2>1. <<Goal>> \in Seq(PackageIds) BY <1>6
  <2> QED BY <1>1, <2>1 DEF Dependencies
<1>8. \A k \in 1..Depth :
        /\ job.stack[k].id \in {Root} \union PackageIds /\ job.stack[k].next \in Nat \ {0}
        /\ job.stack[k] = [id |-> job.stack[k].id, next |-> job.stack[k].next]
  BY <1>4 DEF WalkFrame
<1>9. \A i \in DOMAIN job.steps : job.steps[i].id \in PackageIds /\ job.steps[i].version \in Version
  BY <1>5 DEF InstallStep
<1>10. Visited \subseteq PackageIds
  BY <1>9 DEF Visited
<1> QED BY <1>2, <1>3, <1>6, <1>7, <1>8, <1>9, <1>10

PlanInv == PathSound /\ StepsNeeded /\ StepsInOrder /\ RefusalSound

\* A step of the NAS leaves the plan as it is.
LEMMA PlanStands ==
    ASSUME PackageInv, UNCHANGED <<job, requires, catalogue>>
    PROVE  PlanInv' /\ ApplyPlaced' /\ Offered' = Offered /\ \A p : VersionOf(p)' = VersionOf(p)
<1>0. job' = job /\ requires' = requires /\ catalogue' = catalogue
  OBVIOUS
<1>1. Base' = Base /\ Needed' = Needed /\ \A p : Lacking(p)' = Lacking(p)
  BY <1>0, SameProblem
<1>2. \A s : Cyclic(s)' = Cyclic(s)
  BY <1>0, SameProblem
<1>3. Offered' = Offered /\ Downloadable' = Downloadable
  BY <1>0 DEF Offered, Downloadable
<1>4. \A p : VersionOf(p)' = VersionOf(p)
  BY <1>0, <1>3 DEF VersionOf
<1>5. Visited' = Visited /\ Depth' = Depth /\ \A id : Dependencies(id)' = Dependencies(id)
  BY <1>0 DEF Visited, Depth, Dependencies
<1>6. PathSound'
  BY <1>0, <1>1, <1>3, <1>5 DEF PackageInv, PathSound
<1>7. StepsNeeded' /\ StepsInOrder'
  BY <1>0, <1>1, <1>3, <1>5 DEF PackageInv, StepsNeeded, StepsInOrder
<1>8. RefusalSound'
  BY <1>0, <1>1, <1>2, <1>3 DEF PackageInv, RefusalSound
<1>9. ApplyPlaced'
  BY <1>0 DEF PackageInv, ApplyPlaced, ExpectVersion, CurrentStep
<1> QED BY <1>3, <1>4, <1>6, <1>7, <1>8, <1>9 DEF PlanInv

\* The innermost call of the walk.
LEMMA InnermostFacts ==
    ASSUME PackageInv, job.phase = "walking"
    PROVE  /\ Depth \in Nat \ {0} /\ Depth \in 1..Depth
           /\ Innermost.id \in {Root} \union PackageIds /\ Innermost.next \in Nat \ {0}
           /\ Dependencies(Innermost.id) \in Seq(PackageIds)
           /\ Onward \in Seq(WalkFrame) /\ Len(Onward) = Depth
           /\ \A k \in 1..Depth : Onward[k].id = job.stack[k].id
           /\ \A k \in 1..(Depth - 1) : Onward[k].next = job.stack[k].next
           /\ Onward[Depth].next = Innermost.next + 1
<1>0. PackageShape /\ Depth >= 1
  BY DEF PackageInv, PathSound
<1>1. Depth \in Nat \ {0} /\ Depth \in 1..Depth /\ DOMAIN job.stack = 1..Depth
  BY <1>0, WalkFacts
<1>2. /\ Innermost.id \in {Root} \union PackageIds /\ Innermost.next \in Nat \ {0}
      /\ Innermost = [id |-> Innermost.id, next |-> Innermost.next]
      /\ Dependencies(Innermost.id) \in Seq(PackageIds)
  BY <1>0, <1>1, WalkFacts DEF Innermost
<1>3. job.stack \in Seq(WalkFrame)
  BY <1>0 DEF PackageShape, JobShape
<1> DEFINE top == [id |-> Innermost.id, next |-> Innermost.next + 1]
<1>4. Onward = [job.stack EXCEPT ![Depth] = top]
  BY <1>1, <1>2 DEF Onward, Innermost
<1>5. top \in WalkFrame /\ top.id = Innermost.id /\ top.next = Innermost.next + 1
  BY <1>2 DEF WalkFrame
<1> HIDE DEF top
<1>6. Onward \in Seq(WalkFrame) /\ Len(Onward) = Depth
  BY <1>1, <1>3, <1>4, <1>5 DEF Depth
<1>7. Onward[Depth] = top /\ \A k \in 1..(Depth - 1) : Onward[k] = job.stack[k]
  BY <1>1, <1>3, <1>4
<1>8. \A k \in 1..Depth : k = Depth \/ k \in 1..(Depth - 1)
  BY <1>1
<1>9. \A k \in 1..Depth : Onward[k].id = job.stack[k].id
  BY <1>5, <1>7, <1>8 DEF Innermost
<1> QED BY <1>1, <1>2, <1>5, <1>6, <1>7, <1>9

\* What the steps of the walk have in common: they leave the problem and the
\* NAS as they are.
Walks ==
    /\ job.phase = "walking" /\ job'.phase \in {"walking", "planned", "refused"}
    /\ job' \in JobShape
    /\ job'.seen = job.seen /\ job'.update = job.update /\ job'.at = job.at
    /\ UNCHANGED <<inventory, requires, catalogue, dsmTasks, touched, plans>>
    /\ \A i \in DOMAIN job'.steps : job'.steps[i].version = VersionOf(job'.steps[i].id)

\* They keep what is not about the plan.
LEMMA WalkingKeepsRest ==
    ASSUME PackageInv, Walks
    PROVE  /\ PackageShape' /\ CatalogueFirst' /\ OneVersion'
           /\ SeenStays' /\ ConfirmedStays' /\ ApplyPlaced'
           /\ Base' = Base /\ Needed' = Needed /\ Offered' = Offered /\ Downloadable' = Downloadable
           /\ \A p : Lacking(p)' = Lacking(p)
           /\ \A s : Cyclic(s)' = Cyclic(s)
           /\ \A id : Dependencies(id)' = Dependencies(id)
<1>1. /\ requires' = requires /\ catalogue' = catalogue /\ inventory' = inventory
      /\ dsmTasks' = dsmTasks /\ touched' = touched /\ plans' = plans
  BY DEF Walks
<1>2. /\ Base' = Base /\ Needed' = Needed /\ \A p : Lacking(p)' = Lacking(p)
      /\ \A s : Cyclic(s)' = Cyclic(s)
  BY <1>1, SameProblem DEF Walks
<1>3. Offered' = Offered /\ Downloadable' = Downloadable /\ \A id : Dependencies(id)' = Dependencies(id)
  BY <1>1 DEF Offered, Downloadable, Dependencies
<1>4. \A p : VersionOf(p)' = VersionOf(p)
  BY <1>1, <1>3 DEF VersionOf
<1>5. PackageShape'
  BY <1>1 DEF PackageInv, PackageShape, Walks
<1>6. plans # 0
  BY DEF PackageInv, CatalogueFirst, Walks, NoJob
<1>7. CatalogueFirst'
  BY <1>1, <1>3, <1>6 DEF PackageInv, CatalogueFirst
<1>8. OneVersion'
  BY <1>1, <1>4 DEF PackageInv, OneVersion, Walks
<1>9. SeenStays'
  BY <1>1 DEF PackageInv, SeenStays, Active, Walks
<1>10. ConfirmedStays' /\ ApplyPlaced'
  BY DEF Walks, ConfirmedStays, Behind, ApplyPlaced
<1> QED BY <1>2, <1>3, <1>5, <1>7, <1>8, <1>9, <1>10

\* The dependency that the innermost call is at is needed, unless it is there.
LEMMA NextIsNeeded ==
    ASSUME PackageInv, job.phase = "walking", Innermost.next <= Len(Dependencies(Innermost.id)),
           NEW id, id = Dependencies(Innermost.id)[Innermost.next]
    PROVE  /\ id \in PackageIds
           /\ id \notin Base => id \in Needed
           /\ id \notin Base /\ Innermost.id # Root => id \in Lacking(Innermost.id)
<1>0. /\ Depth \in Nat \ {0} /\ Innermost.next \in Nat \ {0}
      /\ Innermost.id \in {Root} \union PackageIds
      /\ Dependencies(Innermost.id) \in Seq(PackageIds)
  BY InnermostFacts
<1>1. Innermost.next \in 1..Len(Dependencies(Innermost.id))
  BY <1>0
<1>2. id \in PackageIds
  BY <1>0, <1>1
<1>3. CASE Innermost.id = Root
  <2>1. Dependencies(Innermost.id) = <<Goal>> BY <1>3 DEF Dependencies
  <2>2. id = Goal BY <1>1, <2>1
  <2> QED BY <1>2, <1>3, <2>2, NeededIsLeast
<1>4. CASE Innermost.id # Root
  <2>1. Depth # 1 BY <1>4 DEF PackageInv, PathSound, Innermost
  <2>2. Depth \in 2..Depth BY <1>0, <2>1
  <2>3. Innermost.id \in Needed BY <2>2 DEF PackageInv, PathSound, Innermost
  <2>4. Dependencies(Innermost.id) = requires[Innermost.id] BY <1>4 DEF Dependencies
  <2>5. id \notin Base => id \in Lacking(Innermost.id) BY <1>0, <1>1, <1>2, <2>4 DEF Lacking
  <2> QED BY <1>2, <2>3, <2>5, NeededIsLeast
<1> QED BY <1>3, <1>4

\* A call that goes on behind a dependency that is done, or calls visit for it.
LEMMA GoingOn ==
    ASSUME PackageInv, Walks, Innermost.next <= Len(Dependencies(Innermost.id)),
           NEW id, id = Dependencies(Innermost.id)[Innermost.next],
           job'.phase = "walking", job'.steps = job.steps,
           \/ id \in Visited \union Base /\ job'.stack = Onward
           \/ /\ id \notin Visited \union Base \union Visiting /\ id \in Downloadable
              /\ job'.stack = Append(Onward, Frame(id))
    PROVE  PackageInv'
<1> DEFINE n == Len(job'.stack)
<1>0. /\ Depth \in Nat \ {0} /\ Innermost.next \in Nat \ {0}
      /\ Dependencies(Innermost.id) \in Seq(PackageIds)
      /\ Onward \in Seq(WalkFrame) /\ Len(Onward) = Depth
      /\ \A k \in 1..Depth : Onward[k].id = job.stack[k].id
      /\ \A k \in 1..(Depth - 1) : Onward[k].next = job.stack[k].next
      /\ Onward[Depth].next = Innermost.next + 1
      /\ job.phase = "walking"
  BY InnermostFacts DEF Walks
<1>1. /\ PackageShape' /\ CatalogueFirst' /\ OneVersion'
      /\ SeenStays' /\ ConfirmedStays' /\ ApplyPlaced'
      /\ Base' = Base /\ Needed' = Needed /\ Downloadable' = Downloadable
      /\ \A p : Lacking(p)' = Lacking(p)
      /\ \A p : Dependencies(p)' = Dependencies(p)
  BY WalkingKeepsRest
<1>2. /\ Visited' = Visited /\ id \in PackageIds
      /\ id \notin Base => id \in Needed
  BY <1>0, NextIsNeeded DEF Visited
<1>3. /\ Depth' = n /\ n \in {Depth, Depth + 1}
      /\ \A k \in 1..Depth : job'.stack[k] = Onward[k]
      /\ n = Depth => id \in Visited \union Base
      /\ n = Depth + 1 => /\ job'.stack[n].id = id /\ job'.stack[n].next = 1
                          /\ id \notin Visited \union Base \union Visiting /\ id \in Downloadable
  <2>1. CASE job'.stack = Onward
    BY <2>1, <1>0 DEF Depth
  <2>2. CASE job'.stack = Append(Onward, Frame(id))
    BY <2>2, <1>0 DEF Depth, Frame
  <2> QED BY <2>1, <2>2
<1> HIDE DEF n
<1>4. /\ \A k \in 1..n : k \in 1..Depth \/ (n = Depth + 1 /\ k = n)
      /\ \A k \in 1..Depth : k = Depth \/ k \in 1..(Depth - 1)
      /\ \A k \in 1..(Depth - 1) : k \in 1..Depth /\ k + 1 \in 1..Depth
      /\ Depth \in 1..Depth /\ n \in Nat /\ n >= 1 /\ 1 \in 1..Depth
  BY <1>0, <1>3
<1>5. /\ \A k \in 1..Depth : job'.stack[k].id = job.stack[k].id
      /\ \A k \in 1..(Depth - 1) : job'.stack[k].next = job.stack[k].next
      /\ job'.stack[Depth].next = Innermost.next + 1
      /\ job'.stack[Depth].id = Innermost.id
  BY <1>0, <1>3, <1>4 DEF Innermost
<1>6. job'.stack[1].id = Root
  BY <1>0, <1>4, <1>5 DEF PackageInv, PathSound
<1>7. \A k \in 2..n :
          /\ job'.stack[k].id \in Needed \intersect Downloadable
          /\ job'.stack[k].id \notin Visited \union Base
  <2>1. ASSUME NEW k \in 2..n, k \in 1..Depth
        PROVE  job'.stack[k].id \in Needed \intersect Downloadable /\ job'.stack[k].id \notin Visited \union Base
    <3>1. k \in 2..Depth BY <2>1, <1>0
    <3> QED BY <1>0, <1>5, <2>1, <3>1 DEF PackageInv, PathSound
  <2>2. \A k \in 2..n : k \in 1..n BY <1>4
  <2> QED BY <1>2, <1>3, <1>4, <2>1, <2>2
<1>8. \A j, k \in 1..n : job'.stack[j].id = job'.stack[k].id => j = k
  <2>1. \A k \in 1..Depth : job.stack[k].id \in Visiting
    BY <1>1, WalkFacts DEF Visiting, PackageInv
  <2>2. \A j, k \in 1..Depth : job.stack[j].id = job.stack[k].id => j = k
    BY <1>0 DEF PackageInv, PathSound
  <2>3. \A j, k \in 1..Depth : job'.stack[j].id = job'.stack[k].id => j = k
    BY <1>5, <2>2
  <2>4. n = Depth + 1 => \A k \in 1..Depth : job'.stack[n].id # job'.stack[k].id
    BY <1>3, <1>5, <2>1
  <2> QED BY <1>4, <2>3, <2>4, SMTT(30)
<1>9. \A k \in 1..n : job'.stack[k].next <= Len(Dependencies(job'.stack[k].id)) + 1
  <2>1. ASSUME NEW k \in 1..(Depth - 1)
        PROVE  job'.stack[k].next <= Len(Dependencies(job'.stack[k].id)) + 1
    BY <1>0, <1>4, <1>5 DEF PackageInv, PathSound
  <2>2. job'.stack[Depth].next <= Len(Dependencies(job'.stack[Depth].id)) + 1
    <3>1. Len(Dependencies(Innermost.id)) \in Nat BY <1>0
    <3> QED BY <1>0, <1>5, <3>1
  <2>3. n = Depth + 1 => job'.stack[n].next <= Len(Dependencies(job'.stack[n].id)) + 1
    <3>1. requires \in [PackageIds -> Seq(PackageIds)] BY DEF PackageInv, PackageShape
    <3>2. Goal \in PackageIds BY NeededIsLeast
    <3>3. Dependencies(id) \in Seq(PackageIds) BY <1>2, <3>1, <3>2 DEF Dependencies
    <3>4. Len(Dependencies(id)) \in Nat BY <3>3
    <3> QED BY <1>3, <3>4
  <2> QED BY <1>4, <2>1, <2>2, <2>3
<1>10. \A k \in 1..(n - 1) :
        /\ job'.stack[k].next > 1
        /\ Dependencies(job'.stack[k].id)[job'.stack[k].next - 1] = job'.stack[k + 1].id
  <2>1. ASSUME NEW k \in 1..(Depth - 1)
        PROVE  /\ job'.stack[k].next > 1
               /\ Dependencies(job'.stack[k].id)[job'.stack[k].next - 1] = job'.stack[k + 1].id
    <3>1. /\ job'.stack[k].id = job.stack[k].id /\ job'.stack[k].next = job.stack[k].next
          /\ job'.stack[k + 1].id = job.stack[k + 1].id
      BY <1>4, <1>5
    <3>2. /\ job.stack[k].next > 1
          /\ Dependencies(job.stack[k].id)[job.stack[k].next - 1] = job.stack[k + 1].id
      BY <1>0 DEF PackageInv, PathSound
    <3> QED BY <3>1, <3>2, Zenon
  <2>2. n = Depth + 1 =>
          /\ job'.stack[Depth].next > 1
          /\ Dependencies(job'.stack[Depth].id)[job'.stack[Depth].next - 1] = job'.stack[Depth + 1].id
    <3>1. /\ job'.stack[Depth].next > 1 /\ job'.stack[Depth].next - 1 = Innermost.next
      BY <1>0, <1>5
    <3>2. n = Depth + 1 => job'.stack[Depth + 1].id = id BY <1>3
    <3> QED BY <1>5, <3>1, <3>2, Zenon
  <2>3. \A k \in 1..(n - 1) : k \in 1..(Depth - 1) \/ (n = Depth + 1 /\ k = Depth) BY <1>0, <1>3
  <2> QED BY <2>1, <2>2, <2>3
<1>11. \A k \in 1..n : \A i \in 1..(job'.stack[k].next - 1) :
        \/ Dependencies(job'.stack[k].id)[i] \in Visited \union Base
        \/ k < n /\ Dependencies(job'.stack[k].id)[i] = job'.stack[k + 1].id
  <2>1. ASSUME NEW k \in 1..(Depth - 1), NEW i \in 1..(job'.stack[k].next - 1)
        PROVE  \/ Dependencies(job'.stack[k].id)[i] \in Visited \union Base
               \/ k < n /\ Dependencies(job'.stack[k].id)[i] = job'.stack[k + 1].id
    <3>1. k < n BY <1>0, <1>3
    <3>2. /\ job'.stack[k].id = job.stack[k].id /\ job'.stack[k].next = job.stack[k].next
          /\ job'.stack[k + 1].id = job.stack[k + 1].id
      BY <1>4, <1>5
    <3>3. \/ Dependencies(job.stack[k].id)[i] \in Visited \union Base
          \/ Dependencies(job.stack[k].id)[i] = job.stack[k + 1].id
      BY <1>0, <1>4, <3>2 DEF PackageInv, PathSound
    <3> QED BY <3>1, <3>2, <3>3, Zenon
  <2>2. ASSUME NEW i \in 1..(job'.stack[Depth].next - 1)
        PROVE  \/ Dependencies(job'.stack[Depth].id)[i] \in Visited \union Base
               \/ Depth < n /\ Dependencies(job'.stack[Depth].id)[i] = job'.stack[Depth + 1].id
    <3>1. i = Innermost.next \/ i \in 1..(Innermost.next - 1) BY <1>0, <1>5, <2>2
    <3>2. CASE i = Innermost.next
      BY <1>0, <1>3, <1>5, <3>2
    <3>3. CASE i \in 1..(Innermost.next - 1)
      <4>1. Dependencies(Innermost.id)[i] \in Visited \union Base
        <5>1. \A j \in 1..(job.stack[Depth].next - 1) :
                \/ Dependencies(job.stack[Depth].id)[j] \in Visited \union Base
                \/ Depth < Depth /\ Dependencies(job.stack[Depth].id)[j] = job.stack[Depth + 1].id
          BY <1>0, <1>4 DEF PackageInv, PathSound
        <5>2. ~(Depth < Depth) BY <1>0
        <5> QED BY <3>3, <5>1, <5>2, Zenon DEF Innermost
      <4> QED BY <1>5, <4>1
    <3> QED BY <3>1, <3>2, <3>3
  <2>3. n = Depth + 1 => 1..(job'.stack[n].next - 1) = {} BY <1>3
  <2> QED BY <1>4, <2>1, <2>2, <2>3
<1>12. PathSound'
  BY <1>1, <1>2, <1>3, <1>4, <1>6, <1>7, <1>8, <1>9, <1>10, <1>11 DEF PathSound
<1>13. StepsNeeded' /\ StepsInOrder'
  <2>1. job'.steps = job.steps /\ job'.at = job.at BY DEF Walks
  <2>2. StepsNeeded' BY <1>0, <1>1, <1>2, <2>1 DEF PackageInv, StepsNeeded
  <2>3. StepsInOrder'
    <3>1. requires' = requires BY DEF Walks
    <3>2. StepsInOrder BY DEF PackageInv
    <3> QED BY <1>0, <1>1, <2>1, <3>1, <3>2 DEF StepsInOrder, Lacking
  <2> QED BY <2>2, <2>3
<1>14. RefusalSound'
  BY DEF RefusalSound
<1> QED BY <1>1, <1>12, <1>13, <1>14 DEF PackageInv

\* A dependency that is not offered, or that a frame below waits for: the
\* frames from there on are a circle.
LEMMA RefusingKeepsInv ==
    ASSUME PackageInv, Walks, Innermost.next <= Len(Dependencies(Innermost.id)),
           NEW id, id = Dependencies(Innermost.id)[Innermost.next],
           id \notin Visited \union Base, id \in Visiting \/ id \notin Downloadable,
           job'.phase = "refused", job'.steps = <<>>
    PROVE  PackageInv'
<1>0. job.phase = "walking" /\ PackageShape
  BY DEF Walks, PackageInv
<1>1. /\ PackageShape' /\ CatalogueFirst' /\ OneVersion'
      /\ SeenStays' /\ ConfirmedStays' /\ ApplyPlaced'
      /\ Needed' = Needed /\ Downloadable' = Downloadable /\ \A s : Cyclic(s)' = Cyclic(s)
  BY WalkingKeepsRest
<1>2. /\ id \in PackageIds /\ id \in Needed
      /\ Innermost.id # Root => id \in Lacking(Innermost.id)
  BY <1>0, NextIsNeeded
<1>3. ASSUME id \in Visiting PROVE Cyclic(Needed)
  <2>1. /\ Depth \in Nat /\ DOMAIN job.stack = 1..Depth /\ Root \notin PackageIds
        /\ \A k \in 1..Depth : job.stack[k].next \in Nat \ {0}
        /\ \A k \in 1..Depth : Dependencies(job.stack[k].id) \in Seq(PackageIds)
    BY <1>0, WalkFacts
  <2>2. PICK m \in 1..Depth : job.stack[m].id = id
    BY <1>3, <2>1 DEF Visiting
  <2>3. job.stack[1].id = Root BY <1>0 DEF PackageInv, PathSound
  <2>4. m \in 2..Depth BY <1>2, <2>1, <2>2, <2>3
  <2> DEFINE circle == {job.stack[k].id : k \in m..Depth}
  <2>5. \A k \in m..Depth : k \in 2..Depth /\ k \in 1..Depth BY <2>1, <2>4
  <2>6. \A k \in 2..Depth : job.stack[k].id \in Needed /\ job.stack[k].id \notin Base
    BY <1>0 DEF PackageInv, PathSound
  <2>7. circle \in SUBSET Needed /\ id \in circle
    BY <2>1, <2>2, <2>4, <2>5, <2>6
  <2>8. \A k \in 2..Depth : job.stack[k].id \in PackageIds BY <2>6, NeededIsLeast
  <2>9. ASSUME NEW k \in m..Depth PROVE Lacking(job.stack[k].id) \intersect circle # {}
    <3>1. CASE k = Depth
      <4>1. job.stack[k].id = Innermost.id BY <3>1 DEF Innermost
      <4>2. Innermost.id # Root BY <2>1, <2>5, <2>8, <4>1
      <4>3. id \in Lacking(job.stack[k].id) BY <1>2, <4>1, <4>2
      <4> QED BY <2>7, <4>3
    <3>2. CASE k # Depth
      <4>1. k \in 1..(Depth - 1) /\ k + 1 \in m..Depth /\ k + 1 \in 2..Depth /\ k \in 1..Depth
        BY <2>1, <2>4, <3>2
      <4> DEFINE next == job.stack[k].next
                 deps == Dependencies(job.stack[k].id)
                 d == job.stack[k + 1].id
      <4>2. /\ next > 1 /\ deps[next - 1] = d /\ next <= Len(deps) + 1
        BY <1>0, <4>1 DEF PackageInv, PathSound
      <4>3. deps = requires[job.stack[k].id] BY <2>1, <2>5, <2>8 DEF Dependencies
      <4>4. next \in Nat /\ deps \in Seq(PackageIds) BY <2>1, <4>1
      <4> HIDE DEF next, deps
      <4>5. next - 1 \in DOMAIN deps BY <4>2, <4>4
      <4>6. d \in PackageIds \ Base BY <2>6, <2>8, <4>1
      <4>7. d \in circle BY <4>1
      <4> HIDE DEF d, circle
      <4>8. d \in Lacking(job.stack[k].id) BY <4>2, <4>3, <4>5, <4>6 DEF Lacking
      <4> QED BY <4>7, <4>8
    <3> QED BY <3>1, <3>2
  <2>10. \A p \in circle : Lacking(p) \intersect circle # {}
    BY <2>9
  <2> HIDE DEF circle
  <2> QED BY <2>7, <2>10 DEF Cyclic
<1>4. ASSUME id \notin Downloadable PROVE ~(Needed \subseteq Downloadable)
  BY <1>2, <1>4
<1>5. RefusalSound'
  <2>1. ~(Needed \subseteq Downloadable) \/ Cyclic(Needed) BY <1>3, <1>4
  <2>2. ~(Needed \subseteq Downloadable)' <=> ~(Needed \subseteq Downloadable) BY <1>1
  <2>3. Cyclic(Needed)' = Cyclic(Needed) BY <1>1, SameProblem DEF Walks, Cyclic
  <2> QED BY <2>1, <2>2, <2>3 DEF RefusalSound
<1>6. PathSound' /\ StepsNeeded' /\ StepsInOrder'
  BY DEF PathSound, StepsNeeded, StepsInOrder
<1> QED BY <1>1, <1>5, <1>6 DEF PackageInv

\* A call that has no dependency left returns to the one below.
LEMMA ReturningKeepsInv ==
    ASSUME PackageInv, Walks, Innermost.next > Len(Dependencies(Innermost.id)), Innermost.id # Root,
           job'.phase = "walking", job'.stack = SubSeq(job.stack, 1, Depth - 1),
           NEW version, job'.steps = Append(job.steps, [id |-> Innermost.id, version |-> version])
    PROVE  PackageInv'
<1> DEFINE id == Innermost.id
           m == Len(job.steps)
<1>0. /\ Depth \in Nat \ {0} /\ Depth \in 1..Depth
      /\ Innermost.next \in Nat \ {0} /\ Dependencies(id) \in Seq(PackageIds)
      /\ job.phase = "walking" /\ PackageShape
  BY InnermostFacts DEF Walks, PackageInv
<1>1. /\ PackageShape' /\ CatalogueFirst' /\ OneVersion'
      /\ SeenStays' /\ ConfirmedStays' /\ ApplyPlaced'
      /\ Base' = Base /\ Needed' = Needed /\ Downloadable' = Downloadable
      /\ \A p : Lacking(p)' = Lacking(p)
      /\ \A p : Dependencies(p)' = Dependencies(p)
  BY WalkingKeepsRest
<1>2. /\ m \in Nat /\ DOMAIN job.steps = 1..m /\ job.stack \in Seq(WalkFrame)
      /\ job.steps \in Seq(InstallStep)
  BY <1>0, WalkFacts DEF PackageShape, JobShape
<1>3. Depth \in 2..Depth
  <2>1. Depth # 1 BY <1>0 DEF PackageInv, PathSound, Innermost
  <2> QED BY <1>0, <2>1
<1>4. id \in Needed \intersect Downloadable /\ id \notin Visited \union Base
  BY <1>0, <1>3 DEF PackageInv, PathSound, Innermost
<1>5. /\ Depth' = Depth - 1 /\ Depth - 1 \in Nat \ {0}
      /\ \A k \in 1..(Depth - 1) : job'.stack[k] = job.stack[k]
  <2>1. Depth = Len(job.stack) BY DEF Depth
  <2>2. Len(job'.stack) = Depth - 1 /\ Depth - 1 \in Nat \ {0}
    BY <1>0, <1>2, <1>3, <2>1, SMTT(30)
  <2>3. \A k \in 1..(Depth - 1) : job'.stack[k] = job.stack[k] BY <1>0, <1>2, <1>3, <2>1
  <2> QED BY <2>2, <2>3 DEF Depth
<1>6. /\ DOMAIN job'.steps = 1..(m + 1) /\ job'.steps[m + 1].id = id
      /\ \A i \in 1..m : job'.steps[i] = job.steps[i]
      /\ \A i \in 1..(m + 1) : i \in 1..m \/ i = m + 1
      /\ \A i \in 1..m : i \in 1..(m + 1) /\ i \in 1..(m + 1 - 1)
      /\ m + 1 \in 1..(m + 1)
  <2> DEFINE step == [id |-> Innermost.id, version |-> version]
  <2>1. step.id = id OBVIOUS
  <2> HIDE DEF step, id
  <2>2. job'.steps = Append(job.steps, step) BY DEF step
  <2>3. DOMAIN job'.steps = 1..(m + 1) /\ job'.steps[m + 1] = step BY <1>2, <2>2
  <2>4. \A i \in 1..m : job'.steps[i] = job.steps[i] BY <1>2, <2>2
  <2> HIDE DEF m
  <2>5. /\ \A i \in 1..(m + 1) : i \in 1..m \/ i = m + 1
        /\ \A i \in 1..m : i \in 1..(m + 1) /\ i \in 1..(m + 1 - 1)
        /\ m + 1 \in 1..(m + 1)
    BY <1>2
  <2> QED BY <2>1, <2>3, <2>4, <2>5
<1>7. \A i \in 1..m : job.steps[i].id \in Visited /\ job.steps[i].id # id
  BY <1>2, <1>4 DEF Visited
<1> HIDE DEF m
<1>8. Visited' = Visited \union {id}
  <2>1. Visited = {job.steps[i].id : i \in 1..m} BY <1>2 DEF Visited
  <2>2. Visited' = {job'.steps[i].id : i \in 1..(m + 1)} BY <1>6 DEF Visited
  <2> HIDE DEF id
  <2>3. ASSUME NEW x \in Visited' PROVE x \in Visited \union {id}
    <3>1. PICK i \in 1..(m + 1) : x = job'.steps[i].id BY <2>2, <2>3
    <3> QED BY <1>6, <2>1, <3>1
  <2>4. ASSUME NEW x \in Visited \union {id} PROVE x \in Visited'
    <3>1. CASE x \in Visited
      <4>1. PICK i \in 1..m : x = job.steps[i].id BY <2>1, <3>1
      <4> QED BY <1>6, <2>2, <4>1
    <3>2. CASE x = id BY <1>6, <2>2, <3>2
    <3> QED BY <3>1, <3>2
  <2> QED BY <2>3, <2>4
<1>9. \A d \in Lacking(id) : d \in Visited
  <2>1. Dependencies(id) = requires[id] BY DEF Dependencies
  <2>2. ASSUME NEW d \in Lacking(id) PROVE d \in Visited
    <3>1. PICK i \in DOMAIN requires[id] : requires[id][i] = d BY DEF Lacking
    <3>2. i \in 1..Len(requires[id]) BY <1>0, <2>1, <3>1
    <3>3. i \in 1..(Innermost.next - 1) BY <1>0, <2>1, <3>2
    <3>4. Dependencies(id)[i] \in Visited \union Base
      BY <1>0, <3>3 DEF PackageInv, PathSound, Innermost
    <3>5. d \notin Base BY DEF Lacking
    <3> QED BY <2>1, <3>1, <3>4, <3>5
  <2> QED BY <2>2
<1>10. StepsInOrder'
  <2>1. requires' = requires BY DEF Walks
  <2>2. ASSUME NEW i \in 1..m, NEW d \in Lacking(job.steps[i].id)
        PROVE  \E j \in 1..(i - 1) : job'.steps[j].id = d
    <3>1. PICK j \in 1..(i - 1) : job.steps[j].id = d
      BY <1>0, <1>2 DEF PackageInv, StepsInOrder
    <3>2. j \in 1..m BY <1>2, <3>1
    <3> QED BY <1>6, <3>1, <3>2
  <2>3. ASSUME NEW d \in Lacking(id)
        PROVE  \E j \in 1..m : job'.steps[j].id = d
    <3>1. d \in Visited BY <1>9
    <3>2. PICK j \in 1..m : job.steps[j].id = d BY <1>2, <3>1 DEF Visited
    <3> QED BY <1>6, <3>2
  <2>4. ASSUME NEW i \in 1..(m + 1), NEW d \in Lacking(job'.steps[i].id)
        PROVE  \E j \in 1..(i - 1) : job'.steps[j].id = d
    <3>1. CASE i \in 1..m BY <1>6, <2>2, <2>4, <3>1
    <3>2. CASE i = m + 1
      <4>1. job'.steps[i].id = id BY <1>6, <3>2
      <4>2. d \in Lacking(id) BY <2>4, <4>1
      <4>3. PICK j \in 1..m : job'.steps[j].id = d BY <2>3, <4>2
      <4>4. j \in 1..(i - 1) BY <1>2, <3>2, <4>3
      <4> QED BY <4>3, <4>4
    <3> QED BY <1>6, <3>1, <3>2
  <2>5. ASSUME NEW i \in 1..(m + 1), NEW d \in Lacking(job.steps[i].id)'
        PROVE  \E j \in 1..(i - 1) : job'.steps[j].id = d
    <3>1. d \in Lacking(job'.steps[i].id) BY <1>1, <2>1, <2>5 DEF Lacking
    <3> QED BY <2>4, <3>1
  <2>6. DOMAIN job'.steps = 1..(m + 1) BY <1>6
  <2> HIDE DEF id
  <2> QED BY <2>5, <2>6 DEF StepsInOrder
<1>11. StepsNeeded'
  <2>1. \A i, j \in 1..(m + 1) : job'.steps[i].id = job'.steps[j].id => i = j
    <3>1. \A i, j \in 1..m : job.steps[i].id = job.steps[j].id => i = j
      BY <1>0, <1>2 DEF PackageInv, StepsNeeded
    <3> HIDE DEF id
    <3> QED BY <1>6, <1>7, <3>1
  <2>2. Visited' \subseteq Needed \intersect Downloadable
    <3>1. Visited \subseteq Needed \intersect Downloadable BY <1>0 DEF PackageInv, StepsNeeded
    <3> HIDE DEF id
    <3> QED BY <1>4, <1>8, <3>1
  <2>3. Goal \notin Base /\ job'.at = 1 BY <1>0 DEF PackageInv, StepsNeeded, Walks
  <2> QED BY <1>1, <1>6, <2>1, <2>2, <2>3 DEF StepsNeeded
<1>12. PathSound'
  <2> DEFINE n == Depth - 1
  <2>0. n \in Nat \ {0} /\ Depth' = n BY <1>5
  <2>1. /\ \A k \in 1..n : k \in 1..Depth /\ k < Depth /\ k \in 1..(Depth - 1)
        /\ \A k \in 2..n : k \in 2..Depth /\ k \in 1..n
        /\ \A k \in 1..(n - 1) : k \in 1..n /\ k \in 1..(Depth - 1) /\ k + 1 \in 1..n
        /\ 1 \in 1..n /\ n \in 1..n /\ n >= 1
    BY <1>0, <1>3
  <2>2. \A k \in 1..n : job'.stack[k] = job.stack[k] BY <1>5
  <2>3. job'.stack[1].id = Root BY <1>0, <2>1, <2>2 DEF PackageInv, PathSound
  <2>4. \A k \in 2..n :
            /\ job'.stack[k].id \in Needed \intersect Downloadable
            /\ job'.stack[k].id \notin Visited' \union Base
    <3>1. ASSUME NEW k \in 2..n PROVE job.stack[k].id # id
      <4>1. k \in 1..Depth /\ k # Depth BY <2>1
      <4>2. job.stack[k].id = job.stack[Depth].id => k = Depth BY <1>0, <4>1 DEF PackageInv, PathSound
      <4> QED BY <4>1, <4>2 DEF Innermost
    <3>2. \A k \in 2..n :
              /\ job.stack[k].id \in Needed \intersect Downloadable
              /\ job.stack[k].id \notin Visited \union Base
      BY <1>0, <2>1 DEF PackageInv, PathSound
    <3> HIDE DEF id, n
    <3> QED BY <1>8, <2>1, <2>2, <3>1, <3>2
  <2>5. \A j, k \in 1..n : job'.stack[j].id = job'.stack[k].id => j = k
    BY <1>0, <2>1, <2>2 DEF PackageInv, PathSound
  <2>6. \A k \in 1..n : job'.stack[k].next <= Len(Dependencies(job'.stack[k].id)) + 1
    BY <1>0, <2>1, <2>2 DEF PackageInv, PathSound
  <2>7. ASSUME NEW k \in 1..(n - 1)
        PROVE  /\ job'.stack[k].next > 1
               /\ Dependencies(job'.stack[k].id)[job'.stack[k].next - 1] = job'.stack[k + 1].id
    <3>1. /\ job.stack[k].next > 1
          /\ Dependencies(job.stack[k].id)[job.stack[k].next - 1] = job.stack[k + 1].id
      BY <1>0, <2>1 DEF PackageInv, PathSound
    <3>2. job'.stack[k] = job.stack[k] /\ job'.stack[k + 1] = job.stack[k + 1] BY <2>1, <2>2
    <3> QED BY <3>1, <3>2, Zenon
  <2>8. ASSUME NEW k \in 1..n, NEW i \in 1..(job'.stack[k].next - 1)
        PROVE  \/ Dependencies(job'.stack[k].id)[i] \in Visited' \union Base
               \/ k < n /\ Dependencies(job'.stack[k].id)[i] = job'.stack[k + 1].id
    <3>1. job'.stack[k] = job.stack[k] BY <2>2
    <3>2. \/ Dependencies(job.stack[k].id)[i] \in Visited \union Base
          \/ Dependencies(job.stack[k].id)[i] = job.stack[k + 1].id
      BY <1>0, <2>1, <3>1 DEF PackageInv, PathSound
    <3>3. CASE Dependencies(job.stack[k].id)[i] \in Visited \union Base
      <4> HIDE DEF id, n
      <4> QED BY <1>8, <3>1, <3>3
    <3>4. CASE Dependencies(job.stack[k].id)[i] = job.stack[k + 1].id
      <4>1. CASE k = n
        <5>1. k + 1 = Depth BY <1>0, <4>1
        <5>2. job.stack[k + 1].id = id BY <5>1 DEF Innermost
        <5> HIDE DEF id, n
        <5> QED BY <1>8, <3>1, <3>4, <5>2
      <4>2. CASE k # n
        <5>1. k < n /\ k \in 1..(n - 1) BY <1>0, <4>2
        <5>2. job'.stack[k + 1] = job.stack[k + 1] BY <2>1, <2>2, <5>1
        <5> HIDE DEF id, n
        <5> QED BY <3>1, <3>4, <5>1, <5>2, Zenon
      <4> QED BY <4>1, <4>2
    <3> QED BY <3>2, <3>3, <3>4
  <2> HIDE DEF n, id
  <2> QED BY <1>1, <2>0, <2>1, <2>3, <2>4, <2>5, <2>6, <2>7, <2>8 DEF PathSound
<1>13. RefusalSound'
  BY DEF RefusalSound
<1> QED BY <1>1, <1>10, <1>11, <1>12, <1>13 DEF PackageInv

\* The first call returns: the goal is among the steps.
LEMMA EndingKeepsInv ==
    ASSUME PackageInv, Walks, Innermost.next > Len(Dependencies(Innermost.id)), Innermost.id = Root,
           job'.phase = "planned", job'.steps = job.steps
    PROVE  PackageInv'
<1>0. /\ Depth \in Nat \ {0} /\ Depth \in 1..Depth /\ 1 \in 1..Depth
      /\ Innermost.next \in Nat \ {0} /\ job.phase = "walking"
  BY InnermostFacts DEF Walks
<1>1. /\ PackageShape' /\ CatalogueFirst' /\ OneVersion'
      /\ SeenStays' /\ ConfirmedStays' /\ ApplyPlaced'
      /\ Base' = Base /\ Needed' = Needed /\ Downloadable' = Downloadable
      /\ \A p : Lacking(p)' = Lacking(p)
  BY WalkingKeepsRest
<1>2. Dependencies(Innermost.id) = <<Goal>>
  BY DEF Dependencies
<1>3. Len(Dependencies(Innermost.id)) = 1 /\ Dependencies(Innermost.id)[1] = Goal
  BY <1>2
<1>4. 1 \in 1..(Innermost.next - 1)
  BY <1>0, <1>3
<1>5. Goal \in Visited \union Base
  BY <1>0, <1>3, <1>4 DEF PackageInv, PathSound, Innermost
<1>6. Goal \in Visited /\ Visited' = Visited
  <2>1. Goal \notin Base BY <1>0 DEF PackageInv, StepsNeeded
  <2>2. Visited' = Visited BY DEF Visited
  <2> QED BY <1>5, <2>1, <2>2
<1>7. StepsNeeded'
  BY <1>0, <1>1, <1>6 DEF PackageInv, StepsNeeded, Walks
<1>8. StepsInOrder'
  <2>1. requires' = requires BY DEF Walks
  <2>2. StepsInOrder BY DEF PackageInv
  <2> QED BY <1>0, <1>1, <2>1, <2>2 DEF StepsInOrder, Lacking
<1>9. PathSound' /\ RefusalSound'
  BY DEF PathSound, RefusalSound
<1> QED BY <1>1, <1>7, <1>8, <1>9 DEF PackageInv

\* A step of the walk, whatever it does.
LEMMA WalkKeepsInv ==
    ASSUME PackageInv, resolveInstallOrder
    PROVE  PackageInv'
<1>0. /\ job.phase = "walking" /\ PackageShape /\ job \in JobShape
      /\ UNCHANGED <<inventory, requires, catalogue, dsmTasks, touched, plans>>
  BY DEF resolveInstallOrder, PackageInv, PackageShape
<1>1. /\ Depth \in Nat \ {0} /\ Depth \in 1..Depth /\ Onward \in Seq(WalkFrame)
      /\ Innermost.id \in {Root} \union PackageIds
      /\ job.stack \in Seq(WalkFrame) /\ job.steps \in Seq(InstallStep)
  BY <1>0, InnermostFacts DEF JobShape
<1>2. \A i \in DOMAIN job.steps : job.steps[i].version = VersionOf(job.steps[i].id)
  BY DEF PackageInv, OneVersion
<1>3. <<>> \in Seq(WalkFrame) /\ <<>> \in Seq(InstallStep)
  OBVIOUS
<1>4. CASE Visit
  <2> DEFINE id == Dependencies(Innermost.id)[Innermost.next]
  <2>1. Innermost.next <= Len(Dependencies(Innermost.id)) BY <1>4 DEF Visit
  <2>2. id \in PackageIds BY <1>0, <2>1, NextIsNeeded
  <2>3. CASE id \in Visited \union Base
    <3>1. job' = [job EXCEPT !.stack = Onward] BY <1>4, <2>3 DEF Visit
    <3> HIDE DEF id
    <3>2. Walks /\ job'.phase = "walking" /\ job'.steps = job.steps /\ job'.stack = Onward
      BY <1>0, <1>1, <1>2, <3>1 DEF Walks, JobShape
    <3> QED BY <2>1, <2>3, <3>2, GoingOn DEF id
  <2>4. CASE id \notin Visited \union Base /\ (id \in Visiting \/ id \notin Downloadable)
    <3>1. job' = [job EXCEPT !.phase = "refused", !.steps = <<>>, !.stack = <<>>]
      BY <1>4, <2>4 DEF Visit
    <3> HIDE DEF id
    <3>2. /\ job'.phase = "refused" /\ job'.steps = <<>> /\ job'.stack = <<>>
          /\ job'.seen = job.seen /\ job'.update = job.update /\ job'.at = job.at
          /\ job' \in JobShape
      BY <1>0, <1>3, <3>1 DEF JobShape, Phases
    <3>3. DOMAIN job'.steps = {} BY <3>2
    <3>4. Walks BY <1>0, <3>2, <3>3 DEF Walks
    <3> QED BY <2>1, <2>4, <3>2, <3>4, RefusingKeepsInv DEF id
  <2>5. CASE id \notin Visited \union Base \union Visiting /\ id \in Downloadable
    <3>1. job' = [job EXCEPT !.stack = Append(Onward, Frame(id))]
      BY <1>4, <2>5 DEF Visit
    <3> HIDE DEF id
    <3>2. Frame(id) \in WalkFrame BY <2>2 DEF Frame, WalkFrame
    <3>3. Append(Onward, Frame(id)) \in Seq(WalkFrame) BY <1>1, <3>2
    <3>4. /\ Walks /\ job'.phase = "walking" /\ job'.steps = job.steps
          /\ job'.stack = Append(Onward, Frame(id))
      BY <1>0, <1>1, <1>2, <3>1, <3>3 DEF Walks, JobShape
    <3> QED BY <2>1, <2>5, <3>4, GoingOn DEF id
  <2> QED BY <2>3, <2>4, <2>5
<1>5. CASE Return
  <2>1. Innermost.next > Len(Dependencies(Innermost.id)) BY <1>5 DEF Return
  <2>2. CASE Innermost.id = Root
    <3>1. job' = [job EXCEPT !.phase = "planned", !.stack = <<>>] BY <1>5, <2>2 DEF Return
    <3>2. /\ job'.phase = "planned" /\ job'.steps = job.steps
          /\ job'.seen = job.seen /\ job'.update = job.update /\ job'.at = job.at
          /\ job' \in JobShape
      BY <1>0, <1>3, <3>1 DEF JobShape, Phases
    <3>3. Walks BY <1>0, <1>2, <3>2 DEF Walks
    <3> QED BY <2>1, <2>2, <3>2, <3>3, EndingKeepsInv
  <2>3. CASE Innermost.id # Root
    <3> DEFINE version == catalogByID(catalogue[Innermost.id]).version
               step == [id |-> Innermost.id, version |-> version]
               steps == Append(job.steps, step)
               stack == SubSeq(job.stack, 1, Depth - 1)
    <3>1. job' = [job EXCEPT !.stack = stack, !.steps = steps]
      BY <1>5, <2>3 DEF Return
    <3>2. Depth \in 2..Depth
      <4>1. Depth # 1 BY <1>0, <2>3 DEF PackageInv, PathSound, Innermost
      <4> QED BY <1>1, <4>1
    <3>3. Innermost.id \in Offered /\ Innermost.id \in PackageIds
      BY <1>0, <1>1, <2>3, <3>2 DEF PackageInv, PathSound, Innermost, Downloadable
    <3>4. version = VersionOf(Innermost.id) /\ version \in Version
      <4>1. catalogue[Innermost.id] \in Seq(Row) /\ catalogue[Innermost.id] # <<>>
        BY <1>0, <3>3 DEF PackageShape, Offered
      <4>2. version \in Version BY <4>1, CatalogIsBest, PackageAssumption
      <4>3. Offered # {} BY <3>3
      <4> QED BY <4>2, <4>3 DEF VersionOf
    <3> HIDE DEF version
    <3>5. step \in InstallStep /\ step.id = Innermost.id /\ step.version = version
      BY <3>3, <3>4 DEF InstallStep
    <3>6. stack \in Seq(WalkFrame)
      <4>1. Depth = Len(job.stack) BY DEF Depth
      <4> QED BY <1>1, <3>2, <4>1
    <3> HIDE DEF stack, step
    <3>7. /\ steps \in Seq(InstallStep) /\ DOMAIN steps = 1..(Len(job.steps) + 1)
          /\ steps[Len(job.steps) + 1] = step
          /\ \A i \in DOMAIN job.steps : steps[i] = job.steps[i]
          /\ \A i \in DOMAIN steps : i \in DOMAIN job.steps \/ i = Len(job.steps) + 1
      BY <1>1, <3>5
    <3> HIDE DEF steps
    <3>8. \A i \in DOMAIN steps : steps[i].version = VersionOf(steps[i].id)
      BY <1>2, <3>4, <3>5, <3>7
    <3>9. Walks /\ job'.phase = "walking" /\ job'.steps = steps /\ job'.stack = stack
      BY <1>0, <3>1, <3>6, <3>7, <3>8 DEF Walks, JobShape
    <3> QED BY <2>1, <2>3, <3>9, ReturningKeepsInv DEF stack, steps, step
  <2> QED BY <2>2, <2>3
<1> QED BY <1>4, <1>5 DEF resolveInstallOrder

\* A plan begins with nothing but the first frame.
LEMMA PlanningKeepsInv ==
    ASSUME PackageInv, NEW update \in BOOLEAN, update <=> inventory[Goal] # 0, Planning(update),
           plans' = plans + 1, UNCHANGED <<inventory, requires, catalogue, dsmTasks, touched>>
    PROVE  PackageInv'
<1> DEFINE empty == [p \in PackageIds |-> 0]
<1>0. /\ PackageShape /\ inventory' = inventory /\ requires' = requires /\ catalogue' = catalogue
      /\ dsmTasks' = dsmTasks /\ touched' = touched
      /\ inventory \in [PackageIds -> {0} \union Version] /\ plans \in Nat
      /\ Goal \in PackageIds /\ Root \notin PackageIds
  BY WalkFacts DEF PackageInv, PackageShape
<1>1. job' = [phase |-> "walking", update |-> update, blind |-> FALSE, from |-> inventory[Goal], steps |-> <<>>, at |-> 1,
              expect |-> 0, seen |-> inventory, stack |-> <<Frame(Root)>>]
  BY DEF Planning, NoJob
<1>2. /\ job'.phase = "walking" /\ job'.update = update /\ job'.steps = <<>> /\ job'.at = 1
      /\ job'.seen = inventory /\ job'.stack = <<Frame(Root)>>
  BY <1>1
<1>3. Frame(Root) \in WalkFrame /\ Frame(Root).id = Root /\ Frame(Root).next = 1
  BY DEF Frame, WalkFrame
<1>4. /\ <<Frame(Root)>> \in Seq(WalkFrame) /\ <<>> \in Seq(InstallStep)
      /\ Len(<<Frame(Root)>>) = 1 /\ <<Frame(Root)>>[1] = Frame(Root)
  BY <1>3
<1>5. PackageShape'
  <2>1. job' \in JobShape BY <1>0, <1>1, <1>4 DEF JobShape, Phases
  <2>2. plans' \in Nat BY <1>0
  <2> QED BY <1>0, <2>1, <2>2 DEF PackageShape
<1>6. Offered' = Offered /\ plans' # 0 BY <1>0 DEF Offered
<1>7. CatalogueFirst' BY <1>0, <1>6 DEF PackageInv, CatalogueFirst
<1>8. DOMAIN job'.steps = {} BY <1>2
<1>9. OneVersion'
  <2>1. \A p : VersionOf(p)' = VersionOf(p) BY <1>0, <1>6 DEF VersionOf
  <2> QED BY <1>0, <1>8, <2>1 DEF PackageInv, OneVersion
<1>10. Visited' = {} BY <1>8 DEF Visited
<1>11. Goal \notin Base' BY <1>2 DEF Base, InstalledIn
<1>12. StepsNeeded' /\ StepsInOrder'
  BY <1>2, <1>8, <1>10, <1>11 DEF StepsNeeded, StepsInOrder
<1>13. PathSound'
  <2>1. /\ Depth' = 1 /\ job'.stack[1].id = Root /\ job'.stack[1].next = 1
    BY <1>2, <1>3, <1>4 DEF Depth
  <2>2. Len(Dependencies(Root)') = 1
    <3>1. Dependencies(Root)' = <<Goal>> BY DEF Dependencies
    <3> QED BY <3>1
  <2>3. 2..1 = {} /\ 1..(1 - 1) = {} /\ \A k \in 1..1 : k = 1 OBVIOUS
  <2>4. \A k \in 1..1 : job'.stack[k].next <= Len(Dependencies(job.stack[k].id)') + 1
    <3> SUFFICES ASSUME NEW k \in 1..1 PROVE job'.stack[k].next <= Len(Dependencies(job.stack[k].id)') + 1
      OBVIOUS
    <3>1. k = 1 BY <2>3
    <3>2. Dependencies(job.stack[1].id)' = <<Goal>> BY <2>1 DEF Dependencies
    <3>3. Len(<<Goal>>) = 1 OBVIOUS
    <3> QED BY <2>1, <3>1, <3>2, <3>3
  <2>5. \A k \in 1..1 : 1..(job'.stack[k].next - 1) = {} BY <2>1, <2>3
  <2> QED BY <2>1, <2>3, <2>4, <2>5 DEF PathSound
<1>14. RefusalSound' BY <1>2 DEF RefusalSound
<1>15. SeenStays' BY <1>0, <1>2 DEF SeenStays, Active
<1>16. ConfirmedStays' BY <1>8 DEF ConfirmedStays
<1>17. ApplyPlaced' BY <1>2 DEF ApplyPlaced
<1> QED BY <1>5, <1>7, <1>9, <1>12, <1>13, <1>14, <1>15, <1>16, <1>17 DEF PackageInv

\* A file has no dependencies that the caller knows of.
LEMMA LocalKeepsInv ==
    ASSUME PackageInv, InstallLocal
    PROVE  PackageInv'
<1> DEFINE file == [id |-> Goal, version |-> LocalVersion]
<1>0. /\ PackageShape /\ inventory' = inventory /\ requires' = requires /\ catalogue' = catalogue
      /\ touched' = touched /\ dsmTasks' = dsmTasks \union {file} /\ Offered = {}
      /\ inventory \in [PackageIds -> {0} \union Version] /\ plans \in Nat /\ plans' = plans + 1
      /\ Goal \in PackageIds
  BY WalkFacts DEF PackageInv, PackageShape, InstallLocal, MayPlan
<1>1. PICK readable \in BOOLEAN :
        job' = [NoJob EXCEPT !.phase = "await", !.steps = <<file>>, !.seen = inventory,
                             !.update = inventory[Goal] # 0, !.blind = ~readable,
                             !.expect = IF readable /\ inventory[Goal] # 0
                                        THEN file.version ELSE AnyVersion]
  BY DEF InstallLocal
<1> DEFINE upgrade == inventory[Goal] # 0
           blind == ~readable
<1>2. job' = [phase |-> "await", update |-> upgrade, blind |-> blind, from |-> 0, steps |-> <<file>>, at |-> 1,
              expect |-> IF upgrade /\ ~blind THEN LocalVersion ELSE 0, seen |-> inventory, stack |-> <<>>]
  BY <1>1 DEF NoJob, AnyVersion
<1>3. upgrade \in BOOLEAN /\ blind \in BOOLEAN OBVIOUS
<1> HIDE DEF upgrade, blind
<1>4. /\ job'.phase = "await" /\ job'.update = upgrade /\ job'.steps = <<file>> /\ job'.at = 1
      /\ job'.seen = inventory /\ job'.blind = blind
      /\ job'.expect = IF upgrade /\ ~blind THEN LocalVersion ELSE 0
  BY <1>2
<1>5. file \in InstallStep /\ file.id = Goal /\ file.version = LocalVersion /\ LocalVersion \in Version
  BY <1>0, PackageAssumption DEF InstallStep, PackageAssumption
<1> HIDE DEF file
<1>6. /\ <<file>> \in Seq(InstallStep) /\ <<>> \in Seq(WalkFrame)
      /\ DOMAIN <<file>> = {1} /\ <<file>>[1] = file
  BY <1>5
<1>7. PackageShape'
  <2>1. job' \in JobShape BY <1>0, <1>2, <1>3, <1>5, <1>6 DEF JobShape, Phases
  <2>2. plans' \in Nat /\ dsmTasks' \in SUBSET InstallStep BY <1>0, <1>5 DEF PackageShape
  <2> QED BY <1>0, <2>1, <2>2 DEF PackageShape
<1>8. Offered' = {} /\ plans' # 0 BY <1>0 DEF Offered
<1>9. requires = [p \in PackageIds |-> <<>>] BY <1>0 DEF PackageInv, CatalogueFirst
<1>10. CatalogueFirst' BY <1>0, <1>8, <1>9 DEF CatalogueFirst
<1>11. OneVersion'
  <2>1. \A p : VersionOf(p)' = LocalVersion /\ VersionOf(p) = LocalVersion BY <1>0, <1>8 DEF VersionOf
  <2> QED BY <1>0, <1>4, <1>5, <1>6, <2>1 DEF PackageInv, OneVersion
<1>12. StepsInOrder'
  <2>1. DOMAIN job'.steps = {1} /\ job'.steps[1].id = Goal BY <1>4, <1>5, <1>6
  <2>2. requires'[Goal] = <<>> BY <1>0, <1>9
  <2>3. Lacking(Goal)' = {} BY <2>2 DEF Lacking
  <2>4. Lacking(job.steps[1].id)' = {} BY <2>1, <2>2 DEF Lacking
  <2> QED BY <2>1, <2>4 DEF StepsInOrder
<1>13. PathSound' /\ StepsNeeded' /\ RefusalSound'
  BY <1>4 DEF PathSound, StepsNeeded, RefusalSound
<1>14. SeenStays' BY <1>0, <1>4 DEF SeenStays, Active
<1>15. ConfirmedStays' BY <1>4, <1>6 DEF ConfirmedStays, Behind
<1>16. ApplyPlaced'
  BY <1>4, <1>5, <1>6 DEF ApplyPlaced, ExpectVersion, CurrentStep, AnyVersion
<1> QED BY <1>7, <1>10, <1>11, <1>12, <1>13, <1>14, <1>15, <1>16 DEF PackageInv

\* An apply goes on, and installs only what the plan lists.
Applies ==
    /\ job.phase \in {"planned", "start", "await"}
    /\ job'.phase \in {"stale", "start", "await", "done", "failed"}
    /\ job' \in JobShape
    /\ job'.seen = job.seen /\ job'.update = job.update /\ job'.blind = job.blind /\ job'.steps = job.steps
    /\ UNCHANGED <<inventory, requires, catalogue, touched, plans>>
    /\ \A t \in dsmTasks' : t \in dsmTasks \/ \E i \in DOMAIN job.steps : t = job.steps[i]

\* The plan stands while it is applied.
LEMMA ApplyingKeepsPlan ==
    ASSUME PackageInv, Applies
    PROVE  PackageShape' /\ CatalogueFirst' /\ OneVersion' /\ PlanInv' /\ SeenStays'
<1>0. /\ PackageShape /\ inventory' = inventory /\ requires' = requires /\ catalogue' = catalogue
      /\ touched' = touched /\ plans' = plans /\ job' \in JobShape
      /\ job'.steps = job.steps
  BY DEF PackageInv, Applies
<1>1. Base' = Base /\ Needed' = Needed /\ \A p : Lacking(p)' = Lacking(p)
  BY <1>0, SameProblem DEF Applies
<1>2. Offered' = Offered BY <1>0 DEF Offered
<1>3. \A p : VersionOf(p)' = VersionOf(p) BY <1>0, <1>2 DEF VersionOf
<1>4. PackageShape'
  <2>1. \A i \in DOMAIN job.steps : job.steps[i] \in InstallStep BY <1>0 DEF PackageShape, JobShape
  <2>2. \A t \in dsmTasks' : t \in InstallStep BY <1>0, <2>1 DEF Applies, PackageShape
  <2> QED BY <1>0, <2>2 DEF PackageShape
<1>5. plans # 0 BY DEF PackageInv, CatalogueFirst, Applies, NoJob
<1>6. CatalogueFirst' BY <1>0, <1>2, <1>5 DEF PackageInv, CatalogueFirst
<1>7. OneVersion' BY <1>0, <1>3 DEF PackageInv, OneVersion, Applies
<1>8. StepsInOrder'
  <2>1. job.phase \in {"walking", "planned", "start", "await", "done"} BY DEF Applies
  <2>2. StepsInOrder BY DEF PackageInv
  <2> QED BY <1>0, <1>1, <2>1, <2>2 DEF StepsInOrder, Lacking
<1>9. PathSound' /\ StepsNeeded' /\ RefusalSound'
  BY DEF Applies, PathSound, StepsNeeded, RefusalSound
<1>10. SeenStays' BY <1>0 DEF PackageInv, SeenStays, Active, Applies
<1> QED BY <1>4, <1>6, <1>7, <1>8, <1>9, <1>10 DEF PlanInv

\* The precondition is looked at, and the first step is the one to start.
LEMMA ApplyKeepsInv ==
    ASSUME PackageInv, ApplyInstallPlan
    PROVE  PackageInv'
<1> DEFINE phase == IF job.update /\ inventory[Goal] # job.from THEN "stale" ELSE "start"
<1>0. job.phase = "planned" /\ job \in JobShape /\ job' = [job EXCEPT !.phase = phase]
  BY DEF ApplyInstallPlan, PackageInv, PackageShape
<1>1. phase \in {"stale", "start"} OBVIOUS
<1> HIDE DEF phase
<1>2. /\ job' \in JobShape /\ job'.phase = phase /\ job'.at = job.at /\ job'.steps = job.steps
      /\ job'.seen = job.seen /\ job'.update = job.update /\ job'.blind = job.blind
  BY <1>0, <1>1 DEF JobShape, Phases
<1>3. Applies BY <1>0, <1>1, <1>2 DEF Applies, ApplyInstallPlan
<1>4. /\ PackageShape' /\ CatalogueFirst' /\ OneVersion' /\ SeenStays'
      /\ PathSound' /\ StepsNeeded' /\ StepsInOrder' /\ RefusalSound'
  BY <1>3, ApplyingKeepsPlan DEF PlanInv
<1>5. Goal \in Visited /\ job.at = 1 BY <1>0 DEF PackageInv, StepsNeeded
<1>6. Len(job.steps) \in Nat /\ DOMAIN job.steps = 1..Len(job.steps)
  BY WalkFacts DEF PackageInv
<1>7. 1 \in DOMAIN job.steps
  <2>1. PICK i \in DOMAIN job.steps : TRUE BY <1>5 DEF Visited
  <2> QED BY <1>6, <2>1
<1>8. ApplyPlaced' BY <1>1, <1>2, <1>5, <1>7 DEF ApplyPlaced
<1>9. ConfirmedStays'
  <2>1. \A i \in DOMAIN job.steps : ~(i < 1) BY <1>6
  <2>2. \A i \in DOMAIN job'.steps : ~Behind(i)'
    BY <1>1, <1>2, <1>5, <2>1 DEF Behind
  <2> QED BY <2>2 DEF ConfirmedStays
<1> QED BY <1>4, <1>8, <1>9 DEF PackageInv

\* A step that is not confirmed leaves the confirmed ones.
LEMMA StartKeepsInv ==
    ASSUME PackageInv, StartStep
    PROVE  PackageInv'
<1>0. /\ job.phase = "start" /\ job \in JobShape /\ PackageShape
      /\ UNCHANGED <<inventory, requires, catalogue, touched, plans>>
  BY DEF StartStep, PackageInv, PackageShape
<1>1. job.at \in DOMAIN job.steps BY <1>0 DEF PackageInv, ApplyPlaced
<1>2. \A i \in DOMAIN job.steps : job.steps[i].id \in PackageIds /\ job.steps[i].version \in Version
  BY <1>0, WalkFacts
<1>3. ExpectVersion \in {0} \union Version
  BY <1>1, <1>2 DEF ExpectVersion, CurrentStep, AnyVersion
<1>4. \A t \in dsmTasks' : t \in dsmTasks \/ \E i \in DOMAIN job.steps : t = job.steps[i]
  BY <1>1 DEF StartStep, CurrentStep
<1>5. CASE job' = [job EXCEPT !.phase = "await", !.expect = ExpectVersion]
  <2> DEFINE version == ExpectVersion
  <2>1. version \in {0} \union Version /\ job' = [job EXCEPT !.phase = "await", !.expect = version]
    BY <1>3, <1>5
  <2> HIDE DEF version
  <2>2. /\ job' \in JobShape /\ job'.phase = "await" /\ job'.at = job.at /\ job'.steps = job.steps
        /\ job'.seen = job.seen /\ job'.update = job.update /\ job'.blind = job.blind /\ job'.expect = version
    BY <1>0, <2>1 DEF JobShape, Phases
  <2>3. Applies BY <1>0, <1>4, <2>2 DEF Applies
  <2>4. /\ PackageShape' /\ CatalogueFirst' /\ OneVersion' /\ SeenStays'
        /\ PathSound' /\ StepsNeeded' /\ StepsInOrder' /\ RefusalSound'
    BY <2>3, ApplyingKeepsPlan DEF PlanInv
  <2>5. ApplyPlaced'
    <3>1. ExpectVersion' = ExpectVersion BY <2>2 DEF ExpectVersion, CurrentStep
    <3> QED BY <1>1, <2>2, <3>1 DEF ApplyPlaced, version
  <2>6. ConfirmedStays'
    BY <1>0, <2>2 DEF PackageInv, ConfirmedStays, Behind
  <2> QED BY <2>4, <2>5, <2>6 DEF PackageInv
<1>6. CASE job' = [job EXCEPT !.phase = "failed"]
  <2>1. /\ job' \in JobShape /\ job'.phase = "failed" /\ job'.steps = job.steps
        /\ job'.seen = job.seen /\ job'.update = job.update /\ job'.blind = job.blind
    BY <1>0, <1>6 DEF JobShape, Phases
  <2>2. Applies BY <1>0, <1>4, <2>1 DEF Applies
  <2>3. /\ PackageShape' /\ CatalogueFirst' /\ OneVersion' /\ SeenStays'
        /\ PathSound' /\ StepsNeeded' /\ StepsInOrder' /\ RefusalSound'
    BY <2>2, ApplyingKeepsPlan DEF PlanInv
  <2>4. ApplyPlaced' /\ ConfirmedStays' BY <2>1 DEF ApplyPlaced, ConfirmedStays, Behind
  <2> QED BY <2>3, <2>4 DEF PackageInv
<1> QED BY <1>5, <1>6 DEF StartStep

\* The step that is awaited becomes one of the confirmed when it is.
LEMMA AwaitKeepsInv ==
    ASSUME PackageInv, AwaitInstalled
    PROVE  PackageInv'
<1>0. /\ job.phase = "await" /\ job \in JobShape /\ PackageShape
      /\ inventory' = inventory /\ touched' = touched
      /\ UNCHANGED <<inventory, requires, catalogue, touched, plans>> /\ dsmTasks' = dsmTasks
  BY DEF AwaitInstalled, PackageInv, PackageShape
<1>1. job.at \in DOMAIN job.steps /\ (job.expect = ExpectVersion \/ job.blind) BY <1>0 DEF PackageInv, ApplyPlaced
<1>2. /\ \A i \in DOMAIN job.steps : job.steps[i].id \in PackageIds /\ job.steps[i].version \in Version
      /\ Len(job.steps) \in Nat /\ DOMAIN job.steps = 1..Len(job.steps)
  BY <1>0, WalkFacts
<1>3. CASE job' = [job EXCEPT !.phase = "failed"]
  <2>1. /\ job' \in JobShape /\ job'.phase = "failed" /\ job'.steps = job.steps
        /\ job'.seen = job.seen /\ job'.update = job.update /\ job'.blind = job.blind
    BY <1>0, <1>3 DEF JobShape, Phases
  <2>2. Applies BY <1>0, <2>1 DEF Applies
  <2>3. /\ PackageShape' /\ CatalogueFirst' /\ OneVersion' /\ SeenStays'
        /\ PathSound' /\ StepsNeeded' /\ StepsInOrder' /\ RefusalSound'
    BY <2>2, ApplyingKeepsPlan DEF PlanInv
  <2>4. ApplyPlaced' /\ ConfirmedStays' BY <2>1 DEF ApplyPlaced, ConfirmedStays, Behind
  <2> QED BY <2>3, <2>4 DEF PackageInv
<1>4. CASE /\ Confirmed
           /\ job' = IF job.at = Len(job.steps) THEN [job EXCEPT !.phase = "done"]
                     ELSE [job EXCEPT !.phase = "start", !.at = @ + 1]
  <2>1. /\ job' \in JobShape /\ job'.steps = job.steps
        /\ job'.seen = job.seen /\ job'.update = job.update /\ job'.blind = job.blind
        /\ \/ job.at = Len(job.steps) /\ job'.phase = "done"
           \/ job.at # Len(job.steps) /\ job'.phase = "start" /\ job'.at = job.at + 1
    <3>1. CASE job.at = Len(job.steps) BY <1>0, <1>4, <3>1 DEF JobShape, Phases
    <3>2. CASE job.at # Len(job.steps)
      <4> DEFINE next == job.at + 1
      <4>1. next \in Nat \ {0} BY <1>1, <1>2
      <4>2. job' = [job EXCEPT !.phase = "start", !.at = next] BY <1>4, <3>2
      <4> HIDE DEF next
      <4>3. /\ job' \in JobShape /\ job'.steps = job.steps /\ job'.seen = job.seen
            /\ job'.update = job.update /\ job'.blind = job.blind /\ job'.phase = "start" /\ job'.at = next
        BY <1>0, <4>1, <4>2 DEF JobShape, Phases
      <4> QED BY <3>2, <4>3 DEF next
    <3> QED BY <3>1, <3>2
  <2>2. Applies BY <1>0, <2>1 DEF Applies
  <2>3. /\ PackageShape' /\ CatalogueFirst' /\ OneVersion' /\ SeenStays'
        /\ PathSound' /\ StepsNeeded' /\ StepsInOrder' /\ RefusalSound'
    BY <2>2, ApplyingKeepsPlan DEF PlanInv
  <2>4. ApplyPlaced' BY <1>1, <1>2, <2>1 DEF ApplyPlaced
  <2>5. LET p == job.steps[job.at].id
        IN  inventory[p] # 0 /\ (job.update /\ ~job.blind /\ p = Goal => inventory[p] = job.steps[job.at].version)
    <3>1. job.steps[job.at].version # 0
      <4>1. 0 \notin Version BY PackageAssumption DEF PackageAssumption
      <4> QED BY <1>1, <1>2, <4>1
    <3> QED BY <1>1, <1>4, <3>1 DEF Confirmed, CurrentStep, ExpectVersion, AnyVersion
  <2>6. \A i \in DOMAIN job.steps : Behind(i)' => i = job.at \/ Behind(i)
    BY <1>0, <1>1, <1>2, <2>1 DEF Behind
  <2>7. ConfirmedStays'
    <3>1. ConfirmedStays BY DEF PackageInv
    <3> QED BY <1>0, <2>1, <2>5, <2>6, <3>1 DEF ConfirmedStays
  <2> QED BY <2>3, <2>4, <2>7 DEF PackageInv
<1> QED BY <1>3, <1>4 DEF AwaitInstalled

\* The catalogue comes before the first plan.
LEMMA PublishKeepsInv ==
    ASSUME PackageInv, Publish
    PROVE  PackageInv'
<1>0. /\ job = NoJob /\ dsmTasks = {} /\ job' = job /\ dsmTasks' = dsmTasks /\ inventory' = inventory
      /\ plans' = plans /\ PackageShape
  BY DEF PackageInv, CatalogueFirst, Publish
<1>1. PICK c \in Published : requires' = c.requires /\ catalogue' = c.catalogue
  BY DEF Publish
<1>2. PackageShape'
  BY <1>0, <1>1, PackageAssumption DEF PackageAssumption, PackageShape
<1>3. Offered' # {}
  <2>1. Goal \in PackageIds BY PackageAssumption DEF PackageAssumption, PackageIds, Goal
  <2>2. catalogue'[Goal] # <<>> BY <1>1, PackageAssumption DEF PackageAssumption
  <2> QED BY <2>1, <2>2 DEF Offered
<1>4. CatalogueFirst' BY <1>0, <1>3 DEF CatalogueFirst
<1>5. job'.phase = "none" /\ job'.steps = <<>> /\ DOMAIN job'.steps = {} BY <1>0 DEF NoJob
<1>6. OneVersion' BY <1>0, <1>5 DEF OneVersion
<1>7. PathSound' /\ StepsNeeded' /\ StepsInOrder' /\ RefusalSound'
  BY <1>5 DEF PathSound, StepsNeeded, StepsInOrder, RefusalSound
<1>8. SeenStays' /\ ConfirmedStays' /\ ApplyPlaced'
  BY <1>5 DEF SeenStays, Active, ConfirmedStays, ApplyPlaced
<1> QED BY <1>2, <1>4, <1>6, <1>7, <1>8 DEF PackageInv

\* A task brings the version that a confirmed step has.
LEMMA TaskKeepsInv ==
    ASSUME PackageInv, NEW task \in dsmTasks, TaskEnds(task)
    PROVE  PackageInv'
<1>0. /\ job' = job /\ requires' = requires /\ catalogue' = catalogue /\ touched' = touched
      /\ plans' = plans /\ dsmTasks' = dsmTasks \ {task} /\ PackageShape
      /\ inventory \in [PackageIds -> {0} \union Version]
      /\ \/ inventory' = [inventory EXCEPT ![task.id] = task.version]
         \/ inventory' = inventory
  BY DEF PackageInv, PackageShape, TaskEnds
<1>1. PlanInv' /\ ApplyPlaced' /\ Offered' = Offered /\ \A p : VersionOf(p)' = VersionOf(p)
  BY <1>0, PlanStands
<1>2. task.id \in PackageIds /\ task.version \in Version /\ task.version # 0
  <2>1. task \in InstallStep BY <1>0 DEF PackageShape
  <2> QED BY <2>1, PackageAssumption DEF InstallStep, PackageAssumption
<1>3. PackageShape' BY <1>0, <1>2 DEF PackageShape
<1>4. CatalogueFirst' BY <1>0, <1>1 DEF PackageInv, CatalogueFirst
<1>5. OneVersion' BY <1>0, <1>1 DEF PackageInv, OneVersion
<1>6. \A p \in PackageIds : inventory'[p] = inventory[p] \/ (p = task.id /\ inventory'[p] = task.version)
  BY <1>0, <1>2
<1>7. SeenStays' BY <1>0, <1>2, <1>6 DEF PackageInv, SeenStays, Active
<1>8. ConfirmedStays'
  <2>1. \A i \in DOMAIN job.steps : job.steps[i].id \in PackageIds BY <1>0, WalkFacts
  <2>2. \A i \in DOMAIN job.steps : task.id = job.steps[i].id => task.version = job.steps[i].version
    BY DEF PackageInv, OneVersion
  <2>3. \A i : Behind(i)' = Behind(i) BY <1>0 DEF Behind
  <2>4. ConfirmedStays BY DEF PackageInv
  <2>5. ASSUME NEW i \in DOMAIN job.steps, Behind(i), job.steps[i].id \notin touched
        PROVE  /\ inventory'[job.steps[i].id] # 0
               /\ job.update /\ ~job.blind /\ job.steps[i].id = Goal => inventory'[job.steps[i].id] = job.steps[i].version
    <3>1. /\ inventory[job.steps[i].id] # 0
          /\ job.update /\ ~job.blind /\ job.steps[i].id = Goal => inventory[job.steps[i].id] = job.steps[i].version
      BY <2>4, <2>5 DEF ConfirmedStays
    <3> QED BY <1>2, <1>6, <2>1, <2>2, <3>1
  <2> QED BY <1>0, <2>3, <2>5 DEF ConfirmedStays
<1> QED BY <1>1, <1>3, <1>4, <1>5, <1>7, <1>8 DEF PackageInv, PlanInv

\* What somebody else changes is touched.
LEMMA ElsewhereKeepsInv ==
    ASSUME PackageInv, NEW q \in PackageIds, NEW version \in {0} \union Version,
           ChangedElsewhere(q, version)
    PROVE  PackageInv'
<1>0. /\ job' = job /\ requires' = requires /\ catalogue' = catalogue /\ touched' = touched \union {q}
      /\ plans' = plans /\ dsmTasks' = dsmTasks /\ PackageShape
      /\ inventory \in [PackageIds -> {0} \union Version]
      /\ inventory' = [inventory EXCEPT ![q] = version]
  BY DEF PackageInv, PackageShape, ChangedElsewhere
<1>1. PlanInv' /\ ApplyPlaced' /\ Offered' = Offered /\ \A p : VersionOf(p)' = VersionOf(p)
  BY <1>0, PlanStands
<1>2. PackageShape' BY <1>0 DEF PackageShape
<1>3. CatalogueFirst' BY <1>0, <1>1 DEF PackageInv, CatalogueFirst
<1>4. OneVersion' BY <1>0, <1>1 DEF PackageInv, OneVersion
<1>5. \A p \in PackageIds : inventory'[p] = inventory[p] \/ p \in touched'
  BY <1>0
<1>6. SeenStays' BY <1>0, <1>5 DEF PackageInv, SeenStays, Active
<1>7. ConfirmedStays'
  <2>1. \A i \in DOMAIN job.steps : job.steps[i].id \in PackageIds BY <1>0, WalkFacts
  <2>2. \A i : Behind(i)' = Behind(i) BY <1>0 DEF Behind
  <2>3. ConfirmedStays BY DEF PackageInv
  <2> QED BY <1>0, <1>5, <2>1, <2>2, <2>3 DEF ConfirmedStays
<1> QED BY <1>1, <1>2, <1>3, <1>4, <1>6, <1>7 DEF PackageInv, PlanInv

\* At first nothing is planned and nothing is published.
LEMMA PackageInitially ==
    ASSUME PackageInit
    PROVE  PackageInv
<1>0. job = NoJob /\ dsmTasks = {} /\ plans = 0 BY DEF PackageInit
<1>1. /\ <<>> \in Seq(WalkFrame) /\ <<>> \in Seq(InstallStep)
      /\ <<>> \in Seq(PackageIds) /\ <<>> \in Seq(Row)
  OBVIOUS
<1>2. PackageShape
  <2>1. job \in JobShape BY <1>0, <1>1 DEF JobShape, NoJob, Phases
  <2>2. inventory \in [PackageIds -> {0} \union Version]
    BY PackageAssumption DEF PackageAssumption, PackageInit
  <2>3. requires \in [PackageIds -> Seq(PackageIds)] /\ catalogue \in [PackageIds -> Seq(Row)]
    BY <1>1 DEF PackageInit
  <2> QED BY <1>0, <2>1, <2>2, <2>3 DEF PackageShape
<1>3. CatalogueFirst BY <1>0 DEF CatalogueFirst, PackageInit
<1>4. job.phase = "none" /\ job.steps = <<>> /\ DOMAIN job.steps = {} BY <1>0 DEF NoJob
<1>5. OneVersion BY <1>0, <1>4 DEF OneVersion
<1>6. PathSound /\ StepsNeeded /\ StepsInOrder /\ RefusalSound
  BY <1>4 DEF PathSound, StepsNeeded, StepsInOrder, RefusalSound
<1>7. SeenStays /\ ConfirmedStays /\ ApplyPlaced
  BY <1>4 DEF SeenStays, Active, ConfirmedStays, ApplyPlaced
<1> QED BY <1>2, <1>3, <1>5, <1>6, <1>7 DEF PackageInv

\* Every step of the machine keeps the invariant.
LEMMA PackageStep ==
    ASSUME PackageInv, [PackageNext]_packageVars
    PROVE  PackageInv'
<1>1. CASE PlanInstall
  <2>1. Planning(FALSE) /\ (FALSE <=> inventory[Goal] # 0)
    <3>1. Goal \in PackageIds BY PackageAssumption DEF PackageAssumption, PackageIds, Goal
    <3> QED BY <1>1, <3>1 DEF PlanInstall, InstalledIn
  <2> QED BY <1>1, <2>1, PlanningKeepsInv DEF PlanInstall, MayPlan
<1>2. CASE PlanUpdate
  <2>1. Planning(TRUE) /\ (TRUE <=> inventory[Goal] # 0) BY <1>2 DEF PlanUpdate, InstalledIn
  <2> QED BY <1>2, <2>1, PlanningKeepsInv DEF PlanUpdate, MayPlan
<1>3. CASE InstallLocal BY <1>3, LocalKeepsInv
<1>4. CASE ApplyInstallPlan BY <1>4, ApplyKeepsInv
<1>5. CASE CallerStep
  BY <1>5, WalkKeepsInv, StartKeepsInv, AwaitKeepsInv DEF CallerStep
<1>6. CASE Publish BY <1>6, PublishKeepsInv
<1>7. CASE \E task \in dsmTasks : TaskEnds(task) BY <1>7, TaskKeepsInv
<1>8. CASE \E p \in PackageIds, version \in {0} \union Version : ChangedElsewhere(p, version)
  BY <1>8, ElsewhereKeepsInv
<1>9. CASE UNCHANGED packageVars
  <2>1. /\ job' = job /\ requires' = requires /\ catalogue' = catalogue /\ touched' = touched
        /\ plans' = plans /\ dsmTasks' = dsmTasks /\ inventory' = inventory
    BY <1>9 DEF packageVars
  <2>2. PlanInv' /\ ApplyPlaced' /\ Offered' = Offered /\ \A p : VersionOf(p)' = VersionOf(p)
    BY <2>1, PlanStands
  <2>3. PackageShape' /\ CatalogueFirst' /\ OneVersion'
    BY <2>1, <2>2 DEF PackageInv, PackageShape, CatalogueFirst, OneVersion
  <2>4. SeenStays' /\ ConfirmedStays'
    BY <2>1 DEF PackageInv, SeenStays, Active, ConfirmedStays, Behind
  <2> QED BY <2>2, <2>3, <2>4 DEF PackageInv, PlanInv
<1> QED
  BY <1>1, <1>2, <1>3, <1>4, <1>5, <1>6, <1>7, <1>8, <1>9 DEF PackageNext

\* The invariant gives the types, ...
LEMMA PackageInvTypes ==
    ASSUME PackageInv
    PROVE  PackageTypeOK
<1>1. PackageShape /\ ApplyPlaced BY DEF PackageInv
<1>2. job.phase \in Phases BY <1>1 DEF PackageShape, JobShape
<1>3. \A task \in dsmTasks : task.id \in PackageIds /\ task.version \in Version
  BY <1>1 DEF PackageShape, InstallStep
<1> QED BY <1>1, <1>2, <1>3 DEF PackageTypeOK, PackageShape, ApplyPlaced, Phases

\* ... and what a plan and its apply promise: the steps are closed, so that
\* the least closed set is among them.
LEMMA PackageInvSafe ==
    ASSUME PackageInv
    PROVE  InstallSafe
<1>0. /\ PackageShape /\ StepsInOrder /\ SeenStays /\ ConfirmedStays
  BY DEF PackageInv
<1>1. /\ \A i \in DOMAIN job.steps : job.steps[i].id \in PackageIds
      /\ Len(job.steps) \in Nat /\ DOMAIN job.steps = 1..Len(job.steps)
      /\ Visited \subseteq PackageIds
  BY <1>0, WalkFacts
<1>2. PlanIsClosure
  <2>1. job.phase = "refused" => ~(Needed \subseteq Downloadable) \/ Cyclic(Needed)
    BY DEF PackageInv, RefusalSound
  <2>2. ASSUME job.phase = "planned"
        PROVE  /\ Visited = Needed /\ Needed \subseteq Downloadable
               /\ \A i, j \in DOMAIN job.steps : job.steps[i].id = job.steps[j].id => i = j
               /\ \A i \in DOMAIN job.steps : \A d \in Lacking(job.steps[i].id) :
                      \E j \in 1..(i - 1) : job.steps[j].id = d
    <3>1. /\ Visited \subseteq Needed \intersect Downloadable /\ Goal \in Visited
          /\ \A i, j \in DOMAIN job.steps : job.steps[i].id = job.steps[j].id => i = j
      BY <2>2 DEF PackageInv, StepsNeeded
    <3>2. \A i \in DOMAIN job.steps : \A d \in Lacking(job.steps[i].id) :
              \E j \in 1..(i - 1) : job.steps[j].id = d
      BY <1>0, <2>2 DEF StepsInOrder
    <3>3. ASSUME NEW i \in DOMAIN job.steps, NEW d \in Lacking(job.steps[i].id)
          PROVE  d \in Visited
      <4>1. PICK j \in 1..(i - 1) : job.steps[j].id = d BY <3>2
      <4>2. j \in DOMAIN job.steps BY <1>1, <4>1
      <4> QED BY <4>1, <4>2 DEF Visited
    <3>4. Closed(Visited) BY <3>3 DEF Closed, Visited
    <3>5. Needed \subseteq Visited BY <1>1, <3>1, <3>4, NeededIsLeast
    <3> QED BY <3>1, <3>2, <3>5
  <2> QED BY <2>1, <2>2 DEF PlanIsClosure
<1>3. StableOffered
  <2> SUFFICES ASSUME job.phase = "planned", NEW i \in DOMAIN job.steps
               PROVE  LET rows == catalogue[job.steps[i].id]
                          stable == {k \in DOMAIN rows : ~rows[k].beta}
                          best == IF stable # {} THEN stable ELSE DOMAIN rows
                      IN  /\ \E k \in best : rows[k].version = job.steps[i].version
                          /\ \A k \in best : rows[k].version <= job.steps[i].version
    BY DEF StableOffered
  <2> DEFINE rows == catalogue[job.steps[i].id]
             stable == {k \in DOMAIN rows : ~rows[k].beta}
             best == IF stable # {} THEN stable ELSE DOMAIN rows
             row == catalogByID(rows)
  <2>1. job.steps[i].id \in Offered BY DEF PackageInv, StepsNeeded, Visited, Downloadable
  <2>2. rows \in Seq(Row) /\ rows # <<>>
    BY <1>0, <1>1, <2>1 DEF PackageShape, Offered
  <2>3. job.steps[i].version = row.version
    BY <2>1 DEF PackageInv, OneVersion, VersionOf
  <2> HIDE DEF rows, row
  <2>4. BestOf(rows, Len(rows), row)
    BY <2>2, CatalogIsBest, PackageAssumption DEF row
  <2>5. DOMAIN rows = 1..Len(rows) /\ \A k \in DOMAIN rows : rows[k] \in Row BY <2>2
  <2>6. \A k \in DOMAIN rows : rows[k].beta \in BOOLEAN BY <2>5 DEF Row
  <2>7. PICK k \in DOMAIN rows : rows[k] = row BY <2>4, <2>5 DEF BestOf
  <2>8. \A j \in best : rows[j].beta = row.beta
    <3>1. CASE stable # {}
      <4>1. ~row.beta BY <2>4, <2>5, <3>1 DEF BestOf
      <4> QED BY <2>6, <2>7, <3>1, <4>1
    <3>2. CASE stable = {}
      <4>1. best = DOMAIN rows /\ \A j \in DOMAIN rows : rows[j].beta BY <3>2
      <4> QED BY <2>6, <2>7, <4>1
    <3> QED BY <3>1, <3>2
  <2>9. k \in best
    <3>1. CASE stable # {}
      <4>1. ~row.beta BY <2>4, <2>5, <3>1 DEF BestOf
      <4> QED BY <2>7, <3>1, <4>1
    <3>2. CASE stable = {} BY <2>7, <3>2
    <3> QED BY <3>1, <3>2
  <2>10. \A j \in best : j \in DOMAIN rows OBVIOUS
  <2> HIDE DEF best
  <2>11. \A j \in best : rows[j].version <= row.version BY <2>4, <2>5, <2>8, <2>10 DEF BestOf
  <2>12. (\E j \in best : rows[j].version = job.steps[i].version)
         /\ \A j \in best : rows[j].version <= job.steps[i].version
    BY <2>3, <2>7, <2>9, <2>11
  <2> QED BY <2>12 DEF best, rows
<1>4. DependenciesFirst
  <2> SUFFICES ASSUME job.phase = "await", NEW i \in DOMAIN requires[CurrentStep.id]
               PROVE  inventory[requires[CurrentStep.id][i]] # 0 \/ requires[CurrentStep.id][i] \in touched
    BY DEF DependenciesFirst
  <2> DEFINE d == requires[CurrentStep.id][i]
  <2>1. job.at \in DOMAIN job.steps BY DEF PackageInv, ApplyPlaced
  <2>2. d \in PackageIds
    <3>1. requires[CurrentStep.id] \in Seq(PackageIds) BY <1>0, <1>1, <2>1 DEF PackageShape, CurrentStep
    <3> QED BY <3>1
  <2>3. CASE job.seen[d] # 0
    BY <1>0, <2>2, <2>3 DEF SeenStays, Active
  <2>4. CASE job.seen[d] = 0
    <3>1. d \notin Base BY <2>4 DEF Base, InstalledIn
    <3>2. d \in Lacking(CurrentStep.id) BY <2>2, <3>1 DEF Lacking
    <3>3. PICK j \in 1..(job.at - 1) : job.steps[j].id = d
      BY <1>0, <2>1, <3>2 DEF StepsInOrder, CurrentStep
    <3>4. j \in DOMAIN job.steps /\ Behind(j) BY <1>1, <2>1, <3>3 DEF Behind
    <3> QED BY <1>0, <3>3, <3>4 DEF ConfirmedStays
  <2> QED BY <2>3, <2>4
<1>5. DoneIsInstalled
  BY <1>0 DEF DoneIsInstalled, ConfirmedStays, Behind
<1> QED BY <1>2, <1>3, <1>4, <1>5 DEF InstallSafe

\* Of any number of packages, and of any catalogue: every variable of the
\* package installation has its type, and an apply is at a step of its plan.
THEOREM PackageTypes == PackageSpec => []PackageTypeOK
<1>1. PackageInit => PackageInv BY PackageInitially
<1>2. PackageInv /\ [PackageNext]_packageVars => PackageInv' BY PackageStep
<1>3. PackageInv => PackageTypeOK BY PackageInvTypes
<1> QED BY <1>1, <1>2, <1>3, PTL DEF PackageSpec

\* resolveInstallOrder gives the least set of packages that is needed, each
\* once and after the ones it depends on, or refuses with a reason; no step
\* installs a beta while there is a stable version; and the apply asks DSM for a
\* package only when what it depends on is there, and reports success only for
\* what is installed: for any catalogue, circles included, and through failed
\* tasks, lost answers and changes made elsewhere.
THEOREM InstallIsSafe == PackageSpec => []InstallSafe
<1>1. PackageInit => PackageInv BY PackageInitially
<1>2. PackageInv /\ [PackageNext]_packageVars => PackageInv' BY PackageStep
<1>3. PackageInv => InstallSafe BY PackageInvSafe
<1> QED BY <1>1, <1>2, <1>3, PTL DEF PackageSpec

-----------------------------------------------------------------------------
(***************************************************************************)
(* The composition that TLC runs.                                          *)
(***************************************************************************)

\* A behaviour of the composition is one of each of its machines, so that what
\* is proved of a machine holds of the machine that runs and of those that
\* rest.
THEOREM WorkflowsImplementMachines == MCSpec => RecoverySpec /\ ReplicationSpec /\ PackageSpec
<1>1. MCInit => RecoveryInit /\ ReplicationInit /\ PackageInit
  BY DEF MCInit, RecoveryAtRest, PackageAtRest
<1>2. [MCNext]_workflowVars =>
        /\ [RecoveryNext]_recoveryVars
        /\ [ReplicationNext]_replicationVars
        /\ [PackageNext]_packageVars
  BY DEF MCNext, workflowVars, RecoveryPart, ReplicationPart, PackagePart
<1> QED
  BY <1>1, <1>2, PTL DEF MCSpec, RecoverySpec, ReplicationSpec, PackageSpec

\* Recovery, relations and installation stay well typed together, through
\* every crash, failed rename, lost answer and disturbance.
THEOREM WorkflowTypes == MCSpec => []WorkflowsTypeOK
<1>1. RecoveryTypeOK /\ ReplicationTypeOK /\ PackageTypeOK => WorkflowsTypeOK
  BY DEF WorkflowsTypeOK
<1> QED
  BY <1>1, WorkflowsImplementMachines, RecoveryTypes, ReplicationTypes, PackageTypes, PTL

=============================================================================
