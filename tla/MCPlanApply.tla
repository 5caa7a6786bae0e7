----------------------------- MODULE MCPlanApply -----------------------------
(* Instances of PlanApply for TLC: two callers, the processes they run in, *)
(* and the services of ApplyServices that a run is about.                  *)
EXTENDS PlanApply, ApplyServices, TLC

CONSTANTS c1, c2, f1, f2, f3, gateway, cli

(* A remote call beside a CLI command, or two calls in the gateway.        *)
RemoteAndLocal == c1 :> gateway @@ c2 :> cli
BothRemote == c1 :> gateway @@ c2 :> gateway

(* A pair of switches and a third set on its own.                          *)
PairAndOne == {{f1, f2}, {f3}}
Single == {{f1}}
Pair == {{f1, f2}}

(* The field, or a secret only.                                            *)
FieldOrSecret == {[f \in F |-> 1] : F \in {{}, {f1}}}
TwoFields == {[f \in {f1} |-> 1], [f \in {f2} |-> 1]}

(* One of a pair of switches, or the other and the one apart.              *)
SomeFields == {[f \in F |-> 1] : F \in {{f1}, {f2, f3}}}

(* One service of each shape: what it compares and how it writes.          *)
Shapes == {ControlPanelTime, FTPServices, PackageSettings, TFTPService,
           Share, NetworkInterface, PackageLocalInstall}

ASSUME ShapesCoverCatalogue ==
    /\ Catalogue \subseteq ServiceRecord
    /\ \A s \in Catalogue : \E t \in Shapes :
          s = [t EXCEPT !.secret = s.secret, !.readback = s.readback]

(* One section holds all there is to set, so that parts are a merge; the   *)
(* merge may be for a secret's sake.  A patch is written by Share and by   *)
(* PackageLocalInstall, after planning again by the merge and by the       *)
(* write of an observation.  What is refused never writes.                 *)
ByTarget == {DownloadStationSettings, PackageSettings, Share,
             PackageLocalInstall}

(* A configuration set in sections.                                        *)
ByFields == {FTPServices}

FromObservation == {PackageSettings}

NasSymmetry == Permutations(Nas)
CallerSymmetry == Permutations(Caller)
=============================================================================
