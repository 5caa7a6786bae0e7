--------------------------- MODULE ApplyServices ---------------------------
(***************************************************************************)
(* The services of internal/application that plan and apply a change to    *)
(* one resource of one NAS, as PlanApply's ServiceRecord sees them: what   *)
(* each compares before it writes, and how it writes.  Package installs    *)
(* from the online catalogue (several packages in dependency order) and    *)
(* replication relations (two NAS) have another shape and are not here.    *)
(***************************************************************************)

(* The usual service: it verifies the profile's revision, plans again with *)
(* the client that will write, and compares fingerprint and hash.          *)
Replanned(write) ==
    [revision |-> TRUE, replan |-> "client", write |-> write,
     secret |-> FALSE, readback |-> "whole"]

(* Its request may carry a reference to a secret, or nothing else.         *)
WithSecret(service) == [service EXCEPT !.secret = TRUE]

(* Its read back compares less than was requested: the presence of what    *)
(* was created, a name, one of several, or all but certain fields.         *)
ReadInPart(service) == [service EXCEPT !.readback = "part"]

(* Accounts and shared folders plan again through the planning service,    *)
(* which resolves a client of its own.                                     *)
ThroughService(write) == [Replanned(write) EXCEPT !.replan = "service"]

(* Nothing but the plan's own hash is compared.                            *)
HashOnly(write) ==
    [revision |-> FALSE, replan |-> "none", write |-> write,
     secret |-> FALSE, readback |-> "whole"]

-----------------------------------------------------------------------------
(* Whole configurations that DSM only sets as one: the client reads,       *)
(* merges and sets under its mutex.                                        *)

ControlPanelTime == Replanned("merge")

FileService == Replanned("merge")

RsyncService == Replanned("merge")

NetworkGeneral == ReadInPart(Replanned("merge"))

AutoBlock == Replanned("merge")

AccountProtection == Replanned("merge")

EnforceTwoFactor == Replanned("merge")

FirewallProfile == Replanned("merge")

Terminal == Replanned("merge")

SNMP == ReadInPart(WithSecret(Replanned("merge")))

DSMWebService == Replanned("merge")

ApplicationPortal == Replanned("merge")

SecurityAdvisor == Replanned("merge")

ResourceRecording == Replanned("merge")

DownloadStationSettings == WithSecret(Replanned("merge"))

DriveConfig == Replanned("merge")

-----------------------------------------------------------------------------
(* One set per protocol or feature, each of a pair of switches that is     *)
(* read and merged first (WS-Discovery is a pair of one).                  *)

FTPServices == Replanned("parts")

ServiceDiscovery == Replanned("parts")

-----------------------------------------------------------------------------
(* Whole lists merged from what the plan observed, not from a new read.    *)

QuickConnectPermission == Replanned("observed")

PackageSettings == Replanned("observed")

-----------------------------------------------------------------------------
(* One typed DSM operation on exactly what is requested.                   *)

TFTPService == Replanned("patch")

NFSExport == Replanned("patch")

AutoBlockList == Replanned("patch")

FirewallEnable == Replanned("patch")

ReverseProxy == ReadInPart(Replanned("patch"))

SystemHostname == Replanned("patch")

Certificate == ReadInPart(Replanned("patch"))

QuickConnectRelay == Replanned("patch")

QuickConnectConfig == Replanned("patch")

DDNS == ReadInPart(WithSecret(Replanned("patch")))

DownloadStationTask == ReadInPart(Replanned("patch"))

DriveNodeRestore == ReadInPart(Replanned("patch"))

DriveConnectionKick == Replanned("patch")

DriveTeamFolder == Replanned("patch")

FileStation == ReadInPart(Replanned("patch"))

HyperBackupTask == ReadInPart(Replanned("patch"))

HyperBackupLun == ReadInPart(Replanned("patch"))

Office == Replanned("patch")

Photos == Replanned("patch")

Surveillance == Replanned("patch")

PackageLifecycle == Replanned("patch")

SAN == ReadInPart(WithSecret(Replanned("patch")))

SnapshotReplication == ReadInPart(Replanned("patch"))

Storage == ReadInPart(Replanned("patch"))

-----------------------------------------------------------------------------
(* Accounts and shared folders.                                            *)

Identity == ReadInPart(WithSecret(ThroughService("patch")))

Share == ReadInPart(ThroughService("patch"))

-----------------------------------------------------------------------------
(* A local package file is bound by its content alone; the interface write *)
(* is withheld in every case.                                              *)

NetworkInterface == HashOnly("refused")

PackageLocalInstall == ReadInPart(HashOnly("patch"))

-----------------------------------------------------------------------------
(* Every service.                                                          *)
Catalogue ==
    {ControlPanelTime, FileService, FTPServices, RsyncService, TFTPService,
     ServiceDiscovery, NFSExport, NetworkGeneral, NetworkInterface,
     AutoBlock, AccountProtection, EnforceTwoFactor, AutoBlockList,
     FirewallProfile, FirewallEnable, Terminal, SNMP, DSMWebService,
     ApplicationPortal, ReverseProxy, SecurityAdvisor, ResourceRecording,
     SystemHostname, Certificate, QuickConnectRelay, QuickConnectConfig,
     QuickConnectPermission, DDNS, DownloadStationTask,
     DownloadStationSettings, DriveNodeRestore, DriveConnectionKick,
     DriveConfig, DriveTeamFolder, FileStation, HyperBackupTask,
     HyperBackupLun, Office, Photos, Surveillance, PackageSettings,
     PackageLifecycle, PackageLocalInstall, SAN, SnapshotReplication,
     Storage, Identity, Share}
=============================================================================
