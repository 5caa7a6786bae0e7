---------------------------- MODULE PackageServices ----------------------------
(***************************************************************************)
(* The methods of application.Service for Package Center, the installable  *)
(* packages and the system, and the functions they are made of: one        *)
(* definition each, the client methods it calls in the order of the code.  *)
(* The checks in between that refuse a request are not told apart: a       *)
(* program may end with an error at every step (LocalError in Dispatch).   *)
(***************************************************************************)
EXTENDS ResourceServices

\* application/download_station.go
GetDownloadStationCapabilities == DownloadStationCapabilities
GetDownloadStationService == DownloadStationServiceState
GetDownloadStationTasks == DownloadStationTasks
GetDownloadStationStatistics == DownloadStationStatistics
GetDownloadStationSettings == DownloadStationSettings
planDownloadStationTaskWithClient == DownloadStationCapabilities \o Maybe(DownloadStationTasks)
PlanDownloadStationTaskChange == planDownloadStationTaskWithClient
verifyDownloadStationTaskPostcondition == DownloadStationTasks
ApplyDownloadStationTaskPlan ==
    planDownloadStationTaskWithClient \o ApplyDownloadStationTaskChange \o
    verifyDownloadStationTaskPostcondition
planDownloadStationSettingsWithClient == DownloadStationCapabilities \o DownloadStationSettingsGroup
PlanDownloadStationSettingsChange == planDownloadStationSettingsWithClient
verifySettingsGroupPostcondition == DownloadStationSettingsGroup
ApplyDownloadStationSettingsPlan ==
    planDownloadStationSettingsWithClient \o ApplyDownloadStationSettingsChange \o
    verifySettingsGroupPostcondition

\* application/drive_admin.go
planDriveNodeRestoreWithClient == DriveAdminCapabilities \o DriveNodes
PlanDriveNodeRestore == planDriveNodeRestoreWithClient
checkDriveNodeRestore == DriveNodes
verifyDriveNodeRestore == checkDriveNodeRestore \o Repeat(checkDriveNodeRestore)
applyDriveNodeRestorePlanWithClient ==
    planDriveNodeRestoreWithClient \o ApplyDriveNodeRestore \o verifyDriveNodeRestore
ApplyDriveNodeRestorePlan == applyDriveNodeRestorePlanWithClient
GetDriveNodes == DriveNodes
GetDriveNodeVersions == DriveNodeVersions
GetDrivePrivileges == DrivePrivileges
planDriveConnectionKickWithClient == DriveAdminCapabilities \o DriveAdminConnections
PlanDriveConnectionKick == planDriveConnectionKickWithClient
applyDriveConnectionKickPlanWithClient ==
    planDriveConnectionKickWithClient \o ApplyDriveConnectionKick \o DriveAdminConnections \o
    Repeat(DriveAdminConnections)
ApplyDriveConnectionKickPlan == applyDriveConnectionKickPlanWithClient
GetDriveConnectionSummary == DriveConnectionSummary
GetDriveDBUsage == DriveDBUsage
GetDriveTopAccessFiles == DriveTopAccessFiles
GetDriveActivation == DriveActivation
GetDriveAdminCapabilities == DriveAdminCapabilities
GetDriveAdminStatus == DriveAdminStatus
GetDriveAdminConnections == DriveAdminConnections
GetDriveAdminTeamFolders == DriveAdminTeamFolders
GetDriveAdminLog == DriveAdminLog
ExportDriveLog == DriveLogExport
GetDriveServerConfig == DriveServerConfig
planDriveConfigChangeWithClient == DriveAdminCapabilities \o DriveServerConfig
PlanDriveConfigChange == planDriveConfigChangeWithClient
ApplyDriveConfigPlan ==
    planDriveConfigChangeWithClient \o ApplyDriveServerConfigChange \o DriveServerConfig
planDriveTeamFolderChangeWithClient == DriveAdminCapabilities \o DriveAdminTeamFolders
PlanDriveTeamFolderChange == planDriveTeamFolderChangeWithClient
verifyDriveTeamFolderPostcondition == DriveAdminTeamFolders \o Repeat(DriveAdminTeamFolders)
applyDriveTeamFolderPlanWithClient ==
    planDriveTeamFolderChangeWithClient \o ApplyDriveTeamFolderChange \o
    verifyDriveTeamFolderPostcondition
ApplyDriveTeamFolderPlan == applyDriveTeamFolderPlanWithClient

\* application/hyper_backup.go
GetHyperBackupLuns == HyperBackupLuns
GetHyperBackupLunBackupTasks == HyperBackupLunBackupTasks
GetHyperBackupCapabilities == HyperBackupCapabilities
GetHyperBackupTasks == HyperBackupTasks
GetHyperBackupTaskDetail == HyperBackupTaskDetail
GetHyperBackupVersions == HyperBackupVersions
GetHyperBackupLogs == HyperBackupLogs
GetHyperBackupApplications == HyperBackupApplications
GetHyperBackupVault == HyperBackupVault
planHyperBackupTaskWithClient == HyperBackupCapabilities \o HyperBackupTasks
PlanHyperBackupTaskChange == planHyperBackupTaskWithClient
verifyHyperBackupCreatePostcondition == HyperBackupTasks
verifyHyperBackupTaskPostcondition == HyperBackupTaskStatus
ApplyHyperBackupTaskPlan ==
    planHyperBackupTaskWithClient \o ApplyHyperBackupTaskChange \o
    Either(verifyHyperBackupCreatePostcondition, verifyHyperBackupTaskPostcondition)
planHyperBackupLunBackupWithClient ==
    HyperBackupCapabilities \o HyperBackupLuns \o HyperBackupLunBackupTasks
PlanHyperBackupLunBackupCreate == planHyperBackupLunBackupWithClient
ApplyHyperBackupLunBackupPlan ==
    planHyperBackupLunBackupWithClient \o ApplyHyperBackupLunBackupCreate \o
    HyperBackupLunBackupTaskStatus

\* application/office.go
GetOfficeInfo == OfficeInfo
GetOfficeSettings == OfficeSystemSettings
GetOfficePreferences == OfficePreferences
GetOfficeFonts == OfficeFonts
GetOfficeCapabilities == OfficeCapabilities
observeOfficeState == Choice(<<OfficeSystemSettings, OfficePreferences, OfficeFonts>>)
planOfficeChangeWithClient == OfficeCapabilities \o observeOfficeState
PlanOfficeChange == planOfficeChangeWithClient
applyOfficePlanWithClient ==
    planOfficeChangeWithClient \o Choice(<<ApplyOfficeSystemChange,
    ApplyOfficePreferencesChange, ApplyOfficeFontChange>>) \o observeOfficeState
ApplyOfficePlan == applyOfficePlanWithClient

\* application/package_center.go
GetPackageCatalog == PackageCatalog
planPackageInstallWithClient == PackageState \o PackageCatalog
PlanPackageInstall == planPackageInstallWithClient
planPackageUpdateWithClient == PackageState \o PackageCatalog
PlanPackageUpdate == planPackageUpdateWithClient
verifyPackageUpdatePrecondition == PackageState
ApplyPackageInstallPlan ==
    Maybe(verifyPackageUpdatePrecondition) \o PackageInstall \o Maybe(PackageInstall)
applyLocalInstallWithClient == PackageInstallLocal
ApplyPackageLocalInstallPlan == applyLocalInstallWithClient
GetPackageState == PackageState
GetPackageSettings == PackageSettings
GetPackageCapabilities == PackageCapabilities
planPackageChangeWithClient == PackageCapabilities \o Either(PackageSettings, PackageState)
PlanPackageChange == planPackageChangeWithClient
verifyPackagePostcondition == Either(PackageSettings, PackageState)
applyPackagePlanWithClient ==
    planPackageChangeWithClient \o Either(ApplyPackageSettingsChange,
    ApplyPackageLifecycleChange) \o verifyPackagePostcondition
ApplyPackagePlan == applyPackagePlanWithClient

\* application/photos.go
GetPhotosSettings == PhotosAdminSettings
GetPhotosCapabilities == PhotosCapabilities
planPhotosChangeWithClient == PhotosCapabilities \o PhotosAdminSettings
PlanPhotosChange == planPhotosChangeWithClient
applyPhotosPlanWithClient ==
    planPhotosChangeWithClient \o ApplyPhotosAdminChange \o PhotosAdminSettings
ApplyPhotosPlan == applyPhotosPlanWithClient

\* application/service.go
GetSystemInfo == SystemInfo
GetCompatibility == Compatibility
GetControlPanelTimeState == ControlPanelTimeState
GetControlPanelTimeCapabilities == ControlPanelTimeCapabilities
GetStorageState == StorageState
GetStorageCapabilities == StorageCapabilities
GetIdentityStateWithQuery == IdentityState
GetIdentityState == GetIdentityStateWithQuery
GetIdentityCapabilities == IdentityCapabilities
GetShareState == ShareState
GetShareCapabilities == ShareCapabilities
GetSANState == SANState
GetSANCapabilities == SANCapabilities
GetLogState == LogState
GetLogCapabilities == LogCapabilities
GetResourceMonitorState == ResourceMonitorState
GetResourceMonitorHistory == ResourceMonitorHistory
GetResourceMonitorSetting == ResourceMonitorSetting
GetResourceMonitorCapabilities == ResourceMonitorCapabilities

\* application/snapshot_replication.go
GetSnapshotReplicationCapabilities == SnapshotReplicationModuleCapabilities
GetSnapshotReplicationState ==
    SnapshotReplicationModuleCapabilities \o Maybe(SnapshotReplicationNode) \o ShareState \o
    Maybe(SnapshotReplicationShareSnapshots \o SnapshotReplicationShareConfig \o
    SnapshotReplicationRetention)
GetSnapshotReplicationShare ==
    SnapshotReplicationShareSnapshots \o SnapshotReplicationShareConfig \o
    SnapshotReplicationRetention
GetSnapshotReplicationReplication ==
    SnapshotReplicationModuleCapabilities \o SnapshotReplicationPlans
GetSnapshotReplicationLog == SnapshotReplicationLog
planSnapshotReplicationChangeWithClient ==
    SnapshotReplicationModuleCapabilities \o SnapshotReplicationShareSnapshots \o
    SnapshotReplicationShareConfig
PlanSnapshotReplicationChange == planSnapshotReplicationChangeWithClient
verifySnapshotReplicationPostcondition ==
    Either(SnapshotReplicationShareConfig, SnapshotReplicationShareSnapshots)
applySnapshotReplicationPlanWithClient ==
    planSnapshotReplicationChangeWithClient \o ApplySnapshotReplicationChange \o
    verifySnapshotReplicationPostcondition
ApplySnapshotReplicationPlan == applySnapshotReplicationPlanWithClient
planSnapshotReplicationRelationWithClients ==
    SnapshotReplicationModuleCapabilities \o SnapshotReplicationModuleCapabilities \o ShareState
    \o Maybe(StorageState) \o StorageState \o ShareState \o SnapshotReplicationPlans \o
    SnapshotReplicationPlans
PlanSnapshotReplicationRelation == planSnapshotReplicationRelationWithClients
awaitReplicationCreate == Attempt(PollReplicationTask) \o Repeat(Attempt(PollReplicationTask))
applySnapshotReplicationRelationWithClients ==
    planSnapshotReplicationRelationWithClients \o ReplicationDestinationEndpoint \o
    ReplicationAccountCredential \o PairReplicationCredential \o
    OnError(CheckReplicationRemoteConn \o CreateReplicationPlan \o awaitReplicationCreate \o
    SnapshotReplicationPlans, Attempt(DeleteReplicationCredential) \o Fail) \o
    Maybe(Attempt(SnapshotReplicationPlans))
ApplySnapshotReplicationRelationPlan == applySnapshotReplicationRelationWithClients
requireReplicationRelation == SnapshotReplicationPlans
DeleteSnapshotReplicationRelation == requireReplicationRelation \o DeleteReplicationPlan
SyncSnapshotReplicationRelation == requireReplicationRelation \o SyncReplicationPlan
StopSnapshotReplicationRelation == requireReplicationRelation \o PauseReplicationPlan

\* application/surveillance.go
GetSurveillanceCapabilities == SurveillanceCapabilities
GetSurveillanceInfo == SurveillanceInfo
GetSurveillanceCameras == SurveillanceCameras
GetSurveillanceHomeMode == SurveillanceHomeMode
planSurveillanceHomeModeWithClient == SurveillanceCapabilities \o SurveillanceHomeMode
PlanSurveillanceHomeModeChange == planSurveillanceHomeModeWithClient
ApplySurveillanceHomeModePlan ==
    planSurveillanceHomeModeWithClient \o ApplySurveillanceHomeModeChange \o
    SurveillanceHomeMode

\* application/universalsearch.go
GetUniversalSearchCapabilities == UniversalSearchCapabilities
GetUniversalSearchFolders == UniversalSearchIndexedFolders
GetUniversalSearchStatus == UniversalSearchIndexStatus

=============================================================================
