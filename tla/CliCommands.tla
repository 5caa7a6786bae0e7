-------------------------- MODULE CliCommands --------------------------
(***************************************************************************)
(* The commands of dsmctl for accounts, shares, storage and packages, in   *)
(* the form of CliControlPanel, and the catalogue of all commands.  auth   *)
(* login, logout and password are modelled in SessionManager.              *)
(***************************************************************************)
EXTENDS CliControlPanel

runFileMutation == PlanFileStationChange \o Maybe(ApplyFileStationPlan)
planAndApplyStorage == PlanStorageChange \o ApplyStoragePlan
createAllDiskVolume ==
    GetStorageState \o Maybe(planAndApplyStorage \o GetStorageState \o planAndApplyStorage)

\* cli/access.go
AccessCommands == {
    Command(<<"explain">>, ExplainEffectiveAccess)}

\* cli/account.go
AccountCommands == {
    Command(<<"plan">>, PlanIdentityChange),
    Command(<<"apply">>, ApplyIdentityPlan),
    Command(<<"capabilities">>, GetIdentityCapabilities)}
AccountInventoryCommands == {
    Command(<<"inventory">>, GetIdentityStateWithQuery)}

\* cli/auth.go
AuthCommands == {
    Command(<<"status">>, Nothing)}

\* cli/capabilities.go
CapabilitiesCommands == {
    Command(<<"capabilities">>, GetCompatibility)}

\* cli/discover.go
DiscoverCommands == {
    Command(<<"discover">>, Nothing)}

\* cli/download.go
DownloadCommands == {
    Command(<<"settings">>, GetDownloadStationSettings),
    Command(<<"capabilities">>, GetDownloadStationCapabilities),
    Command(<<"service">>, GetDownloadStationService),
    Command(<<"tasks">>, GetDownloadStationTasks),
    Command(<<"plan">>, PlanDownloadStationTaskChange)}
DownloadApplyCommands == {
    Command(<<"apply">>, ApplyDownloadStationTaskPlan),
    Command(<<"statistics">>, GetDownloadStationStatistics),
    Command(<<"plan">>, PlanDownloadStationSettingsChange),
    Command(<<"apply">>, ApplyDownloadStationSettingsPlan)}

\* cli/drive.go
DriveConfigCommands == {
    Command(<<"state">>, GetDriveServerConfig),
    Command(<<"plan">>, PlanDriveConfigChange),
    Command(<<"apply">>, ApplyDriveConfigPlan)}
DriveRestoreCommands == {
    Command(<<"plan">>, PlanDriveNodeRestore),
    Command(<<"apply">>, ApplyDriveNodeRestorePlan),
    Command(<<"files">>, GetDriveNodes)}
DriveUsageCommands == {
    Command(<<"file", "versions">>, GetDriveNodeVersions),
    Command(<<"users">>, GetDrivePrivileges),
    Command(<<"summary">>, GetDriveConnectionSummary),
    Command(<<"db", "usage">>, GetDriveDBUsage)}
DriveStatusCommands == {
    Command(<<"top", "files">>, GetDriveTopAccessFiles),
    Command(<<"activation">>, GetDriveActivation),
    Command(<<"capabilities">>, GetDriveAdminCapabilities),
    Command(<<"status">>, GetDriveAdminStatus)}
DriveConnectionCommands == {
    Command(<<"connections">>, GetDriveAdminConnections),
    Announced(Command(<<"kick">>, PlanDriveConnectionKick)),
    Command(<<"apply">>, ApplyDriveConnectionKickPlan),
    Command(<<"team", "folders">>, GetDriveAdminTeamFolders),
    Command(<<"plan">>, PlanDriveTeamFolderChange)}
DriveLogCommands == {
    Command(<<"apply">>, ApplyDriveTeamFolderPlan),
    Command(<<"export">>, ExportDriveLog),
    Command(<<"list">>, GetDriveAdminLog)}

\* cli/file.go
FileLinkCommands == {
    Command(<<"list">>, GetFileStationSharingLinks),
    Command(<<"create">>, runFileMutation),
    Command(<<"edit">>, runFileMutation),
    Command(<<"clear", "invalid">>, runFileMutation),
    Command(<<"delete">>, runFileMutation),
    Command(<<"tasks">>, GetFileStationBackgroundTasks)}
FileMoveCommands == {
    Command(<<"clear", "finished">>, runFileMutation),
    Command(<<"mkdir">>, runFileMutation),
    Command(<<"rename">>, runFileMutation),
    Command(<<"cp">>, runFileMutation),
    Command(<<"mv">>, runFileMutation)}
FileChangeCommands == {
    Command(<<"rm">>, runFileMutation),
    Command(<<"compress">>, runFileMutation),
    Command(<<"extract">>, runFileMutation),
    Command(<<"put">>, runFileMutation),
    Command(<<"plan">>, PlanFileStationChange),
    Command(<<"apply">>, ApplyFileStationPlan)}
FileFavoriteCommands == {
    Command(<<"list">>, GetFileStationFavorites),
    Command(<<"add">>, AddFileStationFavorite),
    Command(<<"remove">>, RemoveFileStationFavorite),
    Command(<<"get">>, DownloadFileStationFile)}
FileServiceInfoCommands == {
    Command(<<"thumb">>, DownloadFileStationThumbnail),
    Command(<<"capabilities">>, GetFileStationCapabilities),
    Command(<<"info">>, GetFileStationInfo)}
FileListCommands == {
    Command(<<"shares">>, ListFileStationShares),
    Command(<<"ls">>, ListFileStationDirectory),
    Command(<<"stat">>, GetFileStationEntryInfo)}
FileLookupCommands == {
    Command(<<"search">>, SearchFileStation),
    Command(<<"du">>, GetFileStationDirSize),
    Command(<<"md5">>, GetFileStationMD5),
    Command(<<"virtual", "folders">>, ListFileStationVirtualFolders)}
FilePermissionCommands == {
    Command(<<"check", "permission">>, CheckFileStationPermission)}

\* cli/hyperbackup.go
BackupTaskCommands == {
    Command(<<"capabilities">>, GetHyperBackupCapabilities),
    Command(<<"tasks">>, GetHyperBackupTasks),
    Command(<<"task">>, GetHyperBackupTaskDetail),
    Command(<<"versions">>, GetHyperBackupVersions)}
BackupVaultCommands == {
    Command(<<"logs">>, GetHyperBackupLogs),
    Command(<<"vault">>, GetHyperBackupVault),
    Command(<<"applications">>, GetHyperBackupApplications),
    Command(<<"luns">>, GetHyperBackupLuns),
    Command(<<"lun", "backups">>, GetHyperBackupLunBackupTasks)}
BackupChangeCommands == {
    Command(<<"plan">>, PlanHyperBackupLunBackupCreate),
    Command(<<"apply">>, ApplyHyperBackupLunBackupPlan),
    Command(<<"plan">>, PlanHyperBackupTaskChange),
    Command(<<"apply">>, ApplyHyperBackupTaskPlan)}

\* cli/install.go
InstallCommands == {
    Command(<<"install">>, Maybe(Provisioning \o Maybe(Provisioning \o
        Maybe(createAllDiskVolume))))}

\* cli/office.go
OfficeCommands == {
    Command(<<"capabilities">>, GetOfficeCapabilities),
    Command(<<"info">>, GetOfficeInfo),
    Command(<<"settings">>, GetOfficeSettings),
    Command(<<"preferences">>, GetOfficePreferences)}
OfficeChangeCommands == {
    Command(<<"fonts">>, GetOfficeFonts),
    Command(<<"plan">>, PlanOfficeChange),
    Command(<<"apply">>, ApplyOfficePlan)}

\* cli/package.go
PackageInstallCommands == {
    Command(<<"install">>, Either(Maybe(ApplyPackageLocalInstallPlan), PlanPackageInstall \o
        Maybe(ApplyPackageInstallPlan))),
    Command(<<"update">>, PlanPackageUpdate \o Maybe(ApplyPackageInstallPlan)),
    Command(<<"available">>, GetPackageCatalog)}
PackageCommands == {
    Command(<<"capabilities">>, GetPackageCapabilities),
    Command(<<"inventory">>, GetPackageState),
    Command(<<"settings">>, GetPackageSettings),
    Command(<<"plan">>, PlanPackageChange),
    Command(<<"apply">>, ApplyPackagePlan)}

\* cli/photo.go
PhotoCommands == {
    Command(<<"capabilities">>, GetPhotosCapabilities),
    Command(<<"settings">>, GetPhotosSettings),
    Command(<<"plan">>, PlanPhotosChange),
    Command(<<"apply">>, ApplyPhotosPlan)}

\* cli/provision.go
ProvisionCommands == {
    Command(<<"provision">>, Provisioning)}

\* cli/san.go
SANCommands == {
    Command(<<"plan">>, PlanSANChange),
    Command(<<"apply">>, ApplySANPlan),
    Command(<<"capabilities">>, GetSANCapabilities),
    Command(<<"inventory">>, GetSANState)}

\* cli/share.go
ShareCommands == {
    Command(<<"plan">>, PlanShareChange),
    Command(<<"apply">>, ApplySharePlan),
    Command(<<"capabilities">>, GetShareCapabilities),
    Command(<<"inventory">>, GetShareState)}

\* cli/snapshot_replication.go
SnapshotRelationCommands == {
    Command(<<"sync">>, SyncSnapshotReplicationRelation),
    Command(<<"stop">>, StopSnapshotReplicationRelation),
    Command(<<"plan">>, PlanSnapshotReplicationRelation),
    Command(<<"apply">>, ApplySnapshotReplicationRelationPlan)}
SnapshotCommands == {
    Command(<<"delete">>, DeleteSnapshotReplicationRelation),
    Command(<<"capabilities">>, GetSnapshotReplicationCapabilities),
    Command(<<"state">>, GetSnapshotReplicationState),
    Command(<<"share">>, GetSnapshotReplicationShare)}
SnapshotChangeCommands == {
    Command(<<"replication">>, GetSnapshotReplicationReplication),
    Command(<<"log">>, GetSnapshotReplicationLog),
    Command(<<"plan">>, PlanSnapshotReplicationChange),
    Command(<<"apply">>, ApplySnapshotReplicationPlan)}

\* cli/storage.go
StorageCommands == {
    Command(<<"plan">>, PlanStorageChange),
    Command(<<"apply">>, ApplyStoragePlan),
    Command(<<"capabilities">>, GetStorageCapabilities),
    Command(<<"inventory">>, GetStorageState)}

\* cli/surveillance.go
HomeModeCommands == {
    Command(<<"state">>, GetSurveillanceHomeMode),
    Command(<<"plan">>, PlanSurveillanceHomeModeChange),
    Command(<<"apply">>, ApplySurveillanceHomeModePlan),
    Command(<<"capabilities">>, GetSurveillanceCapabilities)}
SurveillanceCommands == {
    Command(<<"info">>, GetSurveillanceInfo),
    Command(<<"cameras">>, GetSurveillanceCameras)}

\* commandCatalogRole, with isPlanCommandName and isApplyCommandName
commandCatalogRole(command) ==
    LET ends == {command.name[1], command.name[Len(command.name)]} IN
    IF "plan" \in ends \/ command.hint = "plan" THEN "plan"
    ELSE IF "apply" \in ends THEN "apply" ELSE "operation"

Commands == UNION {
    AutoBlockCommands, AutoBlockChangeCommands, ProtectionChangeCommands, TwoFactorCommands,
    CertificateCommands, CertificateListCommands, ControlPanelCommands, DirectoryCommands,
    DirectoryGroupCommands, DiskSmartCommands, DSMUpdateCommands, DSMUpdatePolicyCommands,
    QuickConnectCommands, DDNSCommands, QuickConnectConfigCommands, DDNSApplyCommands,
    ExternalDeviceCommands, FileServicesCommands, FirewallChangeCommands, FirewallCommands,
    FTPServicesCommands, HardwareCommands, PowerCommands, KMIPCommands, LogCommands,
    LoginPortalChangeCommands, ReverseProxyCommands, LoginPortalCommands, NetworkChangeCommands,
    NetworkCommands, NetworkRouteCommands, NFSExportCommands, NotificationMailCommands,
    NotificationCommands, NotificationHistoryCommands, ResourceMonitorCommands,
    RecordingCommands, RsyncServiceCommands, SecurityAdvisorChangeCommands,
    SecurityAdvisorCommands, ServiceDiscoveryCommands, SystemCommands, TaskSchedulerCommands,
    TerminalChangeCommands, TerminalCommands, TFTPServiceCommands, UniversalSearchCommands,
    AccessCommands, AccountCommands, AccountInventoryCommands, AuthCommands,
    CapabilitiesCommands, DiscoverCommands, DownloadCommands, DownloadApplyCommands,
    DriveConfigCommands, DriveRestoreCommands, DriveUsageCommands, DriveStatusCommands,
    DriveConnectionCommands, DriveLogCommands, FileLinkCommands, FileMoveCommands,
    FileChangeCommands, FileFavoriteCommands, FileServiceInfoCommands, FileListCommands,
    FileLookupCommands, FilePermissionCommands, BackupTaskCommands, BackupVaultCommands,
    BackupChangeCommands, InstallCommands, OfficeCommands, OfficeChangeCommands,
    PackageInstallCommands, PackageCommands, PhotoCommands, ProvisionCommands, SANCommands,
    ShareCommands, SnapshotRelationCommands, SnapshotCommands, SnapshotChangeCommands,
    StorageCommands, HomeModeCommands, SurveillanceCommands}

========================================================================
