---------------------------- MODULE PackageClient ----------------------------
(***************************************************************************)
(* The methods of synology.Client for Package Center and the installable   *)
(* packages: one definition for every method that talks to the NAS, made   *)
(* of the steps of ClientSteps in the order of the code. What a method     *)
(* decodes, merges or returns is left out.                                 *)
(***************************************************************************)
EXTENDS ResourceClient

\* synology/compatibility_report.go
Compatibility ==
    Prepare({"API.Auth"} \union storageinventory_APINames \union
    storagemodelconstraints_APINames \union storagepoolmutation_APINames \union
    volumemutation_APINames \union identityinventory_APINames \union identitymutation_APINames
    \union identitymembership_APINames \union identityquota_APINames \union
    identityappprivilege_APINames \union shareinventory_APINames \union sharemutation_APINames
    \union controlpaneltime_APINames \union fileservices_APINames \union saninventory_APINames
    \union sanmutation_APINames \union syslogread_APINames \union packagecenter_APINames \union
    utilizationread_APINames \union resmonsetting_APINames \union resmonsettingmutation_APINames
    \union driveadmin_APINames) \o Maybe(refreshInstalledPackageCatalogLocked) \o
    Report(<<systeminfo_operation, storageinventory_operation,
    storagemodelconstraints_operation, storagepoolmutation_create, storagepoolmutation_expand,
    storagepoolmutation_delete, volumemutation_create, volumemutation_expand,
    volumemutation_delete, identityinventory_user, identityinventory_group,
    identitymutation_user, identitymutation_group, identitymembership_read,
    identitymembership_change, identityquota_read, identityquota_set,
    identityappprivilege_appList, identityappprivilege_ruleRead, identityappprivilege_preview,
    identityappprivilege_ruleSet, shareinventory_share, shareinventory_permission,
    sharemutation_share, sharemutation_permission, controlpaneltime_operation,
    controlpaneltime_set, fileservices_smbRead, fileservices_smbSet, fileservices_nfsRead,
    fileservices_nfsSet, fileservices_nfsAdvancedRead, fileservices_nfsAdvancedSnapshotRead,
    fileservices_nfsAdvancedSet, saninventory_target, saninventory_lun,
    sanmutation_targetCreate, sanmutation_targetUpdate, sanmutation_targetDelete,
    sanmutation_lunCreate, sanmutation_lunUpdate, sanmutation_lunDelete,
    sanmutation_mappingAttach, sanmutation_mappingDetach, syslogread_operation,
    utilizationread_current, utilizationread_history, resmonsetting_operation,
    resmonsettingmutation_set, driveadmin_configRead, driveadmin_configSet, driveadmin_status,
    driveadmin_connections, driveadmin_teamFolders, driveadmin_log, driveadmin_teamFoldersSet,
    driveadmin_connectionSummary, driveadmin_connectionKick, driveadmin_dbUsage,
    driveadmin_dashboard, driveadmin_privilegeList, driveadmin_nodeList,
    driveadmin_nodeVersions, driveadmin_nodeRestoreStart, driveadmin_activation,
    driveadmin_logExport, packagecenter_inventory, packagecenter_settingsRead,
    packagecenter_settingsSet, packagecenter_control, packagecenter_uninstall,
    packagecenter_download, packagecenter_update>>)

\* synology/downloadstation.go
DownloadStationServiceState ==
    PackageScoped(downloadstation_APINames) \o Run(downloadstation_service)
DownloadStationTasks == PackageScoped(downloadstation_APINames) \o Run(downloadstation_task)
DownloadStationStatistics ==
    PackageScoped(downloadstation_APINames) \o Run(downloadstation_statistic)
DownloadStationSettings == PackageScoped(downloadstation_APINames) \o Run(downloadstation_settings)
ApplyDownloadStationTaskChange ==
    PackageScoped(downloadstation_APINames) \o Either(Run(downloadstation_taskEdit),
    Run(downloadstation_taskWrite))
DownloadStationSettingsGroup ==
    PackageScoped(downloadstation_APINames) \o Choice(<<Run(downloadstation_btGet),
    Run(downloadstation_ftpHttpGet), Run(downloadstation_rssGet),
    Run(downloadstation_locationGet), Run(downloadstation_schedulerGet),
    Run(downloadstation_globalGet), Run(downloadstation_autoExtractionGet),
    Run(downloadstation_nzbGet)>>)
ApplyDownloadStationSettingsChange ==
    PackageScoped(downloadstation_APINames) \o Choice(<<Run(downloadstation_btGet) \o
    Run(downloadstation_btSet), Run(downloadstation_ftpHttpGet) \o
    Run(downloadstation_ftpHttpSet), Run(downloadstation_rssGet) \o Run(downloadstation_rssSet),
    Run(downloadstation_locationGet) \o Run(downloadstation_locationSet),
    Run(downloadstation_schedulerGet) \o Run(downloadstation_schedulerSet),
    Run(downloadstation_globalGet) \o Run(downloadstation_globalSet),
    Run(downloadstation_autoExtractionSet), Run(downloadstation_nzbSet)>>)
DownloadStationCapabilities ==
    PackageScoped(downloadstation_APINames) \o Report(<<downloadstation_service,
    downloadstation_task, downloadstation_statistic, downloadstation_settings,
    downloadstation_taskWrite, downloadstation_taskEdit, downloadstation_btSet>>)

\* synology/driveadmin.go
DriveAdminStatus == PackageScoped(driveadmin_APINames) \o Run(driveadmin_status)
DriveAdminConnections == PackageScoped(driveadmin_APINames) \o Run(driveadmin_connections)
DriveAdminTeamFolders == PackageScoped(driveadmin_APINames) \o Run(driveadmin_teamFolders)
DriveAdminLog == PackageScoped(driveadmin_APINames) \o Run(driveadmin_log)
DriveLogExport ==
    PackageScoped(driveadmin_APINames) \o Request("SynologyDrive.Log", 1, Once(Send("export")))
DriveNodes == PackageScoped(driveadmin_APINames) \o Run(driveadmin_nodeList)
DriveNodeVersions == PackageScoped(driveadmin_APINames) \o Run(driveadmin_nodeVersions)
nodeRestorePolled ==
    OnError(Request("SynologyDrive.Node.Restore", 1, Send("status")),
    TryRequest("SynologyDrive.Node.Restore", 1, Send("finish")) \o Fail)
ApplyDriveNodeRestore ==
    PackageScoped(driveadmin_APINames) \o Run(driveadmin_nodeRestoreStart) \o nodeRestorePolled
    \o Maybe(nodeRestorePolled) \o Either(Request("SynologyDrive.Node.Restore", 1,
    Send("finish")), Maybe(TryRequest("SynologyDrive.Node.Restore", 1, Send("finish"))) \o Fail)
DrivePrivileges == PackageScoped(driveadmin_APINames) \o Run(driveadmin_privilegeList)
ApplyDriveConnectionKick == PackageScoped(driveadmin_APINames) \o Run(driveadmin_connectionKick)
DriveConnectionSummary == PackageScoped(driveadmin_APINames) \o Run(driveadmin_connectionSummary)
DriveDBUsage == PackageScoped(driveadmin_APINames) \o Run(driveadmin_dbUsage)
DriveTopAccessFiles == PackageScoped(driveadmin_APINames) \o Run(driveadmin_dashboard)
DriveActivation == PackageScoped(driveadmin_APINames) \o Run(driveadmin_activation)
DriveServerConfig == PackageScoped(driveadmin_APINames) \o Run(driveadmin_configRead)
ApplyDriveServerConfigChange ==
    PackageScoped(driveadmin_APINames) \o Run(driveadmin_configRead) \o
    Run(driveadmin_configSet)
ApplyDriveTeamFolderChange == PackageScoped(driveadmin_APINames) \o Run(driveadmin_teamFoldersSet)
DriveAdminCapabilities ==
    PackageScoped(driveadmin_APINames) \o Report(<<driveadmin_configRead, driveadmin_configSet,
    driveadmin_connectionSummary, driveadmin_connectionKick, driveadmin_dbUsage,
    driveadmin_dashboard, driveadmin_activation, driveadmin_privilegeList, driveadmin_nodeList,
    driveadmin_nodeVersions, driveadmin_nodeRestoreStart, driveadmin_logExport>>)

\* synology/hyperbackup.go
HyperBackupTasks == PackageScoped(hyperbackup_APINames) \o Run(hyperbackup_tasks)
HyperBackupTaskDetail == PackageScoped(hyperbackup_APINames) \o Run(hyperbackup_detail)
HyperBackupTaskStatus ==
    PackageScoped(hyperbackup_APINames) \o Run(InPackage("HyperBackup", <<4, 0>>,
    One("Backup.Task", 1, {<<Read("status")>>})))
HyperBackupVersions == PackageScoped(hyperbackup_APINames) \o Run(hyperbackup_versions)
HyperBackupLogs == PackageScoped(hyperbackup_APINames) \o Run(hyperbackup_logs)
HyperBackupApplications == PackageScoped(hyperbackup_APINames) \o Run(hyperbackup_applications)
HyperBackupLuns == PackageScoped(hyperbackup_APINames) \o Run(hyperbackup_luns)
HyperBackupLunBackupTasks == PackageScoped(hyperbackup_APINames) \o Run(hyperbackup_lunBackupTasks)
HyperBackupLunBackupTaskStatus ==
    PackageScoped(hyperbackup_APINames) \o Run(InPackage("HyperBackup", <<4, 0>>,
    One("Backup.Lunbackup", 1, {<<Read("load_task")>>})))
ApplyHyperBackupLunBackupCreate ==
    PackageScoped(hyperbackup_APINames) \o Run(hyperbackup_lunBackupCreate)
HyperBackupVault == PackageScoped(hyperbackup_APINames) \o Run(hyperbackup_vault)
ApplyHyperBackupTaskChange ==
    PackageScoped(hyperbackup_APINames) \o Either(Run(hyperbackup_taskCreate),
    Run(hyperbackup_taskRun))
HyperBackupCapabilities ==
    PackageScoped(hyperbackup_APINames) \o Report(<<hyperbackup_tasks, hyperbackup_detail,
    hyperbackup_versions, hyperbackup_logs, hyperbackup_vault, hyperbackup_taskRun,
    hyperbackup_taskCreate, hyperbackup_applications, hyperbackup_luns,
    hyperbackup_lunBackupCreate>>)

\* synology/office.go
OfficeInfo == PackageScoped(office_APINames) \o Run(office_infoRead)
OfficeSystemSettings == PackageScoped(office_APINames) \o Run(office_systemRead)
OfficePreferences == PackageScoped(office_APINames) \o Run(office_preferencesRead)
OfficeFonts == PackageScoped(office_APINames) \o Run(office_fontsRead)
OfficeCapabilities ==
    PackageScoped(office_APINames) \o Report(<<office_infoRead, office_systemRead,
    office_systemSet, office_preferencesRead, office_preferencesSet, office_fontsRead,
    office_fontsSet>>)
ApplyOfficeSystemChange == PackageScoped(office_APINames) \o Run(office_systemSet)
ApplyOfficePreferencesChange == PackageScoped(office_APINames) \o Run(office_preferencesSet)
ApplyOfficeFontChange == PackageScoped(office_APINames) \o Run(office_fontsSet)

\* synology/packagecenter.go
PackageCatalog ==
    Prepare({"Core.Package.Server", "Core.Package"}) \o Run(packagecenter_catalog) \o
    TryRun(packagecenter_inventory)
PackageState == Prepare({"Core.Package"}) \o Run(packagecenter_inventory)
PackageSettings == Prepare({"Core.Package.Setting"}) \o Run(packagecenter_settingsRead)
PackageCapabilities ==
    Prepare(packagecenter_APINames) \o Report(<<packagecenter_inventory,
    packagecenter_settingsRead, packagecenter_settingsSet, packagecenter_control,
    packagecenter_uninstall, packagecenter_download, packagecenter_update>>)
ApplyPackageSettingsChange == Prepare({"Core.Package.Setting"}) \o Run(packagecenter_settingsSet)
ApplyPackageLifecycleChange ==
    Prepare(packagecenter_APINames) \o Choice(<<Run(packagecenter_control),
    Run(packagecenter_uninstall)>>)
awaitPackageInstalledLocked ==
    Repeat(TryRequest("Core.Package.Installation", 1, Send("status")) \o
    Run(packagecenter_inventory))
PackageInstall ==
    Prepare({"Core.Package.Installation", "Core.Package"}) \o Run(packagecenter_download) \o
    awaitPackageInstalledLocked
uploadCleanup == TryRequest("Core.Package.Installation", 1, OneOf({"delete", "clean"}))
uploadPackageLocked == Request("Core.Package.Installation", 1, Send("upload"))
PackageInstallLocal ==
    Prepare({"Core.Package.Installation", "Core.Package"}) \o uploadPackageLocked \o
    Maybe(uploadCleanup \o Fail) \o TryRun(packagecenter_inventory) \o
    OnError(Run(packagecenter_localInstall), uploadCleanup \o Fail) \o
    awaitPackageInstalledLocked

\* synology/photos.go
PhotosAdminSettings == PackageScoped(photos_APINames) \o Run(photos_adminRead)
PhotosCapabilities ==
    PackageScoped(photos_APINames) \o Report(<<photos_adminRead, photos_adminSet>>)
ApplyPhotosAdminChange == PackageScoped(photos_APINames) \o Run(photos_adminSet)

\* synology/replication_pairing.go
ReplicationDestinationEndpoint == Nothing
ReplicationAccountCredential == Nothing

\* synology/snapshot_replication.go
prepareSnapshotReplicationTargetLocked == PackageScoped(snapshotreplication_APINames)

\* synology/replication_pairing.go
PairReplicationCredential ==
    prepareSnapshotReplicationTargetLocked \o Run(snapshotreplication_replicationPair)
CheckReplicationRemoteConn ==
    prepareSnapshotReplicationTargetLocked \o Run(snapshotreplication_replicationCheck)
CreateReplicationPlan ==
    prepareSnapshotReplicationTargetLocked \o Run(snapshotreplication_replicationCreate)
PollReplicationTask ==
    prepareSnapshotReplicationTargetLocked \o Run(snapshotreplication_replicationPoll)
DeleteReplicationPlan ==
    prepareSnapshotReplicationTargetLocked \o Run(snapshotreplication_replicationDelete)
DeleteReplicationCredential ==
    prepareSnapshotReplicationTargetLocked \o Run(snapshotreplication_replicationDeleteCred)
SyncReplicationPlan ==
    prepareSnapshotReplicationTargetLocked \o Run(snapshotreplication_replicationSync)
PauseReplicationPlan ==
    prepareSnapshotReplicationTargetLocked \o Run(snapshotreplication_replicationPause)

\* synology/snapshot_replication.go
SnapshotReplicationShareSnapshots ==
    prepareSnapshotReplicationTargetLocked \o Run(snapshotreplication_snapshotList)
SnapshotReplicationShareConfig ==
    prepareSnapshotReplicationTargetLocked \o Run(snapshotreplication_shareConfig)
SnapshotReplicationRetention ==
    prepareSnapshotReplicationTargetLocked \o Run(snapshotreplication_retention)
SnapshotReplicationLog == prepareSnapshotReplicationTargetLocked \o Run(snapshotreplication_log)
SnapshotReplicationNode == prepareSnapshotReplicationTargetLocked \o Run(snapshotreplication_node)
SnapshotReplicationPlans ==
    prepareSnapshotReplicationTargetLocked \o Run(snapshotreplication_planList)
ApplySnapshotReplicationChange ==
    prepareSnapshotReplicationTargetLocked \o Choice(<<Run(snapshotreplication_snapshotCreate),
    Run(snapshotreplication_snapshotSet), Run(snapshotreplication_snapshotDelete),
    Run(snapshotreplication_shareConfigSet)>>)
SnapshotReplicationModuleCapabilities ==
    prepareSnapshotReplicationTargetLocked \o Report(<<snapshotreplication_snapshotList,
    snapshotreplication_shareConfig, snapshotreplication_retention, snapshotreplication_log,
    snapshotreplication_node, snapshotreplication_planList, snapshotreplication_snapshotCreate,
    snapshotreplication_snapshotSet, snapshotreplication_snapshotDelete,
    snapshotreplication_shareConfigSet, snapshotreplication_replicationPair,
    snapshotreplication_replicationCreate, snapshotreplication_replicationSync>>)

\* synology/surveillance.go
SurveillanceInfo == PackageScoped(surveillance_APINames) \o Run(surveillance_info)
SurveillanceCameras == PackageScoped(surveillance_APINames) \o Run(surveillance_camera)
SurveillanceHomeMode == PackageScoped(surveillance_APINames) \o Run(surveillance_homeModeRead)
ApplySurveillanceHomeModeChange ==
    PackageScoped(surveillance_APINames) \o Run(surveillance_homeModeSet)
SurveillanceCapabilities ==
    PackageScoped(surveillance_APINames) \o Report(<<surveillance_info, surveillance_camera,
    surveillance_homeModeRead, surveillance_homeModeSet>>)

\* synology/universalsearch.go
UniversalSearchIndexedFolders ==
    PackageScoped(universalsearch_APINames) \o Run(universalsearch_folder)
UniversalSearchIndexStatus == PackageScoped(universalsearch_APINames) \o Run(universalsearch_status)
UniversalSearchCapabilities ==
    PackageScoped(universalsearch_APINames) \o Report(<<universalsearch_folder,
    universalsearch_status>>)

=============================================================================
