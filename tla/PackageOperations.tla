---------------------------- MODULE PackageOperations ----------------------------
(***************************************************************************)
(* The DSM operations of the installable packages:                         *)
(* one definition for every Operation variable of the packages under       *)
(* internal/synology/operations, with its variants, what each variant      *)
(* needs of the NAS and the requests its Execute sends, and one for every  *)
(* APINames function.  The encoding of parameters and the decoding of      *)
(* answers are left out.                                                   *)
(***************************************************************************)
EXTENDS ResourceOperations

\* operations/downloadstation
downloadstation_service ==
    InPackage("DownloadStation", <<3, 0>>, One("DownloadStation.Info", 1, {<<Send("getinfo"),
    Send("getconfig"), To("DownloadStation.Schedule", 1, Send("getconfig"))>>}))
downloadstation_task ==
    InPackage("DownloadStation", <<3, 0>>, One("DownloadStation.Task", 1, {<<Send("list")>>}))
downloadstation_statistic ==
    InPackage("DownloadStation", <<3, 0>>, One("DownloadStation.Statistic", 1,
    {<<Send("getinfo")>>}))
downloadstation_settings ==
    InPackage("DownloadStation", <<3, 0>>, One("DownloadStation2.Settings.Global", 2,
    {<<Send("get"), To("DownloadStation2.Settings.BT", 1, Send("get")),
    To("DownloadStation2.Settings.Emule", 1, Send("get")),
    To("DownloadStation2.Settings.Emule.Location", 1, Send("get")),
    To("DownloadStation2.Settings.FtpHttp", 1, Send("get")), To("DownloadStation2.Settings.Nzb",
    1, Send("get")), To("DownloadStation2.Settings.AutoExtraction", 1, Send("get")),
    To("DownloadStation2.Settings.Location", 1, Send("get")),
    To("DownloadStation2.Settings.Rss", 1, Send("get")),
    To("DownloadStation2.Settings.Scheduler", 1, Send("get"))>>}))
downloadstation_taskWrite ==
    InPackage("DownloadStation", <<3, 0>>, One("DownloadStation.Task", 1, {<<OneOf({"create",
    "pause", "resume", "delete"})>>}))
downloadstation_taskEdit ==
    InPackage("DownloadStation", <<3, 0>>, One("DownloadStation.Task", 2, {<<Send("edit")>>}))
downloadstation_btGet ==
    InPackage("DownloadStation", <<3, 0>>, One("DownloadStation2.Settings.BT", 1,
    {<<Send("get")>>}))
downloadstation_btSet ==
    InPackage("DownloadStation", <<3, 0>>, One("DownloadStation2.Settings.BT", 1,
    {<<Send("set")>>}))
downloadstation_ftpHttpGet ==
    InPackage("DownloadStation", <<3, 0>>, One("DownloadStation2.Settings.FtpHttp", 1,
    {<<Send("get")>>}))
downloadstation_ftpHttpSet ==
    InPackage("DownloadStation", <<3, 0>>, One("DownloadStation2.Settings.FtpHttp", 1,
    {<<Send("set")>>}))
downloadstation_rssGet ==
    InPackage("DownloadStation", <<3, 0>>, One("DownloadStation2.Settings.Rss", 1,
    {<<Send("get")>>}))
downloadstation_rssSet ==
    InPackage("DownloadStation", <<3, 0>>, One("DownloadStation2.Settings.Rss", 1,
    {<<Send("set")>>}))
downloadstation_locationGet ==
    InPackage("DownloadStation", <<3, 0>>, One("DownloadStation2.Settings.Location", 1,
    {<<Send("get")>>}))
downloadstation_locationSet ==
    InPackage("DownloadStation", <<3, 0>>, One("DownloadStation2.Settings.Location", 1,
    {<<Send("set")>>}))
downloadstation_schedulerGet ==
    InPackage("DownloadStation", <<3, 0>>, One("DownloadStation2.Settings.Scheduler", 1,
    {<<Send("get")>>}))
downloadstation_schedulerSet ==
    InPackage("DownloadStation", <<3, 0>>, One("DownloadStation2.Settings.Scheduler", 1,
    {<<Send("set")>>}))
downloadstation_globalGet ==
    InPackage("DownloadStation", <<3, 0>>, One("DownloadStation2.Settings.Global", 2,
    {<<Send("get")>>}))
downloadstation_globalSet ==
    InPackage("DownloadStation", <<3, 0>>, One("DownloadStation2.Settings.Global", 2,
    {<<Send("set")>>}))
downloadstation_autoExtractionGet ==
    InPackage("DownloadStation", <<3, 0>>, One("DownloadStation2.Settings.AutoExtraction", 1,
    {<<Send("get")>>}))
downloadstation_autoExtractionSet ==
    InPackage("DownloadStation", <<3, 0>>, One("DownloadStation2.Settings.AutoExtraction", 1,
    {<<Send("set")>>}))
downloadstation_nzbGet ==
    InPackage("DownloadStation", <<3, 0>>, One("DownloadStation2.Settings.Nzb", 1,
    {<<Send("get")>>}))
downloadstation_nzbSet ==
    InPackage("DownloadStation", <<3, 0>>, One("DownloadStation2.Settings.Nzb", 1,
    {<<Send("set")>>}))
downloadstation_APINames ==
    {"DownloadStation.Info", "DownloadStation.Schedule", "DownloadStation.Statistic",
    "DownloadStation.Task", "DownloadStation2.Settings.AutoExtraction",
    "DownloadStation2.Settings.BT", "DownloadStation2.Settings.Emule",
    "DownloadStation2.Settings.Emule.Location", "DownloadStation2.Settings.FtpHttp",
    "DownloadStation2.Settings.Global", "DownloadStation2.Settings.Location",
    "DownloadStation2.Settings.Nzb", "DownloadStation2.Settings.Rss",
    "DownloadStation2.Settings.Scheduler"}

\* operations/driveadmin
driveadmin_configRead ==
    InPackage("SynologyDrive", <<3, 0>>, One("SynologyDrive.Config", 1, {<<Send("get")>>}))
driveadmin_configSet ==
    InPackage("SynologyDrive", <<3, 0>>, One("SynologyDrive.Config", 1, {<<Send("set")>>}))
driveadmin_status ==
    InPackage("SynologyDrive", <<3, 0>>, One("SynologyDrive", 1, {<<Send("get_status")>>}))
driveadmin_connections ==
    InPackage("SynologyDrive", <<3, 0>>, One("SynologyDrive.Connection", 1, {<<Send("list")>>}))
driveadmin_teamFolders ==
    InPackage("SynologyDrive", <<3, 0>>, One("SynologyDrive.Share", 1, {<<Send("list")>>}))
driveadmin_log ==
    InPackage("SynologyDrive", <<3, 0>>, One("SynologyDrive.Log", 1, {<<Send("list")>>}))
driveadmin_teamFoldersSet ==
    InPackage("SynologyDrive", <<3, 0>>, One("SynologyDrive.Share", 1, {<<Send("set")>>}))
driveadmin_connectionSummary ==
    InPackage("SynologyDrive", <<3, 0>>, One("SynologyDrive.Connection", 2,
    {<<Send("summary")>>}))
driveadmin_connectionKick ==
    InPackage("SynologyDrive", <<3, 0>>, One("SynologyDrive.Connection", 2,
    {<<Send("delete")>>}))
driveadmin_dbUsage ==
    InPackage("SynologyDrive", <<3, 0>>, One("SynologyDrive.DBUsage", 1, {<<Send("get")>>}))
driveadmin_dashboard ==
    InPackage("SynologyDrive", <<3, 0>>, One("SynologyDrive.Dashboard", 1,
    {<<Send("top_access_files")>>}))
driveadmin_privilegeList ==
    InPackage("SynologyDrive", <<3, 0>>, One("SynologyDrive.Privilege", 1, {<<Send("list")>>}))
driveadmin_nodeList ==
    InPackage("SynologyDrive", <<3, 0>>, One("SynologyDrive.Node", 1, {<<Send("list")>>}))
driveadmin_nodeVersions ==
    InPackage("SynologyDrive", <<3, 0>>, One("SynologyDrive.Node", 1,
    {<<Send("list_version")>>}))
driveadmin_nodeRestoreStart ==
    InPackage("SynologyDrive", <<3, 0>>, One("SynologyDrive.Node.Restore", 1,
    {<<Send("start")>>}))
driveadmin_activation ==
    InPackage("SynologyDrive", <<3, 0>>, One("SynologyDrive.Activation", 1, {<<Send("get")>>}))
driveadmin_logExport == InPackage("SynologyDrive", <<3, 0>>, One("SynologyDrive.Log", 1, {<<>>}))
driveadmin_APINames ==
    {"SynologyDrive", "SynologyDrive.Activation", "SynologyDrive.Config",
    "SynologyDrive.Connection", "SynologyDrive.DBUsage", "SynologyDrive.Dashboard",
    "SynologyDrive.Log", "SynologyDrive.Node", "SynologyDrive.Node.Restore",
    "SynologyDrive.Privilege", "SynologyDrive.Share"}

\* operations/hyperbackup
hyperbackup_tasks == InPackage("HyperBackup", <<4, 0>>, One("Backup.Task", 1, {<<Read("list")>>}))
hyperbackup_detail ==
    Also("Backup.Target", 1, InPackage("HyperBackup", <<4, 0>>, One("Backup.Task", 1,
    {<<Read("get"), Read("status"), To("Backup.Target", 1, Read("get"))>>})))
hyperbackup_versions ==
    InPackage("HyperBackup", <<4, 0>>, One("Backup.Version", 2, {<<Read("list")>>}))
hyperbackup_logs ==
    InPackage("HyperBackup", <<4, 0>>, One("SDS.Backup.Client.Common.Log", 1,
    {<<Read("list")>>}))
hyperbackup_vault ==
    Also("Backup.Service.VersionBackup.Config", 1, InPackage("HyperBackupVault", <<4, 0>>,
    One("Backup.Service.VersionBackup.Target", 1, {<<To("Backup.Service.VersionBackup.Config",
    1, Read("get")), Read("list")>>})))
hyperbackup_taskRun ==
    InPackage("HyperBackup", <<4, 0>>, One("Backup.Task", 1, {<<Send("backup")>>,
    <<Read("status"), Send("cancel")>>}))
hyperbackup_applications ==
    InPackage("HyperBackup", <<4, 0>>, One("Backup.App2.Backup", 2, {<<Read("list")>>}))
hyperbackup_taskCreate ==
    Also("Backup.Target", 1, InPackage("HyperBackup", <<4, 0>>, One("Backup.Task", 1,
    {<<To("Backup.Target", 1, Send("get_candidate_dir")), To("Backup.Repository", 1,
    Send("create")), Send("create")>>})))
hyperbackup_luns ==
    InPackage("HyperBackup", <<4, 0>>, One("Backup.Lunbackup", 1, {<<Read("enum_lun")>>}))
hyperbackup_lunBackupTasks ==
    Also("Backup.Lunbackup", 1, InPackage("HyperBackup", <<4, 0>>, One("Backup.Task", 1,
    {<<Read("list")>>})))
hyperbackup_lunBackupCreate ==
    InPackage("HyperBackup", <<4, 0>>, One("Backup.Lunbackup", 1, {<<Send("apply_lun")>>,
    <<Send("get_local_dest_dir"), Send("apply_lun")>>}))
hyperbackup_APINames ==
    {"Backup.App2.Backup", "Backup.Lunbackup", "Backup.Repository",
    "Backup.Service.VersionBackup.Config", "Backup.Service.VersionBackup.Target",
    "Backup.Target", "Backup.Task", "Backup.Version", "SDS.Backup.Client.Common.Log"}

\* operations/office
office_infoRead == InPackage("Spreadsheet", <<3, 0>>, One("Office.Info", 1, {<<Send("get")>>}))
office_systemRead ==
    InPackage("Spreadsheet", <<3, 0>>, One("Office.Setting.System", 1, {<<Send("get")>>}))
office_systemSet ==
    InPackage("Spreadsheet", <<3, 0>>, One("Office.Setting.System", 1, {<<Send("set")>>}))
office_preferencesRead ==
    InPackage("Spreadsheet", <<3, 0>>, One("Office.Setting", 1, {<<Send("get")>>}))
office_preferencesSet ==
    InPackage("Spreadsheet", <<3, 0>>, One("Office.Setting", 1, {<<Send("set")>>}))
office_fontsRead ==
    InPackage("Spreadsheet", <<3, 0>>, One("Office.Setting.Font", 1, {<<Send("list")>>}))
office_fontsSet ==
    InPackage("Spreadsheet", <<3, 0>>, One("Office.Setting.Font", 1, {<<OneOf({"add", "enable",
    "disable", "delete"})>>}))
office_APINames == {"Office.Info", "Office.Setting", "Office.Setting.Font", "Office.Setting.System"}

\* operations/photos
photos_adminRead ==
    InPackage("SynologyPhotos", <<1, 0>>, One("Foto.Setting.Admin", 1, {<<Send("get")>>}))
photos_adminSet ==
    InPackage("SynologyPhotos", <<1, 0>>, One("Foto.Setting.Admin", 1, {<<Send("set")>>}))
photos_APINames == {"Foto.Setting.Admin"}

\* operations/snapshotreplication
snapshotreplication_snapshotCreate == One("Core.Share.Snapshot", 1, {<<Send("create")>>})
snapshotreplication_snapshotSet == One("Core.Share.Snapshot", 1, {<<Send("set")>>})
snapshotreplication_snapshotDelete == One("Core.Share.Snapshot", 1, {<<Send("delete")>>})
snapshotreplication_shareConfigSet == One("Core.Share.Snapshot", 1, {<<Send("set_share_conf")>>})
snapshotreplication_snapshotList == One("Core.Share.Snapshot", 2, {<<Read("list")>>})
snapshotreplication_shareConfig == One("Core.Share.Snapshot", 1, {<<Read("get_share_conf")>>})
snapshotreplication_retention == One("DisasterRecovery.Retention", 1, {<<Read("get")>>})
snapshotreplication_log == One("DisasterRecovery.Log", 1, {<<Read("list")>>})
snapshotreplication_node == One("DR.Node", 1, {<<Read("info")>>})
snapshotreplication_planList ==
    InPackage("SnapshotReplication", <<7, 0>>, One("DR.Plan", 1, {<<Read("list")>>}))
snapshotreplication_replicationPair ==
    InPackage("SnapshotReplication", <<7, 0>>, One("DR.Node.Credential", 1,
    {<<Send("temp_create")>>}))
snapshotreplication_replicationCheck ==
    InPackage("SnapshotReplication", <<7, 0>>, One("DR.Plan", 1,
    {<<Send("check_remote_conn")>>}))
snapshotreplication_replicationCreate ==
    InPackage("SnapshotReplication", <<7, 0>>, One("DR.Plan", 3, {<<Send("create")>>}))
snapshotreplication_replicationPoll ==
    InPackage("SnapshotReplication", <<7, 0>>, One("DR.Plan", 1, {<<Read("get_poll_task")>>}))
snapshotreplication_replicationDelete ==
    InPackage("SnapshotReplication", <<7, 0>>, One("DR.Plan", 1, {<<Send("delete")>>}))
snapshotreplication_replicationDeleteCred ==
    InPackage("SnapshotReplication", <<7, 0>>, One("DR.Node.Credential", 1,
    {<<Send("delete")>>}))
snapshotreplication_replicationSync ==
    InPackage("SnapshotReplication", <<7, 0>>, One("DR.Plan", 1, {<<Send("sync")>>}))
snapshotreplication_replicationPause ==
    InPackage("SnapshotReplication", <<7, 0>>, One("DR.Plan", 1, {<<Send("pause")>>}))
snapshotreplication_APINames ==
    {"Core.Share.Snapshot", "DR.Node", "DR.Node.Credential", "DR.Plan", "DisasterRecovery.Log",
    "DisasterRecovery.Retention"}

\* operations/surveillance
surveillance_homeModeRead ==
    InPackage("SurveillanceStation", <<1, 0>>, One("SurveillanceStation.HomeMode", 1,
    {<<Send("GetInfo")>>}))
surveillance_homeModeSet ==
    InPackage("SurveillanceStation", <<1, 0>>, One("SurveillanceStation.HomeMode", 1,
    {<<Send("Switch")>>}))
surveillance_info ==
    InPackage("SurveillanceStation", <<1, 0>>, One("SurveillanceStation.Info", 1,
    {<<To("SurveillanceStation.Info", 0, Send("GetInfo"))>>}))
surveillance_camera ==
    InPackage("SurveillanceStation", <<1, 0>>, One("SurveillanceStation.Camera", 1,
    {<<To("SurveillanceStation.Camera", 0, Send("List"))>>}))
surveillance_APINames ==
    {"SurveillanceStation.Camera", "SurveillanceStation.HomeMode", "SurveillanceStation.Info"}

\* operations/universalsearch
universalsearch_folder ==
    InPackage("SynoFinder", <<1, 0>>, One("Finder.FileIndexing.Folder", 1, {<<Read("list")>>}))
universalsearch_status ==
    InPackage("SynoFinder", <<1, 0>>, One("Finder.FileIndexing.Status", 1, {<<Read("get")>>}))
universalsearch_APINames == {"Finder.FileIndexing.Folder", "Finder.FileIndexing.Status"}

=============================================================================
