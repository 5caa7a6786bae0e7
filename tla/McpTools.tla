---------------------------- MODULE McpTools ----------------------------
(***************************************************************************)
(* The tools of the MCP server (mcpserver.New) in the order of their       *)
(* AddTool calls, each with the two parts of its name that authorization   *)
(* looks at, its annotations, and the service method its handler calls;    *)
(* and the surfaces on which the tools are served.  Input schemas,         *)
(* decoding and formatting are left out.                                   *)
(***************************************************************************)
EXTENDS PackageServices

Tool(verb, rest, hint, program) ==
    [kind |-> "tool", name |-> <<verb, rest>>, hint |-> hint, program |-> program]

SystemTools == {
    Tool("list", "nas", "none", Nothing),
    Tool("discover", "lan_devices", "readOnly", Nothing),
    Tool("get", "auth_status", "readOnly", Nothing),
    Tool("provision", "nas", "none", Provisioning),
    Tool("provision", "discovered_nas", "none", Provisioning),
    Tool("install", "discovered_nas", "none", Maybe(Provisioning)),
    Tool("get", "system_info", "none", GetSystemInfo),
    Tool("get", "capabilities", "none", GetCompatibility),
    Tool("explain", "effective_access", "readOnly", ExplainEffectiveAccess),
    Tool("get", "control_panel_time_capabilities", "readOnly", GetControlPanelTimeCapabilities),
    Tool("get", "control_panel_time_state", "readOnly", GetControlPanelTimeState)}
ExternalAccessTools == {
    Tool("get", "external_access_capabilities", "readOnly", GetExternalAccessCapabilities),
    Tool("get", "external_access_account", "readOnly", GetExternalAccessAccount),
    Tool("get", "external_access_quickconnect", "readOnly", GetExternalAccessQuickConnect),
    Tool("get", "external_access_ddns", "readOnly", GetExternalAccessDDNS),
    Tool("get", "external_access_port_forward", "readOnly", GetExternalAccessPortForward),
    Tool("plan", "external_access_quickconnect_change", "readOnly",
        PlanExternalAccessQuickConnectChange),
    Tool("apply", "external_access_quickconnect_plan", "mutation",
        ApplyExternalAccessQuickConnectPlan),
    Tool("plan", "external_access_quickconnect_config_change", "readOnly",
        PlanExternalAccessQuickConnectConfigChange),
    Tool("apply", "external_access_quickconnect_config_plan", "mutation",
        ApplyExternalAccessQuickConnectConfigPlan),
    Tool("plan", "external_access_quickconnect_permission_change", "readOnly",
        PlanExternalAccessQuickConnectPermissionChange),
    Tool("apply", "external_access_quickconnect_permission_plan", "mutation",
        ApplyExternalAccessQuickConnectPermissionPlan)}
DDNSAndDownloadTools == {
    Tool("plan", "external_access_ddns_change", "readOnly", PlanExternalAccessDDNSChange),
    Tool("apply", "external_access_ddns_plan", "mutation", ApplyExternalAccessDDNSPlan),
    Tool("get", "download_station_capabilities", "readOnly", GetDownloadStationCapabilities),
    Tool("get", "download_station_service", "readOnly", GetDownloadStationService),
    Tool("get", "download_station_tasks", "readOnly", GetDownloadStationTasks),
    Tool("get", "download_station_statistics", "readOnly", GetDownloadStationStatistics)}
FileLookupTools == {
    Tool("get", "filestation_capabilities", "readOnly", GetFileStationCapabilities),
    Tool("get", "filestation_info", "readOnly", GetFileStationInfo),
    Tool("get", "filestation_shares", "readOnly", ListFileStationShares),
    Tool("get", "filestation_directory", "readOnly", ListFileStationDirectory),
    Tool("get", "filestation_entry_info", "readOnly", GetFileStationEntryInfo),
    Tool("get", "filestation_search", "readOnly", SearchFileStation),
    Tool("get", "filestation_directory_size", "readOnly", GetFileStationDirSize),
    Tool("get", "filestation_md5", "readOnly", GetFileStationMD5),
    Tool("get", "filestation_virtual_folders", "readOnly", ListFileStationVirtualFolders)}
FileTools == {
    Tool("get", "filestation_write_permission", "readOnly", CheckFileStationPermission),
    Tool("get", "filestation_file_content", "readOnly", ReadFileStationFile),
    Tool("get", "filestation_thumbnail", "readOnly", ReadFileStationThumbnail),
    Tool("get", "filestation_favorites", "readOnly", GetFileStationFavorites),
    Tool("get", "filestation_sharing_links", "readOnly", GetFileStationSharingLinks),
    Tool("get", "filestation_background_tasks", "readOnly", GetFileStationBackgroundTasks),
    Tool("plan", "filestation_change", "readOnly", PlanFileStationChange),
    Tool("apply", "filestation_plan", "mutation", ApplyFileStationPlan)}
DownloadTaskTools == {
    Tool("get", "download_station_settings", "readOnly", GetDownloadStationSettings),
    Tool("plan", "download_station_task_change", "readOnly", PlanDownloadStationTaskChange),
    Tool("apply", "download_station_task_plan", "mutation", ApplyDownloadStationTaskPlan),
    Tool("plan", "download_station_settings_change", "readOnly", PlanDownloadStationSettingsChange),
    Tool("apply", "download_station_settings_plan", "mutation", ApplyDownloadStationSettingsPlan)}
BackupTools == {
    Tool("get", "hyper_backup_capabilities", "readOnly", GetHyperBackupCapabilities),
    Tool("get", "hyper_backup_tasks", "readOnly", GetHyperBackupTasks),
    Tool("get", "hyper_backup_task", "readOnly", GetHyperBackupTaskDetail),
    Tool("get", "hyper_backup_versions", "readOnly", GetHyperBackupVersions),
    Tool("get", "hyper_backup_logs", "readOnly", GetHyperBackupLogs),
    Tool("get", "hyper_backup_applications", "readOnly", GetHyperBackupApplications),
    Tool("get", "hyper_backup_luns", "readOnly", GetHyperBackupLuns)}
BackupTaskAndTimeTools == {
    Tool("get", "hyper_backup_lun_backups", "readOnly", GetHyperBackupLunBackupTasks),
    Tool("plan", "hyper_backup_lun_backup_create", "readOnly", PlanHyperBackupLunBackupCreate),
    Tool("apply", "hyper_backup_lun_backup_plan", "mutation", ApplyHyperBackupLunBackupPlan),
    Tool("get", "hyper_backup_vault", "readOnly", GetHyperBackupVault),
    Tool("plan", "hyper_backup_task_change", "readOnly", PlanHyperBackupTaskChange),
    Tool("apply", "hyper_backup_task_plan", "mutation", ApplyHyperBackupTaskPlan),
    Tool("plan", "control_panel_time_change", "readOnly", PlanControlPanelTimeChange),
    Tool("apply", "control_panel_time_plan", "mutation", ApplyControlPanelTimePlan),
    Tool("plan", "system_hostname_change", "readOnly", PlanSystemHostname),
    Tool("apply", "system_hostname_plan", "mutation", ApplySystemHostnamePlan),
    Tool("get", "file_service_capabilities", "readOnly", GetFileServiceCapabilities)}
FileServiceTools == {
    Tool("get", "smb_state", "readOnly", GetSMBState),
    Tool("get", "nfs_state", "readOnly", GetNFSState),
    Tool("plan", "file_service_change", "readOnly", PlanFileServiceChange),
    Tool("apply", "file_service_plan", "mutation", ApplyFileServicePlan),
    Tool("get", "nfs_export_capabilities", "readOnly", GetNFSExportCapabilities),
    Tool("get", "nfs_export_state", "readOnly", GetNFSExportState),
    Tool("plan", "nfs_export_change", "readOnly", PlanNFSExportChange),
    Tool("apply", "nfs_export_plan", "mutation", ApplyNFSExportPlan)}
DiscoveryAndFTPTools == {
    Tool("get", "service_discovery_capabilities", "readOnly", GetServiceDiscoveryCapabilities),
    Tool("get", "service_discovery_state", "readOnly", GetServiceDiscoveryState),
    Tool("plan", "service_discovery_change", "readOnly", PlanServiceDiscoveryChange),
    Tool("apply", "service_discovery_plan", "mutation", ApplyServiceDiscoveryPlan),
    Tool("get", "ftp_service_capabilities", "readOnly", GetFTPServicesCapabilities),
    Tool("get", "ftp_service_state", "readOnly", GetFTPServicesState),
    Tool("plan", "ftp_service_change", "readOnly", PlanFTPServicesChange),
    Tool("apply", "ftp_service_plan", "mutation", ApplyFTPServicesPlan)}
RsyncAndTFTPTools == {
    Tool("get", "rsync_service_capabilities", "readOnly", GetRsyncServiceCapabilities),
    Tool("get", "rsync_service_state", "readOnly", GetRsyncServiceState),
    Tool("plan", "rsync_service_change", "readOnly", PlanRsyncServiceChange),
    Tool("apply", "rsync_service_plan", "mutation", ApplyRsyncServicePlan),
    Tool("get", "tftp_service_capabilities", "readOnly", GetTFTPServiceCapabilities),
    Tool("get", "tftp_service_state", "readOnly", GetTFTPServiceState),
    Tool("plan", "tftp_service_change", "readOnly", PlanTFTPServiceChange),
    Tool("apply", "tftp_service_plan", "mutation", ApplyTFTPServicePlan)}
PhotosAndOfficeTools == {
    Tool("get", "photos_capabilities", "readOnly", GetPhotosCapabilities),
    Tool("get", "photos_settings", "readOnly", GetPhotosSettings),
    Tool("plan", "photos_change", "readOnly", PlanPhotosChange),
    Tool("apply", "photos_plan", "mutation", ApplyPhotosPlan),
    Tool("get", "office_capabilities", "readOnly", GetOfficeCapabilities),
    Tool("get", "office_info", "readOnly", GetOfficeInfo),
    Tool("get", "office_settings", "readOnly", GetOfficeSettings),
    Tool("get", "office_preferences", "readOnly", GetOfficePreferences),
    Tool("get", "office_fonts", "readOnly", GetOfficeFonts),
    Tool("plan", "office_change", "readOnly", PlanOfficeChange),
    Tool("apply", "office_plan", "mutation", ApplyOfficePlan)}
StorageAndAccountTools == {
    Tool("get", "storage_capabilities", "readOnly", GetStorageCapabilities),
    Tool("get", "storage_state", "readOnly", GetStorageState),
    Tool("plan", "storage_change", "readOnly", PlanStorageChange),
    Tool("apply", "storage_plan", "mutation", ApplyStoragePlan),
    Tool("get", "account_capabilities", "readOnly", GetIdentityCapabilities),
    Tool("plan", "account_change", "readOnly", PlanIdentityChange),
    Tool("apply", "account_plan", "mutation", ApplyIdentityPlan),
    Tool("get", "account_state", "readOnly", GetIdentityStateWithQuery),
    Tool("get", "san_capabilities", "readOnly", GetSANCapabilities),
    Tool("get", "san_state", "readOnly", GetSANState)}
LogTools == {
    Tool("get", "log_capabilities", "readOnly", GetLogCapabilities),
    Tool("get", "logs", "readOnly", GetLogState)}
NotificationTools == {
    Tool("get", "notification_capabilities", "readOnly", GetNotificationCapabilities),
    Tool("get", "notification_mail", "readOnly", GetNotificationMail),
    Tool("get", "notification_push", "readOnly", GetNotificationPush),
    Tool("get", "notification_webhook", "readOnly", GetNotificationWebhook),
    Tool("get", "notification_sms", "readOnly", GetNotificationSMS),
    Tool("get", "notification_rules", "readOnly", GetNotificationRules),
    Tool("get", "notification_desktop", "readOnly", GetNotificationDesktop),
    Tool("get", "notification_history", "readOnly", GetNotificationHistory)}
SchedulerAndUpdateTools == {
    Tool("get", "task_scheduler_capabilities", "readOnly", GetTaskSchedulerCapabilities),
    Tool("get", "task_scheduler_tasks", "readOnly", GetTaskSchedulerScheduled),
    Tool("get", "task_scheduler_triggered", "readOnly", GetTaskSchedulerTriggered),
    Tool("get", "dsm_update_capabilities", "readOnly", GetDSMUpdateCapabilities),
    Tool("get", "dsm_update_status", "readOnly", GetDSMUpdateStatus),
    Tool("get", "dsm_update_available", "readOnly", GetDSMUpdateAvailable),
    Tool("get", "dsm_update_policy", "readOnly", GetDSMUpdatePolicy),
    Tool("get", "dsm_update_config_backup", "readOnly", GetDSMUpdateConfigBackup)}
MonitorAndDiskTools == {
    Tool("get", "resource_monitor_capabilities", "readOnly", GetResourceMonitorCapabilities),
    Tool("get", "resource_monitor_state", "readOnly", GetResourceMonitorState),
    Tool("get", "resource_monitor_history", "readOnly", GetResourceMonitorHistory),
    Tool("get", "resource_monitor_setting", "readOnly", GetResourceMonitorSetting),
    Tool("get", "disk_smart_capabilities", "readOnly", GetDiskSMARTCapabilities),
    Tool("get", "disk_health", "readOnly", GetDiskHealth),
    Tool("get", "disk_smart_attributes", "readOnly", GetDiskSMARTAttributes),
    Tool("get", "universal_search_capabilities", "readOnly", GetUniversalSearchCapabilities),
    Tool("get", "universal_search_folders", "readOnly", GetUniversalSearchFolders),
    Tool("get", "universal_search_status", "readOnly", GetUniversalSearchStatus)}
HardwareTools == {
    Tool("get", "hardware_capabilities", "readOnly", GetHardwareCapabilities),
    Tool("get", "hardware_general", "readOnly", GetHardwareGeneral),
    Tool("get", "hardware_power_schedule", "readOnly", GetHardwarePowerSchedule),
    Tool("get", "hardware_power_recovery", "readOnly", GetHardwarePowerRecovery),
    Tool("get", "hardware_ups", "readOnly", GetHardwareUPS),
    Tool("get", "external_device_capabilities", "readOnly", GetExternalDeviceCapabilities),
    Tool("get", "external_storage", "readOnly", GetExternalStorage),
    Tool("get", "external_printers", "readOnly", GetExternalPrinters)}
DirectoryAndSANTools == {
    Tool("get", "directory_capabilities", "readOnly", GetDirectoryCapabilities),
    Tool("get", "directory_status", "readOnly", GetDirectoryStatus),
    Tool("get", "directory_users", "readOnly", GetDirectoryUsers),
    Tool("get", "directory_groups", "readOnly", GetDirectoryGroups),
    Tool("get", "kmip_capabilities", "readOnly", GetKMIPCapabilities),
    Tool("get", "kmip_status", "readOnly", GetKMIPStatus),
    Tool("plan", "resource_recording_change", "readOnly", PlanResourceRecordingChange),
    Tool("apply", "resource_recording_plan", "mutation", ApplyResourceRecordingPlan),
    Tool("plan", "san_change", "readOnly", PlanSANChange),
    Tool("apply", "san_plan", "mutation", ApplySANPlan)}
ShareTools == {
    Tool("get", "share_capabilities", "readOnly", GetShareCapabilities),
    Tool("plan", "share_change", "readOnly", PlanShareChange),
    Tool("apply", "share_plan", "mutation", ApplySharePlan),
    Tool("get", "share_state", "readOnly", GetShareState)}
PackageTools == {
    Tool("get", "package_capabilities", "readOnly", GetPackageCapabilities),
    Tool("get", "package_state", "readOnly", GetPackageState),
    Tool("get", "package_settings", "readOnly", GetPackageSettings),
    Tool("plan", "package_change", "readOnly", PlanPackageChange),
    Tool("apply", "package_plan", "mutation", ApplyPackagePlan),
    Tool("get", "package_available", "readOnly", GetPackageCatalog)}
PackageInstallAndTerminalTools == {
    Tool("plan", "package_install", "readOnly", PlanPackageInstall),
    Tool("plan", "package_update", "readOnly", PlanPackageUpdate),
    Tool("apply", "package_install_plan", "mutation", ApplyPackageInstallPlan),
    Tool("plan", "package_local_install", "readOnly", Nothing),
    Tool("apply", "package_local_install_plan", "mutation", ApplyPackageLocalInstallPlan),
    Tool("get", "certificate_capabilities", "readOnly", GetCertificateCapabilities),
    Tool("get", "certificates", "readOnly", GetCertificates),
    Tool("get", "terminal_snmp_capabilities", "readOnly", GetTerminalSNMPCapabilities),
    Tool("get", "terminal_state", "readOnly", GetTerminalState),
    Tool("get", "snmp_state", "readOnly", GetSNMPState)}
TerminalAndCertificateTools == {
    Tool("plan", "terminal_change", "readOnly", PlanTerminalChange),
    Tool("apply", "terminal_plan", "mutation", ApplyTerminalPlan),
    Tool("plan", "snmp_change", "readOnly", PlanSNMPChange),
    Tool("apply", "snmp_plan", "mutation", ApplySNMPPlan),
    Tool("plan", "certificate_change", "readOnly", PlanCertificateChange),
    Tool("apply", "certificate_plan", "mutation", ApplyCertificatePlan),
    Tool("get", "certificate_export", "readOnly", Service_ExportCertificate)}
SecurityAdvisorTools == {
    Tool("get", "security_advisor_capabilities", "readOnly", GetSecurityAdvisorCapabilities),
    Tool("get", "security_advisor_status", "readOnly", GetSecurityAdvisorStatus),
    Tool("get", "security_advisor_schedule", "readOnly", GetSecurityAdvisorSchedule),
    Tool("plan", "security_advisor_schedule_change", "readOnly", PlanSecurityAdvisorScheduleChange),
    Tool("apply", "security_advisor_schedule_plan", "mutation", ApplySecurityAdvisorSchedulePlan),
    Tool("run", "security_scan", "action", Service_RunSecurityScan)}
AutoBlockTools == {
    Tool("get", "account_protection_capabilities", "readOnly", GetAccountProtectionCapabilities),
    Tool("get", "account_protection_autoblock", "readOnly", GetAutoBlockSettings),
    Tool("get", "account_protection_autoblock_list", "readOnly", GetAutoBlockLists),
    Tool("get", "account_protection", "readOnly", GetAccountProtection),
    Tool("get", "account_protection_enforce_2fa", "readOnly", GetEnforceTwoFactor),
    Tool("plan", "account_protection_autoblock_change", "readOnly", PlanAutoBlockChange),
    Tool("apply", "account_protection_autoblock_plan", "mutation", ApplyAutoBlockPlan)}
AccountProtectionAndFirewallTools == {
    Tool("plan", "account_protection_list_change", "readOnly", PlanAutoBlockListChange),
    Tool("apply", "account_protection_list_plan", "mutation", ApplyAutoBlockListPlan),
    Tool("plan", "account_protection_thresholds_change", "readOnly",
        PlanAccountProtectionThresholdsChange),
    Tool("apply", "account_protection_thresholds_plan", "mutation",
        ApplyAccountProtectionThresholdsPlan),
    Tool("plan", "account_protection_enforce_2fa_change", "readOnly", PlanEnforceTwoFactorChange),
    Tool("apply", "account_protection_enforce_2fa_plan", "mutation", ApplyEnforceTwoFactorPlan),
    Tool("get", "firewall_capabilities", "readOnly", GetFirewallCapabilities),
    Tool("get", "firewall_status", "readOnly", GetFirewallStatus),
    Tool("get", "firewall_profiles", "readOnly", GetFirewallProfiles),
    Tool("get", "firewall_rules", "readOnly", GetFirewallRules)}
NetworkTools == {
    Tool("get", "network_capabilities", "readOnly", GetNetworkCapabilities),
    Tool("get", "network_general", "readOnly", GetNetworkGeneral),
    Tool("get", "network_interfaces", "readOnly", GetNetworkInterfaces),
    Tool("get", "network_bonds", "readOnly", GetNetworkBonds),
    Tool("get", "network_routes", "readOnly", GetNetworkRoutes),
    Tool("plan", "network_general_change", "readOnly", PlanNetworkGeneralChange),
    Tool("apply", "network_general_plan", "mutation", ApplyNetworkGeneralPlan),
    Tool("plan", "network_interface_change", "readOnly", PlanNetworkInterfaceChange),
    Tool("apply", "network_interface_plan", "mutation", ApplyNetworkInterfacePlan)}
FirewallChangeTools == {
    Tool("plan", "firewall_profile_change", "readOnly", PlanFirewallProfileChange),
    Tool("apply", "firewall_profile_plan", "mutation", ApplyFirewallProfilePlan),
    Tool("plan", "firewall_enable_change", "readOnly", PlanFirewallEnableChange),
    Tool("apply", "firewall_enable_plan", "mutation", ApplyFirewallEnablePlan)}
LoginPortalTools == {
    Tool("get", "login_portal_capabilities", "readOnly", GetLoginPortalCapabilities),
    Tool("get", "login_portal_dsm", "readOnly", GetDSMWebService),
    Tool("get", "login_portal_applications", "readOnly", GetApplicationPortals),
    Tool("get", "login_portal_reverse_proxy", "readOnly", GetReverseProxyRules),
    Tool("plan", "login_portal_dsm_change", "readOnly", PlanDSMWebServiceChange),
    Tool("apply", "login_portal_dsm_plan", "mutation", ApplyDSMWebServicePlan),
    Tool("plan", "login_portal_application_change", "readOnly", PlanApplicationPortalChange),
    Tool("apply", "login_portal_application_plan", "mutation", ApplyApplicationPortalPlan),
    Tool("plan", "login_portal_reverse_proxy_create", "readOnly", PlanReverseProxyCreate),
    Tool("plan", "login_portal_reverse_proxy_delete", "readOnly", PlanReverseProxyDelete),
    Tool("apply", "login_portal_reverse_proxy_plan", "mutation", ApplyReverseProxyPlan)}
DriveAdminTools == {
    Tool("get", "drive_admin_capabilities", "readOnly", GetDriveAdminCapabilities),
    Tool("get", "drive_admin_status", "readOnly", GetDriveAdminStatus),
    Tool("get", "drive_admin_connections", "readOnly", GetDriveAdminConnections),
    Tool("get", "drive_admin_team_folders", "readOnly", GetDriveAdminTeamFolders),
    Tool("get", "drive_admin_logs", "readOnly", GetDriveAdminLog),
    Tool("get", "drive_log_export", "readOnly", ExportDriveLog)}
SurveillanceTools == {
    Tool("get", "surveillance_capabilities", "readOnly", GetSurveillanceCapabilities),
    Tool("get", "surveillance_info", "readOnly", GetSurveillanceInfo),
    Tool("get", "surveillance_cameras", "readOnly", GetSurveillanceCameras),
    Tool("get", "surveillance_home_mode", "readOnly", GetSurveillanceHomeMode),
    Tool("plan", "surveillance_home_mode_change", "readOnly", PlanSurveillanceHomeModeChange),
    Tool("apply", "surveillance_home_mode_plan", "mutation", ApplySurveillanceHomeModePlan)}
SnapshotTools == {
    Tool("get", "snapshot_capabilities", "readOnly", GetSnapshotReplicationCapabilities),
    Tool("get", "snapshot_state", "readOnly", GetSnapshotReplicationState),
    Tool("get", "snapshot_share", "readOnly", GetSnapshotReplicationShare),
    Tool("get", "snapshot_replication_status", "readOnly", GetSnapshotReplicationReplication),
    Tool("get", "snapshot_log", "readOnly", GetSnapshotReplicationLog),
    Tool("plan", "snapshot_change", "readOnly", PlanSnapshotReplicationChange),
    Tool("apply", "snapshot_plan", "mutation", ApplySnapshotReplicationPlan),
    Tool("plan", "snapshot_replication_create", "readOnly", PlanSnapshotReplicationRelation),
    Tool("apply", "snapshot_replication_create", "mutation", ApplySnapshotReplicationRelationPlan)}
DriveTools == {
    Tool("get", "drive_config", "readOnly", GetDriveServerConfig),
    Tool("plan", "drive_config_change", "readOnly", PlanDriveConfigChange),
    Tool("apply", "drive_config_plan", "mutation", ApplyDriveConfigPlan),
    Tool("get", "drive_connection_summary", "readOnly", GetDriveConnectionSummary),
    Tool("get", "drive_db_usage", "readOnly", GetDriveDBUsage),
    Tool("get", "drive_top_files", "readOnly", GetDriveTopAccessFiles),
    Tool("get", "drive_activation", "readOnly", GetDriveActivation),
    Tool("get", "drive_users", "readOnly", GetDrivePrivileges)}
DriveFileTools == {
    Tool("get", "drive_files", "readOnly", GetDriveNodes),
    Tool("get", "drive_file_versions", "readOnly", GetDriveNodeVersions),
    Tool("plan", "drive_restore", "readOnly", PlanDriveNodeRestore),
    Tool("apply", "drive_restore_plan", "mutation", ApplyDriveNodeRestorePlan),
    Tool("plan", "drive_connection_kick", "readOnly", PlanDriveConnectionKick),
    Tool("apply", "drive_connection_kick_plan", "mutation", ApplyDriveConnectionKickPlan),
    Tool("plan", "drive_team_folder_change", "readOnly", PlanDriveTeamFolderChange),
    Tool("apply", "drive_team_folder_plan", "mutation", ApplyDriveTeamFolderPlan)}

(***************************************************************************)
(* The three surfaces.  New serves all tools; NewRemote and NewReadOnly    *)
(* remove some by name.  ToolScope goes by the first word of a tool's      *)
(* name; "" is a tool it does not know, which no principal may call.       *)
(***************************************************************************)
New == UNION {
    SystemTools, ExternalAccessTools, DDNSAndDownloadTools, FileLookupTools, FileTools,
    DownloadTaskTools, BackupTools, BackupTaskAndTimeTools, FileServiceTools,
    DiscoveryAndFTPTools, RsyncAndTFTPTools, PhotosAndOfficeTools, StorageAndAccountTools,
    LogTools, NotificationTools, SchedulerAndUpdateTools, MonitorAndDiskTools, HardwareTools,
    DirectoryAndSANTools, ShareTools, PackageTools, PackageInstallAndTerminalTools,
    TerminalAndCertificateTools, SecurityAdvisorTools, AutoBlockTools,
    AccountProtectionAndFirewallTools, NetworkTools, FirewallChangeTools, LoginPortalTools,
    DriveAdminTools, SurveillanceTools, SnapshotTools, DriveTools, DriveFileTools}
NewRemote == {tool \in New : tool.name # <<"get", "certificate_export">>}
RemovedForDevelopers == {
    <<"discover", "lan_devices">>, <<"provision", "nas">>, <<"provision", "discovered_nas">>,
    <<"install", "discovered_nas">>, <<"get", "filestation_file_content">>,
    <<"get", "filestation_thumbnail">>, <<"get", "drive_log_export">>,
    <<"get", "certificate_export">>, <<"run", "security_scan">>,
    <<"plan", "security_advisor_schedule_change">>,
    <<"apply", "security_advisor_schedule_plan">>,
    <<"plan", "account_protection_autoblock_change">>,
    <<"apply", "account_protection_autoblock_plan">>,
    <<"plan", "account_protection_list_change">>, <<"apply", "account_protection_list_plan">>,
    <<"plan", "account_protection_thresholds_change">>,
    <<"apply", "account_protection_thresholds_plan">>,
    <<"plan", "account_protection_enforce_2fa_change">>,
    <<"apply", "account_protection_enforce_2fa_plan">>, <<"plan", "firewall_profile_change">>,
    <<"apply", "firewall_profile_plan">>, <<"plan", "firewall_enable_change">>,
    <<"apply", "firewall_enable_plan">>, <<"plan", "network_general_change">>,
    <<"apply", "network_general_plan">>, <<"plan", "network_interface_change">>,
    <<"apply", "network_interface_plan">>, <<"plan", "terminal_change">>,
    <<"apply", "terminal_plan">>, <<"plan", "snmp_change">>, <<"apply", "snmp_plan">>,
    <<"plan", "login_portal_dsm_change">>, <<"apply", "login_portal_dsm_plan">>,
    <<"plan", "login_portal_application_change">>, <<"apply", "login_portal_application_plan">>,
    <<"plan", "login_portal_reverse_proxy_create">>,
    <<"plan", "login_portal_reverse_proxy_delete">>,
    <<"apply", "login_portal_reverse_proxy_plan">>, <<"plan", "certificate_change">>,
    <<"apply", "certificate_plan">>, <<"plan", "filestation_change">>,
    <<"apply", "filestation_plan">>, <<"plan", "account_change">>,
    <<"plan", "control_panel_time_change">>, <<"plan", "system_hostname_change">>,
    <<"plan", "download_station_settings_change">>, <<"plan", "download_station_task_change">>,
    <<"plan", "hyper_backup_task_change">>, <<"plan", "hyper_backup_lun_backup_create">>,
    <<"plan", "drive_config_change">>, <<"plan", "drive_connection_kick">>,
    <<"plan", "drive_restore">>, <<"plan", "drive_team_folder_change">>,
    <<"plan", "external_access_quickconnect_change">>,
    <<"plan", "external_access_quickconnect_config_change">>,
    <<"plan", "external_access_quickconnect_permission_change">>,
    <<"plan", "external_access_ddns_change">>, <<"plan", "file_service_change">>,
    <<"plan", "ftp_service_change">>, <<"plan", "nfs_export_change">>,
    <<"plan", "office_change">>, <<"plan", "package_change">>, <<"plan", "package_install">>,
    <<"plan", "package_local_install">>, <<"plan", "package_update">>,
    <<"plan", "photos_change">>, <<"plan", "resource_recording_change">>,
    <<"plan", "rsync_service_change">>, <<"plan", "san_change">>,
    <<"plan", "service_discovery_change">>, <<"plan", "share_change">>,
    <<"plan", "snapshot_change">>, <<"plan", "snapshot_replication_create">>,
    <<"plan", "storage_change">>, <<"plan", "surveillance_home_mode_change">>,
    <<"plan", "tftp_service_change">>, <<"apply", "account_plan">>,
    <<"apply", "control_panel_time_plan">>, <<"apply", "system_hostname_plan">>,
    <<"apply", "download_station_settings_plan">>, <<"apply", "download_station_task_plan">>,
    <<"apply", "hyper_backup_task_plan">>, <<"apply", "hyper_backup_lun_backup_plan">>,
    <<"apply", "drive_config_plan">>, <<"apply", "drive_connection_kick_plan">>,
    <<"apply", "drive_restore_plan">>, <<"apply", "drive_team_folder_plan">>,
    <<"apply", "external_access_quickconnect_plan">>,
    <<"apply", "external_access_quickconnect_config_plan">>,
    <<"apply", "external_access_quickconnect_permission_plan">>,
    <<"apply", "external_access_ddns_plan">>, <<"apply", "file_service_plan">>,
    <<"apply", "ftp_service_plan">>, <<"apply", "nfs_export_plan">>, <<"apply", "office_plan">>,
    <<"apply", "package_plan">>, <<"apply", "package_install_plan">>,
    <<"apply", "package_local_install_plan">>, <<"apply", "photos_plan">>,
    <<"apply", "resource_recording_plan">>, <<"apply", "rsync_service_plan">>,
    <<"apply", "san_plan">>, <<"apply", "service_discovery_plan">>, <<"apply", "share_plan">>,
    <<"apply", "snapshot_plan">>, <<"apply", "snapshot_replication_create">>,
    <<"apply", "storage_plan">>, <<"apply", "surveillance_home_mode_plan">>,
    <<"apply", "tftp_service_plan">>}
NewReadOnly == {tool \in New : tool.name \notin RemovedForDevelopers}

ToolScope(tool) ==
    LET verb == tool.name[1] IN
    CASE tool.name = <<"discover", "lan_devices">> -> "lan.discover"
      [] verb \in {"provision", "install"} -> "nas.provision"
      [] tool.name = <<"run", "security_scan">> -> "nas.apply"
      [] verb = "plan" -> "nas.plan"
      [] verb = "apply" -> "nas.apply"
      [] tool.name = <<"list", "nas">> \/ verb \in {"get", "explain"} -> "nas.read"
      [] OTHER -> ""

=========================================================================
