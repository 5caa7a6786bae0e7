------------------------- MODULE CliControlPanel -------------------------
(***************************************************************************)
(* The commands of dsmctl for the settings and the state of a system: what *)
(* the command constructors of internal/cli build, file by file, each      *)
(* command with the words of its name and what its RunE does.  Flags,      *)
(* prompts and output are left out; a flag or a prompt that decides        *)
(* whether a plan is applied at once is a choice.                          *)
(***************************************************************************)
EXTENDS McpTools

Command(words, program) ==
    [kind |-> "command", name |-> words, hint |-> "none", program |-> program]
\* a command whose summary says that it emits an approval plan
Announced(command) == [command EXCEPT !.hint = "plan"]

\* cli/accountprotection.go
AutoBlockCommands == {
    Command(<<"capabilities">>, GetAccountProtectionCapabilities),
    Command(<<"autoblock">>, GetAutoBlockSettings),
    Command(<<"autoblock", "list">>, GetAutoBlockLists)}
AutoBlockChangeCommands == {
    Command(<<"protection">>, GetAccountProtection),
    Command(<<"enforce", "2fa">>, GetEnforceTwoFactor),
    Command(<<"autoblock", "plan">>, PlanAutoBlockChange),
    Command(<<"autoblock", "apply">>, ApplyAutoBlockPlan)}
ProtectionChangeCommands == {
    Command(<<"list", "plan">>, PlanAutoBlockListChange),
    Command(<<"list", "apply">>, ApplyAutoBlockListPlan),
    Command(<<"protection", "plan">>, PlanAccountProtectionThresholdsChange),
    Command(<<"protection", "apply">>, ApplyAccountProtectionThresholdsPlan)}
TwoFactorCommands == {
    Command(<<"enforce", "2fa", "plan">>, PlanEnforceTwoFactorChange),
    Command(<<"enforce", "2fa", "apply">>, ApplyEnforceTwoFactorPlan)}

\* cli/certificate.go
CertificateCommands == {
    Command(<<"plan">>, PlanCertificateChange),
    Command(<<"apply">>, ApplyCertificatePlan),
    Command(<<"export">>, Service_ExportCertificate),
    Command(<<"capabilities">>, GetCertificateCapabilities)}
CertificateListCommands == {
    Command(<<"list">>, GetCertificates)}

\* cli/control_panel.go
ControlPanelCommands == {
    Command(<<"plan">>, PlanControlPanelTimeChange),
    Command(<<"apply">>, ApplyControlPanelTimePlan),
    Command(<<"state">>, GetControlPanelTimeState),
    Command(<<"capabilities">>, GetControlPanelTimeCapabilities)}

\* cli/directory.go
DirectoryCommands == {
    Command(<<"capabilities">>, GetDirectoryCapabilities),
    Command(<<"status">>, GetDirectoryStatus),
    Command(<<"users">>, GetDirectoryUsers)}
DirectoryGroupCommands == {
    Command(<<"groups">>, GetDirectoryGroups)}

\* cli/disksmart.go
DiskSmartCommands == {
    Command(<<"capabilities">>, GetDiskSMARTCapabilities),
    Command(<<"health">>, GetDiskHealth),
    Command(<<"attributes">>, GetDiskSMARTAttributes)}

\* cli/dsmupdate.go
DSMUpdateCommands == {
    Command(<<"capabilities">>, GetDSMUpdateCapabilities),
    Command(<<"status">>, GetDSMUpdateStatus),
    Command(<<"available">>, GetDSMUpdateAvailable)}
DSMUpdatePolicyCommands == {
    Command(<<"policy">>, GetDSMUpdatePolicy),
    Command(<<"config", "backup">>, GetDSMUpdateConfigBackup)}

\* cli/external_access.go
QuickConnectCommands == {
    Command(<<"capabilities">>, GetExternalAccessCapabilities),
    Command(<<"account">>, GetExternalAccessAccount),
    Command(<<"quickconnect">>, GetExternalAccessQuickConnect),
    Command(<<"plan">>, PlanExternalAccessQuickConnectChange),
    Command(<<"apply">>, ApplyExternalAccessQuickConnectPlan)}
DDNSCommands == {
    Command(<<"ddns">>, GetExternalAccessDDNS),
    Command(<<"port", "forward">>, GetExternalAccessPortForward)}
QuickConnectConfigCommands == {
    Command(<<"plan">>, PlanExternalAccessQuickConnectConfigChange),
    Command(<<"apply">>, ApplyExternalAccessQuickConnectConfigPlan),
    Command(<<"plan">>, PlanExternalAccessQuickConnectPermissionChange),
    Command(<<"apply">>, ApplyExternalAccessQuickConnectPermissionPlan),
    Command(<<"plan">>, PlanExternalAccessDDNSChange)}
DDNSApplyCommands == {
    Command(<<"apply">>, ApplyExternalAccessDDNSPlan)}

\* cli/externaldevice.go
ExternalDeviceCommands == {
    Command(<<"capabilities">>, GetExternalDeviceCapabilities),
    Command(<<"storage">>, GetExternalStorage),
    Command(<<"printers">>, GetExternalPrinters)}

\* cli/file_services.go
FileServicesCommands == {
    Command(<<"state">>, GetSMBState),
    Command(<<"state">>, GetNFSState),
    Command(<<"capabilities">>, GetFileServiceCapabilities),
    Command(<<"plan">>, PlanFileServiceChange),
    Command(<<"apply">>, ApplyFileServicePlan)}

\* cli/firewall.go
FirewallChangeCommands == {
    Command(<<"profile", "plan">>, PlanFirewallProfileChange),
    Command(<<"profile", "apply">>, ApplyFirewallProfilePlan),
    Command(<<"enable", "plan">>, PlanFirewallEnableChange),
    Command(<<"enable", "apply">>, ApplyFirewallEnablePlan)}
FirewallCommands == {
    Command(<<"capabilities">>, GetFirewallCapabilities),
    Command(<<"status">>, GetFirewallStatus),
    Command(<<"profiles">>, GetFirewallProfiles),
    Command(<<"rules">>, GetFirewallRules)}

\* cli/ftp_services.go
FTPServicesCommands == {
    Command(<<"capabilities">>, GetFTPServicesCapabilities),
    Command(<<"state">>, GetFTPServicesState),
    Command(<<"plan">>, PlanFTPServicesChange),
    Command(<<"apply">>, ApplyFTPServicesPlan)}

\* cli/hardware.go
HardwareCommands == {
    Command(<<"capabilities">>, GetHardwareCapabilities),
    Command(<<"general">>, GetHardwareGeneral),
    Command(<<"power", "schedule">>, GetHardwarePowerSchedule)}
PowerCommands == {
    Command(<<"power", "recovery">>, GetHardwarePowerRecovery),
    Command(<<"ups">>, GetHardwareUPS)}

\* cli/kmip.go
KMIPCommands == {
    Command(<<"capabilities">>, GetKMIPCapabilities),
    Command(<<"status">>, GetKMIPStatus)}

\* cli/log.go
LogCommands == {
    Command(<<"list">>, GetLogState),
    Command(<<"capabilities">>, GetLogCapabilities)}

\* cli/loginportal.go
LoginPortalChangeCommands == {
    Command(<<"dsm", "plan">>, PlanDSMWebServiceChange),
    Command(<<"dsm", "apply">>, ApplyDSMWebServicePlan),
    Command(<<"application", "plan">>, PlanApplicationPortalChange),
    Command(<<"application", "apply">>, ApplyApplicationPortalPlan)}
ReverseProxyCommands == {
    Command(<<"reverse", "proxy", "create", "plan">>, PlanReverseProxyCreate),
    Command(<<"reverse", "proxy", "delete", "plan">>, PlanReverseProxyDelete),
    Command(<<"reverse", "proxy", "apply">>, ApplyReverseProxyPlan),
    Command(<<"capabilities">>, GetLoginPortalCapabilities)}
LoginPortalCommands == {
    Command(<<"dsm">>, GetDSMWebService),
    Command(<<"applications">>, GetApplicationPortals),
    Command(<<"reverse", "proxy">>, GetReverseProxyRules)}

\* cli/network.go
NetworkChangeCommands == {
    Command(<<"general", "plan">>, PlanNetworkGeneralChange),
    Command(<<"general", "apply">>, ApplyNetworkGeneralPlan),
    Command(<<"interface", "plan">>, PlanNetworkInterfaceChange),
    Command(<<"interface", "apply">>, ApplyNetworkInterfacePlan)}
NetworkCommands == {
    Command(<<"capabilities">>, GetNetworkCapabilities),
    Command(<<"general">>, GetNetworkGeneral),
    Command(<<"interfaces">>, GetNetworkInterfaces)}
NetworkRouteCommands == {
    Command(<<"bonds">>, GetNetworkBonds),
    Command(<<"routes">>, GetNetworkRoutes),
    Command(<<"traffic", "control">>, GetNetworkCapabilities)}

\* cli/nfs_export.go
NFSExportCommands == {
    Command(<<"capabilities">>, GetNFSExportCapabilities),
    Command(<<"list">>, GetNFSExportState),
    Command(<<"plan">>, PlanNFSExportChange),
    Command(<<"apply">>, ApplyNFSExportPlan)}

\* cli/notification.go
NotificationMailCommands == {
    Command(<<"capabilities">>, GetNotificationCapabilities),
    Command(<<"mail">>, GetNotificationMail),
    Command(<<"push">>, GetNotificationPush)}
NotificationCommands == {
    Command(<<"webhook">>, GetNotificationWebhook),
    Command(<<"sms">>, GetNotificationSMS),
    Command(<<"rules">>, GetNotificationRules)}
NotificationHistoryCommands == {
    Command(<<"desktop">>, GetNotificationDesktop),
    Command(<<"history">>, GetNotificationHistory)}

\* cli/resource_monitor.go
ResourceMonitorCommands == {
    Command(<<"current">>, GetResourceMonitorState),
    Command(<<"history">>, GetResourceMonitorHistory),
    Command(<<"setting">>, GetResourceMonitorSetting),
    Command(<<"capabilities">>, GetResourceMonitorCapabilities),
    Command(<<"plan", "recording">>, PlanResourceRecordingChange)}
RecordingCommands == {
    Command(<<"apply", "recording">>, ApplyResourceRecordingPlan)}

\* cli/rsync_service.go
RsyncServiceCommands == {
    Command(<<"capabilities">>, GetRsyncServiceCapabilities),
    Command(<<"state">>, GetRsyncServiceState),
    Command(<<"plan">>, PlanRsyncServiceChange),
    Command(<<"apply">>, ApplyRsyncServicePlan)}

\* cli/securityadvisor.go
SecurityAdvisorChangeCommands == {
    Command(<<"plan">>, PlanSecurityAdvisorScheduleChange),
    Command(<<"apply">>, ApplySecurityAdvisorSchedulePlan),
    Command(<<"run">>, Service_RunSecurityScan),
    Command(<<"capabilities">>, GetSecurityAdvisorCapabilities)}
SecurityAdvisorCommands == {
    Command(<<"status">>, GetSecurityAdvisorStatus),
    Command(<<"findings">>, GetSecurityAdvisorStatus),
    Command(<<"schedule">>, GetSecurityAdvisorSchedule)}

\* cli/service_discovery.go
ServiceDiscoveryCommands == {
    Command(<<"capabilities">>, GetServiceDiscoveryCapabilities),
    Command(<<"state">>, GetServiceDiscoveryState),
    Command(<<"plan">>, PlanServiceDiscoveryChange),
    Command(<<"apply">>, ApplyServiceDiscoveryPlan)}

\* cli/system.go
SystemCommands == {
    Command(<<"set","hostname">>, PlanSystemHostname \o Maybe(ApplySystemHostnamePlan)),
    Command(<<"info">>, GetSystemInfo)}

\* cli/taskscheduler.go
TaskSchedulerCommands == {
    Command(<<"capabilities">>, GetTaskSchedulerCapabilities),
    Command(<<"list">>, GetTaskSchedulerScheduled),
    Command(<<"triggered">>, GetTaskSchedulerTriggered)}

\* cli/terminalsnmp.go
TerminalChangeCommands == {
    Command(<<"terminal", "plan">>, PlanTerminalChange),
    Command(<<"terminal", "apply">>, ApplyTerminalPlan),
    Command(<<"snmp", "plan">>, PlanSNMPChange),
    Command(<<"snmp", "apply">>, ApplySNMPPlan)}
TerminalCommands == {
    Command(<<"capabilities">>, GetTerminalSNMPCapabilities),
    Command(<<"terminal">>, GetTerminalState),
    Command(<<"snmp">>, GetSNMPState)}

\* cli/tftp_service.go
TFTPServiceCommands == {
    Command(<<"capabilities">>, GetTFTPServiceCapabilities),
    Command(<<"state">>, GetTFTPServiceState),
    Command(<<"plan">>, PlanTFTPServiceChange),
    Command(<<"apply">>, ApplyTFTPServicePlan)}

\* cli/universalsearch.go
UniversalSearchCommands == {
    Command(<<"capabilities">>, GetUniversalSearchCapabilities),
    Command(<<"folders">>, GetUniversalSearchFolders),
    Command(<<"status">>, GetUniversalSearchStatus)}

==========================================================================
