---------------------------- MODULE ControlPanelServices ----------------------------
(***************************************************************************)
(* The methods of application.Service for Control Panel, security,         *)
(* certificates and the network, and the functions they are made of: one   *)
(* definition each, the client methods it calls in the order of the code.  *)
(* The checks in between that refuse a request are not told apart: a       *)
(* program may end with an error at every step (LocalError in Dispatch).   *)
(***************************************************************************)
EXTENDS PackageClient

\* application/accountprotection.go
GetAutoBlockSettings == AutoBlockSettings
GetAutoBlockLists == AutoBlockLists
GetAccountProtection == AccountProtection
GetEnforceTwoFactor == EnforceTwoFactor
GetAccountProtectionCapabilities == AccountProtectionCapabilities

\* application/accountprotection_write.go
planAutoBlockWithClient == AccountProtectionCapabilities \o AutoBlockSettings
PlanAutoBlockChange == planAutoBlockWithClient
verifyAutoBlockPostcondition == AutoBlockSettings
applyAutoBlockWithClient ==
    planAutoBlockWithClient \o ApplyAutoBlockChange \o verifyAutoBlockPostcondition
ApplyAutoBlockPlan == applyAutoBlockWithClient
planAccountProtectionWithClient == AccountProtectionCapabilities \o AccountProtection
PlanAccountProtectionThresholdsChange == planAccountProtectionWithClient
verifyAccountProtectionPostcondition == AccountProtection
applyAccountProtectionWithClient ==
    planAccountProtectionWithClient \o ApplyAccountProtectionChange \o
    verifyAccountProtectionPostcondition
ApplyAccountProtectionThresholdsPlan == applyAccountProtectionWithClient
planEnforceTwoFactorWithClient == AccountProtectionCapabilities \o EnforceTwoFactor
PlanEnforceTwoFactorChange == planEnforceTwoFactorWithClient
verifyEnforceTwoFactorPostcondition == EnforceTwoFactor
applyEnforceTwoFactorWithClient ==
    planEnforceTwoFactorWithClient \o ApplyEnforceTwoFactorChange \o
    verifyEnforceTwoFactorPostcondition
ApplyEnforceTwoFactorPlan == applyEnforceTwoFactorWithClient
planAutoBlockListWithClient == AccountProtectionCapabilities \o AutoBlockLists \o ActiveConnections
PlanAutoBlockListChange == planAutoBlockListWithClient
verifyAutoBlockListPostcondition == AutoBlockLists
applyAutoBlockListWithClient ==
    planAutoBlockListWithClient \o ApplyAutoBlockListEdit \o verifyAutoBlockListPostcondition
ApplyAutoBlockListPlan == applyAutoBlockListWithClient

\* application/certificate.go
GetCertificates == Certificates
GetCertificateCapabilities == CertificateCapabilities

\* application/certificate_mutation.go
planCertificateChangeWithClient == CertificateCapabilities \o Certificates
PlanCertificateChange == planCertificateChangeWithClient
verifyCertificatePostcondition == Certificates
applyCertificateImport ==
    ImportCertificate \o RepinLeafFingerprint \o verifyCertificatePostcondition
applyCertificateSetDefault == SetDefaultCertificate \o verifyCertificatePostcondition
applyCertificateBind == BindCertificateService \o verifyCertificatePostcondition
applyCertificateDelete == DeleteCertificate \o verifyCertificatePostcondition
ApplyCertificatePlan ==
    planCertificateChangeWithClient \o Choice(<<applyCertificateImport,
    applyCertificateSetDefault, applyCertificateBind, applyCertificateDelete>>)
Service_ExportCertificate == ExportCertificate \o SaveOnHost

\* application/control_panel_time.go
planControlPanelTimeChangeWithClient == ControlPanelTimeCapabilities \o ControlPanelTimeState
PlanControlPanelTimeChange == planControlPanelTimeChangeWithClient
verifyControlPanelTimePostcondition == ControlPanelTimeState
applyControlPanelTimePlanWithClient ==
    planControlPanelTimeChangeWithClient \o ApplyControlPanelTimeChange \o
    verifyControlPanelTimePostcondition
ApplyControlPanelTimePlan == applyControlPanelTimePlanWithClient

\* application/directory.go
GetDirectoryCapabilities == DirectoryCapabilitiesState
GetDirectoryStatus == DirectoryStatusState
GetDirectoryUsers == DirectoryUsersList
GetDirectoryGroups == DirectoryGroupsList

\* application/dsmupdate.go
GetDSMUpdateCapabilities == DSMUpdateCapabilities
GetDSMUpdateStatus == DSMUpdateStatus
GetDSMUpdateAvailable == DSMUpdateAvailable
GetDSMUpdatePolicy == DSMUpdatePolicy
GetDSMUpdateConfigBackup == DSMUpdateConfigBackup

\* application/external_access.go
GetExternalAccessCapabilities == ExternalAccessCapabilities
GetExternalAccessAccount == ExternalAccessAccountState
GetExternalAccessQuickConnect == ExternalAccessQuickConnectState
GetExternalAccessDDNS == ExternalAccessDDNSState
GetExternalAccessPortForward == ExternalAccessPortForwardState
planExternalAccessQuickConnectWithClient ==
    ExternalAccessCapabilities \o ExternalAccessQuickConnectState
PlanExternalAccessQuickConnectChange == planExternalAccessQuickConnectWithClient
ApplyExternalAccessQuickConnectPlan ==
    planExternalAccessQuickConnectWithClient \o ApplyExternalAccessQuickConnectChange \o
    ExternalAccessQuickConnectState
planQuickConnectConfigWithClient == ExternalAccessCapabilities \o ExternalAccessQuickConnectState
PlanExternalAccessQuickConnectConfigChange == planQuickConnectConfigWithClient
ApplyExternalAccessQuickConnectConfigPlan ==
    planQuickConnectConfigWithClient \o ApplyExternalAccessQuickConnectConfigChange \o
    ExternalAccessQuickConnectState
planQuickConnectPermissionWithClient ==
    ExternalAccessCapabilities \o ExternalAccessQuickConnectState
PlanExternalAccessQuickConnectPermissionChange == planQuickConnectPermissionWithClient
ApplyExternalAccessQuickConnectPermissionPlan ==
    planQuickConnectPermissionWithClient \o ApplyExternalAccessQuickConnectPermissionChange \o
    ExternalAccessQuickConnectState
planDDNSWithClient == ExternalAccessCapabilities \o ExternalAccessDDNSState
PlanExternalAccessDDNSChange == planDDNSWithClient
ApplyExternalAccessDDNSPlan ==
    planDDNSWithClient \o ApplyExternalAccessDDNSChange \o ExternalAccessDDNSState

\* application/file_services.go
GetSMBState == SMBState
GetNFSState == NFSState
GetFileServiceCapabilities == FileServiceCapabilities
planFileServiceChangeWithClient == FileServiceCapabilities \o Either(SMBState, NFSState)
PlanFileServiceChange == planFileServiceChangeWithClient
verifyFileServicePostcondition == Either(SMBState, NFSState)
applyFileServicePlanWithClient ==
    planFileServiceChangeWithClient \o ApplyFileServiceChange \o verifyFileServicePostcondition
ApplyFileServicePlan == applyFileServicePlanWithClient

\* application/firewall.go
GetFirewallStatus == FirewallStatus
GetFirewallProfiles == FirewallProfiles
GetFirewallRules == FirewallRules
GetFirewallCapabilities == FirewallCapabilities

\* application/firewall_write.go
planFirewallProfileWithClient ==
    FirewallCapabilities \o FirewallStatus \o FirewallRules \o FirewallActiveSessions \o
    FirewallTransport
PlanFirewallProfileChange == planFirewallProfileWithClient
verifyFirewallProfilePostcondition == FirewallRules
applyFirewallProfileWithClient ==
    planFirewallProfileWithClient \o ApplyFirewallProfileChange \o
    verifyFirewallProfilePostcondition
ApplyFirewallProfilePlan == applyFirewallProfileWithClient
planFirewallEnableWithClient ==
    FirewallCapabilities \o FirewallStatus \o FirewallActiveSessions \o FirewallTransport \o
    Maybe(FirewallRules)
PlanFirewallEnableChange == planFirewallEnableWithClient
verifyFirewallEnablePostcondition == FirewallStatus
applyFirewallEnableWithClient ==
    planFirewallEnableWithClient \o ApplyFirewallEnableChange \o
    verifyFirewallEnablePostcondition
ApplyFirewallEnablePlan == applyFirewallEnableWithClient

\* application/ftp_services.go
GetFTPServicesState == FTPServicesState
GetFTPServicesCapabilities == FTPServicesCapabilities
planFTPServicesChangeWithClient == FTPServicesCapabilities \o FTPServicesState
PlanFTPServicesChange == planFTPServicesChangeWithClient
applyFTPServicesPlanWithClient ==
    planFTPServicesChangeWithClient \o ApplyFTPServicesChange \o FTPServicesState
ApplyFTPServicesPlan == applyFTPServicesPlanWithClient

\* application/hardware.go
GetHardwareCapabilities == HardwareCapabilities
GetHardwareGeneral == HardwareGeneral
GetHardwarePowerSchedule == HardwarePowerSchedule
GetHardwarePowerRecovery == HardwarePowerRecovery
GetHardwareUPS == HardwareUPS

\* application/kmip.go
GetKMIPCapabilities == KMIPCapabilitiesState
GetKMIPStatus == KMIPStatusState

\* application/loginportal.go
GetDSMWebService == DSMWebService
GetApplicationPortals == ApplicationPortals
GetReverseProxyRules == ReverseProxyRules
GetLoginPortalCapabilities == LoginPortalCapabilities

\* application/loginportal_write.go
planDSMWebServiceWithClient == LoginPortalCapabilities \o DSMWebService \o LoginPortalTransport
PlanDSMWebServiceChange == planDSMWebServiceWithClient
verifyDSMWebServicePostcondition == DSMWebService
applyDSMWebServiceWithClient ==
    planDSMWebServiceWithClient \o ApplyDSMWebServiceChange \o verifyDSMWebServicePostcondition
ApplyDSMWebServicePlan == applyDSMWebServiceWithClient
planApplicationPortalWithClient == LoginPortalCapabilities \o ApplicationPortals
PlanApplicationPortalChange == planApplicationPortalWithClient
verifyApplicationPortalPostcondition == ApplicationPortals
applyApplicationPortalWithClient ==
    planApplicationPortalWithClient \o ApplyApplicationPortalChange \o
    verifyApplicationPortalPostcondition
ApplyApplicationPortalPlan == applyApplicationPortalWithClient
planReverseProxyWithClient == LoginPortalCapabilities \o ReverseProxyRules
PlanReverseProxyCreate == planReverseProxyWithClient
PlanReverseProxyDelete == planReverseProxyWithClient
verifyReverseProxyPostcondition == ReverseProxyRules
applyReverseProxyWithClient ==
    planReverseProxyWithClient \o Choice(<<ApplyReverseProxyRuleCreate,
    ApplyReverseProxyRuleDelete>>) \o verifyReverseProxyPostcondition
ApplyReverseProxyPlan == applyReverseProxyWithClient

\* application/network.go
GetNetworkGeneral == NetworkGeneral
GetNetworkInterfaces == NetworkInterfaces
GetNetworkBonds == NetworkBonds
GetNetworkRoutes == NetworkRoutes
GetNetworkCapabilities == NetworkCapabilities

\* application/network_write.go
resolveManagementPath == NetworkInterfaces \o NetworkTransportInfo
planNetworkGeneralWithClient ==
    NetworkCapabilities \o NetworkGeneralFresh \o resolveManagementPath \o NetworkCurrentSources
PlanNetworkGeneralChange == planNetworkGeneralWithClient
verifyNetworkGeneralPostcondition == NetworkGeneralFresh
applyNetworkGeneralWithClient ==
    planNetworkGeneralWithClient \o ApplyNetworkGeneralChange \o
    verifyNetworkGeneralPostcondition
ApplyNetworkGeneralPlan == applyNetworkGeneralWithClient
planNetworkInterfaceWithClient ==
    NetworkCapabilities \o NetworkGeneralFresh \o resolveManagementPath \o NetworkCurrentSources
PlanNetworkInterfaceChange == planNetworkInterfaceWithClient
ApplyNetworkInterfacePlan == ApplyNetworkInterfaceChange

\* application/notification.go
GetNotificationCapabilities == NotificationCapabilities
GetNotificationMail == NotificationMailState
GetNotificationPush == NotificationPushState
GetNotificationWebhook == NotificationWebhookState
GetNotificationSMS == NotificationSMSState
GetNotificationRules == NotificationRulesState
GetNotificationDesktop == NotificationDesktopState
GetNotificationHistory == NotificationHistory

\* application/resource_monitor.go
planResourceRecordingChangeWithClient == ResourceMonitorCapabilities \o ResourceMonitorSetting
PlanResourceRecordingChange == planResourceRecordingChangeWithClient
verifyResourceRecordingPostcondition == ResourceMonitorSetting
applyResourceRecordingPlanWithClient ==
    planResourceRecordingChangeWithClient \o ApplyResourceRecordingChange \o
    verifyResourceRecordingPostcondition
ApplyResourceRecordingPlan == applyResourceRecordingPlanWithClient

\* application/rsync_service.go
GetRsyncServiceState == RsyncServiceState
GetRsyncServiceCapabilities == RsyncServiceCapabilities
planRsyncServiceChangeWithClient == RsyncServiceCapabilities \o RsyncServiceState
PlanRsyncServiceChange == planRsyncServiceChangeWithClient
applyRsyncServicePlanWithClient ==
    planRsyncServiceChangeWithClient \o ApplyRsyncServiceChange \o RsyncServiceState
ApplyRsyncServicePlan == applyRsyncServicePlanWithClient

\* application/securityadvisor.go
GetSecurityAdvisorStatus == SecurityAdvisorStatus
GetSecurityAdvisorSchedule == SecurityAdvisorConfiguration
GetSecurityAdvisorCapabilities == SecurityAdvisorCapabilities

\* application/securityadvisor_write.go
planSecurityAdvisorScheduleWithClient == SecurityAdvisorCapabilities \o SecurityAdvisorConfiguration
PlanSecurityAdvisorScheduleChange == planSecurityAdvisorScheduleWithClient
verifySecurityAdvisorSchedulePostcondition == SecurityAdvisorConfiguration
applySecurityAdvisorScheduleWithClient ==
    planSecurityAdvisorScheduleWithClient \o ApplySecurityAdvisorScheduleChange \o
    verifySecurityAdvisorSchedulePostcondition
ApplySecurityAdvisorSchedulePlan == applySecurityAdvisorScheduleWithClient
runSecurityScanWithClient == SecurityAdvisorCapabilities \o RunSecurityScan
Service_RunSecurityScan == runSecurityScanWithClient

\* application/service_discovery.go
GetServiceDiscoveryState == ServiceDiscoveryState
GetServiceDiscoveryCapabilities == ServiceDiscoveryCapabilities
planServiceDiscoveryChangeWithClient == ServiceDiscoveryCapabilities \o ServiceDiscoveryState
PlanServiceDiscoveryChange == planServiceDiscoveryChangeWithClient
applyServiceDiscoveryPlanWithClient ==
    planServiceDiscoveryChangeWithClient \o ApplyServiceDiscoveryChange \o ServiceDiscoveryState
ApplyServiceDiscoveryPlan == applyServiceDiscoveryPlanWithClient

\* application/system_identity.go
planSystemHostnameWithClient == GetServerName
PlanSystemHostname == planSystemHostnameWithClient
ApplySystemHostnamePlan == planSystemHostnameWithClient \o SetServerName

\* application/taskscheduler.go
GetTaskSchedulerCapabilities == TaskSchedulerCapabilities
GetTaskSchedulerScheduled == TaskSchedulerScheduled
GetTaskSchedulerTriggered == TaskSchedulerTriggered

\* application/terminalsnmp.go
GetTerminalState == TerminalState
GetSNMPState == SNMPState
GetTerminalSNMPCapabilities == TerminalSNMPCapabilities

\* application/terminalsnmp_write.go
planTerminalWithClient == TerminalSNMPCapabilities \o TerminalState
PlanTerminalChange == planTerminalWithClient
verifyTerminalPostcondition == TerminalState
applyTerminalPlanWithClient ==
    planTerminalWithClient \o ApplyTerminalChange \o verifyTerminalPostcondition
ApplyTerminalPlan == applyTerminalPlanWithClient
planSNMPWithClient == TerminalSNMPCapabilities \o SNMPState
PlanSNMPChange == planSNMPWithClient
verifySNMPPostcondition == SNMPState
applySNMPPlanWithClient == planSNMPWithClient \o ApplySNMPChange \o verifySNMPPostcondition
ApplySNMPPlan == applySNMPPlanWithClient

\* application/tftp_service.go
GetTFTPServiceState == TFTPServiceState
GetTFTPServiceCapabilities == TFTPServiceCapabilities
planTFTPServiceChangeWithClient == TFTPServiceCapabilities \o TFTPServiceState
PlanTFTPServiceChange == planTFTPServiceChangeWithClient
applyTFTPServicePlanWithClient ==
    planTFTPServiceChangeWithClient \o ApplyTFTPServiceChange \o TFTPServiceState
ApplyTFTPServicePlan == applyTFTPServicePlanWithClient

=============================================================================
