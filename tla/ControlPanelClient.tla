---------------------------- MODULE ControlPanelClient ----------------------------
(***************************************************************************)
(* The methods of synology.Client for Control Panel, certificates,         *)
(* security, monitoring and the system: one definition for every method    *)
(* that talks to the NAS, made of the steps of ClientSteps in the order of *)
(* the code. What a method decodes, merges or returns is left out.         *)
(***************************************************************************)
EXTENDS ClientSteps

\* synology/accountprotection.go
AutoBlockSettings == Prepare(accountprotection_APINames) \o Run(accountprotection_autoBlock)
AutoBlockLists == Prepare(accountprotection_APINames) \o Run(accountprotection_autoBlockList)
AccountProtection == Prepare(accountprotection_APINames) \o Run(accountprotection_accountProtection)
EnforceTwoFactor == Prepare(accountprotection_APINames) \o Run(accountprotection_enforceTwoFactor)
AccountProtectionCapabilities ==
    Prepare(accountprotection_APINames) \o Report(<<accountprotection_autoBlock,
    accountprotection_autoBlockList, accountprotection_accountProtection,
    accountprotection_enforceTwoFactor, accountprotection_autoBlockSet,
    accountprotection_ipListEdit, accountprotection_accountProtectionSet,
    accountprotection_enforceTwoFactorSet>>)
ActiveConnections ==
    Prepare(accountprotection_APINames) \o Maybe(TryRequest("Core.CurrentConnection", 1,
    Send("list")))
ApplyAutoBlockChange ==
    Prepare(accountprotection_APINames) \o Run(accountprotection_autoBlock) \o
    Run(accountprotection_autoBlockSet)
ApplyAccountProtectionChange ==
    Prepare(accountprotection_APINames) \o Run(accountprotection_accountProtection) \o
    Run(accountprotection_accountProtectionSet)
ApplyEnforceTwoFactorChange ==
    Prepare(accountprotection_APINames) \o Run(accountprotection_enforceTwoFactor) \o
    Run(accountprotection_enforceTwoFactorSet)
ApplyAutoBlockListEdit == Prepare(accountprotection_APINames) \o Run(accountprotection_ipListEdit)

\* synology/certificate.go
Certificates == Prepare(certificate_APINames) \o Run(certificate_certificates)
CertificateCapabilities ==
    Prepare(certificate_MutationAPINames) \o Report(<<certificate_certificates>>)

\* synology/certificate_mutation.go
prepareCertificateImportLocked ==
    Prepare(certificate_MutationAPINames) \o Ensure({"Core.Certificate.CRT"})
ImportCertificate ==
    prepareCertificateImportLocked \o Request("Core.Certificate", 1, Once(Send("import")))
SetDefaultCertificate ==
    Prepare(certificate_MutationAPINames) \o Ensure({"Core.Certificate.CRT"}) \o
    Request("Core.Certificate.CRT", 1, Send("set"))
BindCertificateService ==
    Prepare(certificate_MutationAPINames) \o Ensure({"Core.Certificate.Service"}) \o
    Request("Core.Certificate.Service", 1, Send("set"))
DeleteCertificate ==
    Prepare(certificate_MutationAPINames) \o Ensure({"Core.Certificate.CRT"}) \o
    Request("Core.Certificate.CRT", 1, Send("delete"))
ExportCertificate ==
    prepareCertificateImportLocked \o Request("Core.Certificate.CRT", 1, Send("export"))
RepinLeafFingerprint == Nothing

\* synology/controlpanel.go
ControlPanelTimeState == Prepare(controlpaneltime_APINames) \o Run(controlpaneltime_operation)
ControlPanelTimeCapabilities ==
    Prepare(controlpaneltime_APINames) \o Report(<<controlpaneltime_operation,
    controlpaneltime_set>>)
ApplyControlPanelTimeChange ==
    Prepare(controlpaneltime_APINames) \o Run(controlpaneltime_operation) \o
    Run(controlpaneltime_set)
SMBState == Prepare({"Core.FileServ.SMB"}) \o Run(fileservices_smbRead)
NFSState ==
    Prepare({"Core.FileServ.NFS", "Core.FileServ.NFS.AdvancedSetting"}) \o
    Run(fileservices_nfsRead) \o RunIfSupported(fileservices_nfsAdvancedRead)
FileServiceCapabilities ==
    Prepare(fileservices_APINames) \o Report(<<fileservices_smbRead, fileservices_smbSet,
    fileservices_nfsRead, fileservices_nfsSet, fileservices_nfsAdvancedRead,
    fileservices_nfsAdvancedSet>>)
ApplyFileServiceChange ==
    Prepare(fileservices_APINames) \o Choice(<<Run(fileservices_smbRead) \o
    Run(fileservices_smbSet), Run(fileservices_nfsRead) \o
    Run(fileservices_nfsAdvancedSnapshotRead) \o Run(fileservices_nfsAdvancedSet),
    Run(fileservices_nfsRead) \o Run(fileservices_nfsSet)>>)

\* synology/directory.go
directoryModeLocked ==
    Run(directory_domainStatus) \o RunIfSupported(directory_domainOptions) \o
    RunIfSupported(directory_domainSchedule) \o Run(directory_ldapStatus) \o
    RunIfSupported(directory_ldapProfiles)
DirectoryStatusState == Prepare(directory_APINames) \o directoryModeLocked
DirectoryUsersList == Prepare(directory_APINames) \o directoryModeLocked \o Run(directory_users)
DirectoryGroupsList == Prepare(directory_APINames) \o directoryModeLocked \o Run(directory_groups)
DirectoryCapabilitiesState ==
    Prepare(directory_APINames) \o Report(<<directory_domainStatus, directory_ldapStatus,
    directory_users, directory_groups>>)

\* synology/dsmupdate.go
DSMUpdateStatus == Prepare(dsmupdate_APINames) \o Run(dsmupdate_status)
DSMUpdateAvailable == Prepare(dsmupdate_APINames) \o Run(dsmupdate_available)
DSMUpdatePolicy == Prepare(dsmupdate_APINames) \o Run(dsmupdate_policy)
DSMUpdateConfigBackup ==
    Prepare(dsmupdate_APINames) \o Run(dsmupdate_config) \o TryRun(dsmupdate_configHistory)
DSMUpdateCapabilities ==
    Prepare(dsmupdate_APINames) \o Report(<<dsmupdate_status, dsmupdate_available,
    dsmupdate_policy, dsmupdate_config>>)

\* synology/externalaccess.go
ExternalAccessAccountState ==
    Prepare(externalaccess_APINames) \o Run(externalaccess_accountCore) \o
    Maybe(RunIfSupported(externalaccess_accountPackage))
ExternalAccessQuickConnectState ==
    Prepare(externalaccess_APINames) \o Run(externalaccess_quickConnectConfig) \o
    RunIfSupported(externalaccess_quickConnectRelay) \o
    RunIfSupported(externalaccess_quickConnectStatus) \o
    RunIfSupported(externalaccess_quickConnectPermission)
ExternalAccessDDNSState ==
    Prepare(externalaccess_APINames) \o Run(externalaccess_ddnsRecord) \o
    RunIfSupported(externalaccess_ddnsExtIP)
ExternalAccessPortForwardState ==
    Prepare(externalaccess_APINames) \o Run(externalaccess_portForwardRules) \o
    RunIfSupported(externalaccess_portForwardRouter)
ApplyExternalAccessQuickConnectChange ==
    Prepare(externalaccess_APINames) \o Run(externalaccess_quickConnectRelaySet)
ApplyExternalAccessQuickConnectConfigChange ==
    Prepare(externalaccess_APINames) \o Run(externalaccess_quickConnectConfigSet)
ApplyExternalAccessQuickConnectPermissionChange ==
    Prepare(externalaccess_APINames) \o Run(externalaccess_quickConnectPermissionSet)
ApplyExternalAccessDDNSChange ==
    Prepare(externalaccess_APINames) \o Run(externalaccess_ddnsRecordSet)
ExternalAccessCapabilities ==
    Prepare(externalaccess_APINames) \o Report(<<externalaccess_accountCore,
    externalaccess_quickConnectConfig, externalaccess_ddnsRecord,
    externalaccess_portForwardRules, externalaccess_quickConnectRelaySet,
    externalaccess_quickConnectConfigSet, externalaccess_quickConnectPermissionSet,
    externalaccess_ddnsRecordSet>>)

\* synology/externaldevice.go
ExternalStorage ==
    Prepare(externaldevice_APINames) \o RunIfSupported(externaldevice_usbStorage) \o
    RunIfSupported(externaldevice_esataStorage)
ExternalPrinters ==
    Prepare(externaldevice_APINames) \o Run(externaldevice_printer) \o
    RunIfSupported(externaldevice_printerSharing)
ExternalDeviceCapabilitiesState ==
    Prepare(externaldevice_APINames) \o Report(<<externaldevice_usbStorage,
    externaldevice_esataStorage, externaldevice_printer, externaldevice_printerSharing>>)

\* synology/firewall.go
FirewallTransport == Nothing
FirewallStatus == Prepare(firewall_APINames) \o Run(firewall_status) \o TryRun(firewall_adapters)
firewallActiveProfileLocked == TryRun(firewall_status)
FirewallProfiles ==
    Prepare(firewall_APINames) \o Run(firewall_profiles) \o firewallActiveProfileLocked
FirewallRules ==
    Prepare(firewall_APINames) \o firewallActiveProfileLocked \o Maybe(Run(firewall_profiles))
    \o Repeat(Run(firewall_profileRules))
FirewallCapabilities ==
    Prepare(firewall_APINames) \o Report(<<firewall_status, firewall_profiles,
    firewall_adapters, firewall_profileRules, firewall_profileSet, firewall_enable>>)
FirewallActiveSessions ==
    Prepare(firewall_APINames) \o Maybe(TryRequest("Core.CurrentConnection", 1, Read("list")))
ApplyFirewallProfileChange ==
    Prepare(firewall_APINames) \o Run(firewall_profileRules) \o Run(firewall_profileSet)
ApplyFirewallEnableChange == Prepare(firewall_APINames) \o Run(firewall_enable)

\* synology/ftpservices.go
FTPServicesState ==
    Prepare(ftpservices_APINames) \o Run(ftpservices_ftpRead) \o
    RunIfSupported(ftpservices_sftpRead)
FTPServicesCapabilities ==
    Prepare(ftpservices_APINames) \o Report(<<ftpservices_ftpRead, ftpservices_ftpSet,
    ftpservices_sftpRead, ftpservices_sftpSet>>)
ApplyFTPServicesChange ==
    Prepare(ftpservices_APINames) \o Maybe(Run(ftpservices_ftpRead) \o Run(ftpservices_ftpSet))
    \o Maybe(Run(ftpservices_sftpRead) \o Run(ftpservices_sftpSet))

\* synology/hardware.go
HardwareGeneral ==
    Prepare(hardware_APINames) \o RunIfSupported(hardware_beep) \o RunIfSupported(hardware_fan)
    \o RunIfSupported(hardware_led)
HardwarePowerSchedule == Prepare(hardware_APINames) \o Run(hardware_powerSchedule)
HardwarePowerRecovery == Prepare(hardware_APINames) \o Run(hardware_powerRecovery)
HardwareUPS == Prepare(hardware_APINames) \o Run(hardware_ups)
HardwareCapabilities ==
    Prepare(hardware_APINames) \o Report(<<hardware_beep, hardware_fan, hardware_led,
    hardware_powerSchedule, hardware_powerRecovery, hardware_ups>>)

\* synology/kmip.go
KMIPStatusState == Prepare(kmip_APINames) \o Run(kmip_status)
KMIPCapabilitiesState == Prepare(kmip_APINames) \o TryRun(kmip_status)

\* synology/loginportal.go
DSMWebService ==
    Prepare(loginportal_APINames) \o Run(loginportal_dsmWebService) \o
    RunIfSupported(loginportal_externalDomain)
ApplicationPortals == Prepare(loginportal_APINames) \o Run(loginportal_applicationPortal)
ReverseProxyRules == Prepare(loginportal_APINames) \o Run(loginportal_reverseProxy)
LoginPortalCapabilities ==
    Prepare(loginportal_APINames) \o Report(<<loginportal_dsmWebService,
    loginportal_externalDomain, loginportal_applicationPortal, loginportal_reverseProxy,
    loginportal_dsmWebServiceSet, loginportal_externalDomainSet,
    loginportal_applicationPortalSet, loginportal_reverseProxyCreate>>)
LoginPortalTransport == Nothing
ApplyDSMWebServiceChange ==
    Prepare(loginportal_APINames) \o Run(loginportal_dsmWebService) \o
    RunIfSupported(loginportal_externalDomain) \o Run(loginportal_dsmWebServiceSet) \o
    Maybe(Run(loginportal_externalDomainSet))
ApplyApplicationPortalChange ==
    Prepare(loginportal_APINames) \o Run(loginportal_applicationPortal) \o
    Run(loginportal_applicationPortalSet)
ApplyReverseProxyRuleCreate == Prepare(loginportal_APINames) \o Run(loginportal_reverseProxyCreate)
ApplyReverseProxyRuleDelete == Prepare(loginportal_APINames) \o Run(loginportal_reverseProxyDelete)

\* synology/network.go
NetworkTransportInfo == Nothing
NetworkGeneral == Prepare(network_APINames) \o Run(network_general) \o TryRun(network_proxy)
NetworkInterfaces == Prepare(network_APINames) \o Run(network_interfaces)
NetworkBonds == Prepare(network_APINames) \o Run(network_bonds)
NetworkRoutes == Prepare(network_APINames) \o Run(network_routes)
NetworkCapabilities ==
    Prepare(network_APINames) \o Report(<<network_general, network_interfaces, network_bonds,
    network_proxy, network_routes, network_trafficControlProbe, network_generalSet,
    network_interfaceSet>>)
NetworkGeneralFresh == Prepare(network_APINames) \o Run(network_general)
NetworkCurrentSources ==
    Prepare(network_APINames) \o Maybe(TryRequest("Core.CurrentConnection", 1, Read("list")))
ApplyNetworkGeneralChange ==
    Prepare(network_APINames) \o Run(network_general) \o Run(network_generalSet)
ApplyNetworkInterfaceChange == Fail

\* synology/notification.go
NotificationMailState ==
    Prepare(notification_APINames) \o Run(notification_mailConf) \o
    RunIfSupported(notification_relayMail)
NotificationPushState ==
    Prepare(notification_APINames) \o Run(notification_pushConf) \o
    RunIfSupported(notification_pushMobile)
NotificationWebhookState == Prepare(notification_APINames) \o Run(notification_webhook)
NotificationSMSState ==
    Prepare(notification_APINames) \o Run(notification_smsConf) \o
    RunIfSupported(notification_smsProvider)
NotificationRulesState == Prepare(notification_APINames) \o Run(notification_rules)
NotificationDesktopState == Prepare(notification_APINames) \o Run(notification_desktop)
NotificationHistory ==
    Prepare(notification_APINames) \o Run(notification_history) \o TryRun(notification_strings)
NotificationCapabilities ==
    Prepare(notification_APINames) \o Report(<<notification_mailConf, notification_pushConf,
    notification_webhook, notification_smsConf, notification_rules, notification_desktop,
    notification_history>>)

\* synology/resmon.go
ResourceMonitorState ==
    Prepare(resmonsetting_APINames \union utilizationread_APINames) \o
    Run(utilizationread_current)
historyInterfacesLocked == Maybe(Run(utilizationread_current))
ResourceMonitorHistory ==
    Prepare(resmonsetting_APINames \union utilizationread_APINames) \o historyInterfacesLocked
    \o Run(utilizationread_history)
ResourceMonitorSetting ==
    Prepare(resmonsetting_APINames \union utilizationread_APINames) \o
    Run(resmonsetting_operation)
ResourceMonitorCapabilities ==
    Prepare(resmonsetting_APINames \union utilizationread_APINames) \o
    Report(<<utilizationread_current, utilizationread_history, resmonsetting_operation,
    resmonsettingmutation_set>>)
ApplyResourceRecordingChange ==
    Prepare(resmonsetting_APINames \union utilizationread_APINames) \o
    Run(resmonsetting_operation) \o Run(resmonsettingmutation_set)

\* synology/rsyncservice.go
RsyncServiceState == Prepare(rsyncservice_APINames) \o Run(rsyncservice_read)
RsyncServiceCapabilities ==
    Prepare(rsyncservice_APINames) \o Report(<<rsyncservice_read, rsyncservice_set>>)
ApplyRsyncServiceChange ==
    Prepare(rsyncservice_APINames) \o Run(rsyncservice_read) \o Run(rsyncservice_set)

\* synology/securityadvisor.go
SecurityAdvisorStatus == Prepare(securityadvisor_APINames) \o Run(securityadvisor_status)
SecurityAdvisorConfiguration ==
    Prepare(securityadvisor_APINames) \o Run(securityadvisor_configuration)
SecurityAdvisorCapabilities ==
    Prepare(securityadvisor_APINames) \o Report(<<securityadvisor_status,
    securityadvisor_configuration, securityadvisor_configurationSet, securityadvisor_runScan>>)
ApplySecurityAdvisorScheduleChange ==
    Prepare(securityadvisor_APINames) \o Run(securityadvisor_configuration) \o
    Run(securityadvisor_configurationSet)
RunSecurityScan == Prepare(securityadvisor_APINames) \o Run(securityadvisor_runScan)

\* synology/servicediscovery.go
ServiceDiscoveryState ==
    Prepare(servicediscovery_APINames) \o Run(servicediscovery_timeMachineRead) \o
    RunIfSupported(servicediscovery_wsDiscoveryRead)
ServiceDiscoveryCapabilities ==
    Prepare(servicediscovery_APINames) \o Report(<<servicediscovery_timeMachineRead,
    servicediscovery_timeMachineSet, servicediscovery_wsDiscoveryRead,
    servicediscovery_wsDiscoverySet>>)
ApplyServiceDiscoveryChange ==
    Prepare(servicediscovery_APINames) \o Maybe(Run(servicediscovery_timeMachineRead) \o
    Run(servicediscovery_timeMachineSet)) \o Maybe(Run(servicediscovery_wsDiscoverySet))

\* synology/syslog.go
LogState == Prepare(syslogread_APINames) \o Run(syslogread_operation)
LogCapabilities == Prepare(syslogread_APINames) \o Report(<<syslogread_operation>>)

\* synology/system.go
SystemInfo == systemInfoLocked
serverNameLocked == Discover({"Core.Network"}) \o Request("Core.Network", 1, Read("get"))
GetServerName == serverNameLocked
SetServerName ==
    Discover({"Core.Network"}) \o Request("Core.Network", 1, Send("set")) \o serverNameLocked

\* synology/taskscheduler.go
TaskSchedulerScheduled == Prepare(taskscheduler_APINames) \o Run(taskscheduler_scheduledList)
TaskSchedulerTriggered == Prepare(taskscheduler_APINames) \o Run(taskscheduler_triggeredList)
TaskSchedulerCapabilities ==
    Prepare(taskscheduler_APINames) \o Report(<<taskscheduler_scheduledList,
    taskscheduler_triggeredList>>)

\* synology/terminalsnmp.go
TerminalState == Prepare({"Core.Terminal"}) \o Run(terminalsnmp_terminal)
SNMPState == Prepare({"Core.SNMP"}) \o Run(terminalsnmp_snmp)
TerminalSNMPCapabilities ==
    Prepare(terminalsnmp_APINames) \o Report(<<terminalsnmp_terminal, terminalsnmp_snmp,
    terminalsnmp_terminalSet, terminalsnmp_snmpSet>>)
ApplyTerminalChange ==
    Prepare({"Core.Terminal"}) \o Run(terminalsnmp_terminal) \o Run(terminalsnmp_terminalSet)
ApplySNMPChange == Prepare({"Core.SNMP"}) \o Run(terminalsnmp_snmp) \o Run(terminalsnmp_snmpSet)

\* synology/tftpservice.go
TFTPServiceState == Prepare(tftpservice_APINames) \o Run(tftpservice_read)
TFTPServiceCapabilities ==
    Prepare(tftpservice_APINames) \o Report(<<tftpservice_read, tftpservice_set>>)
ApplyTFTPServiceChange == Prepare(tftpservice_APINames) \o Run(tftpservice_set)

=============================================================================
