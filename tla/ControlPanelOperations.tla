---------------------------- MODULE ControlPanelOperations ----------------------------
(***************************************************************************)
(* The DSM operations of Control Panel, Package Center and monitoring:     *)
(* one definition for every Operation variable of the packages under       *)
(* internal/synology/operations, with its variants, what each variant      *)
(* needs of the NAS and the requests its Execute sends, and one for every  *)
(* APINames function.  The encoding of parameters and the decoding of      *)
(* answers are left out.                                                   *)
(***************************************************************************)
EXTENDS Compatibility

\* operations/accountprotection
accountprotection_autoBlockSet == One("Core.Security.AutoBlock", 1, {<<Send("set")>>})
accountprotection_accountProtectionSet == One("Core.SmartBlock", 1, {<<Send("set")>>})
accountprotection_enforceTwoFactorSet == One("Core.OTP.EnforcePolicy", 1, {<<Send("set")>>})
accountprotection_ipListEdit ==
    One("Core.Security.AutoBlock.Rules", 1, {<<OneOf({"create", "delete"})>>})
accountprotection_autoBlock == One("Core.Security.AutoBlock", 1, {<<Send("get")>>})
accountprotection_autoBlockList ==
    One("Core.Security.AutoBlock.Rules", 1, {<<Send("list"), Send("list")>>})
accountprotection_accountProtection == One("Core.SmartBlock", 1, {<<Send("get")>>})
accountprotection_enforceTwoFactor == One("Core.OTP.EnforcePolicy", 1, {<<Send("get")>>})
accountprotection_APINames ==
    {"Core.CurrentConnection", "Core.OTP.EnforcePolicy", "Core.Security.AutoBlock",
    "Core.Security.AutoBlock.Rules", "Core.Security.DoS", "Core.SmartBlock"}

\* operations/certificate
certificate_certificates == One("Core.Certificate.CRT", 1, {<<Send("list")>>})
certificate_MutationAPINames == {"Core.Certificate.CRT", "Core.Certificate.Service"}
certificate_APINames == {"Core.Certificate.CRT"}

\* operations/controlpaneltime
controlpaneltime_coreVariant(version, priority) ==
    Ranked("Core.Region.NTP", version, priority, {<<Send("get")>>})
controlpaneltime_operation ==
    controlpaneltime_coreVariant(3, 30) \o controlpaneltime_coreVariant(2, 20) \o
    controlpaneltime_coreVariant(1, 10)
controlpaneltime_setVariant(version, priority) ==
    Ranked("Core.Region.NTP", version, priority, {<<Send("set")>>})
controlpaneltime_set == controlpaneltime_setVariant(3, 30)
controlpaneltime_APINames == {"Core.Region.NTP"}

\* operations/directory
directory_domainStatus == One("Core.Directory.Domain", 1, {<<Read("get")>>})
directory_domainOptions == Versions("Core.Directory.Domain.Conf", <<2, 1>>, {<<Read("get")>>})
directory_domainSchedule == One("Core.Directory.Domain.Schedule", 1, {<<Read("get")>>})
directory_ldapStatus == Versions("Core.Directory.LDAP", <<2, 1>>, {<<Read("get")>>})
directory_ldapProfiles == One("Core.Directory.LDAP.Profile", 1, {<<Read("list")>>})
directory_users == One("Core.User", 1, {<<Read("list")>>})
directory_groups == One("Core.Group", 1, {<<Read("list")>>})
directory_APINames ==
    {"Core.Directory.Domain", "Core.Directory.Domain.Conf", "Core.Directory.Domain.Schedule",
    "Core.Directory.LDAP", "Core.Directory.LDAP.Profile", "Core.Group", "Core.User"}

\* operations/dsmupdate
dsmupdate_readVariant(api, version, priority, method) ==
    Ranked(api, version, priority, {<<Read(method)>>})
dsmupdate_status ==
    dsmupdate_readVariant("Core.Upgrade", 2, 20, "status") \o
    dsmupdate_readVariant("Core.Upgrade", 1, 10, "status")
dsmupdate_availableVariant(version, priority) ==
    Ranked("Core.Upgrade.Server", version, priority, {<<Read("check")>>})
dsmupdate_available ==
    dsmupdate_availableVariant(3, 30) \o dsmupdate_availableVariant(2, 20) \o
    dsmupdate_availableVariant(1, 10)
dsmupdate_policy ==
    dsmupdate_readVariant("Core.Upgrade.Setting", 2, 20, "get") \o
    dsmupdate_readVariant("Core.Upgrade.Setting", 1, 10, "get")
dsmupdate_config == dsmupdate_readVariant("Backup.Config.AutoBackup", 1, 10, "get")
dsmupdate_configHistory == dsmupdate_readVariant("Backup.Config.AutoBackup", 1, 10, "list")
dsmupdate_APINames ==
    {"Backup.Config.AutoBackup", "Core.Upgrade", "Core.Upgrade.Server", "Core.Upgrade.Setting"}

\* operations/externalaccess
externalaccess_quickConnectConfigSet == Ranked("Core.QuickConnect", 2, 20, {<<Send("set")>>})
externalaccess_quickConnectPermissionSet ==
    One("Core.QuickConnect.Permission", 1, {<<Send("set")>>})
externalaccess_ddnsRecordSet == One("Core.DDNS.Record", 1, {<<OneOf({"create", "set", "delete"})>>})
externalaccess_readVariant(api, version, priority, method) ==
    Ranked(api, version, priority, {<<Send(method)>>})
externalaccess_accountCore ==
    externalaccess_readVariant("Core.MyDSCenter", 2, 20, "query") \o
    externalaccess_readVariant("Core.MyDSCenter", 1, 10, "query")
externalaccess_accountPackage == externalaccess_readVariant("Core.Package.MyDS", 1, 10, "get")
externalaccess_quickConnectConfig ==
    externalaccess_readVariant("Core.QuickConnect", 2, 20, "get") \o
    externalaccess_readVariant("Core.QuickConnect", 1, 10, "get")
externalaccess_quickConnectRelay ==
    externalaccess_readVariant("Core.QuickConnect", 3, 30, "get_misc_config")
externalaccess_quickConnectStatus ==
    externalaccess_readVariant("Core.QuickConnect", 1, 10, "status")
externalaccess_quickConnectPermission ==
    externalaccess_readVariant("Core.QuickConnect.Permission", 1, 10, "get")
externalaccess_ddnsRecord == One("Core.DDNS.Record", 1, {<<Send("list")>>})
externalaccess_ddnsExtIP ==
    externalaccess_readVariant("Core.DDNS.ExtIP", 2, 20, "list") \o
    externalaccess_readVariant("Core.DDNS.ExtIP", 1, 10, "list")
externalaccess_portForwardRules ==
    externalaccess_readVariant("Core.PortForwarding.Rules", 1, 10, "load")
externalaccess_portForwardRouter ==
    externalaccess_readVariant("Core.PortForwarding.RouterConf", 1, 10, "get")
externalaccess_quickConnectRelaySet ==
    Ranked("Core.QuickConnect", 3, 30, {<<Send("set_misc_config")>>})
externalaccess_APINames ==
    {"Core.DDNS.ExtIP", "Core.DDNS.Record", "Core.MyDSCenter", "Core.Package.MyDS",
    "Core.PortForwarding.RouterConf", "Core.PortForwarding.Rules", "Core.QuickConnect",
    "Core.QuickConnect.Permission"}

\* operations/externaldevice
externaldevice_usbStorage == One("Core.ExternalDevice.Storage.USB", 1, {<<Read("list")>>})
externaldevice_esataStorage == One("Core.ExternalDevice.Storage.eSATA", 1, {<<Read("list")>>})
externaldevice_printer == One("Core.ExternalDevice.Printer", 1, {<<Read("list")>>})
externaldevice_printerSharing ==
    One("Core.ExternalDevice.Printer.BonjourSharing", 1, {<<Read("get")>>})
externaldevice_APINames ==
    {"Core.ExternalDevice.Printer", "Core.ExternalDevice.Printer.BonjourSharing",
    "Core.ExternalDevice.Storage.USB", "Core.ExternalDevice.Storage.eSATA"}

\* operations/fileservices
fileservices_smbReadVariant(version, priority) ==
    Ranked("Core.FileServ.SMB", version, priority, {<<Send("get")>>})
fileservices_smbRead ==
    fileservices_smbReadVariant(3, 30) \o fileservices_smbReadVariant(2, 20) \o
    fileservices_smbReadVariant(1, 10)
fileservices_smbSetVariant(version, priority) ==
    Ranked("Core.FileServ.SMB", version, priority, {<<Send("set")>>})
fileservices_smbSet == fileservices_smbSetVariant(3, 30)
fileservices_nfsReadVariant(version, priority) ==
    Ranked("Core.FileServ.NFS", version, priority, {<<Send("get")>>})
fileservices_nfsRead ==
    fileservices_nfsReadVariant(3, 30) \o fileservices_nfsReadVariant(2, 20) \o
    fileservices_nfsReadVariant(1, 10)
fileservices_nfsSetVariant(version, priority) ==
    Ranked("Core.FileServ.NFS", version, priority, {<<Send("set")>>})
fileservices_nfsSet == fileservices_nfsSetVariant(3, 30) \o fileservices_nfsSetVariant(2, 20)
fileservices_nfsAdvancedReadVariant ==
    Ranked("Core.FileServ.NFS.AdvancedSetting", 1, 10, {<<Send("get")>>})
fileservices_nfsAdvancedRead == fileservices_nfsAdvancedReadVariant
fileservices_nfsAdvancedSnapshotReadVariant ==
    Ranked("Core.FileServ.NFS.AdvancedSetting", 1, 10, {<<Send("get")>>})
fileservices_nfsAdvancedSnapshotRead == fileservices_nfsAdvancedSnapshotReadVariant
fileservices_nfsAdvancedSetVariant ==
    Ranked("Core.FileServ.NFS.AdvancedSetting", 1, 10, {<<Send("set")>>})
fileservices_nfsAdvancedSet == fileservices_nfsAdvancedSetVariant
fileservices_APINames ==
    {"Core.FileServ.NFS", "Core.FileServ.NFS.AdvancedSetting", "Core.FileServ.SMB"}

\* operations/firewall
firewall_profileSet == One("Core.Security.Firewall.Profile", 1, {<<Send("set")>>})
firewall_enable ==
    Also("Core.Security.Firewall.Profile.Apply", 1, One("Core.Security.Firewall", 1,
    {<<Send("set")>>, <<To("Core.Security.Firewall.Profile.Apply", 1, Send("start"))>>}))
firewall_status == One("Core.Security.Firewall", 1, {<<Read("get")>>})
firewall_profiles == One("Core.Security.Firewall.Profile", 1, {<<Read("list")>>})
firewall_adapters == One("Core.Security.Firewall.Adapter", 1, {<<Read("list")>>})
firewall_profileRules == One("Core.Security.Firewall.Profile", 1, {<<Read("get")>>})
firewall_APINames ==
    {"Core.Security.Firewall", "Core.Security.Firewall.Adapter",
    "Core.Security.Firewall.Profile", "Core.Security.Firewall.Profile.Apply",
    "Core.Security.Firewall.Rules"}

\* operations/ftpservices
ftpservices_ftpRead == One("Core.FileServ.FTP", 3, {<<Send("get")>>})
ftpservices_ftpSet == One("Core.FileServ.FTP", 3, {<<Send("set")>>})
ftpservices_sftpRead == One("Core.FileServ.FTP.SFTP", 1, {<<Send("get")>>})
ftpservices_sftpSet == One("Core.FileServ.FTP.SFTP", 1, {<<Send("set")>>})
ftpservices_APINames == {"Core.FileServ.FTP", "Core.FileServ.FTP.SFTP"}

\* operations/hardware
hardware_beep == One("Core.Hardware.BeepControl", 1, {<<Read("get")>>})
hardware_fan == One("Core.Hardware.FanSpeed", 1, {<<Read("get")>>})
hardware_led == One("Core.Hardware.Led.Brightness", 1, {<<Read("get")>>})
hardware_powerSchedule == One("Core.Hardware.PowerSchedule", 1, {<<Read("load")>>})
hardware_powerRecovery == One("Core.Hardware.PowerRecovery", 1, {<<Read("get")>>})
hardware_ups == One("Core.ExternalDevice.UPS", 1, {<<Read("get")>>})
hardware_APINames ==
    {"Core.ExternalDevice.UPS", "Core.Hardware.BeepControl", "Core.Hardware.FanSpeed",
    "Core.Hardware.Led.Brightness", "Core.Hardware.PowerRecovery",
    "Core.Hardware.PowerSchedule"}

\* operations/kmip
kmip_status == One("Storage.CGI.KMIP", 1, {<<Read("get")>>})
kmip_APINames == {"Storage.CGI.KMIP"}

\* operations/loginportal
loginportal_dsmWebServiceSet == One("Core.Web.DSM", 1, {<<Send("set")>>})
loginportal_externalDomainSet == One("Core.Web.DSM.External", 1, {<<Send("set")>>})
loginportal_applicationPortalSet == One("Core.AppPortal", 1, {<<Send("set")>>})
loginportal_reverseProxyCreate == One("Core.AppPortal.ReverseProxy", 1, {<<Send("create")>>})
loginportal_reverseProxyDelete == One("Core.AppPortal.ReverseProxy", 1, {<<Send("delete")>>})
loginportal_dsmWebService == One("Core.Web.DSM", 1, {<<Read("get")>>})
loginportal_externalDomain == One("Core.Web.DSM.External", 1, {<<Read("get")>>})
loginportal_applicationPortal == One("Core.AppPortal", 1, {<<Read("list")>>})
loginportal_reverseProxy == One("Core.AppPortal.ReverseProxy", 1, {<<Read("list")>>})
loginportal_APINames ==
    {"Core.AppPortal", "Core.AppPortal.ReverseProxy", "Core.Web.DSM", "Core.Web.DSM.External"}

\* operations/network
network_generalSet == Versions("Core.Network", <<2, 1>>, {<<Send("set")>>})
network_interfaceSet == Versions("Core.Network.Ethernet", <<2, 1>>, {<<Send("set")>>})
network_general == Versions("Core.Network", <<2, 1>>, {<<Read("get")>>})
network_proxy == One("Core.Network.Proxy", 1, {<<Read("get")>>})
network_interfaces ==
    Ranked("Core.Network.Ethernet", 2, 30, {<<Read("list")>>}) \o
    Ranked("Core.Network.Ethernet", 1, 20, {<<Read("list")>>}) \o One("Core.Network.Interface",
    1, {<<Read("list")>>})
network_bonds == Versions("Core.Network.Bond", <<2, 1>>, {<<Read("list")>>})
network_routes == One("Core.Network.Router.Static.Route", 1, {<<Read("get")>>})
network_trafficControlProbe == One("Core.Network.TrafficControl.Rules", 1, {<<>>})
network_APINames ==
    {"Core.Network", "Core.Network.Bond", "Core.Network.Ethernet", "Core.Network.Interface",
    "Core.Network.Proxy", "Core.Network.Router.Static.Route",
    "Core.Network.TrafficControl.Rules"}

\* operations/nfsexport
nfsexport_read == One("Core.FileServ.NFS.SharePrivilege", 1, {<<Send("load")>>})
nfsexport_set == One("Core.FileServ.NFS.SharePrivilege", 1, {<<Send("save")>>})
nfsexport_APINames == {"Core.FileServ.NFS.SharePrivilege"}

\* operations/notification
notification_readVariant(api, version, priority, method) ==
    Ranked(api, version, priority, {<<Send(method)>>})
notification_mailConf ==
    notification_readVariant("Core.Notification.Mail.Conf", 2, 20, "get") \o
    notification_readVariant("Core.Notification.Mail.Conf", 1, 10, "get")
notification_relayMail ==
    notification_readVariant("Core.Notification.Push.Mail", 2, 20, "get") \o
    notification_readVariant("Core.Notification.Push.Mail", 1, 10, "get")
notification_pushConf == notification_readVariant("Core.Notification.Push.Conf", 1, 10, "get")
notification_pushMobile ==
    notification_readVariant("Core.Notification.Push.Mobile", 2, 20, "list") \o
    notification_readVariant("Core.Notification.Push.Mobile", 1, 10, "list")
notification_webhook ==
    notification_readVariant("Core.Notification.Push.Webhook.Provider", 2, 20, "list") \o
    notification_readVariant("Core.Notification.Push.Webhook.Provider", 1, 10, "list")
notification_smsConf ==
    notification_readVariant("Core.Notification.SMS.Conf", 2, 20, "get") \o
    notification_readVariant("Core.Notification.SMS.Conf", 1, 10, "get")
notification_smsProvider ==
    notification_readVariant("Core.Notification.SMS.Provider", 2, 20, "list") \o
    notification_readVariant("Core.Notification.SMS.Provider", 1, 10, "list")
notification_rules ==
    notification_readVariant("Core.Notification.Advance.FilterSettings", 2, 20, "list") \o
    notification_readVariant("Core.Notification.Advance.FilterSettings", 1, 10, "list")
notification_desktop == One("Core.DSMNotify", 1, {<<Send("notify")>>})
notification_history == One("Core.DSMNotify", 1, {<<Send("notify")>>})
notification_strings == One("Core.DSMNotify.Strings", 1, {<<Send("get")>>})
notification_APINames ==
    {"Core.DSMNotify", "Core.DSMNotify.Strings", "Core.Notification.Advance.FilterSettings",
    "Core.Notification.Mail.Conf", "Core.Notification.Push.Conf", "Core.Notification.Push.Mail",
    "Core.Notification.Push.Mobile", "Core.Notification.Push.Webhook.Provider",
    "Core.Notification.SMS.Conf", "Core.Notification.SMS.Provider"}

\* operations/packagecenter
packagecenter_catalogVariant(version, priority) ==
    Ranked("Core.Package.Server", version, priority, {<<Send("list")>>})
packagecenter_catalog == packagecenter_catalogVariant(2, 20) \o packagecenter_catalogVariant(1, 10)
packagecenter_download == One("Core.Package.Installation", 1, {<<Send("install")>>})
packagecenter_localInstall ==
    One("Core.Package.Installation", 1, {<<OneOf({"install", "upgrade"})>>})
packagecenter_inventoryVariant(version, priority) ==
    Ranked("Core.Package", version, priority, {<<Send("list")>>})
packagecenter_inventory ==
    packagecenter_inventoryVariant(2, 20) \o packagecenter_inventoryVariant(1, 10)
packagecenter_settingsReadVariant(version, priority) ==
    Ranked("Core.Package.Setting", version, priority, {<<Send("get")>>})
packagecenter_settingsRead ==
    packagecenter_settingsReadVariant(2, 20) \o packagecenter_settingsReadVariant(1, 10)
packagecenter_settingsSetVariant(version, priority) ==
    Ranked("Core.Package.Setting", version, priority, {<<Send("set")>>})
packagecenter_settingsSet ==
    packagecenter_settingsSetVariant(2, 20) \o packagecenter_settingsSetVariant(1, 10)
packagecenter_controlVariant(version, priority) ==
    Ranked("Core.Package.Control", version, priority, {<<OneOf({"start", "stop"})>>})
packagecenter_control == packagecenter_controlVariant(1, 10)
packagecenter_uninstallVariant(version, priority) ==
    Ranked("Core.Package.Uninstallation", version, priority, {<<Send("uninstall")>>})
packagecenter_uninstall == packagecenter_uninstallVariant(1, 10)
packagecenter_update == One("Core.Package.Installation", 1, {})
packagecenter_APINames ==
    {"Core.Package", "Core.Package.Control", "Core.Package.Installation", "Core.Package.Server",
    "Core.Package.Setting", "Core.Package.Uninstallation"}

\* operations/resmonsetting
resmonsetting_operation == One("ResourceMonitor.Setting", 1, {<<Send("get")>>})
resmonsetting_APINames == {"ResourceMonitor.Setting"}

\* operations/resmonsettingmutation
resmonsettingmutation_set == One("ResourceMonitor.Setting", 1, {<<Send("set")>>})
resmonsettingmutation_APINames == {"ResourceMonitor.Setting"}

\* operations/rsyncservice
rsyncservice_read == One("Backup.Service.NetworkBackup", 1, {<<Send("get")>>})
rsyncservice_set == One("Backup.Service.NetworkBackup", 1, {<<Send("set")>>})
rsyncservice_APINames == {"Backup.Service.NetworkBackup"}

\* operations/securityadvisor
securityadvisor_configurationSet == One("Core.SecurityScan.Conf", 1, {<<Send("set")>>})
securityadvisor_runScan == One("Core.SecurityScan.Operation", 1, {<<Send("start")>>})
securityadvisor_status == One("Core.SecurityScan.Status", 1, {<<Read("system_get")>>})
securityadvisor_configuration == One("Core.SecurityScan.Conf", 1, {<<Read("get")>>})
securityadvisor_APINames ==
    {"Core.SecurityScan.Conf", "Core.SecurityScan.Operation", "Core.SecurityScan.Status"}

\* operations/servicediscovery
servicediscovery_timeMachineRead == One("Core.FileServ.ServiceDiscovery", 1, {<<Send("get")>>})
servicediscovery_timeMachineSet == One("Core.FileServ.ServiceDiscovery", 1, {<<Send("set")>>})
servicediscovery_wsDiscoveryRead ==
    One("Core.FileServ.ServiceDiscovery.WSTransfer", 1, {<<Send("get")>>})
servicediscovery_wsDiscoverySet ==
    One("Core.FileServ.ServiceDiscovery.WSTransfer", 1, {<<Send("set")>>})
servicediscovery_APINames ==
    {"Core.FileServ.ServiceDiscovery", "Core.FileServ.ServiceDiscovery.WSTransfer"}

\* operations/syslogread
syslogread_operation == One("Core.SyslogClient.Log", 1, {<<Send("list")>>})
syslogread_APINames == {"Core.SyslogClient.Log"}

\* operations/systeminfo
systeminfo_coreVariant(version, priority) ==
    Ranked("Core.System", version, priority, {<<Read("info")>>})
systeminfo_operation ==
    systeminfo_coreVariant(3, 30) \o systeminfo_coreVariant(2, 20) \o systeminfo_coreVariant(1,
    10)
systeminfo_APINames == {"Core.System"}

\* operations/taskscheduler
taskscheduler_scheduledListVariant(version, priority) ==
    Ranked("Core.TaskScheduler", version, priority, {<<Read("list")>>})
taskscheduler_scheduledList ==
    taskscheduler_scheduledListVariant(3, 30) \o taskscheduler_scheduledListVariant(2, 20) \o
    taskscheduler_scheduledListVariant(1, 10)
taskscheduler_triggeredList == One("Core.EventScheduler", 1, {<<Read("list")>>})
taskscheduler_APINames == {"Core.EventScheduler", "Core.TaskScheduler"}

\* operations/terminalsnmp
terminalsnmp_terminalSetVariant(version, priority) ==
    Ranked("Core.Terminal", version, priority, {<<Send("set")>>})
terminalsnmp_terminalSet ==
    terminalsnmp_terminalSetVariant(3, 30) \o terminalsnmp_terminalSetVariant(2, 20) \o
    terminalsnmp_terminalSetVariant(1, 10)
terminalsnmp_snmpSet == One("Core.SNMP", 1, {<<Send("set")>>})
terminalsnmp_terminalReadVariant(version, priority) ==
    Ranked("Core.Terminal", version, priority, {<<Read("get")>>})
terminalsnmp_terminal ==
    terminalsnmp_terminalReadVariant(3, 30) \o terminalsnmp_terminalReadVariant(2, 20) \o
    terminalsnmp_terminalReadVariant(1, 10)
terminalsnmp_snmp == One("Core.SNMP", 1, {<<Read("get")>>})
terminalsnmp_APINames == {"Core.SNMP", "Core.Terminal"}

\* operations/tftpservice
tftpservice_read == One("Core.TFTP", 1, {<<Send("get")>>})
tftpservice_set == One("Core.TFTP", 1, {<<Send("set")>>})
tftpservice_APINames == {"Core.TFTP"}

\* operations/utilizationread
utilizationread_current == One("Core.System.Utilization", 1, {<<Send("get")>>})
utilizationread_history == One("Core.System.Utilization", 1, {<<Send("get")>>})
utilizationread_APINames == {"Core.System.Utilization"}

=============================================================================
