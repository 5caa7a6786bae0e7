---------------------------- MODULE ResourceClient ----------------------------
(***************************************************************************)
(* The methods of synology.Client for storage, SAN, shares, identities and *)
(* File Station: one definition for every method that talks to the NAS,    *)
(* made of the steps of ClientSteps in the order of the code. What a       *)
(* method decodes, merges or returns is left out.                          *)
(***************************************************************************)
EXTENDS ControlPanelClient

\* synology/disksmart.go
DiskHealth ==
    Prepare(disksmart_APINames) \o Run(disksmart_health) \o RunIfSupported(disksmart_thresholds)
DiskSMARTAttributes ==
    Prepare(disksmart_APINames) \o Require(disksmart_attribute) \o Run(disksmart_health) \o
    Repeat(Run(disksmart_attribute) \o RunIfSupported(disksmart_testLog))
DiskSMARTCapabilities ==
    Prepare(disksmart_APINames) \o Report(<<disksmart_health, disksmart_attribute,
    disksmart_thresholds>>)

\* synology/filestation.go
FileStationInfoState == Prepare(filestation_APINames) \o Run(filestation_info)
FileStationListShares == Prepare(filestation_APINames) \o Run(filestation_listShare)
FileStationList == Prepare(filestation_APINames) \o Run(filestation_list)
FileStationGetInfo == Prepare(filestation_APINames) \o Run(filestation_getInfo)
FileStationSearch == Prepare(filestation_APINames) \o Run(filestation_search)
FileStationDirSize == Prepare(filestation_APINames) \o Run(filestation_dirSize)
FileStationMD5 == Prepare(filestation_APINames) \o Run(filestation_md5)
FileStationVirtualFolders == Prepare(filestation_APINames) \o Run(filestation_virtualFolder)
FileStationCheckPermission == Prepare(filestation_APINames) \o Run(filestation_checkPermission)
FileStationCapabilities ==
    Prepare(filestation_APINames \union filestation_MutationAPINames) \o
    Report(<<filestation_info, filestation_list, filestation_search, filestation_dirSize,
    filestation_md5, filestation_virtualFolder, filestation_checkPermission,
    filestation_download, filestation_thumb, filestation_upload, filestation_createFolder,
    filestation_rename, filestation_copyMove, filestation_delete, filestation_compress,
    filestation_extract, filestation_favoriteList, filestation_sharingList,
    filestation_backgroundTaskList>>)

\* synology/filestation_mutation.go
ApplyFileStationChange ==
    Prepare(filestation_APINames \union filestation_MutationAPINames) \o
    Choice(<<Run(filestation_createFolder), Run(filestation_rename), Run(filestation_copyMove),
    Run(filestation_delete), Run(filestation_compress), Run(filestation_extract),
    Run(filestation_sharingCreate), Run(filestation_sharingDelete),
    Run(filestation_sharingEdit), Run(filestation_sharingClearInvalid),
    Run(filestation_backgroundTaskClearFinished)>>)
FileStationSharingList ==
    Prepare(filestation_APINames \union filestation_MutationAPINames) \o
    Run(filestation_sharingList)
FileStationBackgroundTasks ==
    Prepare(filestation_APINames \union filestation_MutationAPINames) \o
    Run(filestation_backgroundTaskList)
FileStationFavoriteList ==
    Prepare(filestation_APINames \union filestation_MutationAPINames) \o
    Run(filestation_favoriteList)
FileStationFavoriteAdd ==
    Prepare(filestation_APINames \union filestation_MutationAPINames) \o
    Run(filestation_favoriteAdd)
FileStationFavoriteDelete ==
    Prepare(filestation_APINames \union filestation_MutationAPINames) \o
    Run(filestation_favoriteDelete)

\* synology/filestation_transport.go
prepareTransferLocked(operation) ==
    Prepare(filestation_APINames \union filestation_MutationAPINames) \o Require(operation)
UploadFile ==
    prepareTransferLocked(filestation_upload) \o Either(Request("FileStation.Upload", 0,
    Send("upload")), Request("FileStation.Upload", 0, Once(Send("upload"))))
DownloadFile ==
    prepareTransferLocked(filestation_download) \o Request("FileStation.Download", 0,
    Send("download"))
FileStationThumbnail ==
    prepareTransferLocked(filestation_thumb) \o Request("FileStation.Thumb", 0, Send("get"))

\* synology/identity.go
identityStateLocked(details) ==
    Run(identityinventory_user) \o Run(identityinventory_group) \o details
IdentityState ==
    Either(Prepare(identityinventory_APINames) \o identityStateLocked(Nothing),
    Prepare(identityinventory_APINames \union identitymembership_APINames \union
    identityquota_APINames \union identityappprivilege_APINames) \o
    identityStateLocked(Maybe(Run(identitymembership_read)) \o
    Maybe(Repeat(Run(identityquota_read))) \o Maybe(Run(identityappprivilege_appList) \o
    Repeat(Run(identityappprivilege_ruleRead)))))
ApplicationPrivilegePreview ==
    Prepare(identityappprivilege_APINames) \o Run(identityappprivilege_preview)
IdentityCapabilities ==
    Prepare(identityappprivilege_APINames \union identityinventory_APINames \union
    identitymembership_APINames \union identityquota_APINames) \o
    Report(<<identitymutation_user, identitymutation_group, identitymembership_read,
    identitymembership_change, identityquota_read, identityquota_set>>)
ApplyIdentityChange ==
    Prepare(identitymutation_APINames \union identitymembership_APINames \union
    identityquota_APINames \union identityappprivilege_APINames) \o
    Choice(<<Run(identitymutation_user), Run(identitymutation_group),
    identityStateLocked(Run(identitymembership_read)) \o Run(identitymembership_change),
    Run(identityquota_set), Run(identityappprivilege_ruleSet)>>)

\* synology/nfsexport.go
NFSExportState == Prepare(nfsexport_APINames) \o Run(nfsexport_read)
NFSExportCapabilities == Prepare(nfsexport_APINames) \o Report(<<nfsexport_read, nfsexport_set>>)
ApplyNFSExportChange == Prepare(nfsexport_APINames) \o Run(nfsexport_read) \o Run(nfsexport_set)

\* synology/san.go
SANState == Prepare(saninventory_APINames) \o Run(saninventory_target) \o Run(saninventory_lun)
SANCapabilities ==
    Prepare(saninventory_APINames \union sanmutation_APINames) \o Report(<<saninventory_target,
    saninventory_lun, sanmutation_targetCreate, sanmutation_targetUpdate,
    sanmutation_targetDelete, sanmutation_lunCreate, sanmutation_lunUpdate,
    sanmutation_lunDelete, sanmutation_mappingAttach, sanmutation_mappingDetach>>)
ApplySANChange ==
    Prepare(sanmutation_APINames) \o Choice(<<Run(sanmutation_targetCreate),
    Run(sanmutation_targetUpdate), Run(sanmutation_targetDelete), Run(sanmutation_lunCreate),
    Run(sanmutation_lunUpdate), Run(sanmutation_lunDelete), Run(sanmutation_mappingAttach),
    Run(sanmutation_mappingDetach)>>)

\* synology/share.go
ShareState ==
    Either(Prepare(shareinventory_APINames) \o Run(shareinventory_share),
    Prepare(shareinventory_APINames \union identityinventory_APINames) \o
    identityStateLocked(Nothing) \o Run(shareinventory_share) \o
    Require(shareinventory_permission) \o Repeat(Run(shareinventory_permission)))
ShareStateForPrincipals ==
    Prepare(shareinventory_APINames) \o Run(shareinventory_share) \o
    Require(shareinventory_permission) \o Repeat(Run(shareinventory_permission))
ShareCapabilities ==
    Prepare(identityinventory_APINames \union shareinventory_APINames) \o
    Report(<<shareinventory_share, shareinventory_permission, sharemutation_share,
    sharemutation_permission>>)
ApplyShareChange ==
    Prepare(sharemutation_APINames) \o Choice(<<Maybe(Run(shareinventory_share)) \o
    Run(sharemutation_share), Run(sharemutation_permission)>>)

\* synology/storage.go
StorageState ==
    Prepare(storageinventory_APINames \union storagemodelconstraints_APINames \union
    storageflashcachemutation_APINames \union {"Storage.CGI.Cache.Protection"}) \o
    Run(storageinventory_operation) \o Report(<<storageflashcachemutation_create,
    storageflashcachemutation_delete>>) \o RunIfSupported(storagemodelconstraints_operation)
StorageCapabilities ==
    Prepare(storageflashcachemutation_APINames \union storageinventory_APINames \union
    storagemodelconstraints_APINames \union storagepoolmutation_APINames \union
    volumemutation_APINames \union {"Storage.CGI.Cache.Protection"}) \o
    Report(<<storageinventory_operation, storagemodelconstraints_operation>>)
applyStoragePoolChange ==
    Prepare(storagepoolmutation_APINames) \o Choice(<<Run(storagepoolmutation_create),
    Run(storagepoolmutation_expand), Run(storagepoolmutation_delete)>>)
applyVolumeChange ==
    Prepare(volumemutation_APINames) \o Choice(<<Run(volumemutation_create),
    Run(volumemutation_expand), Run(volumemutation_delete)>>)
applyCacheChange ==
    Prepare(storageflashcachemutation_APINames) \o Choice(<<Request("Storage.CGI.Flashcache", 1,
    Send("estimate_raid_size")) \o Run(storageflashcachemutation_create),
    Run(storageflashcachemutation_delete)>>)
ApplyStorageChange == Choice(<<applyStoragePoolChange, applyVolumeChange, applyCacheChange>>)

=============================================================================
