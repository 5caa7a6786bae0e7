---------------------------- MODULE ResourceServices ----------------------------
(***************************************************************************)
(* The methods of application.Service for storage, SAN, shares, identities *)
(* and File Station, and the functions they are made of: one definition    *)
(* each, the client methods it calls in the order of the code. The checks  *)
(* in between that refuse a request are not told apart: a program may end  *)
(* with an error at every step (LocalError in Dispatch).                   *)
(***************************************************************************)
EXTENDS ControlPanelServices

\* application/disksmart.go
GetDiskSMARTCapabilities == DiskSMARTCapabilities
GetDiskHealth == DiskHealth
GetDiskSMARTAttributes == DiskSMARTAttributes

\* application/effective_access.go
ExplainEffectiveAccess ==
    IdentityState \o Maybe(Either(ShareStateForPrincipals, ApplicationPrivilegePreview))

\* application/externaldevice.go
GetExternalDeviceCapabilities == ExternalDeviceCapabilitiesState
GetExternalStorage == ExternalStorage
GetExternalPrinters == ExternalPrinters

\* application/file_station.go
GetFileStationCapabilities == FileStationCapabilities
GetFileStationInfo == FileStationInfoState
ListFileStationShares == FileStationListShares
ListFileStationDirectory == FileStationList
GetFileStationEntryInfo == FileStationGetInfo
SearchFileStation == FileStationSearch
GetFileStationDirSize == FileStationDirSize
GetFileStationMD5 == FileStationMD5
ListFileStationVirtualFolders == FileStationVirtualFolders
DownloadFileStationFile == DownloadFile
ReadFileStationFile == DownloadFile
DownloadFileStationThumbnail == FileStationThumbnail
ReadFileStationThumbnail == FileStationThumbnail
CheckFileStationPermission == FileStationCheckPermission

\* application/file_station_mutation.go
observePath == FileStationGetInfo
observeSharingLink == FileStationSharingList
buildFilePrecondition == Either(Repeat(observePath), observeSharingLink)
planFileChangeWithClient == FileStationCapabilities \o buildFilePrecondition
PlanFileStationChange == planFileChangeWithClient
applyUpload == UploadFile
verifyFilePostcondition ==
    Choice(<<Repeat(observePath), FileStationSharingList, observeSharingLink,
    FileStationBackgroundTasks>>)
ApplyFileStationPlan ==
    planFileChangeWithClient \o Either(applyUpload, ApplyFileStationChange) \o
    verifyFilePostcondition
GetFileStationFavorites == FileStationFavoriteList
AddFileStationFavorite == FileStationFavoriteAdd \o FileStationFavoriteList
RemoveFileStationFavorite == FileStationFavoriteDelete \o FileStationFavoriteList
GetFileStationSharingLinks == FileStationSharingList
GetFileStationBackgroundTasks == FileStationBackgroundTasks

\* application/management.go
PlanIdentityChange == IdentityState
ApplyIdentityPlan == PlanIdentityChange \o ApplyIdentityChange \o IdentityState
PlanShareChange == ShareState \o Maybe(IdentityState)
ApplySharePlan == PlanShareChange \o ApplyShareChange \o ShareState

\* application/nfs_export.go
GetNFSExportState == NFSExportState
GetNFSExportCapabilities == NFSExportCapabilities
planNFSExportChangeWithClient == NFSExportCapabilities \o NFSExportState
PlanNFSExportChange == planNFSExportChangeWithClient
applyNFSExportPlanWithClient ==
    planNFSExportChangeWithClient \o ApplyNFSExportChange \o NFSExportState
ApplyNFSExportPlan == applyNFSExportPlanWithClient

\* application/san_management.go
PlanSANChange == SANState \o Maybe(StorageState)
sanFailureResult == Attempt(SANState) \o Fail
waitForSANPostcondition == Attempt(SANState) \o Repeat(Attempt(SANState))
ApplySANPlan ==
    SANState \o Maybe(StorageState) \o OnError(ApplySANChange, sanFailureResult) \o
    waitForSANPostcondition

\* application/storage_management.go
planStorageChangeWithClient == StorageCapabilities \o StorageState
PlanStorageChange == planStorageChangeWithClient
applyStoragePlanWithClient ==
    StorageCapabilities \o StorageState \o ApplyStorageChange \o StorageState
ApplyStoragePlan == applyStoragePlanWithClient

=============================================================================
