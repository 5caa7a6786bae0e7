---------------------------- MODULE ResourceOperations ----------------------------
(***************************************************************************)
(* The DSM operations of storage, shares, identities, SAN and File Station:*)
(* one definition for every Operation variable of the packages under       *)
(* internal/synology/operations, with its variants, what each variant      *)
(* needs of the NAS and the requests its Execute sends, and one for every  *)
(* APINames function.  The encoding of parameters and the decoding of      *)
(* answers are left out.                                                   *)
(***************************************************************************)
EXTENDS ControlPanelOperations

\* operations/disksmart
disksmart_health == One("Core.Storage.Disk", 1, {<<Read("list")>>})
disksmart_thresholds == One("Storage.CGI.HddMan", 1, {<<Read("get")>>})
disksmart_attribute == One("Storage.CGI.Smart", 1, {<<Read("get_health_info")>>})
disksmart_testLog == One("Core.Storage.Disk", 1, {<<Read("get_smart_test_log")>>})
disksmart_APINames == {"Core.Storage.Disk", "Storage.CGI.HddMan", "Storage.CGI.Smart"}

\* operations/filestation
filestation_createFolder == One("FileStation.CreateFolder", 2, {<<Send("create")>>})
filestation_rename == One("FileStation.Rename", 2, {<<Send("rename")>>})
filestation_copyMove == One("FileStation.CopyMove", 3, {StartAndPoll})
filestation_delete == One("FileStation.Delete", 2, {StartAndPoll})
filestation_compress == One("FileStation.Compress", 3, {StartAndPoll})
filestation_extract == One("FileStation.Extract", 2, {StartAndPoll})
filestation_favoriteList == One("FileStation.Favorite", 2, {<<Send("list")>>})
filestation_favoriteAdd == One("FileStation.Favorite", 2, {<<Send("add")>>})
filestation_favoriteDelete == One("FileStation.Favorite", 2, {<<Send("delete")>>})
filestation_info == One("FileStation.Info", 2, {<<Send("get")>>})
filestation_listShare == One("FileStation.List", 2, {<<Send("list_share")>>})
filestation_list == One("FileStation.List", 2, {<<Send("list")>>})
filestation_getInfo == One("FileStation.List", 2, {<<Send("getinfo")>>})
filestation_virtualFolder == One("FileStation.VirtualFolder", 2, {<<Send("list")>>})
filestation_search ==
    One("FileStation.Search", 2, {<<Send("start"), Each(Quiet(Send("list"))),
    Quiet(Send("clean"))>>})
filestation_dirSize ==
    One("FileStation.DirSize", 2, Rounds(<<Send("start"), Each(Quiet(Send("status"))),
    Quiet(Send("stop"))>>))
filestation_md5 == One("FileStation.MD5", 2, Rounds(<<Send("start"), Each(Quiet(Send("status")))>>))
filestation_checkPermission == One("FileStation.CheckPermission", 3, {<<Send("write")>>})
filestation_sharingList == One("FileStation.Sharing", 3, {<<Send("list")>>})
filestation_sharingCreate == One("FileStation.Sharing", 3, {<<Send("create")>>})
filestation_sharingDelete == One("FileStation.Sharing", 3, {<<Send("delete")>>})
filestation_sharingEdit == One("FileStation.Sharing", 3, {<<Send("edit")>>})
filestation_sharingClearInvalid == One("FileStation.Sharing", 3, {<<Send("clear_invalid")>>})
filestation_backgroundTaskList == One("FileStation.BackgroundTask", 3, {<<Send("list")>>})
filestation_backgroundTaskClearFinished ==
    One("FileStation.BackgroundTask", 3, {<<Send("clear_finished")>>})
filestation_upload == One("FileStation.Upload", 2, {<<>>})
filestation_download == One("FileStation.Download", 2, {<<>>})
filestation_thumb == One("FileStation.Thumb", 2, {<<>>})
filestation_MutationAPINames ==
    {"FileStation.BackgroundTask", "FileStation.Compress", "FileStation.CopyMove",
    "FileStation.CreateFolder", "FileStation.Delete", "FileStation.Extract",
    "FileStation.Favorite", "FileStation.Rename", "FileStation.Sharing"}
filestation_APINames ==
    {"FileStation.CheckPermission", "FileStation.DirSize", "FileStation.Download",
    "FileStation.Info", "FileStation.List", "FileStation.MD5", "FileStation.Search",
    "FileStation.Thumb", "FileStation.Upload", "FileStation.VirtualFolder"}

\* operations/identityappprivilege
identityappprivilege_appList == One("Core.AppPriv.App", 2, {<<Send("list")>>})
identityappprivilege_ruleRead == One("Core.AppPriv.Rule", 1, {<<Send("get")>>})
identityappprivilege_preview == One("Core.AppPriv.App", 2, {<<Send("preview")>>})
identityappprivilege_ruleSet ==
    One("Core.AppPriv.Rule", 1, {<<>>, <<Send("delete")>>, <<Send("set")>>, <<Send("delete"),
    Send("set")>>})
identityappprivilege_APINames == {"Core.AppPriv.App", "Core.AppPriv.Rule"}

\* operations/identityinventory
identityinventory_user == One("Core.User", 1, {<<Send("list")>>})
identityinventory_group == One("Core.Group", 1, {<<Send("list"), Each(Send("get"))>>})
identityinventory_APINames == {"Core.Group", "Core.User"}

\* operations/identitymembership
identitymembership_read == One("Core.Group.Member", 1, {<<Each(Send("list"))>>})
identitymembership_change ==
    One("Core.Group.Member", 1, {<<Each(Send("change")), Each(Send("change"))>>})
identitymembership_APINames == {"Core.Group.Member"}

\* operations/identitymutation
identitymutation_user == One("Core.User", 1, {<<OneOf({"create", "set", "delete"})>>})
identitymutation_group == One("Core.Group", 1, {<<OneOf({"create", "set", "delete"})>>})
identitymutation_APINames == {"Core.Group", "Core.User"}

\* operations/identityquota
identityquota_read == One("Core.Quota", 1, {<<Send("get")>>})
identityquota_set == One("Core.Quota", 1, {<<Send("set")>>})
identityquota_APINames == {"Core.Quota"}

\* operations/saninventory
saninventory_target == One("Core.ISCSI.Target", 1, {<<Send("list")>>})
saninventory_lun == One("Core.ISCSI.LUN", 1, {<<Send("list")>>})
saninventory_APINames == {"Core.ISCSI.LUN", "Core.ISCSI.Target"}

\* operations/sanmutation
sanmutation_targetVariant(method, priority) ==
    Ranked("Core.ISCSI.Target", 1, priority, {<<Send(method)>>})
sanmutation_targetCreate == sanmutation_targetVariant("create", 10)
sanmutation_targetUpdate == One("Core.ISCSI.Target", 1, {<<OneOf({"set", "enable", "disable"})>>})
sanmutation_targetDelete == sanmutation_targetVariant("delete", 10)
sanmutation_lunVariant(method, priority) ==
    Ranked("Core.ISCSI.LUN", 1, priority, {<<Send(method)>>})
sanmutation_lunCreate == sanmutation_lunVariant("create", 10)
sanmutation_lunUpdate == sanmutation_lunVariant("set", 10)
sanmutation_lunDelete == sanmutation_lunVariant("delete", 10)
sanmutation_mappingAttach == One("Core.ISCSI.LUN", 1, {<<Send("map_target")>>})
sanmutation_mappingDetach == One("Core.ISCSI.LUN", 1, {<<Send("unmap_target")>>})
sanmutation_APINames == {"Core.ISCSI.LUN", "Core.ISCSI.Target"}

\* operations/shareinventory
shareinventory_share == One("Core.Share", 1, {<<Send("list")>>})
shareinventory_permission ==
    One("Core.Share.Permission", 1, {<<OneOf({"list_by_user", "list_by_group"})>>})
shareinventory_APINames == {"Core.Share", "Core.Share.Permission"}

\* operations/sharemutation
sharemutation_share == One("Core.Share", 1, {<<OneOf({"create", "set", "delete"})>>})
sharemutation_permission == One("Core.Share.Permission", 1, {<<Send("set_by_user_group")>>})
sharemutation_APINames == {"Core.Share", "Core.Share.Permission"}

\* operations/storageflashcachemutation
storageflashcachemutation_create == One("Storage.CGI.Flashcache", 1, {<<Send("enable")>>})
storageflashcachemutation_delete == One("Storage.CGI.Flashcache", 1, {<<Send("remove")>>})
storageflashcachemutation_APINames == {"Storage.CGI.Flashcache"}

\* operations/storageinventory
storageinventory_operation == One("Storage.CGI.Storage", 1, {<<Send("load_info")>>})
storageinventory_APINames == {"Storage.CGI.Storage"}

\* operations/storagemodelconstraints
storagemodelconstraints_operation == One("Core.Desktop.Defs", 1, {<<Send("getjs")>>})
storagemodelconstraints_APINames == {"Core.Desktop.Defs"}

\* operations/storagepoolmutation
storagepoolmutation_create == One("Storage.CGI.Pool", 1, {<<Send("create")>>})
storagepoolmutation_expand == One("Storage.CGI.Pool", 1, {<<Send("expand_by_add_disk")>>})
storagepoolmutation_delete == One("Storage.CGI.Pool", 1, {<<Send("remove")>>})
storagepoolmutation_APINames == {"Storage.CGI.Pool"}

\* operations/volumemutation
volumemutation_create ==
    One("Storage.CGI.Volume", 1, {<<OneOf({"create_on_existing_pool", "deploy_unused"})>>})
volumemutation_expand ==
    One("Storage.CGI.Volume", 1, {<<OneOf({"expand_pool_child", "expand_unallocated"})>>})
volumemutation_delete == One("Storage.CGI.Volume", 1, {<<Send("delete")>>})
volumemutation_APINames == {"Storage.CGI.Volume"}

=============================================================================
