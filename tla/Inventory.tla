----------------------------- MODULE Inventory -----------------------------
(***************************************************************************)
(* The ECU inventory (type /TML/TCU/ECUI): the synchronisation with the    *)
(* copy of the OEM partition at boot (tmpl_updateagent.cpp:189-271) and    *)
(* the install of a new inventory (275-342, 1522-1552), on a file system   *)
(* that can lose what was not synchronised when the power fails.           *)
(*                                                                         *)
(* A file holds a version of the inventory, or nothing that parses.        *)
(***************************************************************************)
EXTENDS Integers

Absent == -1        \* there is no such file
Broken == -2        \* truncated or partly written: json_object_from_file fails

CONSTANTS
    Versions,       \* inventory-file-version; 0 is "0.0", the default
    OemContents,    \* what may be on the OEM partition
    IoFaults,       \* the calls that may fail, or copy less than they report
    MaxInstalls, MaxCrashes     \* bounds

IoFaultKinds == {"mkdir", "boot_copy", "copy", "short_copy", "fsync", "rename", "verify"}
Contents == Versions \cup {Absent, Broken}

ASSUME InventoryAssumption ==
    /\ Versions \subseteq Nat
    /\ OemContents \subseteq Contents
    /\ IoFaults \subseteq IoFaultKinds
    /\ MaxInstalls \in Nat /\ MaxCrashes \in Nat

VARIABLES
    file,           \* the content of each file
    unsynced,       \* the files whose content is not on the medium yet
    replaced,       \* the inventory a rename not on the medium yet replaced
    location,       \* inventory_file_location
    pc,             \* where main or the worker is
    version,        \* ctl->version
    result,         \* what the last install returned
    installs, crashes,
    before          \* history: the inventory when the install began

vars == <<file, unsynced, replaced, location, pc, version, result, installs,
          crashes, before>>

\* The paths of the code; "data" is <cache>/ecu_config/inventory.json.
Paths == {"oem", "data", "tmp", "backup", "download"}
NotReplaced == -3

BootPoints == {"boot", "boot_copy", "boot_versions", "boot_replace"}
InstallPoints == {"unzipped", "tmp_copy", "fsync", "backup_copy", "rename", "sync",
                  "verify", "restore", "check"}

\* The type invariant.
InventoryTypeOK ==
    /\ file \in [Paths -> Contents]
    /\ unsynced \subseteq Paths
    /\ replaced \in Contents \cup {NotReplaced}
    /\ location \in {"oem", "data"}
    /\ pc \in BootPoints \cup InstallPoints \cup {"idle"}
    /\ version \in Versions \cup {Absent}
    /\ result \in {"NONE", "INSTALL_FAILED", "INSTALL_COMPLETED"}
    /\ installs \in Nat /\ crashes \in Nat
    /\ before \in Contents

InventoryInit ==
    /\ file \in { [p \in Paths |-> CASE p = "oem" -> oem
                                     [] p = "data" -> data
                                     [] OTHER -> Absent] :
                  oem \in OemContents, data \in Versions \cup {Absent} }
    /\ unsynced = {} /\ replaced = NotReplaced
    /\ location = "data"
    /\ pc = "boot"
    /\ version = Absent /\ result = "NONE"
    /\ installs = 0 /\ crashes = 0
    /\ before = Absent

-----------------------------------------------------------------------------
(* The file system.                                                        *)

\* copy_file truncates its destination, fills it, and removes nothing when it
\* fails half way or finds no source.  A read error and a failed fclose are not
\* looked at: the copy is then short, and reported as done.
Truncate(dest) ==
    /\ file' = [file EXCEPT ![dest] = Broken]
    /\ unsynced' = unsynced \cup {dest}

Fill(src, dest) ==
    /\ \/ file' = [file EXCEPT ![dest] = file[src]]
       \/ "short_copy" \in IoFaults /\ UNCHANGED file
    /\ UNCHANGED unsynced

KeepFiles == UNCHANGED <<file, unsynced, replaced>>
Goto(point) == pc' = point
Current == file[location]

\* The power fails: what was not synchronised is kept or torn, and a rename
\* not yet on the medium is kept or undone.
Crash ==
    /\ crashes < MaxCrashes
    /\ crashes' = crashes + 1
    /\ \E torn \in SUBSET unsynced :
        \/ file' = [p \in Paths |-> IF p \in torn THEN Broken ELSE file[p]]
        \/ /\ replaced # NotReplaced
           /\ file' = [p \in Paths |-> CASE p = location -> replaced
                                         [] p = "tmp" -> Current
                                         [] p \in torn \ {location, "tmp"} -> Broken
                                         [] OTHER -> file[p]]
    /\ unsynced' = {} /\ replaced' = NotReplaced
    /\ location' = "data" /\ pc' = "boot"
    /\ version' = Absent /\ result' = "NONE"
    /\ UNCHANGED <<installs, before>>

-----------------------------------------------------------------------------
(* sync_inventory_on_boot.                                                 *)

bootVars == <<version, result, installs, crashes, before>>

\* Without the data directory or an OEM inventory it leaves all as it is.
SyncInventoryOnBoot ==
    /\ pc = "boot"
    /\ \/ /\ "mkdir" \in IoFaults \/ file["oem"] = Absent
          /\ Goto("idle") /\ KeepFiles
       \/ /\ file["oem"] # Absent /\ file["data"] = Absent
          /\ Goto("boot_copy")
          /\ Truncate("data") /\ UNCHANGED replaced
       \/ /\ file["oem"] # Absent /\ file["data"] # Absent
          /\ Goto("boot_versions") /\ KeepFiles
    /\ UNCHANGED <<location, bootVars>>

BootCopy ==
    /\ pc = "boot_copy"
    /\ \/ Goto("boot_versions") /\ Fill("oem", "data")
       \/ "boot_copy" \in IoFaults /\ Goto("idle") /\ UNCHANGED <<file, unsynced>>
    /\ UNCHANGED <<replaced, location, bootVars>>

\* data_path is a pointer to inventory_file_location, which the first strncpy
\* sets to the OEM path: both versions are read there, and it stays there.
BootVersions ==
    /\ pc = "boot_versions"
    /\ location' = "oem"
    /\ LET data_path == location'
           oem_ver == file["oem"]
           data_ver == file[data_path]
       IN  \/ /\ oem_ver = Broken \/ data_ver = Broken \/ oem_ver > data_ver
              /\ Goto("boot_replace") /\ Truncate(data_path)
           \/ /\ oem_ver # Broken /\ data_ver # Broken /\ oem_ver <= data_ver
              /\ Goto("idle") /\ UNCHANGED <<file, unsynced>>
    /\ UNCHANGED <<replaced, bootVars>>

\* copy_file(oem_path, data_path), the destination already truncated.
BootReplace ==
    /\ pc = "boot_replace"
    /\ Goto("idle") /\ Fill("oem", location)
    /\ UNCHANGED <<replaced, location, bootVars>>

-----------------------------------------------------------------------------
(* The install.                                                            *)

installVars == <<location, version, installs, crashes, before>>

Fail == pc' = "idle" /\ result' = "INSTALL_FAILED"
Continue(point) == Goto(point) /\ UNCHANGED result

\* Mutant: a package may be deployed without a version.
InstallUnversioned ==
    /\ pc = "idle" /\ installs < MaxInstalls
    /\ installs' = installs + 1
    /\ before' = Current
    /\ version' \in Versions \cup {Broken}
    /\ Fail
    /\ UNCHANGED <<file, unsynced, replaced, location, crashes>>

\* A package that is missing or does not unzip fails; the others may hold any
\* inventory, and the version they are deployed as may not be its own.
Install ==
    /\ pc = "idle" /\ installs < MaxInstalls
    /\ installs' = installs + 1
    /\ before' = Current
    /\ version' \in Versions
    /\ \/ Fail /\ UNCHANGED <<file, unsynced>>
       \/ /\ pc' = "unzipped" /\ result' = "NONE"
          /\ \E c \in Versions \cup {Broken} : file' = [file EXCEPT !["download"] = c]
          /\ unsynced' = unsynced \cup {"download"}
    /\ UNCHANGED <<replaced, location, crashes>>

Unzipped ==
    /\ pc = "unzipped"
    /\ \/ file["download"] = Broken /\ Fail /\ UNCHANGED <<file, unsynced>>
       \/ file["download"] # Broken /\ Continue("tmp_copy") /\ Truncate("tmp")
    /\ UNCHANGED <<replaced, installVars>>

TmpCopy ==
    /\ pc = "tmp_copy"
    /\ \/ Continue("fsync") /\ Fill("download", "tmp")
       \/ "copy" \in IoFaults /\ Fail /\ UNCHANGED <<file, unsynced>>
    /\ UNCHANGED <<replaced, installVars>>

\* Mutant: the temporary file is not forced to the medium.
FsyncNot ==
    /\ pc = "fsync"
    /\ Continue("backup_copy") /\ Truncate("backup")
    /\ UNCHANGED <<replaced, installVars>>

Fsync ==
    /\ pc = "fsync"
    /\ \/ /\ Continue("backup_copy")
          /\ file' = [file EXCEPT !["backup"] = Broken]
          /\ unsynced' = (unsynced \ {"tmp"}) \cup {"backup"}
       \/ "fsync" \in IoFaults /\ Fail /\ UNCHANGED <<file, unsynced>>
    /\ UNCHANGED <<replaced, installVars>>

RemoveTmp ==
    /\ file' = [file EXCEPT !["tmp"] = Absent]
    /\ unsynced' = unsynced \ {"tmp"}

\* Mutant: the backup is made of the new inventory.
BackupCopyOfNew ==
    /\ pc = "backup_copy"
    /\ \/ Current # Absent /\ Continue("rename") /\ Fill("tmp", "backup")
       \/ /\ Current = Absent \/ "copy" \in IoFaults
          /\ Fail /\ RemoveTmp
    /\ UNCHANGED <<replaced, installVars>>

\* Without an inventory in place there is nothing to back up, and it fails.
BackupCopy ==
    /\ pc = "backup_copy"
    /\ \/ Current # Absent /\ Continue("rename") /\ Fill(location, "backup")
       \/ /\ Current = Absent \/ "copy" \in IoFaults
          /\ Fail /\ RemoveTmp
    /\ UNCHANGED <<replaced, installVars>>

Rename ==
    /\ pc = "rename"
    /\ \/ /\ Continue("sync")
          /\ file' = [file EXCEPT ![location] = file["tmp"], !["tmp"] = Absent]
          /\ unsynced' = (unsynced \ {"tmp", location})
                         \cup (IF "tmp" \in unsynced THEN {location} ELSE {})
          /\ replaced' = Current
       \/ "rename" \in IoFaults /\ Fail /\ RemoveTmp /\ UNCHANGED replaced
    /\ UNCHANGED installVars

\* Mutant: the content is forced to the medium, the directory entry is not.
SyncContentOnly ==
    /\ pc = "sync"
    /\ Continue("verify")
    /\ unsynced' = {}
    /\ UNCHANGED <<replaced, file, installVars>>

Sync ==
    /\ pc = "sync"
    /\ Continue("verify")
    /\ unsynced' = {} /\ replaced' = NotReplaced
    /\ UNCHANGED <<file, installVars>>

\* compare_md5sum, and what the restoring copy begins with: the truncation, unless
\* it cannot open the files.
Verify ==
    /\ pc = "verify"
    /\ \/ Current = file["download"] /\ Continue("check") /\ UNCHANGED <<file, unsynced>>
       \/ /\ Current # file["download"] \/ "verify" \in IoFaults
          /\ \/ Continue("restore") /\ Truncate(location)
             \/ "copy" \in IoFaults /\ Fail /\ RemoveTmp
    /\ UNCHANGED <<replaced, installVars>>

\* The result of the restoring copy is not looked at.
Restore ==
    /\ pc = "restore" /\ Fail
    /\ \/ file' = [file EXCEPT ![location] = file["backup"], !["tmp"] = Absent]
       \/ /\ {"copy", "short_copy"} \cap IoFaults # {}
          /\ file' = [file EXCEPT !["tmp"] = Absent]
    /\ UNCHANGED <<unsynced, replaced, installVars>>

\* Mutant: the version of the package is trusted.
CheckNot ==
    /\ pc = "check"
    /\ pc' = "idle" /\ result' = "INSTALL_COMPLETED"
    /\ KeepFiles /\ UNCHANGED installVars

\* The handler fails an inventory of another version, and leaves it in place.
Check ==
    /\ pc = "check"
    /\ \/ Current = version /\ pc' = "idle" /\ result' = "INSTALL_COMPLETED"
       \/ Current # version /\ Fail
    /\ KeepFiles /\ UNCHANGED installVars

\* do_tcu_post_install removes the cache directory.
PostInstall ==
    /\ pc = "idle" /\ result # "NONE"
    /\ file' = [file EXCEPT !["download"] = Absent]
    /\ unsynced' = unsynced \ {"download"}
    /\ UNCHANGED <<replaced, pc, result, installVars>>

Boot == SyncInventoryOnBoot \/ BootCopy \/ BootVersions \/ BootReplace

UpdateInventoryFile ==
    \/ Unzipped \/ TmpCopy \/ Fsync \/ BackupCopy \/ Rename \/ Sync
    \/ Verify \/ Restore \/ Check

InventoryNext == Boot \/ Install \/ UpdateInventoryFile \/ PostInstall \/ Crash

InventorySpec == InventoryInit /\ [][InventoryNext]_vars

-----------------------------------------------------------------------------
(* Properties.                                                             *)

\* While an install runs and after it, whenever the power failed, the inventory
\* in place is the one before the install or the one it brings: never a torn
\* one.  This is what the fsync and the rename of tmpl_updateagent.cpp:299-330
\* are for.  A start-up ends with an inventory that is whole, or with none.
OldOrNew ==
    /\ pc \in InstallPoints => Current \in {before, file["download"]}
    /\ pc \notin BootPoints => Current # Broken

\* The inventory of before is in the backup: torn only by a copy that comes out
\* short and is reported as done (util.cpp:123-133).
BackedUp == file["backup"] = before \/ ("short_copy" \in IoFaults /\ file["backup"] = Broken)

\* An install that update_inventory_file refuses leaves the inventory as it was,
\* wherever it failed.  The one exception is a restoring copy that fails or comes
\* out short (tmpl_updateagent.cpp:336): then the inventory is still in the backup.
FailedUpdateKeeps ==
    [][(pc \in InstallPoints \ {"check"} /\ pc' = "idle")
        => \/ Current' = before
           \/ BackedUp' /\ (pc = "verify" \/ (pc = "restore" /\ Current' = Broken))]_vars

\* An inventory whose install was reported complete survives a power failure, at
\* once and at any later time, whatever failed in the installs before
\* (tmpl_updateagent.cpp:323-330, 1540-1544).
CompletedSurvives ==
    [][(result = "INSTALL_COMPLETED" /\ crashes' # crashes) => file'[location] = version]_vars

InUse == IF file["oem"] = Absent THEN file["data"] ELSE file["oem"]
Reported == IF result = "INSTALL_COMPLETED" THEN version ELSE NotReplaced

Durable == INSTANCE DurableInventory
           WITH NoInventory <- Absent, Nothing <- NotReplaced,
                inUse <- InUse, undo <- replaced, complete <- Reported

\* The copies, the rename and the synchronisations of update_inventory_file and of
\* the start-up (tmpl_updateagent.cpp:189-342) amount to one replacement that a
\* power failure either keeps or takes back, and that is reported when it is kept.
ImplementsDurable == Durable!DurableSpec

\* After a start-up that could do its work the agent's inventory is at least as
\* new as that of the OEM partition: "Function to sync inventory from
\* /oemapp/esync/ecu_config to /emmc/misc/data/ecu_config".
DataFollowsOem ==
    [][(pc \in BootPoints /\ pc' = "idle" /\ file["oem"] \in Versions)
        => file["data"]' >= file["oem"]]_vars
=============================================================================
