-------------------------- MODULE InventoryProofs --------------------------
(***************************************************************************)
(* Proofs about Inventory: it keeps its types, and the inventory in place  *)
(* is the old or the new one whenever the power fails.                     *)
(***************************************************************************)
EXTENDS Inventory, TLAPS

\* The faults OldOrNew is claimed without: the restore of a file that does not
\* verify, as after a short copy, is not atomic, and a start-up that fails may
\* leave a torn copy.
AtomicFaults == {"mkdir", "boot_copy", "verify", "short_copy"}

-----------------------------------------------------------------------------
(* Types.                                                                  *)

LEMMA InitType ==
    ASSUME InventoryInit PROVE InventoryTypeOK
PROOF
<1>1. PICK oem \in OemContents, data \in Versions \cup {Absent} :
        file = [p \in Paths |-> CASE p = "oem" -> oem
                                  [] p = "data" -> data
                                  [] OTHER -> Absent]
    BY DEF InventoryInit
<1>2. file \in [Paths -> Contents]
    BY <1>1, InventoryAssumption DEF Contents
<1> QED
    BY <1>2 DEF InventoryInit, InventoryTypeOK, BootPoints, Contents

LEMMA BootType ==
    ASSUME InventoryTypeOK, Boot PROVE InventoryTypeOK'
PROOF
<1> USE DEF InventoryTypeOK, bootVars, KeepFiles, Goto, Truncate, Fill, BootPoints,
            Paths, Contents
<1>1. CASE SyncInventoryOnBoot BY <1>1 DEF SyncInventoryOnBoot
<1>2. CASE BootCopy BY <1>2 DEF BootCopy
<1>3. CASE BootVersions BY <1>3 DEF BootVersions
<1>4. CASE BootReplace BY <1>4 DEF BootReplace
<1> QED BY <1>1, <1>2, <1>3, <1>4 DEF Boot

LEMMA InstallType ==
    ASSUME InventoryTypeOK, Install PROVE InventoryTypeOK'
PROOF
<1> USE DEF InventoryTypeOK, Install, Fail, Paths, Contents, InstallPoints, Current
<1>1. installs' \in Nat /\ before' \in Contents /\ version' \in Versions
    OBVIOUS
<1>2. file' \in [Paths -> Contents] /\ unsynced' \subseteq Paths
    OBVIOUS
<1>3. /\ pc' \in BootPoints \cup InstallPoints \cup {"idle"}
      /\ result' \in {"NONE", "INSTALL_FAILED", "INSTALL_COMPLETED"}
    OBVIOUS
<1>4. UNCHANGED <<replaced, location, crashes>>
    OBVIOUS
<1> QED BY <1>1, <1>2, <1>3, <1>4

LEMMA UpdateType ==
    ASSUME InventoryTypeOK, UpdateInventoryFile PROVE InventoryTypeOK'
PROOF
<1> USE DEF InventoryTypeOK, installVars, KeepFiles, Goto, Continue, Fail, Truncate,
            Fill, RemoveTmp, InstallPoints, Paths, Contents, Current
<1>1. CASE Unzipped BY <1>1 DEF Unzipped
<1>2. CASE TmpCopy BY <1>2 DEF TmpCopy
<1>3. CASE Fsync BY <1>3 DEF Fsync
<1>4. CASE BackupCopy BY <1>4 DEF BackupCopy
<1>5. CASE Rename
  <2>1. file' \in [Paths -> Contents] BY <1>5 DEF Rename
  <2>2. unsynced' \subseteq Paths BY <1>5 DEF Rename
  <2>3. replaced' \in Contents \cup {NotReplaced} BY <1>5 DEF Rename
  <2>4. pc' \in {"sync", "idle"} /\ result' \in {result, "INSTALL_FAILED"}
    BY <1>5 DEF Rename
  <2>5. UNCHANGED installVars BY <1>5 DEF Rename
  <2> QED BY <2>1, <2>2, <2>3, <2>4, <2>5
<1>6. CASE Sync BY <1>6 DEF Sync
<1>7. CASE Verify BY <1>7 DEF Verify
<1>8. CASE Restore
  <2>1. file' \in [Paths -> Contents] BY <1>8 DEF Restore
  <2> QED BY <1>8, <2>1 DEF Restore
<1>9. CASE Check BY <1>9 DEF Check
<1> HIDE DEF InventoryTypeOK
<1> QED
    BY <1>1, <1>2, <1>3, <1>4, <1>5, <1>6, <1>7, <1>8, <1>9 DEF UpdateInventoryFile

LEMMA CrashType ==
    ASSUME InventoryTypeOK, Crash PROVE InventoryTypeOK'
PROOF
<1>1. file' \in [Paths -> Contents]
  <2>1. PICK torn \in SUBSET unsynced :
            \/ file' = [p \in Paths |-> IF p \in torn THEN Broken ELSE file[p]]
            \/ /\ replaced # NotReplaced
               /\ file' = [p \in Paths |-> CASE p = location -> replaced
                                             [] p = "tmp" -> Current
                                             [] p \in torn \ {location, "tmp"} -> Broken
                                             [] OTHER -> file[p]]
      BY DEF Crash
  <2>2. Current \in Contents BY DEF Current, InventoryTypeOK, Paths
  <2> QED BY <2>1, <2>2 DEF InventoryTypeOK, Contents
<1> QED
    BY <1>1 DEF Crash, InventoryTypeOK, BootPoints, Contents

\* The next-state relation keeps the types.
LEMMA NextType ==
    ASSUME InventoryTypeOK, [InventoryNext]_vars PROVE InventoryTypeOK'
PROOF
<1>1. CASE Boot BY <1>1, BootType
<1>2. CASE Install BY <1>2, InstallType
<1>3. CASE UpdateInventoryFile BY <1>3, UpdateType
<1>4. CASE PostInstall
    BY <1>4 DEF PostInstall, InventoryTypeOK, installVars, Contents
<1>5. CASE Crash BY <1>5, CrashType
<1>6. CASE UNCHANGED vars BY <1>6 DEF vars, InventoryTypeOK, Contents
<1> QED BY <1>1, <1>2, <1>3, <1>4, <1>5, <1>6 DEF InventoryNext

\* Every variable of the inventory component keeps its type.
THEOREM InventoryTypeCorrect == InventorySpec => []InventoryTypeOK
PROOF
<1>1. InventoryInit => InventoryTypeOK BY InitType
<1>2. InventoryTypeOK /\ [InventoryNext]_vars => InventoryTypeOK' BY NextType
<1> QED BY <1>1, <1>2, PTL DEF InventorySpec

-----------------------------------------------------------------------------
(* The inventory in place.                                                 *)

\* The OEM inventory is never torn, and there from the first start on or never;
\* it is what the agent uses when it is there.
OemInv ==
    /\ file["oem"] # Broken /\ "oem" \notin unsynced
    /\ pc \in {"boot", "boot_copy", "boot_versions"} => location = "data"
    /\ pc \in {"boot_copy", "boot_versions"} => file["oem"] # Absent
    /\ pc \notin BootPoints => (location = "data" <=> file["oem"] = Absent)
    /\ file["oem"] = Absent => file["data"] # Broken /\ "data" \notin unsynced
    /\ pc \notin {"boot_replace", "restore"}

\* How far the new inventory has come: parsed, copied, on the medium, in place.
Parsed == {"tmp_copy", "fsync", "backup_copy", "rename", "sync", "verify", "check"}
Replacing == {"unzipped", "tmp_copy", "fsync", "backup_copy", "rename"}
InPlace == {"sync", "verify", "check"}

StagedInv ==
    /\ pc = "unzipped" => file["download"] # Absent
    /\ pc \in Parsed => file["download"] \in Versions
    /\ pc \in {"fsync", "backup_copy", "rename"} => file["tmp"] = file["download"]
    /\ pc \in {"backup_copy", "rename"} => "tmp" \notin unsynced
    /\ pc \in Replacing => Current = before
    /\ pc = "rename" => Current # Absent
    /\ pc \in InPlace => Current = file["download"]
    /\ replaced # NotReplaced => pc = "sync" /\ replaced \in Versions

AtomicInv == OemInv /\ StagedInv

LEMMA InitAtomic ==
    ASSUME InventoryInit, Broken \notin OemContents
    PROVE AtomicInv
PROOF
<1>1. PICK oem \in OemContents, data \in Versions \cup {Absent} :
        file = [p \in Paths |-> CASE p = "oem" -> oem
                                  [] p = "data" -> data
                                  [] OTHER -> Absent]
    BY DEF InventoryInit
<1>2. file["oem"] = oem /\ file["data"] = data BY <1>1 DEF Paths
<1>3. data # Broken BY InventoryAssumption DEF Absent, Broken
<1>4. oem # Broken OBVIOUS
<1> QED
    BY <1>2, <1>3, <1>4 DEF InventoryInit, AtomicInv, OemInv, StagedInv, BootPoints, Parsed,
       Replacing, InPlace

\* No copy is under way over the inventory in use: it is a version or absent.
LEMMA CurrentWhole ==
    ASSUME InventoryTypeOK, OemInv, pc \notin BootPoints
    PROVE /\ Current # Broken /\ location \notin unsynced
          /\ Current \in Versions \cup {Absent}
          /\ Current # Absent => Current \in Versions
PROOF
<1>1. CASE location = "oem" BY <1>1 DEF OemInv, Current, InventoryTypeOK, Contents, Paths
<1>2. CASE location = "data" BY <1>2 DEF OemInv, Current, InventoryTypeOK, Contents, Paths
<1> QED BY <1>1, <1>2 DEF InventoryTypeOK

LEMMA BootAtomic ==
    ASSUME InventoryTypeOK, AtomicInv, Boot, AtomicFaults \cap IoFaults = {}
    PROVE AtomicInv'
PROOF
<1> USE DEF AtomicInv, bootVars, KeepFiles, Goto, BootPoints, Parsed, Replacing, InPlace
<1>1. /\ "mkdir" \notin IoFaults
      /\ "boot_copy" \notin IoFaults
      /\ "short_copy" \notin IoFaults
    BY DEF AtomicFaults
<1>2. replaced = NotReplaced /\ pc # "idle" /\ pc \in BootPoints
    BY DEF StagedInv, Boot, SyncInventoryOnBoot, BootCopy, BootVersions, BootReplace
<1>3. CASE SyncInventoryOnBoot
  <2>1. OemInv' BY <1>1, <1>3 DEF SyncInventoryOnBoot, OemInv, Truncate, InventoryTypeOK, Paths
  <2>2. StagedInv' BY <1>2, <1>3 DEF SyncInventoryOnBoot, StagedInv
  <2> QED BY <2>1, <2>2
<1>4. CASE BootCopy
  <2>1. OemInv' BY <1>1, <1>4 DEF BootCopy, OemInv, Fill, InventoryTypeOK, Paths
  <2>2. StagedInv' BY <1>1, <1>2, <1>4 DEF BootCopy, StagedInv
  <2> QED BY <2>1, <2>2
<1>5. CASE BootVersions
  <2>1. file["oem"] \in Versions
    BY <1>5 DEF BootVersions, OemInv, InventoryTypeOK, Contents, Paths
  <2>2. file["oem"] \in Int /\ ~(file["oem"] > file["oem"])
    <3>1. file["oem"] \in Nat BY <2>1, InventoryAssumption
    <3>2. \A n \in Nat : n \in Int /\ ~(n > n) OBVIOUS
    <3> QED BY <3>1, <3>2
  <2>3. pc' = "idle" /\ UNCHANGED <<file, unsynced, replaced>> /\ location' = "oem"
    BY <2>2, <1>5 DEF BootVersions, OemInv
  <2>4. OemInv' BY <2>1, <2>3, <1>5 DEF BootVersions, OemInv
  <2>5. StagedInv' BY <1>2, <2>3 DEF StagedInv
  <2> QED BY <2>4, <2>5
<1>6. CASE BootReplace BY <1>6 DEF BootReplace, OemInv
<1> QED BY <1>3, <1>4, <1>5, <1>6 DEF Boot

LEMMA InstallAtomic ==
    ASSUME InventoryTypeOK, AtomicInv, Install
    PROVE AtomicInv'
PROOF
<1> USE DEF AtomicInv, Install, Fail, BootPoints, Parsed, Replacing, InPlace
<1>1. /\ file'["oem"] = file["oem"] /\ file'["data"] = file["data"]
      /\ "oem" \in unsynced' => "oem" \in unsynced
      /\ "data" \in unsynced' => "data" \in unsynced
      /\ UNCHANGED <<replaced, location>>
    BY DEF InventoryTypeOK, Paths
<1>2. Current' = Current BY <1>1 DEF Current, InventoryTypeOK
<1>3. pc = "idle" /\ pc' \in {"idle", "unzipped"} /\ before' = Current OBVIOUS
<1>4. OemInv' BY <1>1, <1>3 DEF OemInv
<1>5. pc' = "unzipped" => file'["download"] # Absent
    BY InventoryAssumption DEF InventoryTypeOK, Paths, Absent, Broken
<1>6. StagedInv' BY <1>1, <1>2, <1>3, <1>5 DEF StagedInv
<1> QED BY <1>4, <1>6

\* The steps that leave the inventory in place alone.
LEMMA StagingAtomic ==
    ASSUME InventoryTypeOK, AtomicInv, "short_copy" \notin IoFaults,
           Unzipped \/ TmpCopy \/ Fsync \/ BackupCopy
    PROVE AtomicInv'
PROOF
<1> USE DEF AtomicInv, installVars, Fail, Continue, Goto, BootPoints, Parsed, Replacing,
            InPlace, Truncate, Fill, RemoveTmp
<1>1. /\ file'["oem"] = file["oem"] /\ file'["data"] = file["data"]
      /\ file'["download"] = file["download"]
      /\ "oem" \in unsynced' => "oem" \in unsynced
      /\ "data" \in unsynced' => "data" \in unsynced
      /\ UNCHANGED <<replaced, location, before>>
    BY DEF Unzipped, TmpCopy, Fsync, BackupCopy, InventoryTypeOK, Paths
<1>2. Current' = Current BY <1>1 DEF Current, InventoryTypeOK
<1>3. pc \in Replacing /\ pc' \in Replacing \cup {"idle"}
    BY DEF Unzipped, TmpCopy, Fsync, BackupCopy
<1>4. OemInv' BY <1>1, <1>3 DEF OemInv
<1>5. StagedInv'
  <2>1. CASE Unzipped
    <3>1. file["download"] # Broken => file["download"] \in Versions
      BY <2>1 DEF Unzipped, StagedInv, InventoryTypeOK, Contents, Paths
    <3> QED BY <1>1, <1>2, <2>1, <3>1 DEF StagedInv, Unzipped
  <2>2. CASE TmpCopy
    BY <1>1, <1>2, <2>2 DEF StagedInv, TmpCopy, InventoryTypeOK, Paths
  <2>3. CASE Fsync
    BY <1>1, <1>2, <2>3 DEF StagedInv, Fsync, InventoryTypeOK, Paths
  <2>4. CASE BackupCopy
    BY <1>1, <1>2, <2>4 DEF StagedInv, BackupCopy, InventoryTypeOK, Paths
  <2> QED BY <2>1, <2>2, <2>3, <2>4
<1> QED BY <1>4, <1>5

LEMMA PlacingAtomic ==
    ASSUME InventoryTypeOK, AtomicInv, "verify" \notin IoFaults,
           Rename \/ Sync \/ Verify \/ Restore \/ Check
    PROVE AtomicInv'
PROOF
<1> USE DEF AtomicInv, installVars, KeepFiles, Fail, Continue, Goto, BootPoints, Parsed,
            Replacing, InPlace, RemoveTmp
<1>1. pc \notin BootPoints => /\ Current # Broken /\ location \notin unsynced
                              /\ Current # Absent => Current \in Versions
    BY CurrentWhole
<1>2. CASE Rename
  <2>1. pc = "rename" /\ UNCHANGED <<location, before>> BY <1>2 DEF Rename
  <2>2. /\ Current \in Versions /\ location \notin unsynced /\ Current = before
        /\ file["download"] \in Versions /\ file["tmp"] = file["download"]
        /\ "tmp" \notin unsynced
    BY <2>1, <1>1 DEF StagedInv
  <2>3. file["tmp"] # Broken /\ file["tmp"] # Absent
    BY <2>2, InventoryAssumption DEF Absent, Broken
  <2>4. CASE pc' = "sync"
    <3>1. /\ file' = [file EXCEPT ![location] = file["tmp"], !["tmp"] = Absent]
          /\ unsynced' = (unsynced \ {"tmp", location})
          /\ replaced' = Current
      BY <2>2, <2>4, <1>2 DEF Rename
    <3>2. /\ file'[location] = file["tmp"] /\ file'["download"] = file["download"]
          /\ \A p \in {"oem", "data"} \ {location} : file'[p] = file[p]
      BY <3>1 DEF InventoryTypeOK, Paths
    <3>3. OemInv'
      <4>1. file'["oem"] # Broken /\ "oem" \notin unsynced'
        BY <2>3, <3>1, <3>2 DEF OemInv, InventoryTypeOK
      <4>2. location = "data" <=> file'["oem"] = Absent
        BY <2>1, <2>3, <3>2 DEF OemInv, InventoryTypeOK
      <4>3. file'["oem"] = Absent => file'["data"] # Broken /\ "data" \notin unsynced'
        BY <2>3, <3>1, <3>2, <4>2 DEF OemInv, InventoryTypeOK
      <4> QED BY <2>1, <2>4, <4>1, <4>2, <4>3 DEF OemInv
    <3>4. Current' = file["tmp"] BY <2>1, <3>2 DEF Current
    <3> QED BY <2>2, <2>4, <3>1, <3>2, <3>3, <3>4 DEF StagedInv
  <2>5. CASE pc' # "sync"
    <3>1. /\ pc' = "idle" /\ UNCHANGED replaced
          /\ file'["oem"] = file["oem"] /\ file'["data"] = file["data"]
          /\ unsynced' = unsynced \ {"tmp"}
      BY <2>5, <1>2 DEF Rename, InventoryTypeOK, Paths
    <3> QED BY <2>1, <3>1 DEF OemInv, StagedInv
  <2> QED BY <2>4, <2>5
<1>3. CASE Sync
  <2>1. Current' = Current BY <1>3 DEF Sync, Current
  <2> QED BY <1>3, <2>1, <1>1 DEF Sync, OemInv, StagedInv
<1>4. CASE Verify
  <2>1. pc' = "check" /\ UNCHANGED <<file, unsynced, replaced, location, before>>
    BY <1>4 DEF Verify, StagedInv
  <2>2. Current' = Current BY <2>1 DEF Current
  <2> QED BY <1>4, <2>1, <2>2 DEF Verify, OemInv, StagedInv
<1>5. CASE Restore BY <1>5 DEF Restore, OemInv
<1>6. CASE Check
  <2>1. pc = "check" /\ pc' = "idle" /\ UNCHANGED <<file, unsynced, replaced, location, before>>
    BY <1>6 DEF Check
  <2> QED BY <2>1 DEF OemInv, StagedInv
<1> QED BY <1>2, <1>3, <1>4, <1>5, <1>6

\* The power failure: what is torn is not in use, and the undone rename brings
\* back a whole inventory.
LEMMA CrashAtomic ==
    ASSUME InventoryTypeOK, AtomicInv, Crash
    PROVE AtomicInv'
PROOF
<1> USE DEF AtomicInv, BootPoints, Parsed, Replacing, InPlace
<1>1. pc' = "boot" /\ location' = "data" /\ unsynced' = {} /\ replaced' = NotReplaced
    BY DEF Crash
<1>2. /\ file'["oem"] # Broken
      /\ file'["oem"] = Absent => file'["data"] # Broken
  <2>1. PICK torn \in SUBSET unsynced :
            \/ file' = [p \in Paths |-> IF p \in torn THEN Broken ELSE file[p]]
            \/ /\ replaced # NotReplaced
               /\ file' = [p \in Paths |-> CASE p = location -> replaced
                                             [] p = "tmp" -> Current
                                             [] p \in torn \ {location, "tmp"} -> Broken
                                             [] OTHER -> file[p]]
      BY DEF Crash
  <2>2. CASE file' = [p \in Paths |-> IF p \in torn THEN Broken ELSE file[p]]
    <3>1. file'["oem"] = file["oem"] BY <2>2 DEF Paths, OemInv
    <3>2. file["oem"] = Absent => file'["data"] = file["data"] BY <2>2 DEF Paths, OemInv
    <3> QED BY <3>1, <3>2 DEF OemInv
  <2>3. CASE /\ replaced # NotReplaced
             /\ file' = [p \in Paths |-> CASE p = location -> replaced
                                           [] p = "tmp" -> Current
                                           [] p \in torn \ {location, "tmp"} -> Broken
                                           [] OTHER -> file[p]]
    <3>1. replaced # Broken /\ replaced # Absent /\ pc = "sync"
      BY <2>3, InventoryAssumption DEF StagedInv, Absent, Broken
    <3>2. CASE location = "oem"
      BY <2>3, <3>1, <3>2 DEF Paths
    <3>3. CASE location = "data"
      <4>1. file["oem"] = Absent BY <3>1, <3>3 DEF OemInv
      <4>2. file'["data"] = replaced /\ file'["oem"] = file["oem"]
        BY <2>3, <3>3 DEF Paths, OemInv
      <4> QED BY <3>1, <4>2 DEF OemInv
    <3> QED BY <3>2, <3>3 DEF InventoryTypeOK
  <2> QED BY <2>1, <2>2, <2>3
<1>3. OemInv' BY <1>1, <1>2 DEF OemInv
<1>4. StagedInv' BY <1>1 DEF StagedInv
<1> QED BY <1>3, <1>4

LEMMA NextAtomic ==
    ASSUME InventoryTypeOK, AtomicInv, [InventoryNext]_vars, AtomicFaults \cap IoFaults = {}
    PROVE AtomicInv'
PROOF
<1>1. "verify" \notin IoFaults /\ "short_copy" \notin IoFaults BY DEF AtomicFaults
<1>2. CASE Boot BY <1>2, BootAtomic
<1>3. CASE Install BY <1>3, InstallAtomic
<1>4. CASE UpdateInventoryFile
    BY <1>1, <1>4, StagingAtomic, PlacingAtomic DEF UpdateInventoryFile
<1>5. CASE PostInstall
  <2>1. /\ pc = "idle" /\ UNCHANGED <<pc, replaced, location, before>>
        /\ file'["oem"] = file["oem"] /\ file'["data"] = file["data"]
        /\ unsynced' \subseteq unsynced
    BY <1>5 DEF PostInstall, installVars, InventoryTypeOK, Paths
  <2> QED BY <2>1 DEF AtomicInv, OemInv, StagedInv, Parsed, Replacing, InPlace
<1>6. CASE Crash BY <1>6, CrashAtomic
<1>7. CASE UNCHANGED vars
    BY <1>7 DEF vars, AtomicInv, OemInv, StagedInv, Current
<1> QED BY <1>2, <1>3, <1>4, <1>5, <1>6, <1>7 DEF InventoryNext

\* What the parts of the invariant say of the inventory in place.
LEMMA AtomicOldOrNew ==
    ASSUME InventoryTypeOK, AtomicInv PROVE OldOrNew
PROOF
<1>1. pc \in InstallPoints => pc \in Replacing \cup InPlace \cup {"restore"}
    BY DEF InstallPoints, Replacing, InPlace
<1>2. pc \in InstallPoints => Current \in {before, file["download"]}
    BY <1>1 DEF AtomicInv, OemInv, StagedInv
<1>3. pc \notin BootPoints => Current # Broken
    BY CurrentWhole DEF AtomicInv
<1> QED BY <1>2, <1>3 DEF OldOrNew

\* Whenever the power fails during an install, the inventory in place is the old
\* or the new one, and no start-up ends with a torn one.
THEOREM InventoryOldOrNew ==
    ASSUME AtomicFaults \cap IoFaults = {}, Broken \notin OemContents
    PROVE InventorySpec => []OldOrNew
PROOF
<1>1. InventoryInit => InventoryTypeOK /\ AtomicInv BY InitType, InitAtomic
<1>2. (InventoryTypeOK /\ AtomicInv) /\ [InventoryNext]_vars => (InventoryTypeOK /\ AtomicInv)'
    BY NextType, NextAtomic
<1>3. InventoryTypeOK /\ AtomicInv => OldOrNew BY AtomicOldOrNew
<1> QED BY <1>1, <1>2, <1>3, PTL DEF InventorySpec

-----------------------------------------------------------------------------
(* Refused updates.                                                        *)

\* The inventory in place is the one before until the rename, and its backup is
\* from then on, whatever operation fails; backup and restore begin with a truncation.
KeptInv ==
    /\ pc \in Replacing => Current = before
    /\ pc = "backup_copy" => file["backup"] = Broken
    /\ pc \in {"rename", "sync", "verify", "restore"} => BackedUp
    /\ pc = "restore" => Current = Broken

LEMMA KeptPreserved ==
    ASSUME InventoryTypeOK, KeptInv, [InventoryNext]_vars
    PROVE  KeptInv'
<1>. USE DEF Replacing, Goto, Continue, Fail, installVars, KeepFiles
<1>1. CASE UNCHANGED vars
  BY <1>1 DEF vars, KeptInv, BackedUp, Current
<1>2. CASE Boot \/ Crash
  BY <1>2 DEF Boot, SyncInventoryOnBoot, BootCopy, BootVersions, BootReplace, Crash, KeptInv
<1>3. CASE PostInstall
  BY <1>3 DEF PostInstall, KeptInv
<1>4. CASE Install
  <2>1. pc' \in {"idle", "unzipped"} /\ before' = Current /\ location' = location
    BY <1>4 DEF Install
  <2>2. file'[location] = file[location]
    BY <1>4 DEF Install, InventoryTypeOK, Paths
  <2>. QED BY <2>1, <2>2 DEF KeptInv, Current
<1>5. CASE Unzipped \/ TmpCopy \/ Fsync
  <2>1. /\ pc \in Replacing /\ pc' \in {"tmp_copy", "fsync", "backup_copy", "idle"}
        /\ UNCHANGED <<location, before>>
    BY <1>5 DEF Unzipped, TmpCopy, Fsync
  <2>2. file'[location] = file[location]
    BY <1>5 DEF Unzipped, TmpCopy, Fsync, Truncate, Fill, InventoryTypeOK, Paths
  <2>3. pc' = "backup_copy" => file'["backup"] = Broken
    BY <1>5 DEF Unzipped, TmpCopy, Fsync, InventoryTypeOK, Paths
  <2>. QED BY <2>1, <2>2, <2>3 DEF KeptInv, Current
<1>6. CASE BackupCopy
  <2>1. pc = "backup_copy" /\ pc' \in {"rename", "idle"} /\ UNCHANGED <<location, before>>
    BY <1>6 DEF BackupCopy
  <2>2. file'[location] = file[location]
    BY <1>6 DEF BackupCopy, Fill, RemoveTmp, InventoryTypeOK, Paths
  <2>3. pc' = "rename" => \/ file'["backup"] = file[location]
                          \/ "short_copy" \in IoFaults /\ file'["backup"] = Broken
    BY <1>6 DEF BackupCopy, Fill, KeptInv, InventoryTypeOK, Paths
  <2>. QED BY <2>1, <2>2, <2>3 DEF KeptInv, BackedUp, Current
<1>7. CASE Rename
  <2>1. pc = "rename" /\ pc' \in {"sync", "idle"} /\ UNCHANGED before
    BY <1>7 DEF Rename
  <2>2. file'["backup"] = file["backup"]
    BY <1>7 DEF Rename, RemoveTmp, InventoryTypeOK, Paths
  <2>. QED BY <2>1, <2>2 DEF KeptInv, BackedUp
<1>8. CASE Sync \/ Verify
  <2>1. /\ pc \in {"sync", "verify"} /\ pc' \in {"verify", "check", "restore", "idle"}
        /\ UNCHANGED <<before, location>>
    BY <1>8 DEF Sync, Verify
  <2>2. file'["backup"] = file["backup"]
    BY <1>8 DEF Sync, Verify, Truncate, RemoveTmp, InventoryTypeOK, Paths
  <2>3. pc' = "restore" => file'[location] = Broken
    BY <1>8 DEF Sync, Verify, Truncate, InventoryTypeOK, Paths
  <2>. QED BY <2>1, <2>2, <2>3 DEF KeptInv, BackedUp, Current
<1>9. CASE Restore \/ Check
  BY <1>9 DEF Restore, Check, KeptInv
<1>. QED
  BY <1>1, <1>2, <1>3, <1>4, <1>5, <1>6, <1>7, <1>8, <1>9
     DEF InventoryNext, UpdateInventoryFile

\* A step by which an update is refused leaves the inventory of before, or its backup.
LEMMA RefusalKeeps ==
    ASSUME InventoryTypeOK, KeptInv, InventoryNext, pc \in InstallPoints \ {"check"}, pc' = "idle"
    PROVE  \/ Current' = before
           \/ BackedUp' /\ (pc = "verify" \/ (pc = "restore" /\ Current' = Broken))
<1>. USE DEF Goto, Continue, Fail, installVars, KeepFiles
<1>1. Unzipped \/ TmpCopy \/ Fsync \/ BackupCopy \/ Rename \/ Verify \/ Restore
  BY DEF InventoryNext, UpdateInventoryFile, Boot, SyncInventoryOnBoot, BootCopy, BootVersions,
     BootReplace, Install, PostInstall, Crash, Sync, Check, InstallPoints
<1>2. CASE Verify \/ Restore
  <2>1. pc \in {"verify", "restore"} /\ UNCHANGED <<location, before>>
    BY <1>2 DEF Verify, Restore
  <2>2. file'["backup"] = file["backup"] /\ (pc = "restore" => file'[location] \in {file["backup"], file[location]})
    BY <1>2 DEF Verify, Restore, RemoveTmp, Truncate, InventoryTypeOK, Paths
  <2>3. BackedUp' /\ BackedUp
    BY <2>1, <2>2 DEF KeptInv, BackedUp
  <2>4. CASE pc = "restore"
    <3>1. Current = Broken
      BY <2>4 DEF KeptInv
    <3>. QED BY <2>1, <2>2, <2>3, <2>4, <3>1 DEF BackedUp, Current
  <2>. QED BY <2>1, <2>3, <2>4
<1>3. CASE Unzipped \/ TmpCopy \/ Fsync \/ BackupCopy \/ Rename
  <2>1. pc \in Replacing /\ location' = location
    BY <1>3 DEF Unzipped, TmpCopy, Fsync, BackupCopy, Rename, Replacing
  <2>2. file'[location] = file[location]
    BY <1>3 DEF Unzipped, TmpCopy, Fsync, BackupCopy, Rename, RemoveTmp, InventoryTypeOK, Paths
  <2>. QED BY <2>1, <2>2 DEF KeptInv, Current
<1>. QED BY <1>1, <1>2, <1>3

\* An install that update_inventory_file refuses leaves the inventory as it was or,
\* when its restoring copy fails, in the backup: for every set of faults, the
\* failing restore and the short copies among them, and whatever the power
\* failures before it (tmpl_updateagent.cpp:275-342).
THEOREM RefusedUpdateKeeps == InventorySpec => FailedUpdateKeeps
<1>1. InventoryInit => KeptInv
  BY DEF InventoryInit, KeptInv, Replacing
<1>2. InventoryTypeOK /\ KeptInv /\ [InventoryNext]_vars => KeptInv'
  BY KeptPreserved
<1>3. InventoryTypeOK /\ KeptInv /\ [InventoryNext]_vars
        => [(pc \in InstallPoints \ {"check"} /\ pc' = "idle")
            => \/ Current' = before
               \/ BackedUp' /\ (pc = "verify" \/ (pc = "restore" /\ Current' = Broken))]_vars
  BY RefusalKeeps
<1>. QED BY <1>1, <1>2, <1>3, InventoryTypeCorrect, PTL DEF InventorySpec, FailedUpdateKeeps

-----------------------------------------------------------------------------
(* Completed installs.                                                     *)

\* After the synchronisation nothing waits for the medium until the next install
\* or the restore of a file that does not verify; a completed one needs nothing.
SettledInv ==
    /\ pc \in {"verify", "check"} => unsynced = {} /\ replaced = NotReplaced
    /\ result = "INSTALL_COMPLETED" =>
         pc = "idle" /\ Current = version /\ location \notin unsynced /\ replaced = NotReplaced

LEMMA SettledNext ==
    ASSUME InventoryTypeOK, SettledInv, [InventoryNext]_vars
    PROVE  SettledInv'
<1>. USE DEF SettledInv, Goto, Continue, Fail, installVars, bootVars, KeepFiles
<1>1. CASE UNCHANGED vars
  BY <1>1 DEF vars, Current
<1>2. CASE Boot
  BY <1>2 DEF Boot, SyncInventoryOnBoot, BootCopy, BootVersions, BootReplace
<1>3. CASE Crash
  BY <1>3 DEF Crash
<1>4. CASE Install
  BY <1>4 DEF Install
<1>5. CASE PostInstall
  <2>1. file'[location] = file[location] /\ UNCHANGED <<location, pc, result, replaced, version>>
    BY <1>5 DEF PostInstall, InventoryTypeOK, Paths
  <2>. QED BY <1>5, <2>1 DEF PostInstall, Current
<1>6. CASE Sync
  BY <1>6 DEF Sync
<1>7. CASE Verify
  BY <1>7 DEF Verify
<1>8. CASE Check
  BY <1>8 DEF Check, Current
<1>9. CASE Unzipped \/ TmpCopy \/ Fsync \/ BackupCopy \/ Rename \/ Restore
  BY <1>9 DEF Unzipped, TmpCopy, Fsync, BackupCopy, Rename, Restore
<1>. QED
  BY <1>1, <1>2, <1>3, <1>4, <1>5, <1>6, <1>7, <1>8, <1>9 DEF InventoryNext, UpdateInventoryFile

LEMMA SettledInvariant == InventorySpec => [](InventoryTypeOK /\ SettledInv)
<1>1. InventoryInit => SettledInv
  BY DEF InventoryInit, SettledInv
<1>2. InventoryTypeOK /\ SettledInv /\ [InventoryNext]_vars => SettledInv'
  BY SettledNext
<1>. QED BY <1>1, <1>2, InventoryTypeCorrect, PTL DEF InventorySpec

\* An inventory reported complete survives every power failure, whichever of the
\* operations of its install and of those before it failed
\* (tmpl_updateagent.cpp:323-330, 1540-1544).
THEOREM CompletedInstallSurvives == InventorySpec => CompletedSurvives
<1>1. ASSUME InventoryTypeOK, SettledInv, [InventoryNext]_vars,
             result = "INSTALL_COMPLETED", crashes' # crashes
      PROVE  file'[location] = version
  <2>1. Crash
    BY <1>1 DEF InventoryNext, UpdateInventoryFile, Boot, SyncInventoryOnBoot, BootCopy,
       BootVersions, BootReplace, Install, Unzipped, TmpCopy, Fsync, BackupCopy, Rename, Sync,
       Verify, Restore, Check, PostInstall, installVars, bootVars, vars
  <2>2. location \notin unsynced /\ replaced = NotReplaced /\ file[location] = version
    BY <1>1 DEF SettledInv, Current
  <2>. QED BY <1>1, <2>1, <2>2 DEF Crash, InventoryTypeOK, Paths
<1>2. InventoryTypeOK /\ SettledInv /\ [InventoryNext]_vars
      => [(result = "INSTALL_COMPLETED" /\ crashes' # crashes) => file'[location] = version]_vars
  BY <1>1
<1>. QED BY <1>2, SettledInvariant, PTL DEF InventorySpec, CompletedSurvives

-----------------------------------------------------------------------------
(* The refinement of DurableInventory.                                     *)

\* Outside the start-up the inventory in use is that of the location.
LEMMA InUseIsCurrent ==
    ASSUME InventoryTypeOK, OemInv, pc \notin BootPoints
    PROVE  InUse = Current
BY DEF InventoryTypeOK, OemInv, InUse, Current

\* Writing neither the OEM inventory nor, without one, that of the data partition.
LEMMA InUseStays ==
    ASSUME file'["oem"] = file["oem"], file["oem"] = Absent => file'["data"] = file["data"]
    PROVE  InUse' = InUse
BY DEF InUse

LEMMA DurableInitially ==
    ASSUME InventoryInit, Broken \notin OemContents PROVE Durable!DurableInit
<1>1. PICK oem \in OemContents, data \in Versions \cup {Absent} :
        file = [p \in Paths |-> CASE p = "oem" -> oem
                                  [] p = "data" -> data
                                  [] OTHER -> Absent]
    BY DEF InventoryInit
<1>2. file["oem"] = oem /\ file["data"] = data
  BY <1>1 DEF Paths
<1>3. oem \in Versions \cup {Absent}
  BY InventoryAssumption DEF Contents
<1>. QED BY <1>2, <1>3 DEF InventoryInit, Durable!DurableInit, InUse, Reported

\* Only the worker between two steps of an install has anything reported.
LEMMA ReportedAtRest ==
    ASSUME SettledInv, pc # "idle" PROVE Reported = NotReplaced
BY DEF SettledInv, Reported

LEMMA DurableCrash ==
    ASSUME InventoryTypeOK, AtomicInv, Crash
    PROVE  Durable!PowerFails
<1>1. replaced' = NotReplaced /\ Reported' = NotReplaced
  BY DEF Crash, Reported
<1>2. PICK torn \in SUBSET unsynced :
        \/ file' = [p \in Paths |-> IF p \in torn THEN Broken ELSE file[p]]
        \/ /\ replaced # NotReplaced
           /\ file' = [p \in Paths |-> CASE p = location -> replaced
                                         [] p = "tmp" -> Current
                                         [] p \in torn \ {location, "tmp"} -> Broken
                                         [] OTHER -> file[p]]
  BY DEF Crash
<1>3. "oem" \notin torn /\ (file["oem"] = Absent => "data" \notin torn)
  BY DEF AtomicInv, OemInv
<1>4. CASE file' = [p \in Paths |-> IF p \in torn THEN Broken ELSE file[p]]
  <2>1. file'["oem"] = file["oem"] /\ (file["oem"] = Absent => file'["data"] = file["data"])
    BY <1>3, <1>4 DEF Paths
  <2>. QED BY <1>1, <2>1, InUseStays DEF Durable!PowerFails
<1>5. CASE /\ replaced # NotReplaced
           /\ file' = [p \in Paths |-> CASE p = location -> replaced
                                         [] p = "tmp" -> Current
                                         [] p \in torn \ {location, "tmp"} -> Broken
                                         [] OTHER -> file[p]]
  <2>1. replaced # Absent /\ pc = "sync"
    BY <1>5, InventoryAssumption DEF AtomicInv, StagedInv, Absent
  <2>2. CASE location = "oem"
    <3>1. file'["oem"] = replaced
      BY <1>5, <2>2 DEF Paths
    <3>. QED BY <1>1, <1>5, <2>1, <3>1 DEF InUse, Durable!PowerFails
  <2>3. CASE location = "data"
    <3>1. file["oem"] = Absent
      BY <2>1, <2>3 DEF AtomicInv, OemInv, BootPoints
    <3>2. file'["data"] = replaced /\ file'["oem"] = file["oem"]
      BY <1>3, <1>5, <2>3 DEF Paths
    <3>. QED BY <1>1, <1>5, <3>1, <3>2 DEF InUse, Durable!PowerFails
  <2>. QED BY <2>2, <2>3 DEF InventoryTypeOK
<1>. QED BY <1>2, <1>4, <1>5

LEMMA DurableRename ==
    ASSUME InventoryTypeOK, AtomicInv, SettledInv, AtomicInv', InventoryTypeOK', Rename
    PROVE  Durable!Replace \/ UNCHANGED Durable!durableVars
<1>. USE DEF AtomicInv, installVars, Continue, Goto, Fail
<1>1. pc = "rename" /\ pc \notin BootPoints /\ pc' \in {"sync", "idle"} /\ UNCHANGED location
  BY DEF Rename, BootPoints
<1>2. Reported = NotReplaced /\ Reported' = NotReplaced /\ replaced = NotReplaced
  BY <1>1, ReportedAtRest DEF Rename, SettledInv, Reported, StagedInv
<1>3. InUse = Current /\ InUse' = Current'
  <2>1. pc' \notin BootPoints
    BY <1>1 DEF BootPoints
  <2>2. InUse' = Current'
    BY <2>1 DEF InventoryTypeOK, OemInv, InUse, Current
  <2>. QED BY <1>1, <2>2, InUseIsCurrent
<1>4. CASE pc' = "sync"
  <2>1. Current \in Versions
    BY <1>1, CurrentWhole DEF StagedInv
  <2>2. replaced' = Current /\ Current' \in Versions
    BY <1>1, <1>4 DEF Rename, StagedInv, InPlace, Parsed
  <2>. QED BY <1>2, <1>3, <2>1, <2>2 DEF Durable!Replace
<1>5. CASE pc' = "idle"
  <2>1. UNCHANGED replaced /\ file'[location] = file[location]
    BY <1>1, <1>5 DEF Rename, RemoveTmp, InventoryTypeOK, Paths
  <2>. QED BY <1>1, <1>2, <1>3, <2>1 DEF Current, Durable!durableVars
<1>. QED BY <1>1, <1>4, <1>5

LEMMA DurableStep ==
    ASSUME InventoryTypeOK, AtomicInv, SettledInv, [InventoryNext]_vars,
           AtomicFaults \cap IoFaults = {}
    PROVE  [Durable!DurableNext]_(Durable!durableVars)
<1>. USE DEF AtomicInv, Goto, Continue, Fail, installVars, bootVars, KeepFiles
<1>0. /\ {"mkdir", "boot_copy", "short_copy", "verify"} \cap IoFaults = {}
      /\ InventoryTypeOK' /\ AtomicInv'
  BY NextType, NextAtomic DEF AtomicFaults
<1>1. CASE UNCHANGED vars
  BY <1>1 DEF vars, InUse, Reported, Durable!durableVars
<1>2. CASE Boot
  <2>1. file'["oem"] = file["oem"] /\ (file["oem"] = Absent => file'["data"] = file["data"])
    <3>1. CASE SyncInventoryOnBoot \/ BootCopy
      BY <3>1 DEF SyncInventoryOnBoot, BootCopy, OemInv, Truncate, Fill, InventoryTypeOK, Paths
    <3>2. CASE BootVersions
      <4>1. file["oem"] \in Versions
        BY <3>2 DEF BootVersions, OemInv, InventoryTypeOK, Contents, Paths
      <4>2. file["oem"] \in Nat
        BY <4>1, InventoryAssumption
      <4>3. file["oem"] # Broken /\ ~(file["oem"] > file["oem"])
        BY <4>2 DEF Broken
      <4>. QED BY <3>2, <4>3 DEF BootVersions
    <3>3. ~BootReplace
      BY DEF BootReplace, OemInv
    <3>. QED BY <1>2, <3>1, <3>2, <3>3 DEF Boot
  <2>2. UNCHANGED <<replaced, version, result>>
    BY <1>2 DEF Boot, SyncInventoryOnBoot, BootCopy, BootVersions, BootReplace
  <2>. QED BY <2>1, <2>2, InUseStays DEF Reported, Durable!durableVars
<1>3. CASE Crash
  BY <1>3, DurableCrash DEF Durable!DurableNext
<1>4. CASE Install
  <2>1. file'["oem"] = file["oem"] /\ file'["data"] = file["data"]
    BY <1>4 DEF Install, InventoryTypeOK, Paths
  <2>2. Reported' = NotReplaced /\ UNCHANGED replaced
    BY <1>4 DEF Install, Reported
  <2>. QED BY <2>1, <2>2, InUseStays DEF Durable!DurableNext, Durable!Begin
<1>5. CASE PostInstall
  <2>1. file'["oem"] = file["oem"] /\ file'["data"] = file["data"]
    BY <1>5 DEF PostInstall, InventoryTypeOK, Paths
  <2>. QED BY <1>5, <2>1, InUseStays DEF PostInstall, Reported, Durable!durableVars
<1>6. CASE Unzipped \/ TmpCopy \/ Fsync \/ BackupCopy
  <2>1. file'["oem"] = file["oem"] /\ file'["data"] = file["data"]
    BY <1>6 DEF Unzipped, TmpCopy, Fsync, BackupCopy, Truncate, Fill, RemoveTmp, InventoryTypeOK, Paths
  <2>2. pc # "idle" /\ result' \in {result, "INSTALL_FAILED"} /\ UNCHANGED replaced
    BY <1>6 DEF Unzipped, TmpCopy, Fsync, BackupCopy
  <2>3. Reported = NotReplaced /\ Reported' = NotReplaced
    BY <2>2, ReportedAtRest DEF SettledInv, Reported
  <2>. QED BY <2>1, <2>2, <2>3, InUseStays DEF Durable!durableVars
<1>7. CASE Rename
  BY <1>0, <1>7, DurableRename DEF Durable!DurableNext
<1>8. CASE Sync
  BY <1>8 DEF Sync, InUse, Reported, Durable!DurableNext, Durable!Settle
<1>9. CASE Verify
  <2>1. UNCHANGED <<file, replaced, result, version>>
    BY <1>0, <1>9 DEF Verify, StagedInv, InPlace
  <2>. QED BY <2>1 DEF InUse, Reported, Durable!durableVars
<1>10. CASE Restore
  BY <1>10 DEF Restore, OemInv
<1>11. CASE Check
  <2>1. InUse = Current /\ InUse' = InUse /\ replaced = NotReplaced /\ replaced' = NotReplaced
    BY <1>11, InUseIsCurrent DEF Check, BootPoints, SettledInv, InUse
  <2>2. Reported = NotReplaced
    BY <1>11, ReportedAtRest DEF Check
  <2>3. Reported' \in {NotReplaced, Current}
    BY <1>11 DEF Check, Reported
  <2>. QED BY <2>1, <2>2, <2>3 DEF Durable!DurableNext, Durable!Report, Durable!durableVars
<1>. QED
  BY <1>1, <1>2, <1>3, <1>4, <1>5, <1>6, <1>7, <1>8, <1>9, <1>10, <1>11
     DEF InventoryNext, UpdateInventoryFile

\* The install of an inventory is one durable replacement: for every set of
\* versions, any number of installs and power failures at any step, and with
\* copies, forced writes and renames that fail.
THEOREM InventoryImplementsDurable ==
    ASSUME AtomicFaults \cap IoFaults = {}, Broken \notin OemContents
    PROVE  InventorySpec => ImplementsDurable
<1>1. InventoryInit => InventoryTypeOK /\ AtomicInv /\ Durable!DurableInit
  BY InitType, InitAtomic, DurableInitially
<1>2. InventoryTypeOK /\ AtomicInv /\ [InventoryNext]_vars => AtomicInv'
  BY NextAtomic
<1>3. InventoryTypeOK /\ AtomicInv /\ SettledInv /\ [InventoryNext]_vars
        => [Durable!DurableNext]_(Durable!durableVars)
  BY DurableStep
<1>. QED
  BY <1>1, <1>2, <1>3, SettledInvariant, PTL DEF InventorySpec, ImplementsDurable, Durable!DurableSpec
=============================================================================
