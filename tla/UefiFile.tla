------------------------------ MODULE UefiFile ------------------------------
(***************************************************************************)
(* The file-handle and volume-lifecycle layer of the ntfs-3g UEFI driver,  *)
(* src/uefi-driver/uefi_file.c, for one volume (one EFI_FS).               *)
(*                                                                         *)
(* An EFI_NTFS_FILE instance is identified by its path: the engine keeps   *)
(* one instance per open path (NtfsOpenFile/NtfsCreateFile hand back the   *)
(* instance already open for that path), so the per-instance fields are   *)
(* functions over Paths.  A handle value is a pair <<path, mode>>: the     *)
(* EfiFileRW or the EfiFileRO member of the instance (RO_ACCESS,           *)
(* BASE_FILE).  The caller (the UEFI shell or a loader) is modelled by the *)
(* bag `held` of handle values it has been given and not yet closed.       *)
(*                                                                         *)
(* The engine collaborator (uefi_bridge.c, not part of this repository) is *)
(* modelled from the contract of spec.md sections 4.2 and 6.               *)
(***************************************************************************)
EXTENDS Integers, Sequences

LOCAL INSTANCE Functions

CONSTANTS
    Segs,        \* names of path segments (model values)
    MaxDepth,    \* the deepest path considered
    InitDirs,    \* directories on the volume initially (besides the root)
    InitFiles,   \* regular files on the volume initially
    Labels,      \* the volume labels SetInfo may write
    RoMounts,    \* what NtfsIsVolumeReadOnly may answer after a mount
    AllocFails,  \* whether pool allocations and engine calls may fail
    MaxRefs      \* bound on TotalRefCount: the caller's opens stop there

Root == <<>>

Paths == UNION {[1 .. n -> Segs] : n \in 0 .. MaxDepth}

Parent(p) == SubSeq(p, 1, Len(p) - 1)

ASSUME ConstantsAssumption ==
    /\ MaxDepth \in Nat
    /\ InitDirs \subseteq Paths \ {Root}
    /\ InitFiles \subseteq Paths \ {Root}
    /\ InitDirs \cap InitFiles = {}
    /\ \A p \in InitDirs \cup InitFiles : Parent(p) \in InitDirs \cup {Root}
    /\ Labels # {}
    /\ RoMounts \subseteq BOOLEAN /\ RoMounts # {}
    /\ AllocFails \in BOOLEAN
    /\ MaxRefs \in Nat

(* The two members of an EFI_NTFS_FILE a handle value may point to. *)
Modes == {"RO", "RW"}

HandleVals == Paths \X Modes

(* The Mode argument of Open; "CR" stands for every invalid combination. *)
OpenModes == {"R", "RW", "CRW", "CR"}

HasWrite(mode) == mode \in {"RW", "CRW"}

HasCreate(mode) == mode \in {"CRW", "CR"}

(* The Name argument of Open, abstracted to what the code tells apart:     *)
(* "", ".", "..", a relative child name, or an absolute path.              *)
Names ==
    {[kind |-> k, path |-> Root] : k \in {"empty", "dot", "dotdot"}}
    \cup {[kind |-> "rel", path |-> <<s>>] : s \in Segs}
    \cup {[kind |-> "abs", path |-> q] : q \in Paths}

InfoKinds == {"FileInfo", "FsInfo", "LabelInfo", "Other"}

Ops == {"none", "Install", "OpenVolume", "Open", "Close", "Delete", "Write",
        "Flush", "SetInfo", "Uninstall"}

Statuses == {"SUCCESS", "WARN_DELETE_FAILURE", "NOT_FOUND", "ACCESS_DENIED",
             "WRITE_PROTECTED", "INVALID_PARAMETER", "OUT_OF_RESOURCES",
             "UNSUPPORTED", "BAD_BUFFER_SIZE", "DEVICE_ERROR", "ENGINE_ERROR"}

VARIABLES
    installed,  \* the simple file system protocol is installed (FSInstall)
    mounted,    \* the engine volume is mounted (FileSystem->NtfsVolume)
    readOnly,   \* NtfsIsVolumeReadOnly of the current (or last) mount
    label,      \* FileSystem->NtfsVolumeLabel
    totalRef,   \* FileSystem->TotalRefCount
    alloc,      \* alloc[p]: an EFI_NTFS_FILE for p is allocated, inode open
    ref,        \* ref[p]: its RefCount
    exists,     \* the paths present on the volume
    isDir,      \* isDir[p]: p is a directory (File->IsDir)
    held,       \* held[<<p, m>>]: handle values of that kind the caller holds
    last        \* the operation last called, the value it went through, its status

vars == <<installed, mounted, readOnly, label, totalRef, alloc, ref, exists,
          isDir, held, last>>

TypeOK ==
    /\ installed \in BOOLEAN
    /\ mounted \in BOOLEAN
    /\ readOnly \in BOOLEAN
    /\ label \in Labels
    /\ totalRef \in Int
    /\ alloc \in [Paths -> BOOLEAN]
    /\ ref \in [Paths -> Nat]
    /\ exists \in SUBSET Paths
    /\ isDir \in [Paths -> BOOLEAN]
    /\ held \in [HandleVals -> Nat]
    /\ last \in [op : Ops, via : Modes \cup {"none"}, status : Statuses]

Init ==
    /\ installed = FALSE
    /\ mounted = FALSE
    /\ readOnly = FALSE
    /\ label \in Labels
    /\ totalRef = 0
    /\ alloc = [p \in Paths |-> FALSE]
    /\ ref = [p \in Paths |-> 0]
    /\ exists = {Root} \cup InitDirs \cup InitFiles
    /\ isDir = [p \in Paths |-> p = Root \/ p \in InitDirs]
    /\ held = [h \in HandleVals |-> 0]
    /\ last = [op |-> "none", via |-> "none", status |-> "SUCCESS"]

-----------------------------------------------------------------------------
(* Helpers *)

Return(op, via, status) == last' = [op |-> op, via |-> via, status |-> status]

(* An early return: nothing but the status changes. *)
Fail(op, via, status) ==
    /\ Return(op, via, status)
    /\ UNCHANGED <<installed, mounted, readOnly, label, totalRef, alloc, ref,
                   exists, isDir, held>>

(* The value returned for a requested Mode (FileOpen lines 105 and 186). *)
ValueMode(mode) == IF HasWrite(mode) THEN "RW" ELSE "RO"

(* RefCount++, TotalRefCount++ on the instance for t, and the handle value *)
(* *New handed to the caller.                                              *)
Grant(t, m) ==
    /\ alloc' = [alloc EXCEPT ![t] = TRUE]
    /\ ref' = [ref EXCEPT ![t] = @ + 1]
    /\ totalRef' = totalRef + 1
    /\ held' = [held EXCEPT ![<<t, m>>] = @ + 1]

(* The path FileOpen builds from the parent's path and Name, after the     *)
(* delimiter conversion and CleanPath.                                     *)
Resolve(p, name) ==
    CASE name.kind = "abs"    -> name.path
      [] name.kind = "rel"    -> p \o name.path
      [] name.kind = "dotdot" -> Parent(p)
      [] OTHER                -> p

Children(p) == {q \in exists : q # Root /\ Parent(q) = p}

-----------------------------------------------------------------------------
(* FSInstall: the NTFS signature probe, then the protocol is installed on a *)
(* freshly allocated EFI_FS.                                               *)
FSInstall ==
    /\ ~installed
    /\ \/ /\ installed' = TRUE
          /\ mounted' = FALSE
          /\ totalRef' = 0
          /\ alloc' = [p \in Paths |-> FALSE]
          /\ ref' = [p \in Paths |-> 0]
          /\ held' = [h \in HandleVals |-> 0]
          /\ Return("Install", "none", "SUCCESS")
          /\ UNCHANGED <<readOnly, label, exists, isDir>>
       \/ Fail("Install", "none", "UNSUPPORTED")

(* FSUninstall: force the unmount if files are still open.  The EFI_FS,  *)
(* its instances and the caller's handle values are released with the     *)
(* protocol.                                                               *)
FSUninstall ==
    /\ installed
    /\ installed' = FALSE
    /\ mounted' = IF totalRef > 0 THEN FALSE ELSE mounted
    /\ totalRef' = 0
    /\ alloc' = [p \in Paths |-> FALSE]
    /\ ref' = [p \in Paths |-> 0]
    /\ held' = [h \in HandleVals |-> 0]
    /\ Return("Uninstall", "none", "SUCCESS")
    /\ UNCHANGED <<readOnly, label, exists, isDir>>

(* FileOpenVolume: NtfsMountVolume (a no-op when mounted), allocate and    *)
(* open the root instance; on any failure close it and unmount.           *)
FileOpenVolume ==
    /\ installed
    /\ totalRef < MaxRefs
    /\ \/ /\ ~mounted
          /\ AllocFails
          /\ Fail("OpenVolume", "none", "DEVICE_ERROR")
       \/ /\ AllocFails
          /\ mounted' = FALSE
          /\ Return("OpenVolume", "none", "OUT_OF_RESOURCES")
          /\ UNCHANGED <<installed, readOnly, label, totalRef, alloc, ref,
                         exists, isDir, held>>
       \/ /\ mounted' = TRUE
          /\ IF mounted THEN UNCHANGED readOnly ELSE readOnly' \in RoMounts
          /\ Grant(Root, "RW")
          /\ Return("OpenVolume", "none", "SUCCESS")
          /\ UNCHANGED <<installed, label, exists, isDir>>

(* The checks of FileOpen up to the reopen of ".", in the code's order:   *)
(* the status of the first that fails, "OK" when all pass.                *)
OpenCheck(p, name, mode) ==
    CASE readOnly /\ mode # "R"                  -> "WRITE_PROTECTED"
      [] name.kind = "dotdot" /\ p = Root        -> "NOT_FOUND"
      [] ~isDir[p]                               -> "NOT_FOUND"
      [] mode \notin {"R", "RW", "CRW"}          -> "INVALID_PARAMETER"
      [] HasCreate(mode) /\ name.kind \in {"empty", "dot", "dotdot"}
                                                 -> "ACCESS_DENIED"
      [] OTHER                                   -> "OK"

(* What NtfsCreateFile and NtfsOpenFile, the engine's CreateFile and     *)
(* OpenFile of spec section 6, answer for path t: a create needs an      *)
(* existing parent directory, an open an existing path.                   *)
EngineAnswer(t, mode) ==
    CASE HasCreate(mode) /\ t \notin exists
            /\ (Parent(t) \notin exists \/ ~isDir[Parent(t)]) -> "NOT_FOUND"
      [] ~HasCreate(mode) /\ t \notin exists               -> "NOT_FOUND"
      [] OTHER                                             -> "SUCCESS"

(* The status of FileOpen after the path is built: creating the root is   *)
(* refused, then NtfsCreateFile or NtfsOpenFile answers for path t.        *)
OpenOutcome(t, mode) ==
    IF HasCreate(mode) /\ t = Root THEN "ACCESS_DENIED"
    ELSE EngineAnswer(t, mode)

(* Mutant: the reopen of "." forgets File->RefCount++. *)
ReopenSelfNoRefCount(h, mode) ==
    /\ totalRef' = totalRef + 1
    /\ held' = [held EXCEPT ![<<h[1], ValueMode(mode)>>] = @ + 1]
    /\ Return("Open", h[2], "SUCCESS")
    /\ UNCHANGED <<installed, mounted, readOnly, label, alloc, ref, exists,
                   isDir>>

(* Name is "" or ".": the same instance, with the requested member. *)
ReopenSelf(h, mode) ==
    /\ Grant(h[1], ValueMode(mode))
    /\ Return("Open", h[2], "SUCCESS")
    /\ UNCHANGED <<installed, mounted, readOnly, label, exists, isDir>>

(* The instance for t, created on the volume if it is missing. *)
OpenPath(h, t, mode, dirAttr) ==
    /\ exists' = exists \cup {t}
    /\ isDir' = IF t \in exists THEN isDir ELSE [isDir EXCEPT ![t] = dirAttr]
    /\ Grant(t, ValueMode(mode))
    /\ Return("Open", h[2], "SUCCESS")
    /\ UNCHANGED <<installed, mounted, readOnly, label>>

FileOpen(h, name, mode, dirAttr) ==
    LET check == OpenCheck(h[1], name, mode)
        t == Resolve(h[1], name)
    IN
    /\ installed
    /\ held[h] > 0
    /\ totalRef < MaxRefs
    /\ t \in Paths
    /\ \/ /\ check # "OK"
          /\ Fail("Open", h[2], check)
       \/ /\ check = "OK"
          /\ name.kind \in {"empty", "dot"}
          /\ ReopenSelf(h, mode)
       \/ /\ check = "OK"
          /\ name.kind \notin {"empty", "dot"}
          /\ AllocFails
          /\ Fail("Open", h[2], "OUT_OF_RESOURCES")
       \/ /\ check = "OK"
          /\ name.kind \notin {"empty", "dot"}
          /\ OpenOutcome(t, mode) # "SUCCESS"
          /\ Fail("Open", h[2], OpenOutcome(t, mode))
       \/ /\ check = "OK"
          /\ name.kind \notin {"empty", "dot"}
          /\ OpenOutcome(t, mode) = "SUCCESS"
          /\ OpenPath(h, t, mode, dirAttr)

(* Mutant: the instance is freed while one reference remains. *)
FileCloseFreeAtOne(h) ==
    LET p == h[1] IN
    /\ installed
    /\ held[h] > 0
    /\ held' = [held EXCEPT ![h] = @ - 1]
    /\ ref' = [ref EXCEPT ![p] = @ - 1]
    /\ alloc' = IF ref[p] - 1 <= 1 THEN [alloc EXCEPT ![p] = FALSE] ELSE alloc
    /\ totalRef' = totalRef - 1
    /\ mounted' = IF totalRef - 1 <= 0 THEN FALSE ELSE mounted
    /\ Return("Close", h[2], "SUCCESS")
    /\ UNCHANGED <<installed, readOnly, label, exists, isDir>>

(* FileClose: RefCount--, free the instance at zero; TotalRefCount--,     *)
(* unmount at zero.                                                        *)
FileClose(h) ==
    LET p == h[1] IN
    /\ installed
    /\ held[h] > 0
    /\ held' = [held EXCEPT ![h] = @ - 1]
    /\ ref' = [ref EXCEPT ![p] = @ - 1]
    /\ alloc' = IF ref[p] - 1 <= 0 THEN [alloc EXCEPT ![p] = FALSE] ELSE alloc
    /\ totalRef' = totalRef - 1
    /\ mounted' = IF totalRef - 1 <= 0 THEN FALSE ELSE mounted
    /\ Return("Close", h[2], "SUCCESS")
    /\ UNCHANGED <<installed, readOnly, label, exists, isDir>>

(* Mutant: TotalRefCount is decremented only on the path that deletes. *)
DeleteReleaseKeepTotal(h) ==
    /\ held' = [held EXCEPT ![h] = @ - 1]
    /\ ref' = [ref EXCEPT ![h[1]] = @ - 1]
    /\ totalRef' = IF ref[h[1]] - 1 > 0 \/ readOnly THEN totalRef
                   ELSE totalRef - 1

(* Mutant: the close half runs twice, as if FileClose were called before  *)
(* NtfsDeleteFile.                                                         *)
DeleteReleaseTwice(h) ==
    /\ held' = [held EXCEPT ![h] = @ - 1]
    /\ ref' = [ref EXCEPT ![h[1]] = @ - 2]
    /\ totalRef' = totalRef - 2

(* The close half of FileDelete: RefCount--, TotalRefCount--. *)
DeleteRelease(h) ==
    /\ held' = [held EXCEPT ![h] = @ - 1]
    /\ ref' = [ref EXCEPT ![h[1]] = @ - 1]
    /\ totalRef' = totalRef - 1

(* FileDelete: refused on the root; otherwise the handle is closed and    *)
(* the file deleted only if that was its last reference on a writable     *)
(* volume.  NtfsDeleteFile closes the inode; a directory that is not      *)
(* empty is not removed and its error is returned.                        *)
FileDelete(h) ==
    LET p == h[1] IN
    /\ installed
    /\ held[h] > 0
    /\ \/ /\ p = Root
          /\ Fail("Delete", h[2], "ACCESS_DENIED")
       \/ /\ p # Root
          /\ DeleteRelease(h)
          /\ \/ /\ ref[p] - 1 > 0 \/ readOnly
                /\ Return("Delete", h[2], "WARN_DELETE_FAILURE")
                /\ UNCHANGED <<mounted, alloc, exists>>
             \/ /\ ~(ref[p] - 1 > 0 \/ readOnly)
                /\ alloc' = [alloc EXCEPT ![p] = FALSE]
                /\ mounted' = IF totalRef - 1 <= 0 THEN FALSE ELSE mounted
                /\ exists' = IF Children(p) = {} THEN exists \ {p} ELSE exists
                /\ Return("Delete", h[2], IF Children(p) = {} THEN "SUCCESS"
                                          ELSE "ENGINE_ERROR")
          /\ UNCHANGED <<installed, readOnly, label, isDir>>

(* FileWrite: the bytes themselves are not modelled. *)
FileWrite(h) ==
    /\ installed
    /\ held[h] > 0
    /\ Fail("Write", h[2],
            CASE h[2] = "RO"   -> "ACCESS_DENIED"
              [] readOnly      -> "WRITE_PROTECTED"
              [] isDir[h[1]]   -> "UNSUPPORTED"
              [] OTHER         -> "SUCCESS")

(* FileFlush: a no-op success on a read-only volume. *)
FileFlush(h) ==
    /\ installed
    /\ held[h] > 0
    /\ Fail("Flush", h[2], IF h[2] = "RO" THEN "ACCESS_DENIED" ELSE "SUCCESS")

(* FileSetInfo.  bufOk abstracts the buffer-size checks on Len, attrOk    *)
(* the check of Info->Attribute against EFI_FILE_VALID_ATTR.  File        *)
(* information is passed to NtfsSetFileInfo and is not modelled further;  *)
(* the two label kinds rename the volume.                                 *)
(* Mutant: the volume label may be set through a value of any file. *)
SetInfoStatusAnyHandle(h, kind, bufOk, attrOk) ==
    IF readOnly THEN "WRITE_PROTECTED"
    ELSE CASE kind = "FileInfo" ->
                IF ~bufOk THEN "BAD_BUFFER_SIZE"
                ELSE IF ~attrOk THEN "INVALID_PARAMETER" ELSE "SUCCESS"
           [] kind \in {"FsInfo", "LabelInfo"} ->
                IF ~bufOk THEN "BAD_BUFFER_SIZE" ELSE "SUCCESS"
           [] OTHER -> "UNSUPPORTED"

(* The early returns of FileSetInfo, in the code's order. *)
SetInfoStatus(h, kind, bufOk, attrOk) ==
    IF readOnly THEN "WRITE_PROTECTED"
    ELSE CASE kind = "FileInfo" ->
                IF ~bufOk THEN "BAD_BUFFER_SIZE"
                ELSE IF ~attrOk THEN "INVALID_PARAMETER" ELSE "SUCCESS"
           [] kind \in {"FsInfo", "LabelInfo"} ->
                IF h[1] # Root THEN "ACCESS_DENIED"
                ELSE IF ~bufOk THEN "BAD_BUFFER_SIZE" ELSE "SUCCESS"
           [] OTHER -> "UNSUPPORTED"

FileSetInfo(h, kind, bufOk, attrOk, newLabel) ==
    LET status == SetInfoStatus(h, kind, bufOk, attrOk) IN
    /\ installed
    /\ held[h] > 0
    /\ label' = IF kind \in {"FsInfo", "LabelInfo"} /\ status = "SUCCESS"
                  THEN newLabel ELSE label
    /\ Return("SetInfo", h[2], status)
    /\ UNCHANGED <<installed, mounted, readOnly, totalRef, alloc, ref, exists,
                   isDir, held>>

-----------------------------------------------------------------------------
Next ==
    \/ FSInstall
    \/ FSUninstall
    \/ FileOpenVolume
    \/ \E h \in HandleVals :
          \/ \E name \in Names, mode \in OpenModes, dirAttr \in BOOLEAN :
                FileOpen(h, name, mode, dirAttr)
          \/ FileClose(h)
          \/ FileDelete(h)
          \/ FileWrite(h)
          \/ FileFlush(h)
          \/ \E kind \in InfoKinds, bufOk, attrOk \in BOOLEAN, l \in Labels :
                FileSetInfo(h, kind, bufOk, attrOk, l)

Spec == Init /\ [][Next]_vars

-----------------------------------------------------------------------------
(* Properties *)

(* Every instance's RefCount equals the number of handle values the       *)
(* caller holds to it, over both of its members: reopening ".", a second  *)
(* open of a path that resolves to the shared instance, a Delete that     *)
(* only warns and every failure path of Open keep the count exact.        *)
RefCountMatchesHeld ==
    \A p \in Paths : ref[p] = held[<<p, "RO">>] + held[<<p, "RW">>]

(* No handle value the caller holds refers to an instance that was freed  *)
(* or to a file that was deleted from the volume (FileClose frees at zero *)
(* references, FileDelete deletes only the last reference).               *)
NoDanglingHandle ==
    \A h \in HandleVals : held[h] > 0 => alloc[h[1]] /\ h[1] \in exists

(* TotalRefCount counts exactly the handle values the caller holds, over  *)
(* all instances: every path that changes one RefCount changes it too.    *)
TotalRefCountMatchesHeld == totalRef = SumFunction(held)

(* Refinement mapping: the caller's held values, the files on the volume, *)
(* the label and the installed protocol are what UefiVolume speaks of.    *)
Vol == INSTANCE UefiVolume
           WITH up <- installed, handles <- held, files <- exists,
                volLabel <- label

(* The layer implements its abstract contract (UefiVolume): every Open,  *)
(* Close, Delete, SetInfo, OpenVolume, Install and Uninstall is a step of *)
(* the contract or changes nothing it speaks of, so a file is created     *)
(* only under an existing directory, removed only through its last open  *)
(* value and when it has no children, and only values the caller holds   *)
(* are used.                                                               *)
VolumeSpec == Vol!Spec

(* Spec section 3: a mounted volume has a file open on it (the volume is  *)
(* unmounted as soon as the last file is closed or deleted).              *)
MountedImpliesOpenFiles == installed /\ mounted => totalRef > 0

(* Spec section 3: while files are open the volume stays mounted.         *)
OpenFilesImplyMounted == installed /\ totalRef > 0 => mounted

(* Spec section 4.3: a read-only handle value cannot modify the volume:   *)
(* Write and SetInfo through it fail with AccessDenied, even if the file  *)
(* is open read-write through another value.  Checked on what the code    *)
(* changes itself: a successful Write and the volume label.               *)
ReadOnlyValueCannotModify ==
    [][(label' # label \/ (last'.op = "Write" /\ last'.status = "SUCCESS"))
         => last'.via = "RW"]_vars

=============================================================================
