------------------------------ MODULE UefiInfo ------------------------------
(***************************************************************************)
(* The caller-buffer protocols of one open instance of src/uefi-driver/    *)
(* uefi_file.c: FileGetInfo (file, file-system and volume-label info),     *)
(* FileRead on a directory (FileReadDir and its DirHook callback) and     *)
(* FileSetPosition/FileGetPosition on a directory.                         *)
(*                                                                         *)
(* Sizes are in bytes, with the layout constants of the EFI headers.  A    *)
(* call records what the caller sees: the status, the *Len it gets back    *)
(* and how far into its buffer the code wrote (`written`, one past the     *)
(* last byte), so that an overrun is a state TLC can see.                  *)
(*                                                                         *)
(* The directory is read through several handle values of the one         *)
(* instance (the reopen of "." the Shell performs returns the same        *)
(* EFI_NTFS_FILE), so DirPos is shared; each value keeps the listing it    *)
(* was handed since it last rewound.  NtfsReadDirectory is modelled from  *)
(* spec section 4.4: it visits the entries after DirPos and stops at the  *)
(* first one the hook does not skip, leaving DirPos at that entry when    *)
(* the hook fails and after it when the hook succeeds.                    *)
(***************************************************************************)
EXTENDS Integers, Sequences

CONSTANTS
    NameSizes,   \* sizes of the instance's BaseName, NUL included
    LabelSizes,  \* sizes of NtfsVolumeLabel, NUL included; 0 for NULL
    Dir,         \* the directory's entries in engine order: [ino, nameLen]
    Lens,        \* buffer sizes the caller passes in *Len
    Views,       \* handle values through which the directory is read
    InfoFails    \* whether NtfsGetFileInfo may fail

(* Layout of the EFI structures (MdePkg FileInfo.h, FileSystemInfo.h). *)
SIZE_OF_EFI_FILE_INFO == 80

SIZE_OF_EFI_FILE_SYSTEM_INFO == 36

SIZE_OF_CHAR16 == 2

(* The Size field at the head of EFI_FILE_INFO is a UINT64. *)
SIZE_OF_SIZE_FIELD == 8

(* NTFS system inode numbers (ntfs-3g layout.h). *)
FILE_ROOT == 5

FILE_FIRST_USER == 16

ASSUME ConstantsAssumption ==
    /\ NameSizes \subseteq Nat \ {0, 1}
    /\ LabelSizes \subseteq Nat \ {1} /\ LabelSizes # {}
    /\ Dir \in Seq([ino : Nat, nameLen : 0 .. 255])
    /\ Lens \subseteq Nat
    /\ Views # {}
    /\ InfoFails \in BOOLEAN

VARIABLES
    isRoot,      \* File->IsRoot
    isDir,       \* File->IsDir
    nameSize,    \* SafeStrSize(File->BaseName)
    labelSize,   \* SafeStrSize(NtfsVolumeLabel), 0 when it is NULL
    dirPos,      \* File->DirPos: entries of Dir the engine has consumed
    listed,      \* per handle value: indices of Dir handed out since rewind
    last         \* what the last call returned to the caller

vars == <<isRoot, isDir, nameSize, labelSize, dirPos, listed, last>>

Kinds == {"FileInfo", "FsInfo", "LabelInfo", "Other"}

Ops == {"none", "GetInfo", "ReadDir", "SetPosition", "GetPosition"}

Statuses == {"SUCCESS", "BUFFER_TOO_SMALL", "ACCESS_DENIED", "UNSUPPORTED",
             "ENGINE_ERROR"}

TypeOK ==
    /\ isRoot \in BOOLEAN /\ isDir \in BOOLEAN
    /\ nameSize \in NameSizes \cup {SIZE_OF_CHAR16} /\ labelSize \in LabelSizes
    /\ dirPos \in 0 .. Len(Dir)
    /\ listed \in [Views -> Seq(1 .. Len(Dir))]
    /\ last \in [op : Ops, kind : Kinds \cup {"none"}, via : Views \cup {"none"},
                 len : Nat, lenOut : Nat, status : Statuses, written : Nat]

(* The root's BaseName is the empty string after its "\" (FileOpenVolume *)
(* sets BaseName = &Path[1]), and the root is a directory.                *)
Init ==
    /\ isRoot \in BOOLEAN
    /\ isDir \in BOOLEAN
    /\ isRoot => isDir
    /\ nameSize \in IF isRoot THEN {SIZE_OF_CHAR16} ELSE NameSizes
    /\ labelSize \in LabelSizes
    /\ dirPos = 0
    /\ listed = [v \in Views |-> <<>>]
    /\ last = [op |-> "none", kind |-> "none", via |-> "none", len |-> 0,
               lenOut |-> 0, status |-> "SUCCESS", written |-> 0]

Answer(op, kind, via, len, lenOut, status, written) ==
    last' = [op |-> op, kind |-> kind, via |-> via, len |-> len,
             lenOut |-> lenOut, status |-> status, written |-> written]

(* The label size GetInfo uses: sizeof(CHAR16) for a NULL label. *)
LabelSize == IF labelSize = 0 THEN SIZE_OF_CHAR16 ELSE labelSize

-----------------------------------------------------------------------------
(* FileGetInfo, one operator per information type. *)

(* Mutant: the required size reported without the fixed part. *)
FileInfoCallNameOnly(len) ==
    LET need == SIZE_OF_EFI_FILE_INFO + nameSize IN
    \/ /\ len < need
       /\ Answer("GetInfo", "FileInfo", "none", len, nameSize,
                 "BUFFER_TOO_SMALL", 0)
    \/ /\ len >= need
       /\ InfoFails
       /\ Answer("GetInfo", "FileInfo", "none", len, len, "ENGINE_ERROR",
                 SIZE_OF_EFI_FILE_INFO)
    \/ /\ len >= need
       /\ Answer("GetInfo", "FileInfo", "none", len, need, "SUCCESS", need)

(* EFI_FILE_INFO: the fixed part is zeroed and filled by NtfsGetFileInfo, *)
(* then the BaseName is copied behind it.                                  *)
FileInfoCall(len) ==
    LET need == SIZE_OF_EFI_FILE_INFO + nameSize IN
    \/ /\ len < need
       /\ Answer("GetInfo", "FileInfo", "none", len, need,
                 "BUFFER_TOO_SMALL", 0)
    \/ /\ len >= need
       /\ InfoFails
       /\ Answer("GetInfo", "FileInfo", "none", len, len, "ENGINE_ERROR",
                 SIZE_OF_EFI_FILE_INFO)
    \/ /\ len >= need
       /\ Answer("GetInfo", "FileInfo", "none", len, need, "SUCCESS", need)

(* Mutant: *Len left at the fixed part (line 562 without line 588). *)
FsInfoCallFixedLen(len) ==
    LET need == SIZE_OF_EFI_FILE_SYSTEM_INFO + LabelSize IN
    \/ /\ len < need
       /\ Answer("GetInfo", "FsInfo", "none", len, need, "BUFFER_TOO_SMALL", 0)
    \/ /\ len >= need
       /\ Answer("GetInfo", "FsInfo", "none", len,
                 SIZE_OF_EFI_FILE_SYSTEM_INFO, "SUCCESS", need)

(* EFI_FILE_SYSTEM_INFO: fixed part and an empty label zeroed, the label  *)
(* copied behind the fixed part.                                           *)
FsInfoCall(len) ==
    LET need == SIZE_OF_EFI_FILE_SYSTEM_INFO + LabelSize IN
    \/ /\ len < need
       /\ Answer("GetInfo", "FsInfo", "none", len, need, "BUFFER_TOO_SMALL", 0)
    \/ /\ len >= need
       /\ Answer("GetInfo", "FsInfo", "none", len, need, "SUCCESS", need)

(* EFI_FILE_SYSTEM_VOLUME_LABEL, root only.  The code compares the label  *)
(* size with *Len as written: Size < *Len is answered BUFFER_TOO_SMALL.    *)
LabelCall(len) ==
    \/ /\ ~isRoot
       /\ Answer("GetInfo", "LabelInfo", "none", len, len, "ACCESS_DENIED", 0)
    \/ /\ isRoot
       /\ len < SIZE_OF_CHAR16
       /\ Answer("GetInfo", "LabelInfo", "none", len, len,
                 "BUFFER_TOO_SMALL", 0)
    \/ /\ isRoot
       /\ len >= SIZE_OF_CHAR16
       /\ LabelSize < len
       /\ Answer("GetInfo", "LabelInfo", "none", len, LabelSize,
                 "BUFFER_TOO_SMALL", 0)
    \/ /\ isRoot
       /\ len >= SIZE_OF_CHAR16
       /\ ~(LabelSize < len)
       /\ Answer("GetInfo", "LabelInfo", "none", len, LabelSize, "SUCCESS",
                 LabelSize)

FileGetInfo(kind, len) ==
    /\ \/ kind = "FileInfo" /\ FileInfoCall(len)
       \/ kind = "FsInfo" /\ FsInfoCall(len)
       \/ kind = "LabelInfo" /\ LabelCall(len)
       \/ kind = "Other" /\ Answer("GetInfo", kind, "none", len, len,
                                   "UNSUPPORTED", 0)
    /\ UNCHANGED <<isRoot, isDir, nameSize, labelSize, dirPos, listed>>

-----------------------------------------------------------------------------
(* FileRead on a directory. *)

(* Mutant: the skip of system files dropped. *)
HiddenNone(e) == FALSE

(* Mutant: the root's own entry is skipped with the system files. *)
HiddenNoRoot(e) == e.ino < FILE_FIRST_USER

(* DirHook's skip rule: system files other than the root are not listed. *)
Hidden(e) == e.ino < FILE_FIRST_USER /\ e.ino # FILE_ROOT

(* The entries NtfsReadDirectory would still visit and the hook keeps. *)
Visible == {i \in dirPos + 1 .. Len(Dir) : ~Hidden(Dir[i])}

FirstVisible == CHOOSE i \in Visible : \A j \in Visible : i <= j

(* Mutant: the position moves on past the end of the directory. *)
EndOfDirAdvance(v, len) ==
    /\ dirPos' = Len(Dir) + 1
    /\ Answer("ReadDir", "none", v, len, 0, "SUCCESS", SIZE_OF_SIZE_FIELD)
    /\ UNCHANGED listed

(* EFI_END_OF_FILE from the engine: a successful read of zero bytes. *)
EndOfDir(v, len) ==
    /\ dirPos' = Len(Dir)
    /\ Answer("ReadDir", "none", v, len, 0, "SUCCESS", SIZE_OF_SIZE_FIELD)
    /\ UNCHANGED listed

(* Mutant: DirPos is left at the entry the hook returned. *)
ReadDirKeepPos(v, len) ==
    LET i == FirstVisible
        need == (Dir[i].nameLen + 1) * SIZE_OF_CHAR16
    IN
    /\ isDir
    /\ \/ /\ Visible = {}
          /\ EndOfDir(v, len)
       \/ /\ Visible # {}
          /\ len < need
          /\ dirPos' = i - 1
          /\ Answer("ReadDir", "none", v, len, len, "BUFFER_TOO_SMALL",
                    SIZE_OF_SIZE_FIELD)
          /\ UNCHANGED listed
       \/ /\ Visible # {}
          /\ len >= need
          /\ InfoFails
          /\ dirPos' = i - 1
          /\ Answer("ReadDir", "none", v, len, len, "ENGINE_ERROR",
                    SIZE_OF_EFI_FILE_INFO + need)
          /\ UNCHANGED listed
       \/ /\ Visible # {}
          /\ len >= need
          /\ dirPos' = i - 1
          /\ listed' = [listed EXCEPT ![v] = Append(@, i)]
          /\ Answer("ReadDir", "none", v, len, SIZE_OF_EFI_FILE_INFO + need,
                    "SUCCESS", SIZE_OF_EFI_FILE_INFO + need)
    /\ UNCHANGED <<isRoot, isDir, nameSize, labelSize>>

(* FileReadDir stores *Len in Info->Size before anything else; the hook  *)
(* checks Info->Size against the name alone, copies the name behind the  *)
(* fixed part and returns one entry; end of directory is a zero-length   *)
(* success.                                                               *)
ReadDir(v, len) ==
    LET i == FirstVisible
        need == (Dir[i].nameLen + 1) * SIZE_OF_CHAR16
    IN
    /\ isDir
    /\ \/ /\ Visible = {}
          /\ EndOfDir(v, len)
       \/ /\ Visible # {}
          /\ len < need
          /\ dirPos' = i - 1
          /\ Answer("ReadDir", "none", v, len, len, "BUFFER_TOO_SMALL",
                    SIZE_OF_SIZE_FIELD)
          /\ UNCHANGED listed
       \/ /\ Visible # {}
          /\ len >= need
          /\ InfoFails
          /\ dirPos' = i - 1
          /\ Answer("ReadDir", "none", v, len, len, "ENGINE_ERROR",
                    SIZE_OF_EFI_FILE_INFO + need)
          /\ UNCHANGED listed
       \/ /\ Visible # {}
          /\ len >= need
          /\ dirPos' = i
          /\ listed' = [listed EXCEPT ![v] = Append(@, i)]
          /\ Answer("ReadDir", "none", v, len, SIZE_OF_EFI_FILE_INFO + need,
                    "SUCCESS", SIZE_OF_EFI_FILE_INFO + need)
    /\ UNCHANGED <<isRoot, isDir, nameSize, labelSize>>

(* FileSetPosition on a directory: only zero, which rewinds. *)
FileSetPosition(v, pos) ==
    /\ isDir
    /\ \/ /\ pos # 0
          /\ Answer("SetPosition", "none", v, 0, 0, "UNSUPPORTED", 0)
          /\ UNCHANGED <<dirPos, listed>>
       \/ /\ pos = 0
          /\ dirPos' = 0
          /\ listed' = [listed EXCEPT ![v] = <<>>]
          /\ Answer("SetPosition", "none", v, 0, 0, "SUCCESS", 0)
    /\ UNCHANGED <<isRoot, isDir, nameSize, labelSize>>

(* FileGetPosition on a directory is refused. *)
FileGetPosition(v) ==
    /\ isDir
    /\ Answer("GetPosition", "none", v, 0, 0, "UNSUPPORTED", 0)
    /\ UNCHANGED <<isRoot, isDir, nameSize, labelSize, dirPos, listed>>

-----------------------------------------------------------------------------
(* The caller passes a size from Lens or the size it was last told. *)
CallerLens == Lens \cup {last.lenOut}

Next ==
    \/ \E kind \in Kinds, len \in CallerLens : FileGetInfo(kind, len)
    \/ \E v \in Views :
          \/ \E len \in CallerLens : ReadDir(v, len)
          \/ \E pos \in {0, 1} : FileSetPosition(v, pos)
          \/ FileGetPosition(v)

Spec == Init /\ [][Next]_vars

-----------------------------------------------------------------------------
(* Properties *)

(* The entries spec section 8 says a listing shows: the root entry and   *)
(* every entry at or above the first user inode.                          *)
ShownEntry(e) == e.ino = FILE_ROOT \/ e.ino >= FILE_FIRST_USER

(* Through every handle value, the directory entries handed out since it  *)
(* last rewound are entries a listing shows, each once, in the engine's   *)
(* order: DirHook's skip rule, the one-shot return and the DirPos kept    *)
(* across failed and successful reads agree.                               *)
ListedInOrder ==
    \A v \in Views : \A k \in 1 .. Len(listed[v]) :
        /\ ShownEntry(Dir[listed[v][k]])
        /\ k > 1 => listed[v][k - 1] < listed[v][k]

(* A successful GetInfo, and a directory read that returns an entry,      *)
(* report in *Len exactly the bytes they wrote into the caller's buffer.  *)
SuccessReportsWritten ==
    /\ last.status = "SUCCESS"
    /\ \/ last.op = "GetInfo"
       \/ last.op = "ReadDir" /\ last.lenOut > 0
    => last.lenOut = last.written

(* Spec sections 4.5 and 8, for file and file-system information: a      *)
(* GetInfo answered BUFFER_TOO_SMALL, called again at once with the size  *)
(* it reported, does not fail for lack of room again.                     *)
InfoRetrySucceeds ==
    [][/\ last.op = "GetInfo" /\ last.kind \in {"FileInfo", "FsInfo"}
       /\ last.status = "BUFFER_TOO_SMALL"
       /\ last'.op = "GetInfo" /\ last'.kind = last.kind
       /\ last'.len = last.lenOut
       => last'.status # "BUFFER_TOO_SMALL"]_vars

(* Spec section 7 (the caller retries with the reported size): a        *)
(* directory read answered BUFFER_TOO_SMALL reports in *Len a size larger *)
(* than the buffer that was too small.                                    *)
ReadDirReportsSize ==
    last.op = "ReadDir" /\ last.status = "BUFFER_TOO_SMALL"
    => last.lenOut > last.len

(* Spec section 8 (the GetInfo buffer-too-small protocol) for every info *)
(* kind: a GetInfo answered BUFFER_TOO_SMALL writes into *Len the size it  *)
(* needs, larger than the buffer that was too small, so that the caller   *)
(* can retry with it.                                                      *)
GetInfoReportsSize ==
    last.op = "GetInfo" /\ last.status = "BUFFER_TOO_SMALL"
    => last.lenOut > last.len

(* GetInfo never writes past the *Len bytes the caller provided. *)
GetInfoFitsBuffer == last.op = "GetInfo" => last.written <= last.len

(* A directory read never writes past the *Len bytes the caller provided. *)
ReadDirFitsBuffer == last.op = "ReadDir" => last.written <= last.len

(* A listing through one handle value that starts at a rewind (or at the *)
(* open) and reaches end of directory has been handed every entry a      *)
(* listing shows.                                                         *)
ListingComplete ==
    \A v \in Views :
        last.op = "ReadDir" /\ last.via = v
        /\ last.status = "SUCCESS" /\ last.lenOut = 0
        => {listed[v][k] : k \in 1 .. Len(listed[v])}
             = {i \in 1 .. Len(Dir) : ShownEntry(Dir[i])}

(* Refinement mapping: DirPos is the shared cursor, the shown entries are *)
(* those ShownEntry keeps, and each value's listing is what it was handed. *)
Listing == INSTANCE DirCursor
               WITH N <- Len(Dir),
                    Shown <- {i \in 1 .. Len(Dir) : ShownEntry(Dir[i])},
                    Readers <- Views, cursor <- dirPos, handed <- listed

(* For any number of handle values, FileReadDir, DirHook and              *)
(* FileSetPosition implement the shared directory cursor (DirCursor): a   *)
(* read hands out the first shown entry after DirPos or moves DirPos over  *)
(* hidden entries only, across buffer-too-small and engine failures, and  *)
(* a rewind through any value rewinds every value.                         *)
ListingSpec == Listing!Spec

(* For any number of handle values, every entry handed out through any of *)
(* them is one a listing shows: DirHook's skip rule holds even when a     *)
(* rewind through another value moves the shared DirPos.                   *)
ListedShown == Listing!HandedShown

=============================================================================
