# Verification of the ntfs-3g UEFI file layer

This directory holds TLA+ models of `src/uefi-driver/uefi_file.c`, the
SimpleFileSystem / EFI_FILE_PROTOCOL layer of the ntfs-3g UEFI driver. It
also holds the TLC configurations that model-check them and TLAPS proofs of
their main invariants.

## The system

The C sources describe the layer between the UEFI firmware (shell or boot
loader) and the NTFS engine. It has these parts:

| Part | Code | What it does |
|---|---|---|
| Reference-count governor | `FileOpen`, `FileClose`, `FileDelete`, `FileOpenVolume`, `FSUninstall` | Keeps `RefCount` per instance and `TotalRefCount` per volume. It mounts on OpenVolume and unmounts when `TotalRefCount` reaches 0, so the volume is mounted as briefly as possible on a machine that may lose power. |
| Handle allocator | `EFI_NTFS_FILE` (`uefi_driver.h`), `RO_ACCESS`, `BASE_FILE`, `NtfsAllocateFile`/`NtfsFreeFile` | One instance has two handle values: `&EfiFileRW` and `&EfiFileRO`. The mode is recovered from the address. |
| Protocol adapter | every `File*` function | The EFI operations, with their guards and status codes. |
| Path resolver | `FileOpen` lines 117-140, `CleanPath` | Makes an absolute path from the parent's path and the name. |
| Directory enumerator | `DirHook`, `FileReadDir` | Returns one directory entry per Read. |
| Driver binding | `FSInstall`, `FSUninstall` | Probes the volume and installs the protocol. |
| NTFS engine | `uefi_bridge.c` (not in this repository) | Mount, open and create (these hand back the instance already open for a path), delete, rename the volume. |

The firmware calls one operation at a time to completion (spec section 5), so
there is no thread interleaving. The hard behaviour comes from the order of
calls:

- several handle values alias one instance;
- the engine hands back instances that are already open;
- failure paths and early returns;
- the mount state is driven from counts.

## Modules

- **`UefiFile.tla`** models one volume (one `EFI_FS`). An instance is
  identified by its path, because the engine keeps one instance per open path.
  The per-instance fields are therefore functions over `Paths`: `ref`
  (RefCount), `alloc` (allocated, i.e. not yet freed), `exists` and `isDir`
  (the volume's contents). The other variables are:
  - `installed`, `mounted`, `readOnly` (`NtfsIsVolumeReadOnly`), `label` and
    `totalRef` (TotalRefCount);
  - `held`, a bag of handle values `<<path, "RO"|"RW">>` that the caller owns
    and has not closed;
  - `last`, the operation, the mode of the value it came through and its
    status.

  Each action is the whole handler:

  | Action | Code |
  |---|---|
  | `FSInstall`, `FSUninstall` | lines 808-859 |
  | `FileOpenVolume` | 743-799 |
  | `FileOpen` | 51-197: `OpenCheck` is the checks in the code's order, `ReopenSelf` is the `.` reopen, `OpenOutcome` is the refusal to create the root (line 150) and then the engine's answer, `OpenPath` the `RefCount++` that follows |
  | `FileClose` | 213-239 |
  | `FileDelete` | 250-289 |
  | `FileWrite` | 399-421 |
  | `FileFlush` | 695-712 |
  | `FileSetInfo` | 634-684 |

  Two flags cover the code's failures: `AllocFails` makes allocation and
  engine failures possible, and `RoMounts` gives the read-only answers a mount
  may produce.

  Modelled from the spec because the engine is not in the repository:
  - mount is a flag, and mounting a mounted volume is a no-op;
  - `NtfsDeleteFile` refuses a non-empty directory (`Children`);
  - `NtfsCreateFile` and `NtfsOpenFile` answer NOT_FOUND for a create
    without an existing parent directory and for an open of a missing path
    (`EngineAnswer`);
  - path cleaning (`Parent`).

  The header's `MountCount` suggests the bridge may count mounts. If it does,
  finding (a) below gets worse: the mount is never balanced.
- **`UefiVolume.tla`** is the abstract contract of the layer, with no
  counts, instances or mounts. Its variables are `up`, `handles` (a bag of
  values the caller holds), `files` and `volLabel`. Its actions are:
  - `Install` and `Uninstall`, which drop every value;
  - `OpenRoot`;
  - `Open(v, f, m)`: through a held value, of a file present or of a new
    file whose parent is present;
  - `Close(v)`;
  - `Remove(v)`: the last value of a file with no children, other than the
    root;
  - `Relabel(v, l)`: through a value of the root.

  `UefiFile` defines the refinement mapping `Vol == INSTANCE UefiVolume WITH
  up <- installed, handles <- held, files <- exists, volLabel <- label`.
  `VolumeSpec == Vol!Spec` is the property that the layer implements the
  contract. A Delete that only warns (other values open, or a read-only
  volume), or that the engine refuses (a non-empty directory), maps to a
  `Close`. Every failure path maps to a stutter.
- **`UefiInfo.tla`** models the caller-buffer protocols of one open instance:
  - `FileGetInfo`, one operator per information type: `FileInfoCall`,
    `FsInfoCall`, `LabelCall`, and `UNSUPPORTED` for any other type;
  - `FileRead` on a directory: `ReadDir`, which is `FileReadDir` together
    with its `DirHook` callback, and `EndOfDir`;
  - `FileSetPosition` and `FileGetPosition` on a directory.

  Sizes are bytes with the EFI layout constants:
  - `SIZE_OF_EFI_FILE_INFO = 80`, `SIZE_OF_EFI_FILE_SYSTEM_INFO = 36`;
  - the 8-byte `Size` field;
  - the inode numbers `FILE_ROOT = 5` and `FILE_FIRST_USER = 16`.

  Each call records in `last` what the caller sees: the status and the
  `*Len` it gets back (`lenOut`). It also records `written`, one past the
  last byte the code stored into the buffer, so that an overrun is a state.

  The directory is a sequence of `(inode, name length)` entries. `dirPos`
  is `File->DirPos`. The walk of `NtfsReadDirectory` is modelled from spec
  section 4.4 (`Visible`, `FirstVisible`): it visits the entries after
  `DirPos` and stops at the first one the hook does not skip. A failed hook
  leaves `DirPos` before that entry; a successful one moves past it.

  Because reopening `.` returns the same instance, several handle values
  (`Views`) read one `DirPos`. The history variable `listed[v]` holds the
  entries handed out through value `v` since it last rewound.
- **`DirCursor.tla`** is the abstract contract of the directory reader. It
  has no buffers, sizes, statuses or inode numbers. There are `N` entries,
  and the set `Shown` holds those a listing shows. One `cursor` is shared
  by all `Readers`, and `handed[r]` is reader `r`'s history since its
  rewind. Its actions are:
  - `Pass`: the cursor moves forward over entries that are not shown only;
  - `Hand(r)`: the first shown entry after the cursor is handed to `r`, and
    the cursor moves to it;
  - `Rewind(r)`: the cursor goes back to 0, and `r`'s history restarts.

  `UefiInfo` defines the mapping `Listing == INSTANCE DirCursor WITH
  N <- Len(Dir)`, with:
  - `Shown` <- the indices whose entry `ShownEntry` keeps;
  - `Readers` <- `Views`;
  - `cursor` <- `dirPos`;
  - `handed` <- `listed`.

  The steps map as follows:

  | Step of `UefiInfo` | Step of `DirCursor` |
  |---|---|
  | A refused read (buffer too small or engine error) | `Pass` to the entry before the one refused |
  | End of directory | `Pass` to the end |
  | A read that returns an entry | `Hand` |
  | `SetPosition(0)` | `Rewind` |
  | Every other call | a stutter |

  `ListingSpec == Listing!Spec` is the property that the reader implements
  the contract. `ListedShown == Listing!HandedShown` says that only shown
  entries are handed out.
- **`MCUefiFile.tla`** and **`MCUefiInfo.tla`** give the constants TLC uses.
  `MCUefiInfo` also defines the state
  constraint `ListedBound`, described with the `listing_refinement` run.
- **`UefiFileProofs.tla`**, **`UefiRefinementProofs.tla`**,
  **`UefiInfoProofs.tla`** and **`UefiListingProofs.tla`** hold the TLAPS
  proofs.

Write, Flush and SetInfo keep the byte contents and file information
abstract. Write and Flush change only the status. SetInfo also changes the
label.

## Runs

The `UefiFile` runs use the same instance:
- one segment `a`, paths up to depth 2;
- directory `/a` initially;
- two labels;
- read-only and read-write mounts both possible;
- allocation failures on;
- `TotalRefCount` bounded by `MaxRefs = 3`.

Depth 2 lets a file be created under `/a`, lets `..` and absolute names
resolve to different instances, and lets a non-empty directory be deleted.
Three references are enough for two values of one instance plus the root,
which is what aliasing and the delete-with-references cases need. The
pass run reaches about 52,000 distinct states.

| Run | cfg | Expect | What it shows |
|---|---|---|---|
| `uefi_core` | `UefiFile.cfg` | pass | `TypeOK`, `RefCountMatchesHeld` (RefCount = values held, over both members), `TotalRefCountMatchesHeld` (TotalRefCount = all values held) and `NoDanglingHandle` (no held value refers to a freed instance or a deleted file) hold in every reachable state. |
| `mounted_implies_open_files` | `MountedImpliesOpenFiles.cfg` | violation | Finding (a). |
| `open_files_imply_mounted` | `OpenFilesImplyMounted.cfg` | violation | Finding (b). |
| `ro_value_cannot_modify` | `ReadOnlyValueCannotModify.cfg` | violation | Finding (c). |
| `volume_refinement` | `VolumeRefinement.cfg` | pass | `VolumeSpec`: every step is a step of `UefiVolume` under `Vol`. |

The `UefiInfo` runs (`MCUefiInfo`) use one directory of four entries: a
system file (inode 1, hidden), the root's own entry (inode 5, shown) and two
user files (inodes 16 and 40). One name is longer than the others, so
different buffers fail on different entries. The other bounds are:
- names of 4 or 8 bytes;
- a NULL label or a 6-byte label;
- `Lens = {0, 4, 40, 84, 100}`: the size probe 0, a buffer below the 8-byte
  `Size` field, one between the name and the whole `EFI_FILE_INFO`, and two
  that fit. The caller may also pass back the size it was last told, which
  is how a retry is modelled;
- `NtfsGetFileInfo` failures on.

| Run | cfg | Expect | What it shows |
|---|---|---|---|
| `uefi_info` | `UefiInfo.cfg` | pass | With one handle value (`Views = {v1}`), across buffer-too-small and engine failures: every shown entry is handed out once, in order, and all of them by the end of the directory (`ListedInOrder`, `ListingComplete`). Successful GetInfo and entry reads report exactly the bytes written (`SuccessReportsWritten`). A file or file-system GetInfo retried with the reported size does not fail for room again (`InfoRetrySucceeds`). About 1,400 states. |
| `listing_refinement` | `ListingRefinement.cfg` | pass | With two handle values (`Views = {v1, v2}`), every step is a step of the shared cursor `DirCursor` under `Listing` (`ListingSpec`). Every entry handed through either value is a shown entry (`ListedShown`). About 158,000 states. |
| `getinfo_fits_buffer` | `GetInfoFitsBuffer.cfg` | violation | Finding (e): the root, a 6-byte label and a 4-byte buffer give SUCCESS with 6 bytes written. |
| `getinfo_reports_size` | `GetInfoReportsSize.cfg` | violation | Finding (h): a label query on the root with `*Len = 0` is answered BUFFER_TOO_SMALL with `*Len` still 0. |
| `readdir_fits_buffer` | `ReadDirFitsBuffer.cfg` | violation | Finding (f): a read with `*Len = 0` writes the 8-byte `Size`. |
| `readdir_reports_size` | `ReadDirReportsSize.cfg` | violation | Finding (g): BUFFER_TOO_SMALL on a directory leaves `*Len` at the caller's size. |

The `uefi_info` run uses a single value on purpose. `DirPos` belongs to the
instance, which every value of the path shares, and the spec puts the
position there too (sections 3, 4.3 and 8: one object, shared by all its
handles). A rewind through one value therefore restarts the listing of
another, and order per value is not a property of the code or of the spec.
What holds for any number of values is the shared cursor of `DirCursor`,
which the `listing_refinement` run checks.

The `listing_refinement` run uses two values, so that aliasing happens. With
two values a listing can grow without end: `v1` reads, `v2` rewinds, and
`v1` reads the same entries again. The state constraint `ListedBound`
therefore stops a listing at `MaxListed = 4` entries. That is one more than
the three shown entries, so a repeated entry is reached.

The run keeps only what matters to the cursor:
- one name size and one label size;
- two buffer sizes: 4 bytes, which is refused for the longer names, and 100
  bytes, which fits every name;
- engine failures on.

Each property of a pass run has a mutant in `UefiFile.tla` or `UefiInfo.tla`, and TLC finds
the property violated with the mutant in place:

| Mutant | Replaces | Breaks |
|---|---|---|
| `DeleteReleaseTwice` | `DeleteRelease` | `TypeOK` |
| `ReopenSelfNoRefCount` | `ReopenSelf` | `RefCountMatchesHeld` |
| `DeleteReleaseKeepTotal` | `DeleteRelease` | `TotalRefCountMatchesHeld` |
| `FileCloseFreeAtOne` | `FileClose` | `NoDanglingHandle` |
| `SetInfoStatusAnyHandle` (no `IsRoot` check) | `SetInfoStatus` | `VolumeSpec` |
| `EndOfDirAdvance` | `EndOfDir` | `TypeOK` (UefiInfo) |
| `ReadDirKeepPos` (DirPos not moved past a returned entry) | `ReadDir` | `ListedInOrder` |
| `HiddenNoRoot` (the root's entry skipped too) | `Hidden` | `ListingComplete` |
| `FsInfoCallFixedLen` (`*Len` left at the fixed part) | `FsInfoCall` | `SuccessReportsWritten` |
| `FileInfoCallNameOnly` (size reported without the fixed part) | `FileInfoCall` | `InfoRetrySucceeds` |
| `ReadDirKeepPos` | `ReadDir` | `ListingSpec` |
| `HiddenNone` (the skip of system files dropped) | `Hidden` | `ListedShown` |

No liveness is checked. Every operation is a synchronous call that either
returns or fails, and the firmware is free never to call again, so no
fairness is justified.

### Findings

- **(a)** `FileDelete`, line 275. On a read-only volume the last reference
  returns `EFI_WARN_DELETE_FAILURE` after `TotalRefCount--`, skipping
  `NtfsFreeFile` and the unmount. The volume stays mounted with nothing open,
  which is the state the code's own comment at lines 724-737 sets out to
  avoid.

  TLC trace:
  1. OpenVolume with a read-only mount.
  2. Open `a`.
  3. Close the root.
  4. Delete `a`.
- **(b)** `FileOpenVolume`, line 796. The error path unmounts unconditionally,
  so a failed second OpenVolume unmounts the volume under open handles. (Spec
  section 4.5 says "volume left unmounted", which contradicts section 3 as
  soon as another handle is open.)
- **(c)** `FileSetInfo`, line 646. There is no `RO_ACCESS` check, so a
  read-only value renames the volume, against spec section 4.3. The property
  is stated only on what this layer changes itself: the label and a
  successful Write. File information goes to `NtfsSetFileInfo` with the RO
  flag, and the engine may refuse it there.
- **(d)** The comment at lines 247-248 says `FileDelete` returns only SUCCESS
  or WARN_DELETE_FAILURE. It also returns `EFI_ACCESS_DENIED` (line 263) and
  the engine's status (line 288). The model returns what the code returns.

- **(e)** `FileGetInfo`, line 605. The volume-label branch tests
  `Size < *Len` the wrong way round. A buffer smaller than the label gets
  SUCCESS, and `CopyMem` writes the whole label into it. A larger buffer is
  refused with BUFFER_TOO_SMALL.
- **(f)** `FileReadDir`, line 343, and `DirHook`, line 308:
  - `FileReadDir` stores `*Len` into the 8-byte `Info->Size` before any
    check, so the usual size probe `*Len = 0` writes 8 bytes.
  - `DirHook` checks the buffer against the name alone, without
    `SIZE_OF_EFI_FILE_INFO`, so a buffer between the two sizes gets a whole
    `EFI_FILE_INFO`.
- **(g)** `FileReadDir`, line 351. On BUFFER_TOO_SMALL it returns without
  setting `*Len`. The caller is never told the size it needs, against spec
  sections 7 and 8.
- **(h)** `FileGetInfo`, line 601. The volume-label branch answers a buffer
  smaller than one `CHAR16` with BUFFER_TOO_SMALL without setting `*Len`,
  so the usual size probe `*Len = 0` is told 0 and a retry with it fails the
  same way. When `Size < *Len` (line 605, finding (e)) it does set `*Len`,
  but to a size smaller than the buffer it refused. Spec section 8 says an
  undersized GetInfo writes the exact required size and a retry with it
  succeeds; `InfoRetrySucceeds` and `RetryFits` show that the file and
  file-system kinds do.

## Proofs

`UefiFileProofs.tla` proves three theorems for every value of the constants
that satisfies `ConstantsAssumption`:

- `TypeCorrect == Spec => []TypeOK`
- `RefCountsExact == Spec => []RefCountMatchesHeld`
- `NoHandleDangles == Spec => []NoDanglingHandle`

`TypeOK` alone is not inductive. `FileClose` and `FileDelete` compute
`RefCount - 1`, and that is a natural only because a value of the instance is
held, i.e. because `RefCount` equals the number of held values. The proofs
therefore go through the inductive invariant

`IInv == TypeOK /\ RefCountMatchesHeld /\ NoDanglingHandle /\ Root \in exists`

The last conjunct is needed because OpenVolume grants a value of the root
without looking it up.

The argument rests on these lemmas:
- `InitIInv`: the initial states satisfy `IInv`.
- `NextIInv`: `IInv` is preserved by every step. It has one lemma per action.
- `GrantPreserves`: the common `RefCount++` of every open path.
- `ReleasePreserves` / `ReleaseIInv`: the decrement shared by Close and
  Delete. They show that when RefCount reaches zero, no value of that
  instance is still held, so freeing it or deleting the file leaves nothing
  dangling.

The read-only Delete of finding (a) leaves the instance allocated, which
`IInv` allows.

`UefiRefinementProofs.tla` proves:

- `Refinement == Spec => VolumeSpec`: the layer implements its contract for
  every value of the constants.

The refinement argument is the standard one:
1. `InitRefines`: the initial states map to initial states of `UefiVolume`.
   This uses `ConstantsAssumption`, which says the initial tree is closed
   under `Parent`.
2. `NextRefines`: under `IInv`, every step maps to a step of the contract or
   to a stutter. There is one lemma per action.

`IInv` is needed twice:
- an Open through a held value is an abstract `Open` only because the
  value's file exists (`NoDanglingHandle`);
- the Delete that removes a file is an abstract `Remove` only because
  `RefCount - 1 = 0` means no value of the file is still held
  (`RefCountMatchesHeld`).

The label step needs `SetInfoStatus` to be written as the code's nested
early returns. A `CASE` with overlapping guards would, in TLA+, allow the
`SUCCESS` arm for a non-root value.

`UefiInfoProofs.tla` proves five theorems about `UefiInfo` for every
directory `Dir`, every set of sizes and every value of the other constants
that satisfies `ConstantsAssumption`:

- `InfoTypeCorrect == Spec => []TypeOK`, for any number of handle values.
- `ReportsWritten == Spec => []SuccessReportsWritten`, for any number of
  handle values.
- `RetryFits == Spec => InfoRetrySucceeds`, for any number of handle
  values. This is the action property.
- `ListedInOrderOneView`: if `Views = {v0}`, then `Spec => []ListedInOrder`.
- `ListingCompleteOneView`: if `Views = {v0}`, then
  `Spec => []ListingComplete`.

The first three rest on
`InfoInv == TypeOK /\ SuccessReportsWritten /\ BTSReportsNeed`.
`BTSReportsNeed` says two things about a file or file-system GetInfo
answered BUFFER_TOO_SMALL:
- its `*Len` is the size it needs (`80 + nameSize`, or `36 + LabelSize`);
- that size is larger than the buffer it was given.

The retry argument needs both parts:
- By the first part, a retry with the reported size passes a buffer of
  exactly the size needed, and the code compares against the same size,
  because names and labels do not change.
- The second part rules out a "retry" step that repeats the refused answer
  unchanged.

`RetryStep` is the step lemma. `GetInfoStepKind` shows that only a
`FileGetInfo` of that kind can answer GetInfo for a kind.

`TypeOK` of `dirPos` needs `FirstVisibleMin`: `FirstVisible` is the least
visible index after `DirPos`. It rests on `MinNat`, the least element of a
non-empty set of naturals, which comes from the well-foundedness of `<` on
`Nat` (`WellFoundedInduction`'s `WFMin`, which takes no operator parameter).

The listing theorems assume a single handle value, which is exactly the
`uefi_info` instance. With two, `ListedInOrder` is false, because the
position is shared as the spec says, so that hypothesis is required. They rest on

`ListInv == InfoInv /\ ListedBelowPos /\ ListedExact /\ ListedInOrder /\ EndAtEnd`

- `ListedExact`: the entries handed out since the rewind are exactly the
  shown entries in `1..DirPos`.
- `ListedBelowPos`: all of them lie at or before `DirPos`.
- `EndAtEnd`: a zero-length successful read left `DirPos` at the end.

`ListedInOrder` is not inductive alone. Appending `FirstVisible` keeps the
listing increasing only because everything already listed is at or before
`DirPos` (`ListedBelowPos`). `ListingComplete` needs `ListedExact` and
`EndAtEnd`, which say what `DirPos` stands for.

The key step is `SkippedNotShown`: an entry between `DirPos` and
`FirstVisible` is not shown, by the minimality of `FirstVisible`. With it,
both kinds of read keep `ListedExact`:
- a refused read (`DirPos` to `FirstVisible - 1`, `RefusedReadList`);
- a successful one (`DirPos` to `FirstVisible`, listing grown by it,
  `ReturnedEntryList`).

End of directory uses `NoneVisibleNotShown`.

`UefiListingProofs.tla` proves two more theorems, for every value of the
constants and any number of handle values:

- `ListingRefinement == Spec => ListingSpec`. The reader implements the
  shared cursor.
  - `InitRefinesListing`: the initial state is the contract's.
  - `NextRefinesListing`: under `InfoInv`, every step maps to a step or a
    stutter of `DirCursor`.
  - `ReadDirRefines`: the read cases, using `FirstVisibleMin`,
    `SkippedNotShown` and `NoneVisibleNotShown` from `UefiInfoProofs`.
  - `InfoInv` is needed only to keep `DirPos` in the directory, so that
    `FirstVisible` is the first shown entry after it.
- `ListedShownEntries == Spec => []ListedShown`. Every entry handed through
  any value is shown, however rewinds through other values move `DirPos`.
  - The contract's steps (`ListingStepShown`) keep the inductive form
    `ListedSeqsShown`, i.e. every listing is a sequence of shown entries.
  - The implementation's steps are contract steps by `NextRefinesListing`.

With one value the listing is ordered and complete; with several, sharing
the position costs order and completeness per value, but nothing hidden is
ever handed out.

These stay with TLC:
- `TotalRefCountMatchesHeld`. `TotalRefCount` is compared with a sum over a
  function (`SumFunction`, a fold). What a fold computes can only be shown
  by induction over the set, and the library's induction theorems take an
  operator parameter, which the installed provers cannot instantiate.
- The violated properties.

Liveness is out of TLAPS's reach and is not claimed.

## Not modelled yet

- `FileRead`, `FileSetPosition` and `FileGetPosition` on a regular file.
  Their data and `Offset` go to `NtfsReadFile`, and no property relates
  them.
- `CleanPath`'s string processing, which is outside `src/`.
- Several volumes on `FsListHead`. `FSInstall` re-initialises the list at
  line 841, dropping the volumes already on it. Only the engine (not in this
  repository) reads the list, and the spec does not describe its use, so
  there is nothing faithful to check it against.
- What a caller does with values it still holds after `FSUninstall`. The
  code force-unmounts at line 852 and leaves the instances to the driver
  that frees the `EFI_FS`. The model takes the values away.
- Liveness. Every operation is a synchronous call that returns, and nothing
  obliges the firmware to call again, so no fairness is justified.

Plan for later versions:
1. Offsets of regular files per instance, with the aliasing of the position.
2. A statement of `TotalRefCountMatchesHeld` that avoids the fold, such as a
   count kept per instance, so that it can be proved.
