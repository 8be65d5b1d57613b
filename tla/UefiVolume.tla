----------------------------- MODULE UefiVolume -----------------------------
(***************************************************************************)
(* What the UEFI file layer of ntfs-3g promises its caller about one      *)
(* volume, stated without reference counts, instances or mounts:           *)
(*                                                                         *)
(*  - the caller holds handle values <<path, "RO" | "RW">>; a new one is   *)
(*    obtained only from the volume (OpenVolume, for the root) or through  *)
(*    a value the caller already holds (Open);                             *)
(*  - Open finds an existing file, or creates one whose parent exists;     *)
(*  - a file leaves the volume only when it is deleted through the last    *)
(*    value that refers to it and it has no children (a Delete with other  *)
(*    values still open, or on a read-only volume, is only a Close);       *)
(*  - the volume label is changed only through a value of the root;        *)
(*  - uninstalling the protocol invalidates every value.                   *)
(*                                                                         *)
(* UefiFile, the model of src/uefi-driver/uefi_file.c, is shown to        *)
(* implement this specification (UefiFile!VolumeSpec).                     *)
(***************************************************************************)
EXTENDS Naturals

CONSTANTS
    Paths,       \* the paths of the volume
    Root,        \* the root directory's path
    Parent(_),   \* the parent of a path
    Labels       \* the volume labels that may be written

VARIABLES
    up,          \* the file system protocol is installed
    handles,     \* handles[v]: how many copies of value v the caller holds
    files,       \* the paths present on the volume
    volLabel     \* the volume label

vars == <<up, handles, files, volLabel>>

Values == Paths \X {"RO", "RW"}

(* The caller holds a value of f, through either member. *)
Referenced(f) == handles[<<f, "RO">>] + handles[<<f, "RW">>] > 0

(* The files on the volume whose parent is f. *)
ChildrenOf(f) == {g \in files : g # Root /\ Parent(g) = f}

Init ==
    /\ up = FALSE
    /\ handles = [v \in Values |-> 0]
    /\ files \in SUBSET Paths
    /\ Root \in files
    /\ \A f \in files \ {Root} : Parent(f) \in files
    /\ volLabel \in Labels

Install ==
    /\ ~up
    /\ up' = TRUE
    /\ handles' = [v \in Values |-> 0]
    /\ UNCHANGED <<files, volLabel>>

Uninstall ==
    /\ up
    /\ up' = FALSE
    /\ handles' = [v \in Values |-> 0]
    /\ UNCHANGED <<files, volLabel>>

OpenRoot ==
    /\ up
    /\ handles' = [handles EXCEPT ![<<Root, "RW">>] = @ + 1]
    /\ UNCHANGED <<up, files, volLabel>>

Open(v, f, m) ==
    /\ up
    /\ handles[v] > 0
    /\ f \in files \/ (f # Root /\ Parent(f) \in files)
    /\ files' = files \cup {f}
    /\ handles' = [handles EXCEPT ![<<f, m>>] = @ + 1]
    /\ UNCHANGED <<up, volLabel>>

Close(v) ==
    /\ up
    /\ handles[v] > 0
    /\ handles' = [handles EXCEPT ![v] = @ - 1]
    /\ UNCHANGED <<up, files, volLabel>>

Remove(v) ==
    /\ up
    /\ handles[v] > 0
    /\ v[1] # Root
    /\ handles' = [handles EXCEPT ![v] = @ - 1]
    /\ ~Referenced(v[1])'
    /\ ChildrenOf(v[1]) = {}
    /\ files' = files \ {v[1]}
    /\ UNCHANGED <<up, volLabel>>

Relabel(v, l) ==
    /\ up
    /\ handles[v] > 0
    /\ v[1] = Root
    /\ volLabel' = l
    /\ UNCHANGED <<up, handles, files>>

Next ==
    \/ Install
    \/ Uninstall
    \/ OpenRoot
    \/ \E v \in Values :
          \/ \E f \in Paths, m \in {"RO", "RW"} : Open(v, f, m)
          \/ Close(v)
          \/ Remove(v)
          \/ \E l \in Labels : Relabel(v, l)

Spec == Init /\ [][Next]_vars
=============================================================================
