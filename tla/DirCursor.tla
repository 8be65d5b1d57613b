------------------------------ MODULE DirCursor ------------------------------
(***************************************************************************)
(* What a directory read through the UEFI file layer of ntfs-3g promises, *)
(* stated without buffers, sizes, statuses or inode numbers:              *)
(*                                                                         *)
(*  - the directory is N entries, of which those in Shown are listed;      *)
(*  - one cursor belongs to the directory instance and is shared by every *)
(*    reader (handle value) of it;                                         *)
(*  - a read either hands its reader the first shown entry after the      *)
(*    cursor and moves the cursor to it, or moves the cursor forward over *)
(*    entries that are not shown only (a refused read, end of directory); *)
(*  - a rewind by any reader puts the cursor back at the start.           *)
(*                                                                         *)
(* handed[r] is the history of entries reader r was given since its last  *)
(* rewind.  UefiInfo, the model of FileReadDir, DirHook and                *)
(* FileSetPosition in src/uefi-driver/uefi_file.c, is shown to implement   *)
(* this specification (UefiInfo!ListingSpec).                              *)
(***************************************************************************)
EXTENDS Naturals, Sequences

CONSTANTS
    N,          \* the number of entries of the directory
    Shown,      \* the positions, in 1 .. N, of the entries a listing shows
    Readers     \* the handle values through which the directory is read

VARIABLES
    cursor,     \* the entries consumed so far
    handed      \* handed[r]: the entries reader r was given since its rewind

vars == <<cursor, handed>>

(* No entry in lo + 1 .. hi is shown. *)
NoneShownIn(lo, hi) == \A j \in lo + 1 .. hi : j \notin Shown

Init ==
    /\ cursor = 0
    /\ handed = [r \in Readers |-> <<>>]

(* The cursor moves over entries that are not shown, to at most the end. *)
Pass ==
    /\ \E c \in cursor .. N : NoneShownIn(cursor, c) /\ cursor' = c
    /\ UNCHANGED handed

(* Reader r is handed the first shown entry after the cursor. *)
Hand(r) ==
    \E i \in Shown :
        /\ cursor < i
        /\ NoneShownIn(cursor, i - 1)
        /\ cursor' = i
        /\ handed' = [handed EXCEPT ![r] = Append(@, i)]

(* Reader r rewinds the shared cursor and starts its listing afresh. *)
Rewind(r) ==
    /\ cursor' = 0
    /\ handed' = [handed EXCEPT ![r] = <<>>]

Next ==
    \/ Pass
    \/ \E r \in Readers : Hand(r) \/ Rewind(r)

Spec == Init /\ [][Next]_vars

(* Every entry any reader was handed is one a listing shows: the cursor   *)
(* passes over hidden entries and stops only at shown ones, whoever       *)
(* rewinds it.                                                             *)
HandedShown ==
    \A r \in Readers : \A k \in 1 .. Len(handed[r]) : handed[r][k] \in Shown
=============================================================================
