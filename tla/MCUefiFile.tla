----------------------------- MODULE MCUefiFile -----------------------------
(* Instance of UefiFile for TLC: one segment name and paths two deep, so   *)
(* that /a can be created as a directory holding /a/a, a missing path can  *)
(* be created and a non-empty directory deleted.                           *)
EXTENDS UefiFile, TLC

MCSegs == {"a"}

MCInitDirs == {<<"a">>}

MCInitFiles == {}
=============================================================================
