----------------------------- MODULE MCUefiInfo -----------------------------
(* A directory holding a system file ($MFTMirr), the root's own entry,   *)
(* and two user files with names of one and three characters.            *)
EXTENDS UefiInfo, TLC

MCDir == << [ino |-> 1, nameLen |-> 8],
            [ino |-> 5, nameLen |-> 1],
            [ino |-> 16, nameLen |-> 1],
            [ino |-> 40, nameLen |-> 3] >>

(* The longest listing TLC follows.  With two handle values a rewind      *)
(* through one lets the other be handed entries again without end; four   *)
(* is one more than the three shown entries, so a repeat is reached.      *)
MaxListed == 4

ListedBound == \A v \in Views : Len(listed[v]) <= MaxListed
=============================================================================
