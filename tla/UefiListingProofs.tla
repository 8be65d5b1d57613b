--------------------------- MODULE UefiListingProofs --------------------------
(***************************************************************************)
(* Proof that UefiInfo implements the shared directory cursor DirCursor   *)
(* under the mapping Listing, for every value of the constants and any     *)
(* number of handle values.  Only InfoInv is needed: it keeps DirPos in    *)
(* the directory, so that FirstVisible is the first shown entry after it. *)
(***************************************************************************)
EXTENDS UefiInfoProofs

(* The entries a listing shows, as DirCursor sees them. *)
ShownSet == {i \in 1 .. Len(Dir) : ShownEntry(Dir[i])}

(* An index a listing does not show is not in the mapped Shown set. *)
LEMMA NotShownOutside ==
    ASSUME NEW lo \in Int, NEW hi \in Int,
           \A j \in lo + 1 .. hi : ~ShownEntry(Dir[j])
    PROVE  Listing!NoneShownIn(lo, hi)
BY DEF Listing!NoneShownIn

LEMMA InitRefinesListing == Init => Listing!Init
BY DEF Init, Listing!Init

(* A step that moves neither DirPos nor a listing is a stutter. *)
LEMMA ListingStutter ==
    ASSUME UNCHANGED <<dirPos, listed>>
    PROVE  [Listing!Next]_Listing!vars
BY DEF Listing!vars

LEMMA ReadDirRefines ==
    ASSUME InfoInv, NEW v \in Views, NEW len \in CallerLens, ReadDir(v, len)
    PROVE  Listing!Next
<1>. DEFINE i == FirstVisible
            need == (Dir[i].nameLen + 1) * SIZE_OF_CHAR16
<1>1. /\ TypeOK /\ Len(Dir) \in Nat /\ dirPos \in 0 .. Len(Dir)
  BY DirLen DEF InfoInv, TypeOK
<1>2. CASE Visible = {} /\ EndOfDir(v, len)
  <2>1. Listing!NoneShownIn(dirPos, Len(Dir))
    BY <1>1, <1>2, NoneVisibleNotShown, NotShownOutside
  <2>2. Listing!Pass
    BY <1>1, <1>2, <2>1 DEF Listing!Pass, EndOfDir
  <2>. QED BY <2>2 DEF Listing!Next
<1>3. ASSUME Visible # {}
      PROVE  /\ i \in dirPos + 1 .. Len(Dir)
             /\ i \in ShownSet
             /\ Listing!NoneShownIn(dirPos, i - 1)
  <2>1. /\ i \in dirPos + 1 .. Len(Dir) /\ ~Hidden(Dir[i])
    BY <1>1, <1>3, FirstVisibleMin
  <2>2. i \in ShownSet
    BY <1>1, <2>1, DirEntry, HiddenIsNotShown DEF ShownSet
  <2>3. Listing!NoneShownIn(dirPos, i - 1)
    BY <1>1, <1>3, <2>1, SkippedNotShown, NotShownOutside
  <2>. QED BY <2>1, <2>2, <2>3
<1>4. ASSUME Visible # {}, dirPos' = i - 1, UNCHANGED listed
      PROVE  Listing!Next
  <2>1. i - 1 \in dirPos .. Len(Dir)
    BY <1>1, <1>3, <1>4
  <2>2. Listing!Pass
    BY <1>3, <1>4, <2>1 DEF Listing!Pass
  <2>. QED BY <2>2 DEF Listing!Next
<1>5. CASE /\ Visible # {} /\ len >= need /\ dirPos' = i
           /\ listed' = [listed EXCEPT ![v] = Append(@, i)]
  <2>1. /\ i \in ShownSet /\ dirPos < i
        /\ Listing!NoneShownIn(dirPos, i - 1)
    BY <1>1, <1>3, <1>5
  <2>2. Listing!Hand(v)
    BY <1>5, <2>1 DEF Listing!Hand, ShownSet
  <2>. QED BY <2>2 DEF Listing!Next
<1>. QED BY <1>2, <1>4, <1>5 DEF ReadDir

LEMMA SetPositionRefines ==
    ASSUME NEW v \in Views, NEW pos \in {0, 1}, FileSetPosition(v, pos)
    PROVE  [Listing!Next]_Listing!vars
<1>1. CASE pos # 0
  BY <1>1, ListingStutter DEF FileSetPosition
<1>2. CASE pos = 0
  BY <1>2 DEF FileSetPosition, Listing!Next, Listing!Rewind
<1>. QED BY <1>1, <1>2

LEMMA NextRefinesListing ==
    InfoInv /\ [Next]_vars => [Listing!Next]_Listing!vars
<1>. SUFFICES ASSUME InfoInv, [Next]_vars PROVE [Listing!Next]_Listing!vars
  OBVIOUS
<1>1. CASE \E kind \in Kinds, len \in CallerLens : FileGetInfo(kind, len)
  BY <1>1, ListingStutter DEF FileGetInfo
<1>2. CASE \E v \in Views, len \in CallerLens : ReadDir(v, len)
  BY <1>2, ReadDirRefines
<1>3. CASE \E v \in Views, pos \in {0, 1} : FileSetPosition(v, pos)
  BY <1>3, SetPositionRefines
<1>4. CASE \E v \in Views : FileGetPosition(v)
  BY <1>4, ListingStutter DEF FileGetPosition
<1>5. CASE UNCHANGED vars
  BY <1>5, ListingStutter DEF vars
<1>. QED BY <1>1, <1>2, <1>3, <1>4, <1>5 DEF Next

(* For any number of handle values and every directory, FileReadDir,    *)
(* DirHook and FileSetPosition implement the shared directory cursor:    *)
(* each read hands out the first shown entry after DirPos or moves DirPos *)
(* over hidden entries only, and a rewind through any value rewinds all. *)
THEOREM ListingRefinement == Spec => ListingSpec
<1>1. Init => Listing!Init
  BY InitRefinesListing
<1>2. InfoInv /\ [Next]_vars => [Listing!Next]_Listing!vars
  BY NextRefinesListing
<1>. QED BY <1>1, <1>2, InitInfoInv, NextInfoInv, PTL
         DEF Spec, ListingSpec, Listing!Spec
-----------------------------------------------------------------------------
(* What the contract keeps: the listings hold shown entries only. *)

(* Every listing is a sequence of entries a listing shows. *)
ListedSeqsShown == listed \in [Views -> Seq(ShownSet)]

(* The contract's steps keep the listings made of shown entries. *)
LEMMA ListingStepShown ==
    ASSUME ListedSeqsShown, [Listing!Next]_Listing!vars
    PROVE  ListedSeqsShown'
<1>1. CASE Listing!Pass
  BY <1>1 DEF Listing!Pass, ListedSeqsShown
<1>2. ASSUME NEW r \in Views, Listing!Hand(r) PROVE ListedSeqsShown'
  <2>1. PICK i \in ShownSet :
            listed' = [listed EXCEPT ![r] = Append(listed[r], i)]
    BY <1>2 DEF Listing!Hand, ShownSet
  <2>2. Append(listed[r], i) \in Seq(ShownSet)
    BY <2>1, AppendProperties DEF ListedSeqsShown
  <2>. QED BY <2>1, <2>2 DEF ListedSeqsShown
<1>3. ASSUME NEW r \in Views, Listing!Rewind(r) PROVE ListedSeqsShown'
  BY <1>3, EmptySeq DEF Listing!Rewind, ListedSeqsShown
<1>4. CASE UNCHANGED Listing!vars
  BY <1>4 DEF Listing!vars, ListedSeqsShown
<1>. QED BY <1>1, <1>2, <1>3, <1>4 DEF Listing!Next

LEMMA InitListedSeqsShown == Init => ListedSeqsShown
BY EmptySeq DEF Init, ListedSeqsShown

LEMMA SeqsShownImpliesShown == ListedSeqsShown => ListedShown
<1>. SUFFICES ASSUME ListedSeqsShown,
                    NEW r \in Views, NEW k \in 1 .. Len(listed[r])
             PROVE  listed[r][k] \in {i \in 1 .. Len(Dir) : ShownEntry(Dir[i])}
  BY DEF ListedShown, Listing!HandedShown
<1>. QED BY ElementOfSeq DEF ListedSeqsShown, ShownSet

(* For any number of handle values, every entry handed out through any  *)
(* of them is one a listing shows, however rewinds through other values *)
(* move the shared DirPos: a consequence of ListingRefinement.           *)
THEOREM ListedShownEntries == Spec => []ListedShown
<1>1. Init => InfoInv /\ ListedSeqsShown
  BY InitInfoInv, InitListedSeqsShown
<1>2. (InfoInv /\ ListedSeqsShown) /\ [Next]_vars
        => (InfoInv /\ ListedSeqsShown)'
  BY NextInfoInv, NextRefinesListing, ListingStepShown
<1>. QED BY <1>1, <1>2, SeqsShownImpliesShown, PTL DEF Spec
=============================================================================
