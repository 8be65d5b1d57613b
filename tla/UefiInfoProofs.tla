--------------------------- MODULE UefiInfoProofs ---------------------------
(***************************************************************************)
(* Proofs about UefiInfo, the caller-buffer protocols of uefi_file.c, for  *)
(* every value of the constants.                                           *)
(*                                                                         *)
(* InfoInv holds for any number of handle values: the types, and what the  *)
(* last call reported against what it wrote or needed.  The listing        *)
(* invariants hold when one handle value reads the directory: DirPos is    *)
(* the instance's, and a rewind through a second value moves the listing   *)
(* of the first (run listed_in_order_shared shows the violation).  Their  *)
(* inductive form, ListInv, ties each value's history to DirPos: what it  *)
(* was handed is exactly the shown entries up to DirPos.                  *)
(***************************************************************************)
EXTENDS UefiInfo, WellFoundedInduction, SequenceTheorems, TLAPS

(* What the last call returned, as TypeOK types it. *)
LastRec == [op : Ops, kind : Kinds \cup {"none"}, via : Views \cup {"none"},
            len : Nat, lenOut : Nat, status : Statuses, written : Nat]

(* The entries of a sequence. *)
SeqRange(s) == {s[k] : k \in 1 .. Len(s)}

(* A GetInfo answered BUFFER_TOO_SMALL reported the size it needs, and  *)
(* for file and file-system information that size exceeds the buffer.    *)
BTSReportsNeed ==
    last.op = "GetInfo" /\ last.status = "BUFFER_TOO_SMALL" =>
        /\ last.kind \in {"FileInfo", "FsInfo"} => last.len < last.lenOut
        /\ last.kind = "FileInfo" =>
              last.lenOut = SIZE_OF_EFI_FILE_INFO + nameSize
        /\ last.kind = "FsInfo" =>
              last.lenOut = SIZE_OF_EFI_FILE_SYSTEM_INFO + LabelSize

(* Every entry handed out since the rewind lies at or before DirPos. *)
ListedBelowPos ==
    \A v \in Views : \A k \in 1 .. Len(listed[v]) : listed[v][k] <= dirPos

(* What was handed out is exactly the shown entries up to DirPos. *)
ListedExact ==
    \A v \in Views :
        SeqRange(listed[v]) = {i \in 1 .. dirPos : ShownEntry(Dir[i])}

(* A zero-length successful directory read left DirPos at the end. *)
EndAtEnd ==
    last.op = "ReadDir" /\ last.status = "SUCCESS" /\ last.lenOut = 0
    => dirPos = Len(Dir)

InfoInv == TypeOK /\ SuccessReportsWritten /\ BTSReportsNeed

ListInv == InfoInv /\ ListedBelowPos /\ ListedExact /\ ListedInOrder /\ EndAtEnd

-----------------------------------------------------------------------------
(* Lemmas about the operators. *)

(* A non-empty set of naturals has a least element. *)
LEMMA MinNat ==
    ASSUME NEW T \in SUBSET Nat, T # {}
    PROVE  \E i \in T : \A j \in T : i <= j
<1>1. \E x \in T : \A y \in T : ~(<<y, x>> \in OpToRel(<, Nat))
  BY NatLessThanWellFounded, WFMin
<1>2. ASSUME NEW x \in Nat, NEW y \in Nat, y < x
      PROVE  <<y, x>> \in OpToRel(<, Nat)
  BY <1>2, Zenon DEF OpToRel
<1>3. PICK x \in T : \A y \in T : ~(<<y, x>> \in OpToRel(<, Nat))
  BY <1>1
<1>4. \A y \in T : ~(y < x)
  BY <1>2, <1>3, Zenon
<1>. QED BY <1>4

(* FirstVisible is the first entry after DirPos the hook keeps. *)
LEMMA FirstVisibleMin ==
    ASSUME TypeOK, Visible # {}
    PROVE  /\ FirstVisible \in Visible
           /\ FirstVisible \in dirPos + 1 .. Len(Dir)
           /\ ~Hidden(Dir[FirstVisible])
           /\ \A j \in Visible : FirstVisible <= j
<1>1. Visible \in SUBSET Nat
  BY DEF Visible, TypeOK
<1>2. \E i \in Visible : \A j \in Visible : i <= j
  BY <1>1, MinNat
<1>. QED BY <1>2 DEF FirstVisible, Visible

(* An entry of the directory, with its fields. *)
LEMMA DirEntry ==
    ASSUME NEW i \in 1 .. Len(Dir)
    PROVE  Dir[i] \in [ino : Nat, nameLen : 0 .. 255]
BY ConstantsAssumption, ElementOfSeq

(* The entries DirHook skips are the ones a listing does not show. *)
LEMMA HiddenIsNotShown ==
    ASSUME NEW e \in [ino : Nat, nameLen : 0 .. 255]
    PROVE  Hidden(e) <=> ~ShownEntry(e)
BY DEF Hidden, ShownEntry, FILE_ROOT, FILE_FIRST_USER

(* The sizes the caller passes are naturals. *)
LEMMA CallerLensNat == TypeOK => CallerLens \subseteq Nat
BY ConstantsAssumption DEF CallerLens, TypeOK

(* The label size GetInfo uses is a natural. *)
LEMMA LabelSizeNat == TypeOK => LabelSize \in Nat
BY ConstantsAssumption DEF LabelSize, TypeOK, SIZE_OF_CHAR16
(* The directory's length is a natural. *)
LEMMA DirLen == Len(Dir) \in Nat
BY ConstantsAssumption, LenProperties

(* The sizes the instance's name and label take are naturals. *)
LEMMA SizesNat ==
    ASSUME TypeOK
    PROVE  /\ nameSize \in Nat
           /\ LabelSize \in Nat
BY ConstantsAssumption DEF TypeOK, LabelSize, SIZE_OF_CHAR16

(* Answer sets last to a record of the type TypeOK gives it. *)
LEMMA AnswerTyped ==
    ASSUME NEW op \in Ops, NEW kind \in Kinds \cup {"none"},
           NEW via \in Views \cup {"none"}, NEW len \in Nat, NEW lenOut \in Nat,
           NEW status \in Statuses, NEW written \in Nat,
           Answer(op, kind, via, len, lenOut, status, written)
    PROVE  last' \in LastRec
BY DEF Answer, LastRec

-----------------------------------------------------------------------------
(* InfoInv is inductive. *)

LEMMA InitInfoInv == Init => InfoInv
BY ConstantsAssumption, DirLen, EmptySeq
   DEF Init, InfoInv, TypeOK, SuccessReportsWritten, BTSReportsNeed,
       Ops, Kinds, Statuses, SIZE_OF_CHAR16

(* The variables GetInfo leaves alone keep their types. *)
LEMMA FrameTyped ==
    ASSUME TypeOK, last' \in LastRec,
           UNCHANGED <<isRoot, isDir, nameSize, labelSize, dirPos, listed>>
    PROVE  TypeOK'
BY DEF TypeOK, LastRec

LEMMA GetInfoInv ==
    ASSUME InfoInv, NEW kind \in Kinds, NEW len \in CallerLens,
           FileGetInfo(kind, len)
    PROVE  InfoInv'
<1>. USE DEF FileGetInfo
<1>1. /\ len \in Nat /\ nameSize \in Nat /\ LabelSize \in Nat
      /\ UNCHANGED <<nameSize, labelSize>>
  BY SizesNat, CallerLensNat DEF InfoInv
<1>2. CASE kind = "FileInfo" /\ FileInfoCall(len)
  <2>1. last' \in LastRec
    BY <1>1, <1>2, AnswerTyped DEF FileInfoCall, Ops, Kinds, Statuses,
       SIZE_OF_EFI_FILE_INFO
  <2>2. (SuccessReportsWritten /\ BTSReportsNeed)'
    BY <1>1, <1>2 DEF FileInfoCall, Answer, SuccessReportsWritten,
       BTSReportsNeed, LabelSize
  <2>. QED BY <2>1, <2>2, FrameTyped DEF InfoInv
<1>3. CASE kind = "FsInfo" /\ FsInfoCall(len)
  <2>1. last' \in LastRec
    BY <1>1, <1>3, AnswerTyped DEF FsInfoCall, Ops, Kinds, Statuses,
       SIZE_OF_EFI_FILE_SYSTEM_INFO
  <2>2. (SuccessReportsWritten /\ BTSReportsNeed)'
    BY <1>1, <1>3 DEF FsInfoCall, Answer, SuccessReportsWritten,
       BTSReportsNeed, LabelSize
  <2>. QED BY <2>1, <2>2, FrameTyped DEF InfoInv
<1>4. CASE kind = "LabelInfo" /\ LabelCall(len)
  <2>1. last' \in LastRec
    BY <1>1, <1>4, AnswerTyped DEF LabelCall, Ops, Kinds, Statuses
  <2>2. (SuccessReportsWritten /\ BTSReportsNeed)'
    BY <1>1, <1>4 DEF LabelCall, Answer, SuccessReportsWritten,
       BTSReportsNeed
  <2>. QED BY <2>1, <2>2, FrameTyped DEF InfoInv
<1>5. CASE kind = "Other" /\ Answer("GetInfo", kind, "none", len, len,
                                   "UNSUPPORTED", 0)
  <2>1. last' \in LastRec
    BY <1>1, <1>5, AnswerTyped DEF Ops, Kinds, Statuses
  <2>2. (SuccessReportsWritten /\ BTSReportsNeed)'
    BY <1>5 DEF Answer, SuccessReportsWritten, BTSReportsNeed
  <2>. QED BY <2>1, <2>2, FrameTyped DEF InfoInv
<1>. QED BY <1>2, <1>3, <1>4, <1>5
(* A directory step answers nothing about GetInfo and keeps the sizes. *)
LEMMA DirStepKeepsInfo ==
    ASSUME last'.op # "GetInfo",
           last'.op = "ReadDir" /\ last'.status = "SUCCESS" /\ last'.lenOut > 0
             => last'.lenOut = last'.written
    PROVE  (SuccessReportsWritten /\ BTSReportsNeed)'
BY DEF SuccessReportsWritten, BTSReportsNeed

LEMMA ReadDirInv ==
    ASSUME InfoInv, NEW v \in Views, NEW len \in CallerLens, ReadDir(v, len)
    PROVE  InfoInv'
<1>. DEFINE i == FirstVisible
            need == (Dir[i].nameLen + 1) * SIZE_OF_CHAR16
<1>1. /\ TypeOK /\ len \in Nat /\ Len(Dir) \in Nat
      /\ UNCHANGED <<isRoot, isDir, nameSize, labelSize>>
  BY CallerLensNat, DirLen DEF InfoInv, ReadDir
<1>2. CASE Visible = {} /\ EndOfDir(v, len)
  <2>1. last' \in LastRec
    BY <1>1, <1>2, AnswerTyped DEF EndOfDir, Ops, Kinds, Statuses,
       SIZE_OF_SIZE_FIELD
  <2>2. TypeOK'
    BY <1>1, <1>2, <2>1 DEF EndOfDir, TypeOK, LastRec
  <2>. QED BY <1>2, <2>2, DirStepKeepsInfo DEF EndOfDir, Answer, InfoInv
<1>3. ASSUME Visible # {}
      PROVE  /\ i \in 1 .. Len(Dir) /\ i - 1 \in 0 .. Len(Dir)
             /\ need \in Nat
  <2>1. i \in dirPos + 1 .. Len(Dir)
    BY <1>1, <1>3, FirstVisibleMin
  <2>2. dirPos \in Nat
    BY <1>1 DEF TypeOK
  <2>3. i \in 1 .. Len(Dir) /\ i - 1 \in 0 .. Len(Dir)
    BY <1>1, <2>1, <2>2
  <2>4. Dir[i].nameLen \in 0 .. 255
    BY <2>3, DirEntry
  <2>5. need \in Nat
    BY <2>4 DEF SIZE_OF_CHAR16
  <2>. QED BY <2>3, <2>5
<1>4. CASE /\ Visible # {} /\ len < need /\ dirPos' = i - 1
           /\ Answer("ReadDir", "none", v, len, len, "BUFFER_TOO_SMALL",
                     SIZE_OF_SIZE_FIELD)
           /\ UNCHANGED listed
  <2>1. last' \in LastRec
    BY <1>1, <1>4, AnswerTyped DEF Ops, Kinds, Statuses, SIZE_OF_SIZE_FIELD
  <2>2. TypeOK'
    BY <1>1, <1>3, <1>4, <2>1 DEF TypeOK, LastRec
  <2>. QED BY <1>4, <2>2, DirStepKeepsInfo DEF Answer, InfoInv
<1>5. CASE /\ Visible # {} /\ len >= need /\ InfoFails /\ dirPos' = i - 1
           /\ Answer("ReadDir", "none", v, len, len, "ENGINE_ERROR",
                     SIZE_OF_EFI_FILE_INFO + need)
           /\ UNCHANGED listed
  <2>0. need \in Nat
    BY <1>3, <1>5
  <2>1. last' \in LastRec
    BY <1>1, <2>0, <1>5, AnswerTyped DEF Ops, Kinds, Statuses,
       SIZE_OF_EFI_FILE_INFO
  <2>2. TypeOK'
    BY <1>1, <1>3, <1>5, <2>1 DEF TypeOK, LastRec
  <2>. QED BY <1>5, <2>2, DirStepKeepsInfo DEF Answer, InfoInv
<1>6. CASE /\ Visible # {} /\ len >= need /\ dirPos' = i
           /\ listed' = [listed EXCEPT ![v] = Append(@, i)]
           /\ Answer("ReadDir", "none", v, len, SIZE_OF_EFI_FILE_INFO + need,
                     "SUCCESS", SIZE_OF_EFI_FILE_INFO + need)
  <2>0. need \in Nat
    BY <1>3, <1>6
  <2>1. last' \in LastRec
    BY <1>1, <2>0, <1>6, AnswerTyped DEF Ops, Kinds, Statuses,
       SIZE_OF_EFI_FILE_INFO
  <2>2. Append(listed[v], i) \in Seq(1 .. Len(Dir))
    BY <1>1, <1>3, <1>6, AppendProperties DEF TypeOK
  <2>3. listed' \in [Views -> Seq(1 .. Len(Dir))]
    BY <1>1, <1>6, <2>2 DEF TypeOK
  <2>4. TypeOK'
    BY <1>1, <1>3, <1>6, <2>1, <2>3 DEF TypeOK, LastRec
  <2>. QED BY <1>6, <2>4, DirStepKeepsInfo DEF Answer, InfoInv
<1>. QED BY <1>2, <1>4, <1>5, <1>6 DEF ReadDir

LEMMA SetPositionInv ==
    ASSUME InfoInv, NEW v \in Views, NEW pos \in {0, 1}, FileSetPosition(v, pos)
    PROVE  InfoInv'
<1>1. last' \in LastRec
  BY AnswerTyped DEF FileSetPosition, Ops, Kinds, Statuses
<1>2. ASSUME pos # 0 PROVE TypeOK'
  BY <1>1, <1>2 DEF FileSetPosition, InfoInv, TypeOK, LastRec
<1>3. ASSUME pos = 0 PROVE TypeOK'
  <2>1. <<>> \in Seq(1 .. Len(Dir))
    BY EmptySeq
  <2>2. listed' \in [Views -> Seq(1 .. Len(Dir))]
    BY <1>3, <2>1 DEF FileSetPosition, InfoInv, TypeOK
  <2>3. dirPos' \in 0 .. Len(Dir)
    BY <1>3, DirLen DEF FileSetPosition
  <2>. QED BY <1>1, <2>2, <2>3 DEF FileSetPosition, InfoInv, TypeOK, LastRec
<1>4. TypeOK'
  BY <1>2, <1>3
<1>. QED BY <1>4, DirStepKeepsInfo DEF FileSetPosition, Answer, InfoInv

LEMMA GetPositionInv ==
    ASSUME InfoInv, NEW v \in Views, FileGetPosition(v)
    PROVE  InfoInv'
<1>1. last' \in LastRec
  BY AnswerTyped DEF FileGetPosition, Ops, Kinds, Statuses
<1>. QED BY <1>1, FrameTyped, DirStepKeepsInfo
         DEF FileGetPosition, Answer, InfoInv

LEMMA NextInfoInv == InfoInv /\ [Next]_vars => InfoInv'
<1>. SUFFICES ASSUME InfoInv, [Next]_vars PROVE InfoInv'
  OBVIOUS
<1>1. CASE \E kind \in Kinds, len \in CallerLens : FileGetInfo(kind, len)
  BY <1>1, GetInfoInv
<1>2. CASE \E v \in Views, len \in CallerLens : ReadDir(v, len)
  BY <1>2, ReadDirInv
<1>3. CASE \E v \in Views, pos \in {0, 1} : FileSetPosition(v, pos)
  BY <1>3, SetPositionInv
<1>4. CASE \E v \in Views : FileGetPosition(v)
  BY <1>4, GetPositionInv
<1>5. CASE UNCHANGED vars
  BY <1>5 DEF vars, InfoInv, TypeOK, SuccessReportsWritten, BTSReportsNeed,
     LabelSize
<1>. QED BY <1>1, <1>2, <1>3, <1>4, <1>5 DEF Next

-----------------------------------------------------------------------------
(* The theorems about every handle value. *)

(* The types of TypeOK hold in every reachable state of FileGetInfo,     *)
(* FileRead on a directory and the position calls.                       *)
THEOREM InfoTypeCorrect == Spec => []TypeOK
<1>1. Init => InfoInv
  BY InitInfoInv
<1>2. InfoInv /\ [Next]_vars => InfoInv'
  BY NextInfoInv
<1>3. InfoInv => TypeOK
  BY DEF InfoInv
<1>. QED BY <1>1, <1>2, <1>3, PTL DEF Spec

(* A successful GetInfo, and a directory read that returns an entry,     *)
(* always report in *Len exactly the bytes they wrote.                   *)
THEOREM ReportsWritten == Spec => []SuccessReportsWritten
<1>1. InfoInv => SuccessReportsWritten
  BY DEF InfoInv
<1>. QED BY <1>1, InitInfoInv, NextInfoInv, PTL DEF Spec
-----------------------------------------------------------------------------
(* The retry of a GetInfo refused for lack of room. *)

(* A step that answers GetInfo for a kind is a GetInfo call of that kind. *)
LEMMA GetInfoStepKind ==
    ASSUME InfoInv, [Next]_vars, last'.op = "GetInfo", last' # last
    PROVE  \E kind \in Kinds, len \in CallerLens :
              /\ FileGetInfo(kind, len)
              /\ last'.kind = kind /\ last'.len = len
<1>1. CASE \E kind \in Kinds, len \in CallerLens : FileGetInfo(kind, len)
  <2>1. PICK kind \in Kinds, len \in CallerLens : FileGetInfo(kind, len)
    BY <1>1
  <2>2. last'.kind = kind /\ last'.len = len
    BY <2>1 DEF FileGetInfo, FileInfoCall, FsInfoCall, LabelCall, Answer
  <2>. QED BY <2>1, <2>2
<1>2. CASE \E v \in Views, len \in CallerLens : ReadDir(v, len)
  BY <1>2 DEF ReadDir, EndOfDir, Answer
<1>3. CASE \E v \in Views, pos \in {0, 1} : FileSetPosition(v, pos)
  BY <1>3 DEF FileSetPosition, Answer
<1>4. CASE \E v \in Views : FileGetPosition(v)
  BY <1>4 DEF FileGetPosition, Answer
<1>5. CASE UNCHANGED vars
  BY <1>5 DEF vars
<1>. QED BY <1>1, <1>2, <1>3, <1>4, <1>5 DEF Next

(* Called with the size it reported, GetInfo of the same kind has room. *)
LEMMA RetryStep ==
    ASSUME InfoInv, [Next]_vars,
           last.op = "GetInfo", last.kind \in {"FileInfo", "FsInfo"},
           last.status = "BUFFER_TOO_SMALL",
           last'.op = "GetInfo", last'.kind = last.kind,
           last'.len = last.lenOut
    PROVE  last'.status # "BUFFER_TOO_SMALL"
<1>1. last' # last
  BY DEF InfoInv, TypeOK, BTSReportsNeed
<1>2. PICK kind \in Kinds, len \in CallerLens :
          /\ FileGetInfo(kind, len)
          /\ last'.kind = kind /\ last'.len = len
  BY <1>1, GetInfoStepKind
<1>3. /\ nameSize \in Nat /\ LabelSize \in Nat /\ len \in Nat
      /\ UNCHANGED <<nameSize, labelSize>>
  BY <1>2, SizesNat, CallerLensNat DEF InfoInv, FileGetInfo
<1>4. CASE kind = "FileInfo"
  <2>1. len = SIZE_OF_EFI_FILE_INFO + nameSize
    BY <1>2, <1>4 DEF InfoInv, BTSReportsNeed
  <2>2. FileInfoCall(len)
    BY <1>2, <1>4 DEF FileGetInfo
  <2>. QED BY <1>3, <2>1, <2>2 DEF FileInfoCall, Answer
<1>5. CASE kind = "FsInfo"
  <2>1. len = SIZE_OF_EFI_FILE_SYSTEM_INFO + LabelSize
    BY <1>2, <1>5 DEF InfoInv, BTSReportsNeed
  <2>2. FsInfoCall(len)
    BY <1>2, <1>5 DEF FileGetInfo
  <2>. QED BY <1>3, <2>1, <2>2 DEF FsInfoCall, Answer, LabelSize
<1>. QED BY <1>2, <1>4, <1>5

(* A GetInfo for file or file-system information answered               *)
(* BUFFER_TOO_SMALL and called again at once with the size it reported   *)
(* never fails for lack of room again (spec sections 4.5 and 8).         *)
THEOREM RetryFits == Spec => InfoRetrySucceeds
<1>1. InfoInv /\ [Next]_vars =>
        [/\ last.op = "GetInfo" /\ last.kind \in {"FileInfo", "FsInfo"}
         /\ last.status = "BUFFER_TOO_SMALL"
         /\ last'.op = "GetInfo" /\ last'.kind = last.kind
         /\ last'.len = last.lenOut
         => last'.status # "BUFFER_TOO_SMALL"]_vars
  BY RetryStep
<1>. QED BY <1>1, InitInfoInv, NextInfoInv, PTL DEF Spec, InfoRetrySucceeds
-----------------------------------------------------------------------------
(* Lemmas for the listing through one handle value. *)

(* The entries of a sequence with one more appended. *)
LEMMA SeqRangeAppend ==
    ASSUME NEW S, NEW s \in Seq(S), NEW e \in S
    PROVE  SeqRange(Append(s, e)) = SeqRange(s) \cup {e}
<1>1. /\ Len(Append(s, e)) = Len(s) + 1
      /\ \A k \in 1 .. Len(s) : Append(s, e)[k] = s[k]
      /\ Append(s, e)[Len(s) + 1] = e
      /\ Len(s) \in Nat
  BY AppendProperties, LenProperties
<1>. QED BY <1>1 DEF SeqRange

(* The empty sequence has no entries. *)
LEMMA SeqRangeEmpty == SeqRange(<<>>) = {}
BY DEF SeqRange

(* The entries ReadDir passes over on its way to FirstVisible are not    *)
(* shown.                                                                 *)
LEMMA SkippedNotShown ==
    ASSUME TypeOK, Visible # {}, NEW j \in dirPos + 1 .. FirstVisible - 1
    PROVE  ~ShownEntry(Dir[j])
<1>1. /\ FirstVisible \in dirPos + 1 .. Len(Dir)
      /\ \A k \in Visible : FirstVisible <= k
  BY FirstVisibleMin
<1>2. j \in 1 .. Len(Dir)
  BY <1>1, DirLen DEF TypeOK
<1>3. ~(j \in Visible)
  BY <1>1, <1>2, DirLen DEF TypeOK
<1>4. Hidden(Dir[j])
  BY <1>2, <1>3 DEF Visible
<1>. QED BY <1>2, <1>4, DirEntry, HiddenIsNotShown

(* When nothing after DirPos is visible, nothing after it is shown. *)
LEMMA NoneVisibleNotShown ==
    ASSUME TypeOK, Visible = {}, NEW j \in dirPos + 1 .. Len(Dir)
    PROVE  ~ShownEntry(Dir[j])
<1>1. j \in 1 .. Len(Dir)
  BY DirLen DEF TypeOK
<1>2. Hidden(Dir[j])
  BY DEF Visible
<1>. QED BY <1>1, <1>2, DirEntry, HiddenIsNotShown

(* The shown entries up to a position beyond which, up to a second,      *)
(* nothing is shown, are the shown entries up to the second.             *)
LEMMA ShownUpTo ==
    ASSUME NEW a \in Nat, NEW b \in Nat, a <= b,
           \A j \in a + 1 .. b : ~ShownEntry(Dir[j])
    PROVE  {j \in 1 .. a : ShownEntry(Dir[j])} = {j \in 1 .. b : ShownEntry(Dir[j])}
OBVIOUS
-----------------------------------------------------------------------------
(* ListInv is inductive when one handle value reads the directory. *)

LEMMA InitListInv == Init => ListInv
<1>. SUFFICES ASSUME Init PROVE ListInv
  OBVIOUS
<1>1. InfoInv
  BY InitInfoInv
<1>2. \A v \in Views : listed[v] = <<>>
  BY DEF Init
<1>3. ListedExact
  BY <1>2, SeqRangeEmpty DEF Init, ListedExact
<1>. QED BY <1>1, <1>2, <1>3 DEF Init, ListInv, ListedBelowPos, ListedInOrder,
                                EndAtEnd

(* The end of the directory: DirPos moves to the end over hidden entries. *)
LEMMA EndOfDirList ==
    ASSUME ListInv, NEW v \in Views, NEW len \in CallerLens,
           Visible = {}, EndOfDir(v, len)
    PROVE  (ListedBelowPos /\ ListedExact /\ ListedInOrder /\ EndAtEnd)'
<1>1. /\ TypeOK /\ Len(Dir) \in Nat /\ dirPos' = Len(Dir)
      /\ listed' = listed /\ dirPos \in 0 .. Len(Dir)
  BY DirLen DEF ListInv, InfoInv, EndOfDir, TypeOK
<1>2. ListedBelowPos'
  BY <1>1 DEF ListInv, ListedBelowPos, TypeOK
<1>3. {j \in 1 .. dirPos : ShownEntry(Dir[j])}
        = {j \in 1 .. Len(Dir) : ShownEntry(Dir[j])}
  BY <1>1, NoneVisibleNotShown, ShownUpTo
<1>4. ListedExact'
  BY <1>1, <1>3 DEF ListInv, ListedExact
<1>5. ListedInOrder'
  BY <1>1 DEF ListInv, ListedInOrder
<1>6. EndAtEnd'
  BY <1>1 DEF EndAtEnd
<1>. QED BY <1>2, <1>4, <1>5, <1>6

(* A read the hook or the buffer refuses: DirPos stops before the entry. *)
LEMMA RefusedReadList ==
    ASSUME ListInv, Visible # {},
           dirPos' = FirstVisible - 1, UNCHANGED listed,
           last'.status # "SUCCESS"
    PROVE  (ListedBelowPos /\ ListedExact /\ ListedInOrder /\ EndAtEnd)'
<1>1. /\ TypeOK /\ Len(Dir) \in Nat /\ dirPos \in Nat
      /\ FirstVisible \in dirPos + 1 .. Len(Dir)
  BY DirLen, FirstVisibleMin DEF ListInv, InfoInv, TypeOK
<1>2. ListedBelowPos'
  BY <1>1 DEF ListInv, ListedBelowPos, TypeOK
<1>3. {j \in 1 .. dirPos : ShownEntry(Dir[j])}
        = {j \in 1 .. FirstVisible - 1 : ShownEntry(Dir[j])}
  BY <1>1, SkippedNotShown, ShownUpTo
<1>4. ListedExact'
  BY <1>3 DEF ListInv, ListedExact
<1>5. ListedInOrder'
  BY DEF ListInv, ListedInOrder
<1>6. EndAtEnd'
  BY DEF EndAtEnd
<1>. QED BY <1>2, <1>4, <1>5, <1>6
(* A read that hands out an entry: DirPos moves to it and the value's     *)
(* listing grows by it.                                                   *)
LEMMA ReturnedEntryList ==
    ASSUME NEW v0, Views = {v0}, ListInv, Visible # {},
           dirPos' = FirstVisible,
           listed' = [listed EXCEPT ![v0] = Append(@, FirstVisible)],
           last'.op = "ReadDir", last'.lenOut > 0
    PROVE  (ListedBelowPos /\ ListedExact /\ ListedInOrder /\ EndAtEnd)'
<1>. DEFINE i == FirstVisible
            L == listed[v0]
<1>1. /\ TypeOK /\ Len(Dir) \in Nat /\ dirPos \in Nat
      /\ i \in dirPos + 1 .. Len(Dir)
      /\ ShownEntry(Dir[i])
  <2>1. /\ TypeOK /\ Len(Dir) \in Nat /\ dirPos \in Nat
        /\ i \in dirPos + 1 .. Len(Dir) /\ ~Hidden(Dir[i])
    BY DirLen, FirstVisibleMin DEF ListInv, InfoInv, TypeOK
  <2>. QED BY <2>1, DirEntry, HiddenIsNotShown
<1>2. /\ L \in Seq(1 .. Len(Dir))
      /\ Len(L) \in Nat
      /\ \A k \in 1 .. Len(L) : L[k] <= dirPos
      /\ SeqRange(L) = {j \in 1 .. dirPos : ShownEntry(Dir[j])}
      /\ \A k \in 1 .. Len(L) :
            /\ ShownEntry(Dir[L[k]])
            /\ k > 1 => L[k - 1] < L[k]
  BY <1>1, LenProperties
     DEF ListInv, TypeOK, ListedBelowPos, ListedExact, ListedInOrder
<1>3. /\ listed'[v0] = Append(L, i)
      /\ Len(Append(L, i)) = Len(L) + 1
      /\ \A k \in 1 .. Len(L) : Append(L, i)[k] = L[k]
      /\ Append(L, i)[Len(L) + 1] = i
  BY <1>1, <1>2, AppendProperties DEF TypeOK
<1>4. ListedBelowPos'
  BY <1>1, <1>2, <1>3 DEF ListedBelowPos
<1>5. ListedExact'
  <2>1. SeqRange(Append(L, i)) = SeqRange(L) \cup {i}
    BY <1>1, <1>2, SeqRangeAppend
  <2>2. {j \in 1 .. dirPos : ShownEntry(Dir[j])} \cup {i}
          = {j \in 1 .. i : ShownEntry(Dir[j])}
    <3>1. {j \in 1 .. dirPos : ShownEntry(Dir[j])}
            = {j \in 1 .. i - 1 : ShownEntry(Dir[j])}
      BY <1>1, SkippedNotShown, ShownUpTo DEF ListInv, InfoInv
    <3>. QED BY <1>1, <3>1
  <2>. QED BY <1>2, <1>3, <2>1, <2>2 DEF ListedExact
<1>6. ListedInOrder'
  BY <1>1, <1>2, <1>3 DEF ListedInOrder
<1>7. EndAtEnd'
  BY DEF EndAtEnd
<1>. QED BY <1>4, <1>5, <1>6, <1>7
LEMMA ReadDirList ==
    ASSUME NEW v0, Views = {v0}, ListInv, NEW v \in Views, NEW len \in CallerLens,
           ReadDir(v, len)
    PROVE  ListInv'
<1>. DEFINE i == FirstVisible
            need == (Dir[i].nameLen + 1) * SIZE_OF_CHAR16
<1>1. InfoInv'
  BY ReadDirInv DEF ListInv
<1>2. (ListedBelowPos /\ ListedExact /\ ListedInOrder /\ EndAtEnd)'
  <2>1. CASE Visible = {} /\ EndOfDir(v, len)
    BY <2>1, EndOfDirList
  <2>2. CASE /\ Visible # {} /\ len < need /\ dirPos' = i - 1
             /\ Answer("ReadDir", "none", v, len, len, "BUFFER_TOO_SMALL",
                       SIZE_OF_SIZE_FIELD)
             /\ UNCHANGED listed
    BY <2>2, RefusedReadList DEF Answer
  <2>3. CASE /\ Visible # {} /\ len >= need /\ InfoFails /\ dirPos' = i - 1
             /\ Answer("ReadDir", "none", v, len, len, "ENGINE_ERROR",
                       SIZE_OF_EFI_FILE_INFO + need)
             /\ UNCHANGED listed
    BY <2>3, RefusedReadList DEF Answer
  <2>4. CASE /\ Visible # {} /\ len >= need /\ dirPos' = i
             /\ listed' = [listed EXCEPT ![v] = Append(@, i)]
             /\ Answer("ReadDir", "none", v, len, SIZE_OF_EFI_FILE_INFO + need,
                       "SUCCESS", SIZE_OF_EFI_FILE_INFO + need)
    <3>1. i \in 1 .. Len(Dir)
      BY <2>4, FirstVisibleMin, DirLen DEF ListInv, InfoInv, TypeOK
    <3>2. Dir[i].nameLen \in 0 .. 255
      BY <3>1, DirEntry
    <3>3. need \in Nat
      BY <3>2 DEF SIZE_OF_CHAR16
    <3>4. last'.op = "ReadDir" /\ last'.lenOut = SIZE_OF_EFI_FILE_INFO + need
      BY <2>4 DEF Answer
    <3>5. last'.op = "ReadDir" /\ last'.lenOut > 0
      BY <3>3, <3>4 DEF SIZE_OF_EFI_FILE_INFO
    <3>. QED BY <2>4, <3>5, ReturnedEntryList
  <2>. QED BY <2>1, <2>2, <2>3, <2>4 DEF ReadDir
<1>. QED BY <1>1, <1>2 DEF ListInv

(* A step that leaves DirPos and the listings alone and answers no read. *)
LEMMA ListingFrame ==
    ASSUME ListInv, InfoInv', UNCHANGED <<dirPos, listed>>, last'.op # "ReadDir"
    PROVE  ListInv'
BY DEF ListInv, ListedBelowPos, ListedExact, ListedInOrder, EndAtEnd

LEMMA SetPositionList ==
    ASSUME NEW v0, Views = {v0}, ListInv, NEW v \in Views, NEW pos \in {0, 1},
           FileSetPosition(v, pos)
    PROVE  ListInv'
<1>1. InfoInv'
  BY SetPositionInv DEF ListInv
<1>2. last'.op = "SetPosition"
  BY DEF FileSetPosition, Answer
<1>3. CASE pos # 0
  BY <1>1, <1>2, <1>3, ListingFrame DEF FileSetPosition
<1>4. CASE pos = 0
  <2>1. dirPos' = 0 /\ listed' = [w \in Views |-> <<>>]
    BY <1>4 DEF FileSetPosition, ListInv, InfoInv, TypeOK
  <2>2. (ListedBelowPos /\ ListedInOrder /\ EndAtEnd)'
    BY <1>2, <2>1 DEF ListedBelowPos, ListedInOrder, EndAtEnd
  <2>3. ListedExact'
    BY <2>1, SeqRangeEmpty DEF ListedExact
  <2>. QED BY <1>1, <2>2, <2>3 DEF ListInv
<1>. QED BY <1>3, <1>4

LEMMA NextListInv ==
    ASSUME NEW v0, Views = {v0}
    PROVE  ListInv /\ [Next]_vars => ListInv'
<1>. SUFFICES ASSUME ListInv, [Next]_vars PROVE ListInv'
  OBVIOUS
<1>1. CASE \E kind \in Kinds, len \in CallerLens : FileGetInfo(kind, len)
  <2>1. PICK kind \in Kinds, len \in CallerLens : FileGetInfo(kind, len)
    BY <1>1
  <2>2. last'.op = "GetInfo"
    BY <2>1 DEF FileGetInfo, FileInfoCall, FsInfoCall, LabelCall, Answer
  <2>. QED BY <2>1, <2>2, GetInfoInv, ListingFrame DEF ListInv, FileGetInfo
<1>2. CASE \E v \in Views, len \in CallerLens : ReadDir(v, len)
  BY <1>2, ReadDirList
<1>3. CASE \E v \in Views, pos \in {0, 1} : FileSetPosition(v, pos)
  BY <1>3, SetPositionList
<1>4. CASE \E v \in Views : FileGetPosition(v)
  <2>1. PICK v \in Views : FileGetPosition(v)
    BY <1>4
  <2>2. last'.op = "GetPosition"
    BY <2>1 DEF FileGetPosition, Answer
  <2>. QED BY <2>1, <2>2, GetPositionInv, ListingFrame
           DEF ListInv, FileGetPosition
<1>5. CASE UNCHANGED vars
  BY <1>5, NextInfoInv, ListingFrame DEF vars, ListInv, ListedBelowPos,
     ListedExact, ListedInOrder, EndAtEnd
<1>. QED BY <1>1, <1>2, <1>3, <1>4, <1>5 DEF Next

-----------------------------------------------------------------------------
(* The theorems about a directory read through one handle value. *)

(* When one handle value reads the directory, the entries it was handed   *)
(* since it last rewound are entries a listing shows, each once, in the   *)
(* engine's order: DirHook's skip rule and the DirPos FileReadDir keeps   *)
(* across refused and successful reads agree.                             *)
THEOREM ListedInOrderOneView ==
    ASSUME NEW v0, Views = {v0}
    PROVE  Spec => []ListedInOrder
<1>1. ListInv => ListedInOrder
  BY DEF ListInv
<1>. QED BY <1>1, InitListInv, NextListInv, PTL DEF Spec

(* When one handle value reads the directory from a rewind to the end,   *)
(* it has been handed every entry a listing shows.                        *)
THEOREM ListingCompleteOneView ==
    ASSUME NEW v0, Views = {v0}
    PROVE  Spec => []ListingComplete
<1>1. ListInv => ListingComplete
  BY DEF ListInv, ListedExact, EndAtEnd, ListingComplete, SeqRange
<1>. QED BY <1>1, InitListInv, NextListInv, PTL DEF Spec
=============================================================================
