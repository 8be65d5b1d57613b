------------------------ MODULE UefiRefinementProofs ------------------------
(***************************************************************************)
(* Proof that UefiFile implements the abstract contract UefiVolume under   *)
(* the refinement mapping Vol of UefiFile (held values, files on the       *)
(* volume, label, installed protocol), and that the files on the volume    *)
(* form a tree.                                                            *)
(*                                                                         *)
(* The step proof needs IInv of UefiFileProofs: an Open through a held     *)
(* value is an abstract Open only because that value's file exists         *)
(* (NoDanglingHandle), and the Delete that removes a file is an abstract   *)
(* Remove only because RefCount reaching zero means no other value of the  *)
(* file is held (RefCountMatchesHeld).                                     *)
(***************************************************************************)
EXTENDS UefiFileProofs

(* The abstract values are the concrete handle values. *)
LEMMA ValuesAreHandleVals == Vol!Values = HandleVals
BY DEF Vol!Values, HandleVals, Modes

(* A step that changes only the status is an abstract stutter. *)
LEMMA FailStutters ==
    ASSUME NEW op, NEW via, NEW status, Fail(op, via, status)
    PROVE  UNCHANGED Vol!vars
BY DEF Fail, Vol!vars

LEMMA InitRefines == Init => Vol!Init
<1>. SUFFICES ASSUME Init PROVE Vol!Init
  OBVIOUS
<1>1. installed = FALSE /\ label \in Labels
  BY Zenon DEF Init
<1>2. held = [v \in Vol!Values |-> 0]
  BY ValuesAreHandleVals DEF Init
<1>3. exists \in SUBSET Paths /\ Root \in exists
  BY RootInPaths, ConstantsAssumption DEF Init
<1>4. \A f \in exists \ {Root} : Parent(f) \in exists
  BY ConstantsAssumption DEF Init
<1>. QED BY <1>1, <1>2, <1>3, <1>4 DEF Vol!Init

LEMMA FSInstallRefines == FSInstall => [Vol!Next]_Vol!vars
<1>. SUFFICES ASSUME FSInstall PROVE [Vol!Next]_Vol!vars
  OBVIOUS
<1>1. CASE Fail("Install", "none", "UNSUPPORTED")
  BY <1>1, FailStutters
<1>2. CASE /\ installed' = TRUE
           /\ held' = [h \in HandleVals |-> 0]
           /\ UNCHANGED <<label, exists>>
  <2>1. Vol!Install
    BY <1>2, ValuesAreHandleVals DEF FSInstall, Vol!Install
  <2>. QED BY <2>1 DEF Vol!Next
<1>. QED BY <1>1, <1>2 DEF FSInstall

LEMMA FSUninstallRefines == FSUninstall => [Vol!Next]_Vol!vars
<1>. SUFFICES ASSUME FSUninstall PROVE [Vol!Next]_Vol!vars
  OBVIOUS
<1>1. Vol!Uninstall
  BY ValuesAreHandleVals DEF FSUninstall, Vol!Uninstall
<1>. QED BY <1>1 DEF Vol!Next

LEMMA FileOpenVolumeRefines == FileOpenVolume => [Vol!Next]_Vol!vars
<1>. SUFFICES ASSUME FileOpenVolume PROVE [Vol!Next]_Vol!vars
  OBVIOUS
<1>1. CASE Fail("OpenVolume", "none", "DEVICE_ERROR")
  BY <1>1, FailStutters
<1>2. CASE UNCHANGED <<installed, label, exists, held>>
  BY <1>2 DEF Vol!vars
<1>3. CASE installed /\ Grant(Root, "RW") /\ UNCHANGED <<installed, label, exists>>
  <2>1. Vol!OpenRoot
    BY <1>3 DEF Grant, Vol!OpenRoot
  <2>. QED BY <2>1 DEF Vol!Next
<1>. QED BY <1>1, <1>2, <1>3 DEF FileOpenVolume

(* The abstract Open a successful FileOpen through a held value h is.    *)
LEMMA OpenIsVolOpen ==
    ASSUME IInv, NEW h \in HandleVals, NEW t \in Paths, NEW m \in Modes,
           installed, held[h] > 0,
           t \in exists \/ (t # Root /\ Parent(t) \in exists),
           exists' = exists \cup {t}, Grant(t, m),
           UNCHANGED <<installed, label>>
    PROVE  [Vol!Next]_Vol!vars
<1>1. Vol!Open(h, t, m)
  BY DEF Grant, Vol!Open
<1>2. m \in {"RO", "RW"} /\ h \in Vol!Values
  BY ValuesAreHandleVals DEF Modes
<1>. QED BY <1>1, <1>2 DEF Vol!Next

(* What a successful engine open or create says of the path it opens. *)
LEMMA OpenOutcomeSuccess ==
    ASSUME NEW t \in Paths, NEW mode, OpenOutcome(t, mode) = "SUCCESS"
    PROVE  t \in exists \/ (t # Root /\ Parent(t) \in exists)
BY DEF OpenOutcome, EngineAnswer

LEMMA FileOpenRefines ==
    ASSUME IInv, NEW h \in HandleVals, NEW name \in Names,
           NEW mode \in OpenModes, NEW dirAttr \in BOOLEAN,
           FileOpen(h, name, mode, dirAttr)
    PROVE  [Vol!Next]_Vol!vars
<1>. DEFINE check == OpenCheck(h[1], name, mode)
            t == Resolve(h[1], name)
<1>0. /\ h[1] \in Paths /\ t \in Paths /\ installed /\ held[h] > 0
      /\ ValueMode(mode) \in Modes
  BY HandleValParts, ValueModeTyped DEF FileOpen
<1>1. CASE Fail("Open", h[2], check)
  BY <1>1, FailStutters
<1>2. CASE Fail("Open", h[2], "OUT_OF_RESOURCES")
  BY <1>2, FailStutters
<1>3. CASE Fail("Open", h[2], OpenOutcome(t, mode))
  BY <1>3, FailStutters
<1>4. CASE ReopenSelf(h, mode)
  <2>1. h[1] \in exists
    BY <1>0, HeldLive
  <2>2. exists' = exists \cup {h[1]} /\ Grant(h[1], ValueMode(mode))
        /\ UNCHANGED <<installed, label>>
    BY <1>4, <2>1 DEF ReopenSelf
  <2>. QED BY <1>0, <2>1, <2>2, OpenIsVolOpen
<1>5. CASE OpenOutcome(t, mode) = "SUCCESS" /\ OpenPath(h, t, mode, dirAttr)
  <2>1. t \in exists \/ (t # Root /\ Parent(t) \in exists)
    BY <1>0, <1>5, OpenOutcomeSuccess
  <2>2. exists' = exists \cup {t} /\ Grant(t, ValueMode(mode))
        /\ UNCHANGED <<installed, label>>
    BY <1>5 DEF OpenPath
  <2>. QED BY <1>0, <2>1, <2>2, OpenIsVolOpen
<1>. QED BY <1>1, <1>2, <1>3, <1>4, <1>5 DEF FileOpen

(* A release that leaves the file on the volume is an abstract Close. *)
LEMMA ReleaseIsVolClose ==
    ASSUME NEW h \in HandleVals, installed, held[h] > 0,
           held' = [held EXCEPT ![h] = @ - 1],
           UNCHANGED <<installed, label, exists>>
    PROVE  [Vol!Next]_Vol!vars
<1>1. Vol!Close(h)
  BY DEF Vol!Close
<1>. QED BY <1>1, ValuesAreHandleVals DEF Vol!Next

LEMMA FileCloseRefines ==
    ASSUME NEW h \in HandleVals, FileClose(h) PROVE [Vol!Next]_Vol!vars
BY ReleaseIsVolClose DEF FileClose

(* The last value of a file with no children is deleted: no value of the *)
(* file is held afterwards, so this is an abstract Remove.                *)
LEMMA DeleteIsVolRemove ==
    ASSUME IInv, NEW h \in HandleVals, installed, held[h] > 0, h[1] # Root,
           DeleteRelease(h), ~(ref[h[1]] - 1 > 0),
           Children(h[1]) = {}, exists' = exists \ {h[1]},
           UNCHANGED <<installed, label>>
    PROVE  [Vol!Next]_Vol!vars
<1>. DEFINE p == h[1]
<1>1. h = <<p, h[2]>> /\ p \in Paths /\ h[2] \in Modes
  BY HandleValParts
<1>2. ref[p] = held[<<p, "RO">>] + held[<<p, "RW">>]
      /\ held \in [HandleVals -> Nat]
  BY <1>1 DEF IInv, RefCountMatchesHeld, TypeOK
<1>3. held'[<<p, "RO">>] + held'[<<p, "RW">>] = 0
  BY <1>1, <1>2 DEF DeleteRelease, HandleVals, Modes
<1>4. Vol!ChildrenOf(p) = {}
  BY DEF Children, Vol!ChildrenOf
<1>5. Vol!Remove(h)
  BY <1>3, <1>4 DEF DeleteRelease, Vol!Remove, Vol!Referenced
<1>. QED BY <1>5, ValuesAreHandleVals DEF Vol!Next

LEMMA FileDeleteRefines ==
    ASSUME IInv, NEW h \in HandleVals, FileDelete(h) PROVE [Vol!Next]_Vol!vars
<1>0. installed /\ held[h] > 0
  BY DEF FileDelete
<1>1. CASE Fail("Delete", h[2], "ACCESS_DENIED")
  BY <1>1, FailStutters
<1>2. CASE DeleteRelease(h) /\ UNCHANGED <<installed, label, exists>>
  BY <1>0, <1>2, ReleaseIsVolClose DEF DeleteRelease
<1>3. CASE /\ h[1] # Root /\ DeleteRelease(h) /\ ~(ref[h[1]] - 1 > 0)
           /\ Children(h[1]) = {} /\ exists' = exists \ {h[1]}
           /\ UNCHANGED <<installed, label>>
  BY <1>0, <1>3, DeleteIsVolRemove
<1>. QED BY <1>1, <1>2, <1>3 DEF FileDelete

LEMMA FileWriteRefines ==
    ASSUME NEW h \in HandleVals, FileWrite(h) PROVE [Vol!Next]_Vol!vars
BY FailStutters DEF FileWrite

LEMMA FileFlushRefines ==
    ASSUME NEW h \in HandleVals, FileFlush(h) PROVE [Vol!Next]_Vol!vars
BY FailStutters DEF FileFlush

(* The label is written only on a SUCCESS of a label kind, which         *)
(* SetInfoStatus gives only for a value of the root.                      *)
LEMMA LabelSetOnRoot ==
    ASSUME NEW h, NEW kind, NEW bufOk, NEW attrOk,
           kind \in {"FsInfo", "LabelInfo"},
           SetInfoStatus(h, kind, bufOk, attrOk) = "SUCCESS"
    PROVE  h[1] = Root
BY DEF SetInfoStatus

LEMMA FileSetInfoRefines ==
    ASSUME NEW h \in HandleVals, NEW kind \in InfoKinds,
           NEW bufOk \in BOOLEAN, NEW attrOk \in BOOLEAN, NEW l \in Labels,
           FileSetInfo(h, kind, bufOk, attrOk, l)
    PROVE  [Vol!Next]_Vol!vars
<1>1. CASE label' = label
  BY <1>1 DEF FileSetInfo, Vol!vars
<1>2. CASE label' # label
  <2>1. kind \in {"FsInfo", "LabelInfo"}
        /\ SetInfoStatus(h, kind, bufOk, attrOk) = "SUCCESS" /\ label' = l
    BY <1>2 DEF FileSetInfo
  <2>2. h[1] = Root
    BY <2>1, LabelSetOnRoot
  <2>3. Vol!Relabel(h, l)
    BY <2>1, <2>2 DEF FileSetInfo, Vol!Relabel
  <2>. QED BY <2>3, ValuesAreHandleVals DEF Vol!Next
<1>. QED BY <1>1, <1>2
LEMMA NextRefines == IInv /\ [Next]_vars => [Vol!Next]_Vol!vars
<1>. SUFFICES ASSUME IInv, [Next]_vars PROVE [Vol!Next]_Vol!vars
  OBVIOUS
<1>1. CASE FSInstall
  BY <1>1, FSInstallRefines
<1>2. CASE FSUninstall
  BY <1>2, FSUninstallRefines
<1>3. CASE FileOpenVolume
  BY <1>3, FileOpenVolumeRefines
<1>4. ASSUME NEW h \in HandleVals,
             NEW name \in Names, NEW mode \in OpenModes, NEW dirAttr \in BOOLEAN,
             FileOpen(h, name, mode, dirAttr)
      PROVE  [Vol!Next]_Vol!vars
  BY <1>4, FileOpenRefines
<1>5. ASSUME NEW h \in HandleVals, FileClose(h) PROVE [Vol!Next]_Vol!vars
  BY <1>5, FileCloseRefines
<1>6. ASSUME NEW h \in HandleVals, FileDelete(h) PROVE [Vol!Next]_Vol!vars
  BY <1>6, FileDeleteRefines
<1>7. ASSUME NEW h \in HandleVals, FileWrite(h) PROVE [Vol!Next]_Vol!vars
  BY <1>7, FileWriteRefines
<1>8. ASSUME NEW h \in HandleVals, FileFlush(h) PROVE [Vol!Next]_Vol!vars
  BY <1>8, FileFlushRefines
<1>9. ASSUME NEW h \in HandleVals, NEW kind \in InfoKinds,
             NEW bufOk \in BOOLEAN, NEW attrOk \in BOOLEAN, NEW l \in Labels,
             FileSetInfo(h, kind, bufOk, attrOk, l)
      PROVE  [Vol!Next]_Vol!vars
  BY <1>9, FileSetInfoRefines
<1>10. CASE UNCHANGED vars
  BY <1>10 DEF vars, Vol!vars
<1>. QED BY <1>1, <1>2, <1>3, <1>4, <1>5, <1>6, <1>7, <1>8, <1>9, <1>10
         DEF Next

(* The model of uefi_file.c implements its abstract contract UefiVolume:  *)
(* every Open, Close, Delete, SetInfo, OpenVolume, Install and Uninstall  *)
(* is a step of the contract or leaves what it speaks of unchanged.       *)
THEOREM Refinement == Spec => VolumeSpec
<1>1. Spec => []IInv
  BY InitIInv, NextIInv, PTL DEF Spec
<1>. QED BY <1>1, InitRefines, NextRefines, PTL DEF Spec, VolumeSpec, Vol!Spec
=============================================================================
