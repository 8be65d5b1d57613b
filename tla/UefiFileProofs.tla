--------------------------- MODULE UefiFileProofs ---------------------------
(***************************************************************************)
(* Proofs about UefiFile for every value of the constants.                 *)
(*                                                                         *)
(* TypeOK alone is not inductive: FileClose and FileDelete decrement       *)
(* RefCount, and that stays a natural only because RefCount equals the     *)
(* number of handle values the caller holds.  NoDanglingHandle is needed   *)
(* in turn for nothing but itself; the three together are inductive.       *)
(***************************************************************************)
EXTENDS UefiFile, TLAPS

IInv == TypeOK /\ RefCountMatchesHeld /\ NoDanglingHandle /\ Root \in exists

(* The root path is a path. *)
LEMMA RootInPaths == Root \in Paths
<1>1. Root \in [1 .. 0 -> Segs]
  BY DEF Root
<1>2. 0 \in 0 .. MaxDepth
  BY ConstantsAssumption
<1>. QED BY <1>1, <1>2 DEF Paths

(* A handle value is the pair of its path and its mode. *)
LEMMA HandleValParts ==
    ASSUME NEW h \in HandleVals
    PROVE  /\ h = <<h[1], h[2]>>
           /\ h[1] \in Paths
           /\ h[2] \in Modes
BY DEF HandleVals

(* The statuses FileOpen and FileSetInfo compute are among Statuses. *)
LEMMA OpenCheckTyped ==
    ASSUME NEW p \in Paths, NEW name \in Names, NEW mode \in OpenModes
    PROVE  OpenCheck(p, name, mode) \in Statuses \cup {"OK"}
BY DEF OpenCheck, Statuses

LEMMA OpenOutcomeTyped ==
    ASSUME NEW t \in Paths, NEW mode \in OpenModes
    PROVE  OpenOutcome(t, mode) \in Statuses
BY DEF OpenOutcome, EngineAnswer, Statuses

LEMMA SetInfoStatusTyped ==
    ASSUME NEW h \in HandleVals, NEW kind \in InfoKinds,
           NEW bufOk \in BOOLEAN, NEW attrOk \in BOOLEAN
    PROVE  SetInfoStatus(h, kind, bufOk, attrOk) \in Statuses
BY DEF SetInfoStatus, Statuses

(* Granting a handle value keeps the counts exact and the value live. *)
LEMMA GrantPreserves ==
    ASSUME IInv, NEW t \in Paths, NEW m \in Modes, Grant(t, m)
    PROVE  /\ alloc' \in [Paths -> BOOLEAN]
           /\ ref' \in [Paths -> Nat]
           /\ held' \in [HandleVals -> Nat]
           /\ \A p \in Paths : ref'[p] = held'[<<p, "RO">>] + held'[<<p, "RW">>]
           /\ \A h \in HandleVals : held'[h] > 0 /\ h[1] # t => held[h] > 0
           /\ alloc'[t]
           /\ \A p \in Paths : alloc[p] => alloc'[p]
<1>. USE DEF IInv, TypeOK, RefCountMatchesHeld, Grant, HandleVals, Modes
<1>1. alloc' \in [Paths -> BOOLEAN] /\ alloc'[t] /\ \A p \in Paths : alloc[p] => alloc'[p]
  OBVIOUS
<1>2. ref' \in [Paths -> Nat] /\ held' \in [HandleVals -> Nat]
  OBVIOUS
<1>3. \A p \in Paths : ref'[p] = held'[<<p, "RO">>] + held'[<<p, "RW">>]
  <2>1. SUFFICES ASSUME NEW p \in Paths
                 PROVE  ref'[p] = held'[<<p, "RO">>] + held'[<<p, "RW">>]
    OBVIOUS
  <2>2. CASE p = t /\ m = "RO"
    BY <2>2
  <2>3. CASE p = t /\ m = "RW"
    BY <2>3
  <2>4. CASE p # t
    <3>1. <<p, "RO">> # <<t, m>> /\ <<p, "RW">> # <<t, m>>
      BY <2>4
    <3>. QED BY <2>4, <3>1
  <2>. QED BY <2>2, <2>3, <2>4
<1>4. \A h \in HandleVals : held'[h] > 0 /\ h[1] # t => held[h] > 0
  OBVIOUS
<1>. QED BY <1>1, <1>2, <1>3, <1>4

(* Giving back one handle value keeps the counts exact; at RefCount zero  *)
(* no value of that instance is held any more.                            *)
LEMMA ReleasePreserves ==
    ASSUME IInv, NEW h \in HandleVals, held[h] > 0,
           held' = [held EXCEPT ![h] = @ - 1],
           ref' = [ref EXCEPT ![h[1]] = @ - 1]
    PROVE  /\ ref' \in [Paths -> Nat]
           /\ held' \in [HandleVals -> Nat]
           /\ \A p \in Paths : ref'[p] = held'[<<p, "RO">>] + held'[<<p, "RW">>]
           /\ \A g \in HandleVals : held'[g] > 0 => held[g] > 0
           /\ \A g \in HandleVals : g[1] = h[1] /\ ref[h[1]] - 1 <= 0 => held'[g] = 0
<1>. USE DEF IInv, TypeOK, RefCountMatchesHeld, HandleVals, Modes
<1>1. h = <<h[1], h[2]>> /\ h[1] \in Paths /\ h[2] \in Modes
  BY HandleValParts
<1>2. ref[h[1]] >= 1
  <2>0. /\ ref[h[1]] = held[<<h[1], "RO">>] + held[<<h[1], "RW">>]
        /\ held[<<h[1], "RO">>] \in Nat /\ held[<<h[1], "RW">>] \in Nat
    BY <1>1
  <2>1. CASE h[2] = "RO"
    <3>1. held[<<h[1], "RO">>] > 0
      BY <1>1, <2>1
    <3>. QED BY <2>0, <3>1
  <2>2. CASE h[2] = "RW"
    <3>1. held[<<h[1], "RW">>] > 0
      BY <1>1, <2>2
    <3>. QED BY <2>0, <3>1
  <2>. QED BY <1>1, <2>1, <2>2
<1>3. ref' \in [Paths -> Nat] /\ held' \in [HandleVals -> Nat]
  BY <1>1, <1>2
<1>4. \A p \in Paths : ref'[p] = held'[<<p, "RO">>] + held'[<<p, "RW">>]
  <2>1. SUFFICES ASSUME NEW p \in Paths
                 PROVE  ref'[p] = held'[<<p, "RO">>] + held'[<<p, "RW">>]
    OBVIOUS
  <2>0. <<p, "RO">> \in HandleVals /\ <<p, "RW">> \in HandleVals
    BY DEF HandleVals, Modes
  <2>2. CASE p = h[1] /\ h[2] = "RO"
    <3>1. h = <<p, "RO">> /\ <<p, "RW">> # h
      BY <1>1, <2>2
    <3>2. held'[<<p, "RO">>] = held[<<p, "RO">>] - 1
          /\ held'[<<p, "RW">>] = held[<<p, "RW">>]
      BY <2>0, <3>1
    <3>. QED BY <2>2, <3>2
  <2>3. CASE p = h[1] /\ h[2] = "RW"
    <3>1. h = <<p, "RW">> /\ <<p, "RO">> # h
      BY <1>1, <2>3
    <3>2. held'[<<p, "RW">>] = held[<<p, "RW">>] - 1
          /\ held'[<<p, "RO">>] = held[<<p, "RO">>]
      BY <2>0, <3>1
    <3>. QED BY <2>3, <3>2
  <2>4. CASE p # h[1]
    <3>1. <<p, "RO">> # h /\ <<p, "RW">> # h
      BY <1>1, <2>4
    <3>2. held'[<<p, "RW">>] = held[<<p, "RW">>]
          /\ held'[<<p, "RO">>] = held[<<p, "RO">>] /\ ref'[p] = ref[p]
      BY <2>0, <2>4, <3>1
    <3>. QED BY <3>2
  <2>. QED BY <1>1, <2>2, <2>3, <2>4 DEF Modes
<1>5. \A g \in HandleVals : held'[g] > 0 => held[g] > 0
  BY <1>1
<1>6. \A g \in HandleVals : g[1] = h[1] /\ ref[h[1]] - 1 <= 0 => held'[g] = 0
  <2>1. SUFFICES ASSUME NEW g \in HandleVals, g[1] = h[1], ref[h[1]] - 1 <= 0
                 PROVE  held'[g] = 0
    OBVIOUS
  <2>2. ref'[h[1]] = 0
    BY <1>1, <1>2, <2>1
  <2>3. held'[<<h[1], "RO">>] = 0 /\ held'[<<h[1], "RW">>] = 0
    BY <1>1, <1>3, <1>4, <2>2 DEF HandleVals
  <2>4. g = <<h[1], "RO">> \/ g = <<h[1], "RW">>
    <3>1. g = <<g[1], g[2]>> /\ g[2] \in Modes
      BY HandleValParts
    <3>. QED BY <2>1, <3>1
  <2>. QED BY <2>3, <2>4
<1>. QED BY <1>3, <1>4, <1>5, <1>6

-----------------------------------------------------------------------------
(* One lemma per action. *)

LEMMA InitIInv == Init => IInv
<1>. SUFFICES ASSUME Init PROVE IInv
  OBVIOUS
<1>1. exists \in SUBSET Paths
  BY RootInPaths, ConstantsAssumption DEF Init
<1>2. last \in [op : Ops, via : Modes \cup {"none"}, status : Statuses]
  BY DEF Init, Ops, Statuses
<1>3. RefCountMatchesHeld /\ NoDanglingHandle /\ Root \in exists
  BY DEF Init, RefCountMatchesHeld, NoDanglingHandle, HandleVals, Modes
<1>4. alloc \in [Paths -> BOOLEAN] /\ isDir \in [Paths -> BOOLEAN]
  BY DEF Init
<1>5. ref \in [Paths -> Nat] /\ held \in [HandleVals -> Nat]
  BY DEF Init
<1>6. installed \in BOOLEAN /\ mounted \in BOOLEAN /\ readOnly \in BOOLEAN
      /\ label \in Labels
  BY Zenon DEF Init
<1>7. totalRef \in Int
  BY DEF Init
<1>. QED BY <1>1, <1>2, <1>3, <1>4, <1>5, <1>6, <1>7 DEF IInv, TypeOK

(* Steps that change nothing but the last status. *)
LEMMA FailPreserves ==
    ASSUME IInv, NEW op \in Ops, NEW via \in Modes \cup {"none"},
           NEW status \in Statuses, Fail(op, via, status)
    PROVE  IInv'
BY DEF Fail, Return, IInv, TypeOK, RefCountMatchesHeld, NoDanglingHandle

LEMMA FSInstallPreserves == IInv /\ FSInstall => IInv'
<1>. SUFFICES ASSUME IInv, FSInstall PROVE IInv'
  OBVIOUS
<1>1. CASE /\ installed' = TRUE
           /\ mounted' = FALSE
           /\ totalRef' = 0
           /\ alloc' = [p \in Paths |-> FALSE]
           /\ ref' = [p \in Paths |-> 0]
           /\ held' = [h \in HandleVals |-> 0]
           /\ Return("Install", "none", "SUCCESS")
           /\ UNCHANGED <<readOnly, label, exists, isDir>>
  <2>1. installed' \in BOOLEAN /\ mounted' \in BOOLEAN /\ readOnly' \in BOOLEAN
        /\ label' \in Labels /\ exists' \in SUBSET Paths /\ Root \in exists'
    BY <1>1, Zenon DEF IInv, TypeOK
  <2>2. /\ totalRef' \in Int /\ alloc' \in [Paths -> BOOLEAN]
        /\ ref' \in [Paths -> Nat] /\ isDir' \in [Paths -> BOOLEAN]
        /\ held' \in [HandleVals -> Nat]
    BY <1>1 DEF IInv, TypeOK
  <2>3. last' \in [op : Ops, via : Modes \cup {"none"}, status : Statuses]
    BY <1>1 DEF Return, Ops, Statuses
  <2>4. RefCountMatchesHeld' /\ NoDanglingHandle'
    BY <1>1 DEF RefCountMatchesHeld, NoDanglingHandle, HandleVals, Modes
  <2>. QED BY <2>1, <2>2, <2>3, <2>4 DEF IInv, TypeOK
<1>2. CASE Fail("Install", "none", "UNSUPPORTED")
  BY <1>2, FailPreserves DEF Ops, Statuses
<1>. QED BY <1>1, <1>2 DEF FSInstall

LEMMA FSUninstallPreserves == IInv /\ FSUninstall => IInv'
<1>. SUFFICES ASSUME IInv, FSUninstall PROVE IInv'
  OBVIOUS
<1>1. installed' \in BOOLEAN /\ mounted' \in BOOLEAN /\ readOnly' \in BOOLEAN
      /\ label' \in Labels /\ exists' \in SUBSET Paths /\ Root \in exists'
  BY Zenon DEF FSUninstall, IInv, TypeOK
<1>2. /\ totalRef' \in Int /\ alloc' \in [Paths -> BOOLEAN]
      /\ ref' \in [Paths -> Nat] /\ isDir' \in [Paths -> BOOLEAN]
      /\ held' \in [HandleVals -> Nat]
  BY DEF FSUninstall, IInv, TypeOK
<1>3. last' \in [op : Ops, via : Modes \cup {"none"}, status : Statuses]
  BY DEF FSUninstall, Return, Ops, Statuses
<1>4. RefCountMatchesHeld' /\ NoDanglingHandle'
  BY DEF FSUninstall, RefCountMatchesHeld, NoDanglingHandle, HandleVals, Modes
<1>. QED BY <1>1, <1>2, <1>3, <1>4 DEF IInv, TypeOK

LEMMA FileOpenVolumePreserves == IInv /\ FileOpenVolume => IInv'
<1>. SUFFICES ASSUME IInv, FileOpenVolume PROVE IInv'
  OBVIOUS
<1>1. CASE Fail("OpenVolume", "none", "DEVICE_ERROR")
  BY <1>1, FailPreserves DEF Ops, Statuses
<1>2. CASE /\ mounted' = FALSE
           /\ Return("OpenVolume", "none", "OUT_OF_RESOURCES")
           /\ UNCHANGED <<installed, readOnly, label, totalRef, alloc, ref,
                          exists, isDir, held>>
  <2>1. installed' \in BOOLEAN /\ mounted' \in BOOLEAN /\ readOnly' \in BOOLEAN
        /\ label' \in Labels /\ exists' \in SUBSET Paths /\ Root \in exists'
    BY <1>2, Zenon DEF IInv, TypeOK
  <2>2. last' \in [op : Ops, via : Modes \cup {"none"}, status : Statuses]
    BY <1>2 DEF Return, Ops, Statuses
  <2>. QED
    BY <1>2, <2>1, <2>2
    DEF IInv, TypeOK, RefCountMatchesHeld, NoDanglingHandle
<1>3. CASE /\ mounted' = TRUE
           /\ IF mounted THEN UNCHANGED readOnly ELSE readOnly' \in RoMounts
           /\ Grant(Root, "RW")
           /\ Return("OpenVolume", "none", "SUCCESS")
           /\ UNCHANGED <<installed, label, exists, isDir>>
  <2>1. readOnly' \in BOOLEAN
    BY <1>3, ConstantsAssumption DEF IInv, TypeOK
  <2>2. installed' \in BOOLEAN /\ mounted' \in BOOLEAN
        /\ label' \in Labels /\ exists' \in SUBSET Paths /\ Root \in exists'
    BY <1>3, Zenon DEF IInv, TypeOK
  <2>3. last' \in [op : Ops, via : Modes \cup {"none"}, status : Statuses]
    BY <1>3 DEF Return, Ops, Statuses
  <2>4. Root \in exists
    BY DEF IInv, TypeOK
  <2>5. /\ alloc' \in [Paths -> BOOLEAN]
        /\ ref' \in [Paths -> Nat]
        /\ held' \in [HandleVals -> Nat]
        /\ RefCountMatchesHeld'
        /\ \A h \in HandleVals : held'[h] > 0 /\ h[1] # Root => held[h] > 0
        /\ alloc'[Root]
        /\ \A p \in Paths : alloc[p] => alloc'[p]
    BY <1>3, RootInPaths, GrantPreserves DEF Modes, RefCountMatchesHeld
  <2>6. NoDanglingHandle'
    BY <1>3, <2>4, <2>5 DEF IInv, NoDanglingHandle, HandleVals
  <2>7. totalRef' \in Int /\ isDir' \in [Paths -> BOOLEAN]
    BY <1>3 DEF Grant, IInv, TypeOK
  <2>. QED BY <2>1, <2>2, <2>3, <2>5, <2>6, <2>7 DEF IInv, TypeOK
<1>. QED BY <1>1, <1>2, <1>3 DEF FileOpenVolume

(* A value the caller already holds keeps its instance live and on disk.  *)
LEMMA HeldLive ==
    ASSUME IInv, NEW h \in HandleVals, held[h] > 0
    PROVE  alloc[h[1]] /\ h[1] \in exists
BY DEF IInv, NoDanglingHandle

(* The member of the opened value is one of the two modes. *)
LEMMA ValueModeTyped ==
    ASSUME NEW mode \in OpenModes PROVE ValueMode(mode) \in Modes
BY DEF ValueMode, Modes

(* A grant of a value of an instance that is on disk keeps IInv. *)
LEMMA GrantIInv ==
    ASSUME IInv, NEW t \in Paths, NEW m \in Modes, Grant(t, m),
           t \in exists', exists \subseteq exists', Root \in exists',
           exists' \in SUBSET Paths, isDir' \in [Paths -> BOOLEAN],
           installed' \in BOOLEAN, mounted' \in BOOLEAN, readOnly' \in BOOLEAN,
           label' \in Labels,
           last' \in [op : Ops, via : Modes \cup {"none"}, status : Statuses]
    PROVE  IInv'
<1>1. /\ alloc' \in [Paths -> BOOLEAN]
      /\ ref' \in [Paths -> Nat]
      /\ held' \in [HandleVals -> Nat]
      /\ RefCountMatchesHeld'
      /\ \A h \in HandleVals : held'[h] > 0 /\ h[1] # t => held[h] > 0
      /\ alloc'[t]
      /\ \A p \in Paths : alloc[p] => alloc'[p]
  BY GrantPreserves DEF RefCountMatchesHeld
<1>2. NoDanglingHandle'
  BY <1>1 DEF IInv, NoDanglingHandle, HandleVals
<1>3. totalRef' \in Int
  BY DEF Grant, IInv, TypeOK
<1>. QED BY <1>1, <1>2, <1>3 DEF IInv, TypeOK

LEMMA FileOpenPreserves ==
    ASSUME IInv, NEW h \in HandleVals, NEW name \in Names,
           NEW mode \in OpenModes, NEW dirAttr \in BOOLEAN,
           FileOpen(h, name, mode, dirAttr)
    PROVE  IInv'
<1>. DEFINE check == OpenCheck(h[1], name, mode)
            t == Resolve(h[1], name)
<1>0. /\ h[1] \in Paths /\ h[2] \in Modes /\ t \in Paths
      /\ held[h] > 0 /\ "Open" \in Ops
  BY HandleValParts DEF FileOpen, Ops
<1>1. CASE check # "OK" /\ Fail("Open", h[2], check)
  <2>1. check \in Statuses
    BY <1>0, <1>1, OpenCheckTyped
  <2>. QED BY <1>0, <1>1, <2>1, FailPreserves
<1>2. CASE ReopenSelf(h, mode)
  <2>1. h[1] \in exists
    BY <1>0, HeldLive
  <2>2. installed' \in BOOLEAN /\ mounted' \in BOOLEAN /\ readOnly' \in BOOLEAN
        /\ label' \in Labels /\ exists' = exists /\ Root \in exists
    BY <1>2, Zenon DEF ReopenSelf, IInv, TypeOK
  <2>3. exists' \in SUBSET Paths /\ isDir' \in [Paths -> BOOLEAN]
    BY <1>2 DEF ReopenSelf, IInv, TypeOK
  <2>4. last' \in [op : Ops, via : Modes \cup {"none"}, status : Statuses]
    BY <1>0, <1>2 DEF ReopenSelf, Return, Statuses
  <2>5. Grant(h[1], ValueMode(mode)) /\ ValueMode(mode) \in Modes
    BY <1>2, ValueModeTyped DEF ReopenSelf
  <2>. QED BY <1>0, <2>1, <2>2, <2>3, <2>4, <2>5, GrantIInv
<1>3. CASE Fail("Open", h[2], "OUT_OF_RESOURCES")
  BY <1>0, <1>3, FailPreserves DEF Statuses
<1>4. CASE OpenOutcome(t, mode) # "SUCCESS"
           /\ Fail("Open", h[2], OpenOutcome(t, mode))
  <2>1. OpenOutcome(t, mode) \in Statuses
    BY <1>0, OpenOutcomeTyped
  <2>. QED BY <1>0, <1>4, <2>1, FailPreserves
<1>5. CASE OpenPath(h, t, mode, dirAttr)
  <2>1. installed' \in BOOLEAN /\ mounted' \in BOOLEAN /\ readOnly' \in BOOLEAN
        /\ label' \in Labels /\ Root \in exists
    BY <1>5, Zenon DEF OpenPath, IInv, TypeOK
  <2>2. /\ exists' \in SUBSET Paths /\ isDir' \in [Paths -> BOOLEAN]
        /\ t \in exists' /\ exists \subseteq exists'
    BY <1>0, <1>5 DEF OpenPath, IInv, TypeOK
  <2>3. last' \in [op : Ops, via : Modes \cup {"none"}, status : Statuses]
    BY <1>0, <1>5 DEF OpenPath, Return, Statuses
  <2>4. Grant(t, ValueMode(mode)) /\ ValueMode(mode) \in Modes
    BY <1>5, ValueModeTyped DEF OpenPath
  <2>. QED BY <1>0, <2>1, <2>2, <2>3, <2>4, GrantIInv
<1>. QED BY <1>1, <1>2, <1>3, <1>4, <1>5 DEF FileOpen

(* The close half shared by FileClose and FileDelete: a value that is    *)
(* still held after it was held before, and is not the last of its path. *)
LEMMA ReleaseIInv ==
    ASSUME IInv, NEW h \in HandleVals, held[h] > 0,
           held' = [held EXCEPT ![h] = @ - 1],
           ref' = [ref EXCEPT ![h[1]] = @ - 1],
           totalRef' = totalRef - 1,
           alloc' = IF ref[h[1]] - 1 <= 0 THEN [alloc EXCEPT ![h[1]] = FALSE]
                    ELSE alloc,
           \/ exists' = exists
           \/ ref[h[1]] - 1 <= 0 /\ h[1] # Root /\ exists' = exists \ {h[1]},
           isDir' = isDir,
           installed' \in BOOLEAN, mounted' \in BOOLEAN, readOnly' \in BOOLEAN,
           label' \in Labels,
           last' \in [op : Ops, via : Modes \cup {"none"}, status : Statuses]
    PROVE  IInv'
<1>1. /\ ref' \in [Paths -> Nat]
      /\ held' \in [HandleVals -> Nat]
      /\ RefCountMatchesHeld'
      /\ \A g \in HandleVals : held'[g] > 0 => held[g] > 0
      /\ \A g \in HandleVals : g[1] = h[1] /\ ref[h[1]] - 1 <= 0 => held'[g] = 0
  BY ReleasePreserves DEF RefCountMatchesHeld
<1>2. h[1] \in Paths
  BY HandleValParts
<1>3. alloc' \in [Paths -> BOOLEAN] /\ totalRef' \in Int
  BY <1>2 DEF IInv, TypeOK
<1>4. exists' \in SUBSET Paths /\ Root \in exists' /\ isDir' \in [Paths -> BOOLEAN]
  BY DEF IInv, TypeOK
<1>5. NoDanglingHandle'
  <2>1. SUFFICES ASSUME NEW g \in HandleVals, held'[g] > 0
                 PROVE  alloc'[g[1]] /\ g[1] \in exists'
    BY DEF NoDanglingHandle
  <2>2. held[g] > 0 /\ alloc[g[1]] /\ g[1] \in exists
    BY <1>1, <2>1, HeldLive
  <2>3. ~(g[1] = h[1] /\ ref[h[1]] - 1 <= 0)
    BY <1>1, <2>1
  <2>4. g[1] \in Paths
    BY HandleValParts
  <2>. QED BY <2>2, <2>3, <2>4, <1>2 DEF IInv, TypeOK
<1>. QED BY <1>1, <1>3, <1>4, <1>5 DEF IInv, TypeOK

LEMMA FileClosePreserves ==
    ASSUME IInv, NEW h \in HandleVals, FileClose(h) PROVE IInv'
<1>1. installed' \in BOOLEAN /\ mounted' \in BOOLEAN /\ readOnly' \in BOOLEAN
      /\ label' \in Labels
  BY Zenon DEF FileClose, IInv, TypeOK
<1>2. last' \in [op : Ops, via : Modes \cup {"none"}, status : Statuses]
  BY HandleValParts DEF FileClose, Return, Ops, Statuses
<1>. QED BY <1>1, <1>2, ReleaseIInv DEF FileClose

LEMMA FileDeletePreserves ==
    ASSUME IInv, NEW h \in HandleVals, FileDelete(h) PROVE IInv'
<1>0. h[2] \in Modes /\ "Delete" \in Ops /\ held[h] > 0 /\ ref[h[1]] \in Nat
  BY HandleValParts DEF FileDelete, Ops, IInv, TypeOK
<1>1. CASE Fail("Delete", h[2], "ACCESS_DENIED")
  BY <1>0, <1>1, FailPreserves DEF Statuses
<1>2. CASE /\ h[1] # Root
           /\ DeleteRelease(h)
           /\ ref[h[1]] - 1 > 0 \/ readOnly
           /\ Return("Delete", h[2], "WARN_DELETE_FAILURE")
           /\ UNCHANGED <<mounted, alloc, exists>>
           /\ UNCHANGED <<installed, readOnly, label, isDir>>
  <2>1. installed' \in BOOLEAN /\ mounted' \in BOOLEAN /\ readOnly' \in BOOLEAN
        /\ label' \in Labels
    BY <1>2, Zenon DEF IInv, TypeOK
  <2>2. last' \in [op : Ops, via : Modes \cup {"none"}, status : Statuses]
    BY <1>0, <1>2 DEF Return, Statuses
  \* A Delete on a read-only volume that warns at the last reference
  \* leaves the instance allocated: IInv does not need it freed.
  <2>5. CASE ref[h[1]] - 1 > 0
    <3>1. alloc' = IF ref[h[1]] - 1 <= 0 THEN [alloc EXCEPT ![h[1]] = FALSE]
                   ELSE alloc
      BY <1>0, <1>2, <2>5
    <3>. QED BY <1>0, <1>2, <2>1, <2>2, <3>1, ReleaseIInv DEF DeleteRelease
  <2>6. CASE ref[h[1]] - 1 <= 0
    <3>1. /\ ref' \in [Paths -> Nat]
          /\ held' \in [HandleVals -> Nat]
          /\ RefCountMatchesHeld'
          /\ \A g \in HandleVals : held'[g] > 0 => held[g] > 0
      BY <1>0, <1>2, ReleasePreserves DEF DeleteRelease, RefCountMatchesHeld
    <3>2. NoDanglingHandle'
      BY <1>2, <3>1 DEF IInv, NoDanglingHandle
    <3>3. /\ alloc' \in [Paths -> BOOLEAN] /\ totalRef' \in Int
          /\ exists' \in SUBSET Paths /\ Root \in exists'
          /\ isDir' \in [Paths -> BOOLEAN]
      BY <1>2 DEF DeleteRelease, IInv, TypeOK
    <3>. QED BY <2>1, <2>2, <3>1, <3>2, <3>3 DEF IInv, TypeOK
  <2>. QED BY <1>0, <2>5, <2>6
<1>3. CASE /\ h[1] # Root
           /\ DeleteRelease(h)
           /\ ~(ref[h[1]] - 1 > 0 \/ readOnly)
           /\ alloc' = [alloc EXCEPT ![h[1]] = FALSE]
           /\ mounted' = IF totalRef - 1 <= 0 THEN FALSE ELSE mounted
           /\ exists' = IF Children(h[1]) = {} THEN exists \ {h[1]} ELSE exists
           /\ Return("Delete", h[2], IF Children(h[1]) = {} THEN "SUCCESS"
                                     ELSE "ENGINE_ERROR")
           /\ UNCHANGED <<installed, readOnly, label, isDir>>
  <2>1. installed' \in BOOLEAN /\ mounted' \in BOOLEAN /\ readOnly' \in BOOLEAN
        /\ label' \in Labels
    BY <1>3, Zenon DEF IInv, TypeOK
  <2>2. last' \in [op : Ops, via : Modes \cup {"none"}, status : Statuses]
    BY <1>0, <1>3 DEF Return, Statuses
  <2>0. ref[h[1]] - 1 <= 0
    BY <1>0, <1>3
  <2>3. alloc' = IF ref[h[1]] - 1 <= 0 THEN [alloc EXCEPT ![h[1]] = FALSE]
                 ELSE alloc
    BY <1>3, <2>0
  <2>4. \/ exists' = exists
        \/ ref[h[1]] - 1 <= 0 /\ h[1] # Root /\ exists' = exists \ {h[1]}
    BY <1>3, <2>0
  <2>. QED BY <1>0, <1>3, <2>1, <2>2, <2>3, <2>4, ReleaseIInv DEF DeleteRelease
<1>. QED BY <1>1, <1>2, <1>3 DEF FileDelete

LEMMA FileWritePreserves ==
    ASSUME IInv, NEW h \in HandleVals, FileWrite(h) PROVE IInv'
<1>1. h[2] \in Modes /\ "Write" \in Ops
  BY HandleValParts DEF Ops
<1>. QED BY <1>1, FailPreserves DEF FileWrite, Statuses

LEMMA FileFlushPreserves ==
    ASSUME IInv, NEW h \in HandleVals, FileFlush(h) PROVE IInv'
<1>1. h[2] \in Modes /\ "Flush" \in Ops
  BY HandleValParts DEF Ops
<1>. QED BY <1>1, FailPreserves DEF FileFlush, Statuses

LEMMA FileSetInfoPreserves ==
    ASSUME IInv, NEW h \in HandleVals, NEW kind \in InfoKinds,
           NEW bufOk \in BOOLEAN, NEW attrOk \in BOOLEAN, NEW l \in Labels,
           FileSetInfo(h, kind, bufOk, attrOk, l)
    PROVE  IInv'
<1>1. h[2] \in Modes /\ SetInfoStatus(h, kind, bufOk, attrOk) \in Statuses
  BY HandleValParts, SetInfoStatusTyped
<1>2. label' \in Labels
  BY Zenon DEF FileSetInfo, IInv, TypeOK
<1>3. installed' \in BOOLEAN /\ mounted' \in BOOLEAN /\ readOnly' \in BOOLEAN
  BY Zenon DEF FileSetInfo, IInv, TypeOK
<1>4. last' \in [op : Ops, via : Modes \cup {"none"}, status : Statuses]
  BY <1>1 DEF FileSetInfo, Return, Ops
<1>. QED BY <1>2, <1>3, <1>4
         DEF FileSetInfo, IInv, TypeOK, RefCountMatchesHeld, NoDanglingHandle

-----------------------------------------------------------------------------
(* IInv is inductive: every step of Next, and every stutter, keeps it. *)
LEMMA NextIInv == IInv /\ [Next]_vars => IInv'
<1>. SUFFICES ASSUME IInv, [Next]_vars PROVE IInv'
  OBVIOUS
<1>1. CASE FSInstall
  BY <1>1, FSInstallPreserves
<1>2. CASE FSUninstall
  BY <1>2, FSUninstallPreserves
<1>3. CASE FileOpenVolume
  BY <1>3, FileOpenVolumePreserves
<1>4. ASSUME NEW h \in HandleVals,
             \/ \E name \in Names, mode \in OpenModes, dirAttr \in BOOLEAN :
                   FileOpen(h, name, mode, dirAttr)
             \/ FileClose(h)
             \/ FileDelete(h)
             \/ FileWrite(h)
             \/ FileFlush(h)
             \/ \E kind \in InfoKinds, bufOk, attrOk \in BOOLEAN, l \in Labels :
                   FileSetInfo(h, kind, bufOk, attrOk, l)
      PROVE  IInv'
  BY <1>4, FileOpenPreserves, FileClosePreserves, FileDeletePreserves,
     FileWritePreserves, FileFlushPreserves, FileSetInfoPreserves
<1>5. CASE UNCHANGED vars
  <2>1. installed' \in BOOLEAN /\ mounted' \in BOOLEAN /\ readOnly' \in BOOLEAN
        /\ label' \in Labels
    BY <1>5, Zenon DEF vars, IInv, TypeOK
  <2>. QED BY <1>5, <2>1
           DEF vars, IInv, TypeOK, RefCountMatchesHeld, NoDanglingHandle
<1>. QED BY <1>1, <1>2, <1>3, <1>4, <1>5 DEF Next

(* Type correctness: every variable of the model keeps its type in every  *)
(* reachable state, for every value of the constants.                     *)
THEOREM TypeCorrect == Spec => []TypeOK
<1>1. IInv => TypeOK
  BY DEF IInv
<1>. QED BY <1>1, InitIInv, NextIInv, PTL DEF Spec

(* RefCount stays exact for every value of the constants: the RefCount   *)
(* of each instance is the number of handle values held to it, through    *)
(* Open of a new or of an already open path, reopen of ".", Close, Delete *)
(* and the failure paths of each.                                         *)
THEOREM RefCountsExact == Spec => []RefCountMatchesHeld
<1>1. IInv => RefCountMatchesHeld
  BY DEF IInv
<1>. QED BY <1>1, InitIInv, NextIInv, PTL DEF Spec

(* For every value of the constants, no handle value the caller holds     *)
(* refers to an instance FileClose or FileDelete freed, or to a file      *)
(* NtfsDeleteFile removed.                                                *)
THEOREM NoHandleDangles == Spec => []NoDanglingHandle
<1>1. IInv => NoDanglingHandle
  BY DEF IInv
<1>. QED BY <1>1, InitIInv, NextIInv, PTL DEF Spec

=============================================================================
