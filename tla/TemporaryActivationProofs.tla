---------------------- MODULE TemporaryActivationProofs ----------------------
(***************************************************************************)
(* Proofs about TemporaryActivation, for any number of fonts, calls in     *)
(* progress, sessions and failing operating-system calls.                  *)
(*                                                                         *)
(* That the record store holds one record per font rests on the snapshots: *)
(* the store is only ever written back from a snapshot of itself, with the *)
(* call's own new records merged in, and those are one per font because a  *)
(* call visits each of its fonts once.                                     *)
(***************************************************************************)
EXTENDS TemporaryActivation, TLAPS

Registry == [RegNames -> Path \cup {None}]
FlushState == [pc: {"idle", "load", "delete", "save"},
               recs: SUBSET Path, failed: SUBSET Path]
CleanState == [pc: {"idle", "load", "remove", "unregister", "delete", "verify", "save",
                    "flush", "await", "decide"},
               recs: SUBSET Record, todo: SUBSET Record, left: SUBSET Record,
               cur: Record \cup {None}, kept: BOOLEAN, tries: 0..MaxAttempts]
Phases == {"startup", "running", "quitting", "exited", "crashed"}

\* The cleanup is at one of the records.
Handling == {"unregister", "delete", "verify"}
USE DEF Handling
Passing == {"load", "remove", "save"} \cup Handling

\* In a pass of the cleanup an attempt is left, and the record it looks at is one.
CleanStage ==
    /\ cl.pc \in Handling => cl.cur \in Record
    /\ cl.pc \in Passing => cl.tries < MaxAttempts

\* TypeOK with its parts named, and what it needs to be inductive.
Types ==
    /\ files \subseteq Path /\ loaded \subseteq Path /\ registry \in Registry
    /\ store \subseteq Record /\ pendingDel \subseteq Path /\ clock \in 0..MaxCopies
    /\ call \in [Calls -> CallState] /\ timer \in BOOLEAN
    /\ flush \in FlushState /\ cl \in CleanState
    /\ shown \in [Fonts -> Path \cup {None}] /\ phase \in Phases /\ session \in Nat
    /\ CleanStage

LEMMA TypesGiveTypeOK == Types => TypeOK
  BY DEF Types, TypeOK, Registry, FlushState, CleanState, Phases

-----------------------------------------------------------------------------
(* The operators keep to records and paths.                                *)

LEMMA RecordFields == \A r \in Record : r.path \in Path /\ r.reg \in RegNames
  BY DEF Record

LEMMA PathsOfRecords == ASSUME NEW R \in SUBSET Record PROVE PathsOf(R) \subseteq Path
  BY RecordFields DEF PathsOf

LEMMA NewPathIsPath ==
    ASSUME NEW f \in Fonts, clock \in 0..MaxCopies, clock < MaxCopies
    PROVE  NewPath(f) \in Path /\ clock + 1 \in 0..MaxCopies
  BY BoundsAssumption DEF NewPath, Path

LEMMA UnregisteredType ==
    ASSUME registry \in Registry, NEW N PROVE Unregistered(N) \in Registry
  BY DEF Registry, Unregistered

LEMMA RegisteredType ==
    ASSUME registry \in Registry, NEW W \in SUBSET Record
    PROVE  Registered(W, registry) \in Registry
<1>1. ASSUME NEW n \in RegNames, n \in RegsOf(W)
      PROVE  (CHOOSE r \in W : r.reg = n).path \in Path
    BY <1>1, RecordFields DEF RegsOf
<1> QED
    BY <1>1 DEF Registered, Registry

LEMMA ShowType ==
    ASSUME shown \in [Fonts -> Path \cup {None}], NEW c, NEW R \in SUBSET Record, Show(c, R)
    PROVE  shown' \in [Fonts -> Path \cup {None}]
<1>1. ASSUME NEW f \in Fonts, \E r \in R : FontOf(r) = f
      PROVE  (CHOOSE r \in R : FontOf(r) = f).path \in Path
    BY <1>1, RecordFields
<1> QED
    BY <1>1 DEF Show

LEMMA MergedType ==
    ASSUME NEW c \in Calls, call[c] \in CallState, NEW R \in SUBSET Record
    PROVE  Merged(c, R) \subseteq Record
  BY DEF Merged, CallState

LEMMA OfFontsIn == ASSUME NEW R, NEW F PROVE OfFonts(R, F) \subseteq R
  BY DEF OfFonts

-----------------------------------------------------------------------------
(* The states a call, the flush and the cleanup move to.                   *)

LEMMA NoCallType == NoCall \in CallState
  BY DEF NoCall, CallState, CallPcs, Kinds

LEMMA StepType ==
    ASSUME call \in [Calls -> CallState], NEW c \in Calls, NEW r \in CallState, Step(c, r)
    PROVE  call' \in [Calls -> CallState]
  BY DEF Step

LEMMA EndCallType ==
    ASSUME call \in [Calls -> CallState], NEW c \in Calls, EndCall(c)
    PROVE  call' \in [Calls -> CallState]
  BY NoCallType DEF EndCall, Step

LEMMA GotoType ==
    ASSUME call \in [Calls -> CallState], NEW c \in Calls, NEW p \in CallPcs, Goto(c, p)
    PROVE  call' \in [Calls -> CallState]
<1>1. call[c] \in CallState
    OBVIOUS
<1>2. [call[c] EXCEPT !.pc = p] \in CallState
    BY <1>1 DEF CallState
<1> QED
    BY <1>2 DEF Goto, Step

LEMMA ItemDoneType ==
    ASSUME call \in [Calls -> CallState], NEW c \in Calls, NEW f \in Fonts,
           NEW R \in SUBSET Record, NEW A \in SUBSET Record, ItemDone(c, f, R, A)
    PROVE  call' \in [Calls -> CallState]
<1>1. call[c] \in CallState
    OBVIOUS
<1> DEFINE r == [call[c] EXCEPT !.todo = @ \ {f}, !.prep = @ \cup R, !.again = @ \cup A,
                                !.pc = IF Single(c) THEN "registry" ELSE "item"]
<1>2. r \in CallState
    BY <1>1 DEF CallState, CallPcs
<1> QED
    BY <1>2 DEF ItemDone, Step

LEMMA ItemFailedType ==
    ASSUME call \in [Calls -> CallState], NEW c \in Calls, NEW f \in Fonts, ItemFailed(c, f)
    PROVE  call' \in [Calls -> CallState]
<1>1. CASE Single(c)
    BY <1>1, EndCallType DEF ItemFailed
<1>2. CASE ~Single(c)
  <2>1. ItemDone(c, f, {}, {}) /\ {} \in SUBSET Record
      BY <1>2 DEF ItemFailed
  <2> QED
      BY <2>1, ItemDoneType
<1> QED
    BY <1>1, <1>2

LEMMA IdleTypes ==
    /\ Idle \in FlushState /\ CleanIdle \in CleanState /\ CleanFrom(0) \in CleanState
    /\ [Idle EXCEPT !.pc = "load"] \in FlushState
    /\ NothingShown \in [Fonts -> Path \cup {None}]
<1>1. Idle \in FlushState /\ [Idle EXCEPT !.pc = "load"] \in FlushState
    BY DEF Idle, FlushState
<1>2. 0 \in 0..MaxAttempts
    BY BoundsAssumption
<1>3. CleanIdle \in CleanState
    BY <1>2 DEF CleanIdle, CleanState
<1>4. CleanFrom(0) \in CleanState
    BY <1>2, <1>3 DEF CleanFrom, CleanState
<1>5. NothingShown \in [Fonts -> Path \cup {None}]
    BY DEF NothingShown
<1> QED
    BY <1>1, <1>3, <1>4, <1>5

LEMMA FlushEndsType ==
    ASSUME cl \in CleanState, FlushEnds
    PROVE  /\ flush' \in FlushState /\ cl' \in CleanState
           /\ cl'.pc \in Passing => cl' = cl
<1>1. [cl EXCEPT !.pc = "decide"] \in CleanState
    BY DEF CleanState
<1> QED
    BY <1>1, IdleTypes DEF FlushEnds, CleanState, Passing

-----------------------------------------------------------------------------
(* Every step keeps the types.                                             *)

LEMMA InitTypes == Init => Types
<1> SUFFICES ASSUME Init PROVE Types
    OBVIOUS
<1>1. call \in [Calls -> CallState]
    BY NoCallType DEF Init
<1>2. registry \in Registry
    BY DEF Init, Registry
<1>3. clock \in 0..MaxCopies /\ session \in Nat
    BY BoundsAssumption DEF Init
<1>4. CleanStage
    BY BoundsAssumption DEF Init, CleanStage, CleanFrom, CleanIdle
<1> QED
    BY <1>1, <1>2, <1>3, <1>4, IdleTypes DEF Init, Types, Phases

\* The steps of a call up to the registry value of an activation.
LEMMA ActivateTypes ==
    ASSUME Types, NEW c \in Calls,
           \/ \E F \in SUBSET Fonts : \E k \in {"activate", "activateBatch"} :
                 StartActivate(c, k, F)
           \/ ActLoad(c) \/ ActItemsDone(c)
           \/ \E f \in Fonts : \/ ItemInaccessible(c, f) \/ ItemExisting(c, f)
                               \/ ItemInstalled(c, f) \/ ItemCopied(c, f)
                               \/ ItemCopyFailed(c, f)
    PROVE  Types'
<1> USE DEF Types, CleanStage, disk
<1>0. call[c] \in CallState
    OBVIOUS
<1>1. ASSUME NEW F \in SUBSET Fonts, NEW k \in {"activate", "activateBatch"},
             StartActivate(c, k, F)
      PROVE  Types'
  <2>1. [NoCall EXCEPT !.kind = k, !.pc = "load", !.fonts = F, !.todo = F, !.ui = TRUE]
            \in CallState
      BY NoCallType DEF CallState, CallPcs, Kinds
  <2>2. call' \in [Calls -> CallState]
      BY <1>1, <2>1, StepType DEF StartActivate
  <2> QED
      BY <1>1, <2>2 DEF StartActivate
<1>2. CASE ActLoad(c)
  <2>1. [call[c] EXCEPT !.snap = store, !.pc = "item"] \in CallState
      BY <1>0 DEF CallState, CallPcs
  <2>2. call' \in [Calls -> CallState]
      BY <1>2, <2>1, StepType DEF ActLoad
  <2> QED
      BY <1>2, <2>2 DEF ActLoad
<1>3. CASE ActItemsDone(c)
  <2>1. call' \in [Calls -> CallState]
      BY <1>3, GotoType DEF ActItemsDone, CallPcs
  <2> QED
      BY <1>3, <2>1 DEF ActItemsDone
<1>4. ASSUME NEW f \in Fonts, ItemInaccessible(c, f) \/ ItemInstalled(c, f) PROVE Types'
  <2>1. call' \in [Calls -> CallState]
      BY <1>4, ItemFailedType DEF ItemInaccessible, ItemInstalled
  <2> QED
      BY <1>4, <2>1 DEF ItemInaccessible, ItemInstalled
<1>5. ASSUME NEW f \in Fonts, ItemExisting(c, f) PROVE Types'
  <2>1. PICK r \in Existing(c, f) :
            IF Single(c)
            THEN \E n \in NamesOf[f] :
                   Step(c, [call[c] EXCEPT !.todo = {}, !.again = {[r EXCEPT !.reg = n]},
                              !.pc = IF n = r.reg THEN "readd" ELSE "migrateWrite"])
            ELSE ItemDone(c, f, {}, {r})
      BY <1>5 DEF ItemExisting
  <2>2. call[c].snap \subseteq Record
      BY <1>0 DEF CallState
  <2>3. r \in Record
      BY <2>2 DEF Existing, OfFonts
  <2>4. CASE Single(c)
    <3>1. PICK n \in NamesOf[f] :
              Step(c, [call[c] EXCEPT !.todo = {}, !.again = {[r EXCEPT !.reg = n]},
                         !.pc = IF n = r.reg THEN "readd" ELSE "migrateWrite"])
        BY <2>1, <2>4
    <3>2. [r EXCEPT !.reg = n] \in Record
        BY <2>3, NamesAssumption DEF Record
    <3>3. [call[c] EXCEPT !.todo = {}, !.again = {[r EXCEPT !.reg = n]},
                   !.pc = IF n = r.reg THEN "readd" ELSE "migrateWrite"] \in CallState
        BY <1>0, <3>2 DEF CallState, CallPcs
    <3> QED
        BY <1>5, <3>1, <3>3, StepType DEF ItemExisting
  <2>5. CASE ~Single(c)
    <3>1. ItemDone(c, f, {}, {r}) /\ {} \in SUBSET Record /\ {r} \in SUBSET Record
        BY <2>1, <2>3, <2>5
    <3>2. call' \in [Calls -> CallState]
        BY <3>1, ItemDoneType
    <3> QED
        BY <1>5, <3>2 DEF ItemExisting
  <2> QED
      BY <2>4, <2>5
<1>6. ASSUME NEW f \in Fonts, ItemCopied(c, f) PROVE Types'
  <2>0. NewPath(f) \in Path /\ clock + 1 \in 0..MaxCopies
      BY <1>6, NewPathIsPath DEF ItemCopied
  <2>1. PICK n \in NamesOf[f] : ItemDone(c, f, {[path |-> NewPath(f), reg |-> n]}, {})
      BY <1>6 DEF ItemCopied
  <2>2. {[path |-> NewPath(f), reg |-> n]} \in SUBSET Record /\ {} \in SUBSET Record
      BY <2>0, NamesAssumption DEF Record
  <2>3. call' \in [Calls -> CallState]
      BY <2>1, <2>2, ItemDoneType
  <2> QED
      BY <1>6, <2>0, <2>3 DEF ItemCopied
<1>7. ASSUME NEW f \in Fonts, ItemCopyFailed(c, f) PROVE Types'
  <2>0. NewPath(f) \in Path /\ clock + 1 \in 0..MaxCopies
      BY <1>7, NewPathIsPath DEF ItemCopyFailed
  <2>1. call' \in [Calls -> CallState]
      BY <1>7, ItemFailedType DEF ItemCopyFailed
  <2> QED
      BY <1>7, <2>0, <2>1 DEF ItemCopyFailed
<1> QED
    BY <1>1, <1>2, <1>3, <1>4, <1>5, <1>6, <1>7

\* Renaming a registry value, and the rest of an activation.
LEMMA InstallTypes ==
    ASSUME Types, NEW c \in Calls,
           \/ MigrateWrite(c) \/ MigrateDelete(c) \/ MigrateSave(c) \/ ActRegistry(c)
           \/ ActReadd(c) \/ ActAdd(c) \/ ActUndo(c) \/ ActSave(c)
    PROVE  Types'
<1> USE DEF Types, CleanStage, disk
<1>0. /\ call[c] \in CallState
      /\ call[c].prep \in SUBSET Record /\ call[c].again \in SUBSET Record
      /\ call[c].prep \cup call[c].again \in SUBSET Record
    BY DEF CallState
<1>1. CASE MigrateWrite(c)
  <2>1. registry' \in Registry
      BY <1>0, <1>1, RegisteredType DEF MigrateWrite
  <2>2. call' \in [Calls -> CallState]
      BY <1>1, GotoType, EndCallType DEF MigrateWrite, CallPcs
  <2> QED
      BY <1>1, <2>1, <2>2 DEF MigrateWrite
<1>2. CASE MigrateDelete(c)
  <2>1. registry' \in Registry
      BY <1>2, UnregisteredType DEF MigrateDelete
  <2>2. call' \in [Calls -> CallState]
      BY <1>2, GotoType DEF MigrateDelete, CallPcs
  <2> QED
      BY <1>2, <2>1, <2>2 DEF MigrateDelete
<1>3. CASE MigrateSave(c)
  <2>1. store' \subseteq Record
      BY <1>0, <1>3, MergedType DEF MigrateSave
  <2>2. call' \in [Calls -> CallState]
      BY <1>3, GotoType DEF MigrateSave, CallPcs
  <2> QED
      BY <1>3, <2>1, <2>2 DEF MigrateSave
<1>4. CASE ActRegistry(c)
  <2>1. registry' \in Registry
    <3>1. \A W \in SUBSET call[c].prep : Registered(W, registry) \in Registry
        BY <1>0, RegisteredType
    <3> QED
        BY <1>4, <3>1 DEF ActRegistry
  <2>2. [call[c] EXCEPT !.prep = {}, !.pc = "readd"] \in CallState
      BY <1>0 DEF CallState, CallPcs
  <2>3. call' \in [Calls -> CallState]
    <3>1. CASE Goto(c, IF Single(c) THEN "add" ELSE "readd")
      <4>1. (IF Single(c) THEN "add" ELSE "readd") \in CallPcs
          BY DEF CallPcs
      <4> QED
          BY <3>1, <4>1, GotoType
    <3>2. CASE EndCall(c)
        BY <3>2, EndCallType
    <3>3. CASE Step(c, [call[c] EXCEPT !.prep = {}, !.pc = "readd"])
        BY <2>2, <3>3, StepType
    <3> QED
        BY <1>4, <3>1, <3>2, <3>3 DEF ActRegistry
  <2>4. files' \subseteq files
      BY <1>4 DEF ActRegistry
  <2> QED
      BY <1>4, <2>1, <2>3, <2>4 DEF ActRegistry
<1>5. CASE ActReadd(c)
  <2>1. call' \in [Calls -> CallState]
      BY <1>5, GotoType DEF ActReadd, CallPcs
  <2>2. loaded' \subseteq loaded
      BY <1>5 DEF ActReadd
  <2> QED
      BY <1>5, <2>1, <2>2 DEF ActReadd
<1>6. CASE ActAdd(c)
  <2> DEFINE all == call[c].prep \cup call[c].again
             gone == {r \in all : r.path \notin files}
             next(bad) == [call[c] EXCEPT
                             !.pc = IF bad \cap call[c].prep = {} THEN "save" ELSE "undo",
                             !.again = @ \ bad, !.prep = @ \ bad,
                             !.undo = bad \cap call[c].prep]
  <2>1. PICK more \in Undone("add", all \ gone) :
            /\ loaded' = loaded \cup PathsOf(all \ (gone \cup more))
            /\ IF Single(c) /\ gone \cup more # {} THEN EndCall(c)
               ELSE Step(c, next(gone \cup more))
      BY <1>6 DEF ActAdd
  <2>2. PathsOf(all \ (gone \cup more)) \subseteq Path
      BY <1>0, PathsOfRecords
  <2>3. next(gone \cup more) \in CallState
      BY <1>0 DEF CallState, CallPcs
  <2> HIDE DEF next
  <2>4. call' \in [Calls -> CallState]
      BY <2>1, <2>3, StepType, EndCallType
  <2> QED
      BY <1>6, <2>1, <2>2, <2>4 DEF ActAdd
<1>7. CASE ActUndo(c)
  <2>1. registry' \in Registry /\ files' \subseteq files
      BY <1>7, UnregisteredType DEF ActUndo
  <2>2. call' \in [Calls -> CallState]
      BY <1>7, GotoType DEF ActUndo, CallPcs
  <2> QED
      BY <1>7, <2>1, <2>2 DEF ActUndo
<1>8. CASE ActSave(c)
  <2>1. store' \subseteq Record
      BY <1>0, <1>8, MergedType DEF ActSave
  <2>2. shown' \in [Fonts -> Path \cup {None}]
      BY <1>0, <1>8, ShowType DEF ActSave
  <2>3. call' \in [Calls -> CallState]
      BY <1>8, EndCallType DEF ActSave
  <2> QED
      BY <1>8, <2>1, <2>2, <2>3 DEF ActSave
<1> QED
    BY <1>1, <1>2, <1>3, <1>4, <1>5, <1>6, <1>7, <1>8

\* Deactivation.
LEMMA DeactivateTypes ==
    ASSUME Types, NEW c \in Calls,
           \/ \E F \in SUBSET Fonts : \E k \in {"deactivate", "deactivateBatch"} :
                 StartDeactivate(c, k, F)
           \/ DeLoad(c) \/ DeRemove(c) \/ DeRegistry(c) \/ DeQueueLoad(c)
           \/ DeQueueSave(c) \/ DeSave(c)
    PROVE  Types'
<1> USE DEF Types, CleanStage, disk
<1>0. /\ call[c] \in CallState
      /\ call[c].snap \in SUBSET Record /\ Targets(c) \in SUBSET Record
    BY DEF CallState, Targets, OfFonts
<1>1. ASSUME NEW F \in SUBSET Fonts, NEW k \in {"deactivate", "deactivateBatch"},
             StartDeactivate(c, k, F)
      PROVE  Types'
  <2>1. [NoCall EXCEPT !.kind = k, !.pc = "load", !.fonts = F, !.ui = TRUE] \in CallState
      BY NoCallType DEF CallState, CallPcs, Kinds
  <2>2. call' \in [Calls -> CallState]
      BY <1>1, <2>1, StepType DEF StartDeactivate
  <2>3. shown' \in [Fonts -> Path \cup {None}]
      BY <1>1 DEF StartDeactivate
  <2> QED
      BY <1>1, <2>2, <2>3 DEF StartDeactivate
<1>2. CASE DeLoad(c)
  <2>1. /\ [call[c] EXCEPT !.snap = store, !.pc = "unload"] \in CallState
        /\ [call[c] EXCEPT !.snap = store, !.pc = "deSave"] \in CallState
      BY <1>0 DEF CallState, CallPcs
  <2>2. call' \in [Calls -> CallState]
      BY <1>2, <2>1, StepType, EndCallType DEF DeLoad
  <2> QED
      BY <1>2, <2>2 DEF DeLoad
<1>3. CASE DeRemove(c)
  <2>1. call' \in [Calls -> CallState] /\ loaded' \subseteq loaded
      BY <1>3, GotoType DEF DeRemove, CallPcs
  <2> QED
      BY <1>3, <2>1 DEF DeRemove
<1>4. CASE DeRegistry(c)
  <2>1. call' \in [Calls -> CallState] /\ registry' \in Registry
      BY <1>4, GotoType, UnregisteredType DEF DeRegistry, CallPcs
  <2> QED
      BY <1>4, <2>1 DEF DeRegistry
<1>5. CASE DeQueueLoad(c)
  <2>1. [call[c] EXCEPT !.book = pendingDel, !.pc = "queueSave"] \in CallState
      BY <1>0 DEF CallState, CallPcs
  <2>2. call' \in [Calls -> CallState]
      BY <1>5, <2>1, StepType DEF DeQueueLoad
  <2> QED
      BY <1>5, <2>2 DEF DeQueueLoad
<1>6. CASE DeQueueSave(c)
  <2>1. pendingDel' \subseteq Path
      BY <1>0, <1>6, PathsOfRecords DEF DeQueueSave, CallState
  <2>2. call' \in [Calls -> CallState]
      BY <1>6, GotoType DEF DeQueueSave, CallPcs
  <2> QED
      BY <1>6, <2>1, <2>2 DEF DeQueueSave
<1>7. CASE DeSave(c)
  <2>1. call' \in [Calls -> CallState]
      BY <1>7, EndCallType DEF DeSave
  <2>2. store' \subseteq Record
      BY <1>0, <1>7 DEF DeSave
  <2> QED
      BY <1>7, <2>1, <2>2 DEF DeSave
<1> QED
    BY <1>1, <1>2, <1>3, <1>4, <1>5, <1>6, <1>7

LEMMA FlushTypes == ASSUME Types, FlushStep PROVE Types'
<1> USE DEF Types, CleanStage, Passing, disk
<1>1. CASE FlushFire
  <2>1. flush' \in FlushState
      BY <1>1, IdleTypes DEF FlushFire
  <2> QED
      BY <1>1, <2>1 DEF FlushFire
<1>2. CASE FlushLoad
  <2>1. [Idle EXCEPT !.pc = "delete", !.recs = pendingDel] \in FlushState
      BY IdleTypes DEF FlushState
  <2>2. flush' \in FlushState /\ cl' \in CleanState /\ (cl'.pc \in Passing => cl' = cl)
      BY <1>2, <2>1, FlushEndsType DEF FlushLoad
  <2> QED
      BY <1>2, <2>2 DEF FlushLoad
<1>3. CASE FlushDelete
  <2>1. PICK failed \in Undone("delete", flush.recs) :
            /\ files' = files \ (flush.recs \ failed)
            /\ flush' = [flush EXCEPT !.pc = "save", !.failed = failed]
      BY <1>3 DEF FlushDelete
  <2>2. failed \subseteq Path
      BY DEF Undone, FlushState
  <2>3. flush' \in FlushState
      BY <2>1, <2>2 DEF FlushState
  <2> QED
      BY <1>3, <2>1, <2>3 DEF FlushDelete
<1>4. CASE FlushSave
  <2>1. pendingDel' \subseteq Path
      BY <1>4 DEF FlushSave, FlushState
  <2>2. flush' \in FlushState /\ cl' \in CleanState /\ (cl'.pc \in Passing => cl' = cl)
      BY <1>4, FlushEndsType DEF FlushSave
  <2> QED
      BY <1>4, <2>1, <2>2 DEF FlushSave
<1> QED
    BY <1>1, <1>2, <1>3, <1>4 DEF FlushStep

LEMMA CleanTypes == ASSUME Types, CleanStep PROVE Types'
<1> USE DEF Types, CleanStage, Passing, disk
<1>1. CASE CleanLoad
  <2>1. \A p \in {"flush", "remove"} :
            [cl EXCEPT !.recs = store, !.todo = store, !.left = {}, !.pc = p] \in CleanState
      BY DEF CleanState
  <2>2. cl' \in CleanState /\ cl'.pc \notin Handling /\ cl'.tries = cl.tries
      BY <1>1, <2>1 DEF CleanLoad, CleanState
  <2> QED
      BY <1>1, <2>2 DEF CleanLoad
<1>2. ASSUME NEW r \in Record, CleanUnload(r) PROVE Types'
  <2>1. cl' \in CleanState /\ cl'.cur \in Record /\ cl'.tries = cl.tries
      BY <1>2 DEF CleanUnload, CleanState
  <2> QED
      BY <1>2, <2>1 DEF CleanUnload
<1>7. CASE CleanUnregister
  <2>1. cl' \in CleanState /\ cl'.cur = cl.cur /\ cl'.tries = cl.tries
      BY <1>7 DEF CleanUnregister, CleanState
  <2>2. registry' \in Registry
      BY <1>7, UnregisteredType DEF CleanUnregister
  <2> QED
      BY <1>7, <2>1, <2>2 DEF CleanUnregister
<1>8. CASE CleanDelete
  <2>1. \A k \in BOOLEAN : [cl EXCEPT !.pc = "verify", !.kept = k] \in CleanState
      BY DEF CleanState
  <2>2. cl' \in CleanState /\ cl'.cur = cl.cur /\ cl'.tries = cl.tries
      BY <1>8, <2>1 DEF CleanDelete, CleanState
  <2>3. files' \subseteq files
      BY <1>8 DEF CleanDelete
  <2> QED
      BY <1>8, <2>2, <2>3 DEF CleanDelete
<1>3. CASE CleanVerify
  <2>1. cl.todo \ {cl.cur} \in SUBSET Record /\ cl.left \cup {cl.cur} \in SUBSET Record
      BY <1>3 DEF CleanVerify, CleanState
  <2>2. \A left \in {cl.left, cl.left \cup {cl.cur}}, p \in {"save", "remove"} :
            [cl EXCEPT !.todo = cl.todo \ {cl.cur}, !.cur = None, !.kept = FALSE,
                       !.left = left, !.pc = p] \in CleanState
      BY <2>1 DEF CleanState
  <2>3. cl' \in CleanState /\ cl'.pc \notin Handling /\ cl'.tries = cl.tries
      BY <1>3, <2>2 DEF CleanVerify, CleanState
  <2> QED
      BY <1>3, <2>3 DEF CleanVerify
<1>4. CASE CleanSave
  <2>0. cl.tries + 1 \in 0..MaxAttempts
      BY <1>4, BoundsAssumption DEF CleanSave, CleanState
  <2>1. \A p \in {"load", "flush"} : [cl EXCEPT !.tries = @ + 1, !.pc = p] \in CleanState
      BY <2>0 DEF CleanState
  <2>2. cl' \in CleanState /\ cl'.pc \notin Handling
        /\ (cl'.pc = "load" => cl'.tries < MaxAttempts) /\ cl'.pc \in {"load", "flush"}
      BY <1>4, <2>1 DEF CleanSave, CleanState, Retry
  <2>3. store' \subseteq Record
      BY <1>4 DEF CleanSave, CleanState
  <2> QED
      BY <1>4, <2>2, <2>3 DEF CleanSave
<1>5. CASE CleanFlush
  <2>1. flush' \in FlushState
      BY <1>5, IdleTypes DEF CleanFlush
  <2>2. cl' \in CleanState /\ cl'.pc = "await"
      BY <1>5 DEF CleanFlush, CleanState
  <2> QED
      BY <1>5, <2>1, <2>2 DEF CleanFlush
<1>6. CASE CleanDecide
  <2>1. CASE phase = "startup" /\ phase' = "running" /\ cl' = CleanIdle
             /\ UNCHANGED <<call, timer, flush, shown, session>>
      BY <1>6, <2>1, IdleTypes DEF CleanDecide, Phases, CleanIdle
  <2>2. CASE QuitAborted
    <3>1. \A c \in Calls : [call[c] EXCEPT !.ui = FALSE] \in CallState
        BY DEF CallState
    <3> QED
        BY <1>6, <2>2, <3>1, IdleTypes DEF CleanDecide, QuitAborted, Phases, CleanIdle
  <2>3. CASE ProcessEnds("exited") /\ cl' = [cl EXCEPT !.pc = "idle"]
    <3>1. cl' \in CleanState /\ cl'.pc = "idle"
        BY <2>3 DEF CleanState
    <3> QED
        BY <1>6, <2>3, <3>1, IdleTypes, NoCallType DEF CleanDecide, ProcessEnds, Phases
  <2> QED
      BY <1>6, <2>1, <2>2, <2>3 DEF CleanDecide
<1> QED
    BY <1>1, <1>2, <1>3, <1>4, <1>5, <1>6, <1>7, <1>8 DEF CleanStep

LEMMA SessionTypes ==
    ASSUME Types, RequestQuit \/ Crash \/ Relaunch \/ Finished \/ UNCHANGED vars
    PROVE  Types'
<1> USE BoundsAssumption DEF Types, CleanStage, Passing, disk
<1>1. CASE RequestQuit
    BY <1>1, IdleTypes DEF RequestQuit, Phases, CleanFrom, CleanIdle
<1>2. CASE Crash
  <2>1. store' \subseteq Record /\ pendingDel' \subseteq Path
      BY <1>2 DEF Crash
  <2> QED
      BY <1>2, <2>1, IdleTypes, NoCallType DEF Crash, ProcessEnds, Phases, CleanIdle
<1>3. CASE Relaunch
    BY <1>3, IdleTypes DEF Relaunch, Phases, CleanFrom, CleanIdle
<1>4. CASE Finished \/ UNCHANGED vars
    BY <1>4 DEF Finished, vars
<1> QED
    BY <1>1, <1>2, <1>3, <1>4

LEMMA StepTypes == Types /\ [Next]_vars => Types'
<1> SUFFICES ASSUME Types, [Next]_vars PROVE Types'
    OBVIOUS
<1>1. ASSUME NEW c \in Calls, CallStep(c) PROVE Types'
    BY <1>1, ActivateTypes, InstallTypes, DeactivateTypes DEF CallStep
<1> QED
    BY <1>1, FlushTypes, CleanTypes, SessionTypes DEF Next

\* Every path and record on disk, in a call and in the cleanup is one that an
\* activation made, and the cleanup never makes more passes than it may.
THEOREM TypeCorrect == Spec => []TypeOK
<1>1. Init => Types
    BY InitTypes
<1>2. Types /\ [Next]_vars => Types'
    BY StepTypes
<1>3. Types => TypeOK
    BY TypesGiveTypeOK
<1> QED
    BY <1>1, <1>2, <1>3, PTL DEF Spec

-----------------------------------------------------------------------------
(* One record per font.                                                    *)

\* A call's snapshot and its own records are one per font, and it has no record
\* of a font it has still to visit.
Unique(s) ==
    /\ OnePerFont(s.snap) /\ OnePerFont(s.prep) /\ OnePerFont(s.again)
    /\ \A r \in s.prep \cup s.again : FontOf(r) \notin s.todo

UniqueCalls == \A c \in Calls : Unique(call[c])

\* What the cleanup works on is what it read.
UniqueClean ==
    /\ OnePerFont(cl.recs) /\ cl.todo \subseteq cl.recs /\ cl.left \subseteq cl.recs
    /\ cl.pc \in Handling => cl.cur \in cl.recs

IInv == Types /\ OnePerFont(store) /\ UniqueCalls /\ UniqueClean

LEMMA OnePerFontSubset ==
    ASSUME NEW R, OnePerFont(R), NEW Q \in SUBSET R PROVE OnePerFont(Q)
  BY DEF OnePerFont

\* Filter and push: the merged list has one record per font.
LEMMA MergedUnique ==
    ASSUME NEW c \in Calls, NEW R, OnePerFont(R), OnePerFont(call[c].snap)
    PROVE  OnePerFont(Merged(c, R))
  BY DEF OnePerFont, Merged

LEMMA InitIInv == Init => IInv
<1> SUFFICES ASSUME Init PROVE IInv
    OBVIOUS
<1>1. Unique(NoCall)
    BY DEF Unique, NoCall, OnePerFont
<1>2. UniqueCalls
    BY <1>1 DEF Init, UniqueCalls
<1>3. UniqueClean /\ OnePerFont(store)
    BY DEF Init, UniqueClean, CleanFrom, CleanIdle, OnePerFont
<1> QED
    BY <1>2, <1>3, InitTypes DEF IInv

LEMMA UniqueStep ==
    ASSUME Types, UniqueCalls, NEW c \in Calls, NEW s, Step(c, s), Unique(s)
    PROVE  UniqueCalls'
<1>1. \A d \in Calls : call'[d] = IF d = c THEN s ELSE call[d]
    BY DEF Step, Types
<1> QED
    BY <1>1 DEF UniqueCalls, Unique

LEMMA UniqueGoto ==
    ASSUME Types, UniqueCalls, NEW c \in Calls, NEW p, Goto(c, p) PROVE UniqueCalls'
<1>1. call[c] \in CallState /\ Unique(call[c])
    BY DEF Types, UniqueCalls
<1>2. Unique([call[c] EXCEPT !.pc = p])
    BY <1>1 DEF Unique, CallState
<1> QED
    BY <1>2, UniqueStep DEF Goto

LEMMA UniqueEndCall ==
    ASSUME Types, UniqueCalls, NEW c \in Calls, EndCall(c) PROVE UniqueCalls'
<1>1. Unique(NoCall)
    BY DEF Unique, NoCall, OnePerFont
<1> QED
    BY <1>1, UniqueStep DEF EndCall

\* A call visits a font of its list once: the record it adds is the only one of it.
LEMMA UniqueItem ==
    ASSUME Types, UniqueCalls, NEW c \in Calls, NEW f \in call[c].todo,
           NEW R, NEW A, ItemDone(c, f, R, A), OnePerFont(R), OnePerFont(A),
           \A r \in R \cup A : FontOf(r) = f
    PROVE  UniqueCalls'
<1>1. call[c] \in CallState /\ Unique(call[c])
    BY DEF Types, UniqueCalls
<1> DEFINE s == [call[c] EXCEPT !.todo = @ \ {f}, !.prep = @ \cup R, !.again = @ \cup A,
                                !.pc = IF Single(c) THEN "registry" ELSE "item"]
<1>2. /\ s.snap = call[c].snap /\ s.todo = call[c].todo \ {f}
      /\ s.prep = call[c].prep \cup R /\ s.again = call[c].again \cup A
    BY <1>1 DEF CallState
<1>3. OnePerFont(s.prep) /\ OnePerFont(s.again)
    BY <1>1, <1>2 DEF Unique, OnePerFont
<1>4. \A r \in s.prep \cup s.again : FontOf(r) \notin s.todo
    BY <1>1, <1>2 DEF Unique
<1>5. Unique(s)
    BY <1>1, <1>2, <1>3, <1>4 DEF Unique
<1> QED
    BY <1>5, UniqueStep DEF ItemDone

LEMMA UniqueItemFailed ==
    ASSUME Types, UniqueCalls, NEW c \in Calls, NEW f \in call[c].todo, ItemFailed(c, f)
    PROVE  UniqueCalls'
<1>1. CASE Single(c)
    BY <1>1, UniqueEndCall DEF ItemFailed
<1>2. CASE ~Single(c)
  <2>1. ItemDone(c, f, {}, {}) /\ OnePerFont({})
      BY <1>2 DEF ItemFailed, OnePerFont
  <2> QED
      BY <2>1, UniqueItem
<1> QED
    BY <1>1, <1>2

\* The steps up to the registry value.
LEMMA ActivateUnique ==
    ASSUME IInv, NEW c \in Calls,
           \/ \E F \in SUBSET Fonts : \E k \in Kinds :
                 StartActivate(c, k, F) \/ StartDeactivate(c, k, F)
           \/ ActLoad(c) \/ ActItemsDone(c) \/ DeLoad(c)
           \/ \E f \in Fonts : \/ ItemInaccessible(c, f) \/ ItemExisting(c, f)
                               \/ ItemInstalled(c, f) \/ ItemCopied(c, f)
                               \/ ItemCopyFailed(c, f)
    PROVE  UniqueCalls' /\ UNCHANGED store
<1> USE DEF IInv
<1>0. call[c] \in CallState /\ Unique(call[c])
    BY DEF Types, UniqueCalls
<1>1. ASSUME NEW F \in SUBSET Fonts, NEW k \in Kinds,
             StartActivate(c, k, F) \/ StartDeactivate(c, k, F)
      PROVE  UniqueCalls' /\ UNCHANGED store
  <2>1. \A u \in BOOLEAN, T \in {{}, F} :
            Unique([NoCall EXCEPT !.kind = k, !.pc = "load", !.fonts = F, !.todo = T, !.ui = u])
      BY DEF Unique, NoCall, OnePerFont
  <2>2. Unique([NoCall EXCEPT !.kind = k, !.pc = "load", !.fonts = F, !.ui = TRUE])
      BY DEF Unique, NoCall, OnePerFont
  <2>3. UniqueCalls'
      BY <1>1, <2>1, <2>2, UniqueStep DEF StartActivate, StartDeactivate
  <2> QED
      BY <1>1, <2>3 DEF StartActivate, StartDeactivate, disk
<1>2. CASE ActLoad(c) \/ DeLoad(c)
  <2>1. \A p \in CallPcs : Unique([call[c] EXCEPT !.snap = store, !.pc = p])
      BY <1>0 DEF Unique, CallState
  <2>2. UniqueCalls'
      BY <1>2, <2>1, UniqueStep, UniqueEndCall DEF ActLoad, DeLoad, CallPcs
  <2> QED
      BY <1>2, <2>2 DEF ActLoad, DeLoad, disk
<1>3. CASE ActItemsDone(c)
    BY <1>3, UniqueGoto DEF ActItemsDone, disk
<1>4. ASSUME NEW f \in Fonts,
             ItemInaccessible(c, f) \/ ItemInstalled(c, f) \/ ItemCopyFailed(c, f)
      PROVE  UniqueCalls' /\ UNCHANGED store
    BY <1>4, UniqueItemFailed DEF ItemInaccessible, ItemInstalled, ItemCopyFailed, disk
<1>5. ASSUME NEW f \in Fonts, ItemCopied(c, f) PROVE UniqueCalls' /\ UNCHANGED store
  <2>1. PICK n \in NamesOf[f] : ItemDone(c, f, {[path |-> NewPath(f), reg |-> n]}, {})
      BY <1>5 DEF ItemCopied
  <2>2. FontOf([path |-> NewPath(f), reg |-> n]) = f
      BY DEF FontOf, NewPath
  <2>3. OnePerFont({[path |-> NewPath(f), reg |-> n]}) /\ OnePerFont({})
      BY DEF OnePerFont
  <2>4. f \in call[c].todo
      BY <1>5 DEF ItemCopied
  <2>5. \A r \in {[path |-> NewPath(f), reg |-> n]} \cup {} : FontOf(r) = f
      BY <2>2
  <2>6. UniqueCalls'
      BY <2>1, <2>3, <2>4, <2>5, UniqueItem
  <2> QED
      BY <1>5, <2>6 DEF ItemCopied
<1>6. ASSUME NEW f \in Fonts, ItemExisting(c, f) PROVE UniqueCalls' /\ UNCHANGED store
  <2>1. PICK r \in Existing(c, f) :
            IF Single(c)
            THEN \E n \in NamesOf[f] :
                   Step(c, [call[c] EXCEPT !.todo = {}, !.again = {[r EXCEPT !.reg = n]},
                              !.pc = IF n = r.reg THEN "readd" ELSE "migrateWrite"])
            ELSE ItemDone(c, f, {}, {r})
      BY <1>6 DEF ItemExisting
  <2>2. CASE Single(c)
    <3>1. PICK n \in NamesOf[f] :
              Step(c, [call[c] EXCEPT !.todo = {}, !.again = {[r EXCEPT !.reg = n]},
                         !.pc = IF n = r.reg THEN "readd" ELSE "migrateWrite"])
        BY <2>1, <2>2
    <3>2. Unique([call[c] EXCEPT !.todo = {}, !.again = {[r EXCEPT !.reg = n]},
                         !.pc = IF n = r.reg THEN "readd" ELSE "migrateWrite"])
        BY <1>0 DEF Unique, CallState, OnePerFont
    <3> QED
        BY <1>6, <3>1, <3>2, UniqueStep DEF ItemExisting, disk
  <2>3. CASE ~Single(c)
    <3>1. ItemDone(c, f, {}, {r}) /\ f \in call[c].todo
        BY <1>6, <2>1, <2>3 DEF ItemExisting
    <3>2. OnePerFont({r}) /\ OnePerFont({}) /\ \A q \in {} \cup {r} : FontOf(q) = f
        BY DEF OnePerFont, Existing, OfFonts
    <3> QED
        BY <1>6, <3>1, <3>2, UniqueItem DEF ItemExisting, disk
  <2> QED
      BY <2>2, <2>3
<1> QED
    BY <1>1, <1>2, <1>3, <1>4, <1>5, <1>6

\* The other steps of a call: those that save write a merged or reduced snapshot.
LEMMA CallUnique ==
    ASSUME IInv, NEW c \in Calls, CallStep(c) PROVE UniqueCalls' /\ OnePerFont(store)'
<1> USE DEF IInv
<1>0. call[c] \in CallState /\ Unique(call[c])
    BY DEF Types, UniqueCalls
<1>1. CASE \/ MigrateWrite(c) \/ MigrateDelete(c) \/ ActReadd(c) \/ ActUndo(c)
           \/ DeRemove(c) \/ DeRegistry(c) \/ DeQueueSave(c)
  <2>1. UniqueCalls'
      BY <1>1, UniqueGoto, UniqueEndCall DEF MigrateWrite, MigrateDelete, ActReadd, ActUndo,
         DeRemove, DeRegistry, DeQueueSave
  <2>2. UNCHANGED store
      BY <1>1 DEF MigrateWrite, MigrateDelete, ActReadd, ActUndo, DeRemove, DeRegistry,
         DeQueueSave
  <2> QED
      BY <2>1, <2>2
<1>2. CASE MigrateSave(c)
  <2>1. OnePerFont(store')
      BY <1>0, <1>2, MergedUnique DEF MigrateSave, Unique
  <2> QED
      BY <1>2, <2>1, UniqueGoto DEF MigrateSave
<1>3. CASE ActRegistry(c)
  <2>1. Unique([call[c] EXCEPT !.prep = {}, !.pc = "readd"])
      BY <1>0 DEF Unique, CallState, OnePerFont
  <2> QED
      BY <1>3, <2>1, UniqueStep, UniqueGoto, UniqueEndCall DEF ActRegistry
<1>4. CASE ActAdd(c)
  <2> DEFINE next(bad) == [call[c] EXCEPT
                             !.pc = IF bad \cap call[c].prep = {} THEN "save" ELSE "undo",
                             !.again = @ \ bad, !.prep = @ \ bad,
                             !.undo = bad \cap call[c].prep]
  <2>1. PICK bad : EndCall(c) \/ Step(c, next(bad))
      BY <1>4 DEF ActAdd
  <2>2. Unique(next(bad))
      BY <1>0 DEF Unique, CallState, OnePerFont
  <2> HIDE DEF next
  <2>3. UniqueCalls'
      BY <2>1, <2>2, UniqueStep, UniqueEndCall
  <2> QED
      BY <1>4, <2>3 DEF ActAdd
<1>5. CASE ActSave(c)
  <2>1. OnePerFont(store')
      BY <1>0, <1>5, MergedUnique DEF ActSave, Unique
  <2> QED
      BY <1>5, <2>1, UniqueEndCall DEF ActSave
<1>6. CASE DeQueueLoad(c)
  <2>1. Unique([call[c] EXCEPT !.book = pendingDel, !.pc = "queueSave"])
      BY <1>0 DEF Unique, CallState
  <2> QED
      BY <1>6, <2>1, UniqueStep DEF DeQueueLoad, disk
<1>7. CASE DeSave(c)
  <2>1. OnePerFont(store')
      BY <1>0, <1>7 DEF DeSave, Unique, OnePerFont
  <2> QED
      BY <1>7, <2>1, UniqueEndCall DEF DeSave
<1> QED
    BY <1>1, <1>2, <1>3, <1>4, <1>5, <1>6, <1>7, ActivateUnique DEF CallStep, Kinds

\* The cleanup writes back a part of what it read.
LEMMA CleanUnique ==
    ASSUME IInv, CleanStep PROVE UniqueCalls' /\ OnePerFont(store)' /\ UniqueClean'
<1> USE DEF IInv, disk
<1>0. cl \in CleanState
    BY DEF Types
<1>1. CASE CleanLoad
  <2>1. UniqueClean'
      BY <1>0, <1>1 DEF CleanLoad, CleanState, UniqueClean
  <2> QED
      BY <1>1, <2>1 DEF CleanLoad, UniqueCalls
<1>2. ASSUME NEW r \in Record, CleanUnload(r)
      PROVE  UniqueCalls' /\ OnePerFont(store)' /\ UniqueClean'
  <2>1. cl'.recs = cl.recs /\ cl'.todo = cl.todo /\ cl'.left = cl.left /\ cl'.cur = r
      BY <1>0, <1>2 DEF CleanUnload, CleanState
  <2>2. UniqueClean'
      BY <1>2, <2>1 DEF CleanUnload, UniqueClean
  <2> QED
      BY <1>2, <2>2 DEF CleanUnload, UniqueCalls
<1>7. CASE CleanUnregister \/ CleanDelete
  <2>1. /\ cl'.recs = cl.recs /\ cl'.todo = cl.todo /\ cl'.left = cl.left
        /\ cl'.cur = cl.cur /\ cl.pc \in Handling /\ UNCHANGED <<call, store>>
      BY <1>0, <1>7 DEF CleanUnregister, CleanDelete, CleanState
  <2>2. UniqueClean'
      BY <2>1 DEF UniqueClean
  <2> QED
      BY <2>1, <2>2 DEF UniqueCalls
<1>3. CASE CleanVerify
  <2>1. cl'.recs = cl.recs /\ cl'.todo \subseteq cl.todo /\ cl'.left \subseteq cl.left \cup {cl.cur}
        /\ cl.pc \in Handling /\ cl'.pc \notin Handling
      BY <1>0, <1>3 DEF CleanVerify, CleanState
  <2>2. UniqueClean'
      BY <2>1 DEF UniqueClean
  <2> QED
      BY <1>3, <2>2 DEF CleanVerify, UniqueCalls
<1>4. CASE CleanSave
  <2>1. OnePerFont(store')
      BY <1>4, OnePerFontSubset DEF CleanSave, UniqueClean
  <2>2. UniqueClean'
      BY <1>0, <1>4 DEF CleanSave, CleanState, UniqueClean
  <2> QED
      BY <1>4, <2>1, <2>2 DEF CleanSave, UniqueCalls
<1>5. CASE CleanFlush
  <2>1. UniqueClean'
      BY <1>0, <1>5 DEF CleanFlush, CleanState, UniqueClean
  <2> QED
      BY <1>5, <2>1 DEF CleanFlush, UniqueCalls
<1>6. CASE CleanDecide
  <2>1. UniqueClean'
      BY <1>0, <1>6 DEF CleanDecide, QuitAborted, CleanIdle, CleanState, UniqueClean, OnePerFont
  <2>2. CASE QuitAborted
    <3>1. \A c \in Calls : Unique([call[c] EXCEPT !.ui = FALSE])
        BY DEF Types, UniqueCalls, Unique, CallState
    <3> QED
        BY <1>6, <2>1, <2>2, <3>1 DEF CleanDecide, QuitAborted, UniqueCalls
  <2>3. CASE ProcessEnds("exited")
    <3>1. Unique(NoCall)
        BY DEF Unique, NoCall, OnePerFont
    <3> QED
        BY <1>6, <2>1, <2>3, <3>1 DEF CleanDecide, ProcessEnds, UniqueCalls
  <2>4. CASE UNCHANGED call
      BY <1>6, <2>1, <2>4 DEF CleanDecide, UniqueCalls
  <2> QED
      BY <1>6, <2>2, <2>3, <2>4 DEF CleanDecide
<1> QED
    BY <1>1, <1>2, <1>3, <1>4, <1>5, <1>6, <1>7 DEF CleanStep

LEMMA IInvStep == IInv /\ [Next]_vars => IInv'
<1> SUFFICES ASSUME IInv, [Next]_vars PROVE IInv'
    OBVIOUS
<1>0. Types'
    BY StepTypes DEF IInv
<1>1. ASSUME NEW c \in Calls, CallStep(c) PROVE IInv'
  <2>1. UNCHANGED cl
      BY <1>1 DEF CallStep, StartActivate, StartDeactivate, ActLoad, ItemInaccessible,
         ItemExisting, ItemInstalled, ItemCopied, ItemCopyFailed, ActItemsDone, MigrateWrite,
         MigrateDelete, MigrateSave, ActRegistry, ActReadd, ActAdd, ActUndo, ActSave, DeLoad,
         DeRemove, DeRegistry, DeQueueLoad, DeQueueSave, DeSave
  <2> QED
      BY <1>0, <1>1, <2>1, CallUnique DEF IInv, UniqueClean
<1>2. CASE FlushStep
  <2>1. UNCHANGED <<call, store>>
      BY <1>2 DEF FlushStep, FlushFire, FlushLoad, FlushDelete, FlushSave, disk
  <2>2. cl' = cl \/ (cl.pc = "await" /\ cl' = [cl EXCEPT !.pc = "decide"])
      BY <1>2 DEF FlushStep, FlushFire, FlushLoad, FlushDelete, FlushSave, FlushEnds
  <2>3. UniqueClean'
      BY <2>2 DEF IInv, Types, CleanState, UniqueClean
  <2> QED
      BY <1>0, <2>1, <2>3 DEF IInv, UniqueCalls
<1>3. CASE CleanStep
    BY <1>0, <1>3, CleanUnique DEF IInv
<1>4. CASE RequestQuit \/ Relaunch
  <2>1. UniqueClean'
      BY <1>4 DEF RequestQuit, Relaunch, CleanFrom, CleanIdle, UniqueClean, OnePerFont
  <2> QED
      BY <1>0, <1>4, <2>1 DEF RequestQuit, Relaunch, IInv, UniqueCalls, disk
<1>5. CASE Crash
  <2>1. UniqueClean' /\ OnePerFont(store')
      BY <1>5 DEF Crash, CleanIdle, UniqueClean, OnePerFont, IInv
  <2>2. Unique(NoCall)
      BY DEF Unique, NoCall, OnePerFont
  <2> QED
      BY <1>0, <1>5, <2>1, <2>2 DEF Crash, ProcessEnds, IInv, UniqueCalls
<1>6. CASE Finished \/ UNCHANGED vars
    BY <1>0, <1>6 DEF Finished, vars, disk, IInv, UniqueCalls, UniqueClean
<1> QED
    BY <1>1, <1>2, <1>3, <1>4, <1>5, <1>6 DEF Next

\* temporary-active-fonts.json never holds two records of one font, however many
\* calls overlap, fail, or are cut short by a crash.
THEOREM OneRecordSafe == Spec => []OneRecordPerFont
<1>1. Init => IInv
    BY InitIInv
<1>2. IInv /\ [Next]_vars => IInv'
    BY IInvStep
<1>3. IInv => OneRecordPerFont
    BY DEF IInv, OneRecordPerFont
<1> QED
    BY <1>1, <1>2, <1>3, PTL DEF Spec

-----------------------------------------------------------------------------
(* What the cleanup takes off its list is gone for good.  A copy's name      *)
(* carries the clock, so no step ever puts a file back under a path that a   *)
(* record names: once the verdict has found the file gone, it stays gone,    *)
(* whatever the calls still in progress and the flush do meanwhile.          *)

\* The records of R were made no later than n.
Aged(R, n) == \A r \in R : r.path.stamp <= n

AgedCall(s, n) == Aged(s.snap, n) /\ Aged(s.prep, n) /\ Aged(s.again, n)
AgedCalls == \A c \in Calls : AgedCall(call[c], clock)
AgedLists == Aged(store, clock) /\ Aged(cl.recs, clock)

\* A record the pass has dealt with and does not keep has lost its file.
CleanedSoFar ==
    /\ \A r \in cl.recs : r.path \in files => r \in cl.todo \cup cl.left
    /\ cl.pc \notin {"remove"} \cup Handling => cl.todo = {}
    /\ phase = "exited" => cl.left = {} /\ cl.pc = "idle"

\* No call is in progress but in a running or quitting session, so nothing but
\* the cleanup writes the list during start-up.
StartupAlone ==
    /\ phase \notin {"running", "quitting"} => \A c \in Calls : call[c] = NoCall
    /\ phase = "startup" /\ cl.pc \in {"remove", "save"} \cup Handling => store = cl.recs

CInv == IInv /\ AgedCalls /\ AgedLists /\ CleanedSoFar /\ StartupAlone

LEMMA AgedSubset ==
    ASSUME NEW R, NEW n, Aged(R, n), NEW Q \in SUBSET R PROVE Aged(Q, n)
  BY DEF Aged

LEMMA AgedLater ==
    ASSUME NEW R \in SUBSET Record, NEW n \in Nat, NEW m \in Nat, n <= m, Aged(R, n)
    PROVE  Aged(R, m)
<1>1. \A r \in R : r.path.stamp \in Nat
    BY BoundsAssumption DEF Record, Path
<1> QED
    BY <1>1 DEF Aged

LEMMA NoCallAged == ASSUME NEW n PROVE AgedCall(NoCall, n)
  BY DEF AgedCall, Aged, NoCall

LEMMA MergedAged ==
    ASSUME NEW c \in Calls, NEW R, NEW n, Aged(R, n), Aged(call[c].snap, n)
    PROVE  Aged(Merged(c, R), n)
  BY DEF Aged, Merged

\* A step of a call that leaves the clock alone.
LEMMA AgedStep ==
    ASSUME Types, AgedCalls, NEW c \in Calls, NEW s, Step(c, s), AgedCall(s, clock),
           UNCHANGED clock
    PROVE  AgedCalls'
<1>1. \A d \in Calls : call'[d] = IF d = c THEN s ELSE call[d]
    BY DEF Step, Types
<1> QED
    BY <1>1 DEF AgedCalls, AgedCall, Aged

LEMMA AgedGoto ==
    ASSUME Types, AgedCalls, NEW c \in Calls, NEW p, Goto(c, p), UNCHANGED clock
    PROVE  AgedCalls'
<1>1. call[c] \in CallState /\ AgedCall(call[c], clock)
    BY DEF Types, AgedCalls
<1>2. AgedCall([call[c] EXCEPT !.pc = p], clock)
    BY <1>1 DEF AgedCall, CallState
<1> QED
    BY <1>2, AgedStep DEF Goto

LEMMA AgedEndCall ==
    ASSUME Types, AgedCalls, NEW c \in Calls, EndCall(c), UNCHANGED clock PROVE AgedCalls'
  BY NoCallAged, AgedStep DEF EndCall

\* The clock moves on: what was aged before stays so.
LEMMA AgedTick ==
    ASSUME Types, AgedCalls, AgedLists, clock < MaxCopies, clock' = clock + 1
    PROVE  /\ \A c \in Calls : AgedCall(call[c], clock')
           /\ Aged(store, clock') /\ Aged(cl.recs, clock')
<1>1. clock \in Nat /\ clock' \in Nat /\ clock <= clock'
    BY BoundsAssumption DEF Types
<1>2. ASSUME NEW c \in Calls PROVE AgedCall(call[c], clock')
  <2>1. call[c] \in CallState /\ AgedCall(call[c], clock)
      BY DEF Types, AgedCalls
  <2>2. /\ call[c].snap \in SUBSET Record /\ call[c].prep \in SUBSET Record
        /\ call[c].again \in SUBSET Record
      BY <2>1 DEF CallState
  <2> QED
      BY <1>1, <2>1, <2>2, AgedLater DEF AgedCall
<1>3. store \in SUBSET Record /\ cl.recs \in SUBSET Record
    BY DEF Types, CleanState
<1> QED
    BY <1>1, <1>2, <1>3, AgedLater DEF AgedLists

\* An item adds records of the clock's time at the latest.
LEMMA AgedItem ==
    ASSUME Types, NEW c \in Calls, NEW f, NEW R, NEW A, ItemDone(c, f, R, A),
           \A d \in Calls : AgedCall(call[d], clock'), Aged(R, clock'), Aged(A, clock')
    PROVE  AgedCalls'
<1>1. call[c] \in CallState /\ AgedCall(call[c], clock')
    BY DEF Types
<1> DEFINE s == [call[c] EXCEPT !.todo = @ \ {f}, !.prep = @ \cup R, !.again = @ \cup A,
                                !.pc = IF Single(c) THEN "registry" ELSE "item"]
<1>2. /\ s.snap = call[c].snap
      /\ s.prep = call[c].prep \cup R /\ s.again = call[c].again \cup A
    BY <1>1 DEF CallState
<1>3. AgedCall(s, clock')
    BY <1>1, <1>2 DEF AgedCall, Aged
<1> HIDE DEF s
<1>4. \A d \in Calls : call'[d] = IF d = c THEN s ELSE call[d]
    BY DEF ItemDone, Step, Types, s
<1>5. \A d \in Calls : AgedCall(call'[d], clock')
    BY <1>3, <1>4
<1> QED
    BY <1>5 DEF AgedCalls, AgedCall, Aged

LEMMA AgedItemFailed ==
    ASSUME Types, NEW c \in Calls, NEW f, ItemFailed(c, f),
           \A d \in Calls : AgedCall(call[d], clock')
    PROVE  AgedCalls'
<1>1. CASE Single(c)
  <2>1. \A d \in Calls : call'[d] = IF d = c THEN NoCall ELSE call[d]
      BY <1>1 DEF ItemFailed, EndCall, Step, Types
  <2>2. \A d \in Calls : AgedCall(call'[d], clock')
      BY <2>1, NoCallAged
  <2> QED
      BY <2>2 DEF AgedCalls, AgedCall, Aged
<1>2. CASE ~Single(c)
  <2>1. ItemDone(c, f, {}, {}) /\ Aged({}, clock')
      BY <1>2 DEF ItemFailed, Aged
  <2> QED
      BY <2>1, AgedItem
<1> QED
    BY <1>1, <1>2

\* The steps up to the registry value: a snapshot is the list as it is, and a
\* copy has the time of the step.
LEMMA ActivateAged ==
    ASSUME CInv, NEW c \in Calls,
           \/ \E F \in SUBSET Fonts : \E k \in Kinds :
                 StartActivate(c, k, F) \/ StartDeactivate(c, k, F)
           \/ ActLoad(c) \/ ActItemsDone(c) \/ DeLoad(c)
           \/ \E f \in Fonts : \/ ItemInaccessible(c, f) \/ ItemExisting(c, f)
                               \/ ItemInstalled(c, f) \/ ItemCopied(c, f)
                               \/ ItemCopyFailed(c, f)
    PROVE  AgedCalls' /\ AgedLists'
<1> USE DEF CInv, IInv
<1>0. call[c] \in CallState /\ AgedCall(call[c], clock)
    BY DEF Types, AgedCalls
<1>a. UNCHANGED <<store, cl, clock>> => AgedLists'
    BY DEF AgedLists, Aged
<1>1. ASSUME NEW F \in SUBSET Fonts, NEW k \in Kinds,
             StartActivate(c, k, F) \/ StartDeactivate(c, k, F)
      PROVE  AgedCalls' /\ AgedLists'
  <2>1. /\ AgedCall([NoCall EXCEPT !.kind = k, !.pc = "load", !.fonts = F, !.todo = F,
                                   !.ui = TRUE], clock)
        /\ AgedCall([NoCall EXCEPT !.kind = k, !.pc = "load", !.fonts = F, !.ui = TRUE], clock)
      BY DEF AgedCall, Aged, NoCall
  <2>2. AgedCalls'
      BY <1>1, <2>1, AgedStep DEF StartActivate, StartDeactivate, disk
  <2> QED
      BY <1>1, <1>a, <2>2 DEF StartActivate, StartDeactivate, disk
<1>2. CASE ActLoad(c) \/ DeLoad(c)
  <2>1. \A p \in CallPcs : AgedCall([call[c] EXCEPT !.snap = store, !.pc = p], clock)
      BY <1>0 DEF AgedCall, AgedLists, CallState
  <2>2. AgedCalls'
      BY <1>2, <2>1, AgedStep, AgedEndCall DEF ActLoad, DeLoad, CallPcs, disk
  <2> QED
      BY <1>2, <1>a, <2>2 DEF ActLoad, DeLoad, disk
<1>3. CASE ActItemsDone(c)
    BY <1>3, <1>a, AgedGoto DEF ActItemsDone, disk
<1>4. ASSUME NEW f \in Fonts, ItemInaccessible(c, f) \/ ItemInstalled(c, f)
      PROVE  AgedCalls' /\ AgedLists'
  <2>1. UNCHANGED <<store, cl, clock>> /\ ItemFailed(c, f)
      BY <1>4 DEF ItemInaccessible, ItemInstalled, disk
  <2>2. \A d \in Calls : AgedCall(call[d], clock')
      BY <2>1 DEF AgedCalls
  <2> QED
      BY <1>a, <2>1, <2>2, AgedItemFailed
<1>5. ASSUME NEW f \in Fonts, ItemCopied(c, f) \/ ItemCopyFailed(c, f)
      PROVE  AgedCalls' /\ AgedLists'
  <2>1. UNCHANGED <<store, cl>> /\ clock < MaxCopies /\ clock' = clock + 1
      BY <1>5 DEF ItemCopied, ItemCopyFailed
  <2>2. \A d \in Calls : AgedCall(call[d], clock')
      BY <2>1, AgedTick
  <2>3. AgedLists'
      BY <2>1, AgedTick DEF AgedLists, Aged
  <2>4. CASE ItemCopied(c, f)
    <3>1. PICK n \in NamesOf[f] : ItemDone(c, f, {[path |-> NewPath(f), reg |-> n]}, {})
        BY <2>4 DEF ItemCopied
    <3>2. Aged({[path |-> NewPath(f), reg |-> n]}, clock') /\ Aged({}, clock')
        BY <2>1, BoundsAssumption DEF Aged, NewPath, Types
    <3> QED
        BY <2>2, <2>3, <3>1, <3>2, AgedItem
  <2>5. CASE ItemCopyFailed(c, f)
      BY <2>2, <2>3, <2>5, AgedItemFailed DEF ItemCopyFailed
  <2> QED
      BY <1>5, <2>4, <2>5
<1>6. ASSUME NEW f \in Fonts, ItemExisting(c, f) PROVE AgedCalls' /\ AgedLists'
  <2>0. UNCHANGED <<store, cl, clock>>
      BY <1>6 DEF ItemExisting, disk
  <2>1. PICK r \in Existing(c, f) :
            IF Single(c)
            THEN \E n \in NamesOf[f] :
                   Step(c, [call[c] EXCEPT !.todo = {}, !.again = {[r EXCEPT !.reg = n]},
                              !.pc = IF n = r.reg THEN "readd" ELSE "migrateWrite"])
            ELSE ItemDone(c, f, {}, {r})
      BY <1>6 DEF ItemExisting
  <2>2. r \in call[c].snap /\ r \in Record /\ r.path.stamp <= clock
      BY <1>0 DEF Existing, OfFonts, CallState, AgedCall, Aged
  <2>3. CASE Single(c)
    <3>1. PICK n \in NamesOf[f] :
              Step(c, [call[c] EXCEPT !.todo = {}, !.again = {[r EXCEPT !.reg = n]},
                         !.pc = IF n = r.reg THEN "readd" ELSE "migrateWrite"])
        BY <2>1, <2>3
    <3>2. [r EXCEPT !.reg = n].path = r.path
        BY <2>2 DEF Record
    <3>3. AgedCall([call[c] EXCEPT !.todo = {}, !.again = {[r EXCEPT !.reg = n]},
                         !.pc = IF n = r.reg THEN "readd" ELSE "migrateWrite"], clock)
        BY <1>0, <2>2, <3>2 DEF AgedCall, Aged, CallState
    <3> QED
        BY <1>a, <2>0, <3>1, <3>3, AgedStep
  <2>4. CASE ~Single(c)
    <3>1. ItemDone(c, f, {}, {r})
        BY <2>1, <2>4
    <3>2. Aged({r}, clock') /\ Aged({}, clock') /\ \A d \in Calls : AgedCall(call[d], clock')
        BY <2>0, <2>2 DEF Aged, AgedCalls
    <3> QED
        BY <1>a, <2>0, <3>1, <3>2, AgedItem
  <2> QED
      BY <2>3, <2>4
<1> QED
    BY <1>1, <1>2, <1>3, <1>4, <1>5, <1>6

\* The other steps of a call save what they read and made before.
LEMMA CallAged ==
    ASSUME CInv, NEW c \in Calls, CallStep(c) PROVE AgedCalls' /\ AgedLists'
<1> USE DEF CInv, IInv
<1>0. call[c] \in CallState /\ AgedCall(call[c], clock)
    BY DEF Types, AgedCalls
<1>a. Aged(store', clock) /\ UNCHANGED <<cl, clock>> => AgedLists'
    BY DEF AgedLists, Aged
<1>1. CASE \/ MigrateWrite(c) \/ MigrateDelete(c) \/ ActReadd(c) \/ ActUndo(c)
           \/ DeRemove(c) \/ DeRegistry(c) \/ DeQueueSave(c)
  <2>1. UNCHANGED <<store, cl, clock>>
      BY <1>1 DEF MigrateWrite, MigrateDelete, ActReadd, ActUndo, DeRemove, DeRegistry,
         DeQueueSave
  <2>2. AgedCalls'
      BY <1>1, <2>1, AgedGoto, AgedEndCall DEF MigrateWrite, MigrateDelete, ActReadd, ActUndo,
         DeRemove, DeRegistry, DeQueueSave
  <2> QED
      BY <1>a, <2>1, <2>2 DEF AgedLists
<1>2. CASE MigrateSave(c)
  <2>1. Aged(store', clock) /\ UNCHANGED <<cl, clock>>
      BY <1>0, <1>2, MergedAged DEF MigrateSave, AgedCall
  <2> QED
      BY <1>2, <1>a, <2>1, AgedGoto DEF MigrateSave
<1>3. CASE ActRegistry(c)
  <2>1. AgedCall([call[c] EXCEPT !.prep = {}, !.pc = "readd"], clock)
      BY <1>0 DEF AgedCall, CallState, Aged
  <2>2. UNCHANGED <<store, cl, clock>>
      BY <1>3 DEF ActRegistry
  <2>3. AgedCalls'
      BY <1>3, <2>1, <2>2, AgedStep, AgedGoto, AgedEndCall DEF ActRegistry
  <2> QED
      BY <1>a, <2>2, <2>3 DEF AgedLists
<1>4. CASE ActAdd(c)
  <2> DEFINE next(bad) == [call[c] EXCEPT
                             !.pc = IF bad \cap call[c].prep = {} THEN "save" ELSE "undo",
                             !.again = @ \ bad, !.prep = @ \ bad,
                             !.undo = bad \cap call[c].prep]
  <2>1. PICK bad : EndCall(c) \/ Step(c, next(bad))
      BY <1>4 DEF ActAdd
  <2>2. AgedCall(next(bad), clock)
      BY <1>0 DEF AgedCall, CallState, Aged
  <2> HIDE DEF next
  <2>3. UNCHANGED <<store, cl, clock>>
      BY <1>4 DEF ActAdd
  <2>4. AgedCalls'
      BY <2>1, <2>2, <2>3, AgedStep, AgedEndCall
  <2> QED
      BY <1>a, <2>3, <2>4 DEF AgedLists
<1>5. CASE ActSave(c)
  <2>1. Aged(store', clock) /\ UNCHANGED <<cl, clock>>
      BY <1>0, <1>5, MergedAged DEF ActSave, AgedCall, AgedLists
  <2> QED
      BY <1>5, <1>a, <2>1, AgedEndCall DEF ActSave
<1>6. CASE DeQueueLoad(c)
  <2>1. AgedCall([call[c] EXCEPT !.book = pendingDel, !.pc = "queueSave"], clock)
      BY <1>0 DEF AgedCall, CallState
  <2>2. UNCHANGED <<store, cl, clock>>
      BY <1>6 DEF DeQueueLoad, disk
  <2> QED
      BY <1>6, <1>a, <2>1, <2>2, AgedStep DEF DeQueueLoad, AgedLists
<1>7. CASE DeSave(c)
  <2>1. Aged(store', clock) /\ UNCHANGED <<cl, clock>>
      BY <1>0, <1>7 DEF DeSave, AgedCall, Aged
  <2> QED
      BY <1>7, <1>a, <2>1, AgedEndCall DEF DeSave
<1> QED
    BY <1>1, <1>2, <1>3, <1>4, <1>5, <1>6, <1>7, ActivateAged DEF CallStep, Kinds

\* A call leaves the cleanup and the phase alone, and the only file it can add is
\* a copy of its own, newer than every record.
LEMMA CallFiles ==
    ASSUME Types, NEW c \in Calls, CallStep(c)
    PROVE  /\ UNCHANGED <<cl, phase>>
           /\ \A p \in files' : p \in files \/ p.stamp = clock + 1
           /\ phase = "running" \/ call[c] # NoCall
           /\ \A d \in Calls : d # c => call'[d] = call[d]
<1>1. \/ files' \subseteq files
      \/ \E f \in Fonts : files' \subseteq files \cup {NewPath(f)}
    BY DEF CallStep, StartActivate, StartDeactivate, ActLoad, ItemInaccessible, disk,
       ItemExisting, ItemInstalled, ItemCopied, ItemCopyFailed, ActItemsDone, MigrateWrite,
       MigrateDelete, MigrateSave, ActRegistry, ActReadd, ActAdd, ActUndo, ActSave, DeLoad,
       DeRemove, DeRegistry, DeQueueLoad, DeQueueSave, DeSave
<1>2. \A p \in files' : p \in files \/ p.stamp = clock + 1
    BY <1>1 DEF NewPath
<1>3. UNCHANGED <<cl, phase>>
    BY DEF CallStep, StartActivate, StartDeactivate, ActLoad, ItemInaccessible,
       ItemExisting, ItemInstalled, ItemCopied, ItemCopyFailed, ActItemsDone, MigrateWrite,
       MigrateDelete, MigrateSave, ActRegistry, ActReadd, ActAdd, ActUndo, ActSave, DeLoad,
       DeRemove, DeRegistry, DeQueueLoad, DeQueueSave, DeSave
<1>4. phase = "running" \/ call[c].pc # "idle"
    BY DEF CallStep, At, StartActivate, StartDeactivate, ActLoad, ItemInaccessible,
       ItemExisting, ItemInstalled, ItemCopied, ItemCopyFailed, ActItemsDone, MigrateWrite,
       MigrateDelete, MigrateSave, ActRegistry, ActReadd, ActAdd, ActUndo, ActSave, DeLoad,
       DeRemove, DeRegistry, DeQueueLoad, DeQueueSave, DeSave
<1>5. \E s : Step(c, s)
    BY DEF CallStep, Goto, EndCall, ItemDone, ItemFailed, StartActivate, StartDeactivate,
       ActLoad, ItemInaccessible,
       ItemExisting, ItemInstalled, ItemCopied, ItemCopyFailed, ActItemsDone, MigrateWrite,
       MigrateDelete, MigrateSave, ActRegistry, ActReadd, ActAdd, ActUndo, ActSave, DeLoad,
       DeRemove, DeRegistry, DeQueueLoad, DeQueueSave, DeSave
<1>6. \A d \in Calls : d # c => call'[d] = call[d]
    BY <1>5 DEF Step, Types
<1> QED
    BY <1>2, <1>3, <1>4, <1>6 DEF NoCall

LEMMA InitCInv == Init => CInv
<1> SUFFICES ASSUME Init PROVE CInv
    OBVIOUS
<1>1. AgedCalls
    BY NoCallAged DEF Init, AgedCalls
<1>2. AgedLists /\ CleanedSoFar /\ StartupAlone
    BY DEF Init, AgedLists, Aged, CleanedSoFar, StartupAlone, CleanFrom, CleanIdle
<1> QED
    BY <1>1, <1>2, InitIInv DEF CInv

\* A call cannot bring back the file of a record the cleanup has dealt with.
LEMMA CallCleaned ==
    ASSUME CInv, NEW c \in Calls, CallStep(c) PROVE CleanedSoFar' /\ StartupAlone'
<1> USE DEF CInv, IInv
<1>1. /\ UNCHANGED <<cl, phase>>
      /\ \A p \in files' : p \in files \/ p.stamp = clock + 1
      /\ phase = "running" \/ call[c] # NoCall
      /\ \A d \in Calls : d # c => call'[d] = call[d]
    BY CallFiles
<1>2. ASSUME NEW r \in cl.recs, r.path \in files' PROVE r.path \in files
  <2>1. r.path.stamp \in Nat /\ r.path.stamp <= clock /\ clock \in Nat
      BY BoundsAssumption DEF AgedLists, Aged, Types, CleanState, Record, Path
  <2> QED
      BY <1>1, <1>2, <2>1
<1>3. CleanedSoFar'
    BY <1>1, <1>2 DEF CleanedSoFar
<1>4. phase \in {"running", "quitting"}
    BY <1>1 DEF StartupAlone
<1> QED
    BY <1>1, <1>3, <1>4 DEF StartupAlone

\* The flush only deletes, and touches the cleanup when it waits.
LEMMA FlushCleaned == ASSUME CInv, FlushStep PROVE CInv'
<1> USE DEF CInv, IInv
<1>1. UNCHANGED <<call, store, clock, phase>> /\ files' \subseteq files
    BY DEF FlushStep, FlushFire, FlushLoad, FlushDelete, FlushSave, disk
<1>2. cl' = cl \/ (cl.pc = "await" /\ cl' = [cl EXCEPT !.pc = "decide"])
    BY DEF FlushStep, FlushFire, FlushLoad, FlushDelete, FlushSave, FlushEnds
<1>3. /\ cl'.recs = cl.recs /\ cl'.todo = cl.todo /\ cl'.left = cl.left
      /\ cl'.pc = cl.pc \/ (cl.pc = "await" /\ cl'.pc = "decide")
    BY <1>2 DEF Types, CleanState
<1>4. AgedCalls' /\ AgedLists'
    BY <1>1, <1>3 DEF AgedCalls, AgedLists
<1>5. CleanedSoFar'
    BY <1>1, <1>3 DEF CleanedSoFar
<1>6. StartupAlone'
    BY <1>1, <1>3 DEF StartupAlone
<1> QED
    BY <1>4, <1>5, <1>6, IInvStep DEF Next

LEMMA CleanCleaned ==
    ASSUME CInv, CleanStep PROVE AgedCalls' /\ AgedLists' /\ CleanedSoFar' /\ StartupAlone'
<1> USE DEF CInv, IInv, disk
<1>0. cl \in CleanState
    BY DEF Types
<1>1. CASE CleanLoad
  <2>1. /\ cl'.recs = store /\ cl'.todo = store /\ cl'.left = {}
        /\ cl'.pc = IF store = {} THEN "flush" ELSE "remove"
        /\ UNCHANGED <<files, store, clock, call, phase>> /\ cl.pc = "load"
      BY <1>0, <1>1 DEF CleanLoad, CleanState
  <2>2. AgedCalls' /\ AgedLists'
      BY <2>1 DEF AgedCalls, AgedLists
  <2> QED
      BY <2>1, <2>2 DEF CleanedSoFar, StartupAlone
<1>2. ASSUME (\E r \in Record : CleanUnload(r)) \/ CleanUnregister \/ CleanDelete
      PROVE  AgedCalls' /\ AgedLists' /\ CleanedSoFar' /\ StartupAlone'
  <2>1. /\ cl'.recs = cl.recs /\ cl'.todo = cl.todo /\ cl'.left = cl.left
        /\ cl.pc \in {"remove"} \cup Handling /\ cl'.pc \in Handling
        /\ UNCHANGED <<store, clock, call, phase>> /\ files' \subseteq files
      BY <1>0, <1>2 DEF CleanUnload, CleanUnregister, CleanDelete, CleanState
  <2>2. AgedCalls' /\ AgedLists'
      BY <2>1 DEF AgedCalls, AgedLists
  <2> QED
      BY <2>1, <2>2 DEF CleanedSoFar, StartupAlone
<1>3. CASE CleanVerify
  <2>1. /\ cl'.recs = cl.recs /\ cl'.todo = cl.todo \ {cl.cur}
        /\ cl'.left = IF RecordRemoved(cl.cur, cl.kept) THEN cl.left ELSE cl.left \cup {cl.cur}
        /\ cl'.pc = IF cl'.todo = {} THEN "save" ELSE "remove"
        /\ UNCHANGED <<files, store, clock, call, phase>> /\ cl.pc = "verify"
      BY <1>0, <1>3 DEF CleanVerify, CleanState
  <2>2. AgedCalls' /\ AgedLists'
      BY <2>1 DEF AgedCalls, AgedLists
  <2>3. cl.cur.path \in files => cl.cur \in cl'.left
      BY <2>1 DEF RecordRemoved, StillVisible
  <2>4. CleanedSoFar'
      BY <2>1, <2>3 DEF CleanedSoFar
  <2> QED
      BY <2>1, <2>2, <2>4 DEF StartupAlone
<1>4. CASE CleanSave
  <2>1. /\ cl'.recs = cl.recs /\ cl'.todo = cl.todo /\ cl'.left = cl.left
        /\ cl'.pc \in {"load", "flush"} /\ store' = cl.left
        /\ UNCHANGED <<files, clock, call, phase>> /\ cl.pc = "save"
      BY <1>0, <1>4 DEF CleanSave, CleanState
  <2>2. Aged(store', clock)
      BY <2>1, AgedSubset DEF AgedLists, UniqueClean
  <2>3. AgedCalls' /\ AgedLists'
      BY <2>1, <2>2 DEF AgedCalls, AgedLists
  <2> QED
      BY <2>1, <2>3 DEF CleanedSoFar, StartupAlone
<1>5. CASE CleanFlush
  <2>1. /\ cl'.recs = cl.recs /\ cl'.todo = cl.todo /\ cl'.left = cl.left
        /\ cl.pc = "flush" /\ cl'.pc = "await"
        /\ UNCHANGED <<files, store, clock, call, phase>>
      BY <1>0, <1>5 DEF CleanFlush, CleanState
  <2>2. AgedCalls' /\ AgedLists'
      BY <2>1 DEF AgedCalls, AgedLists
  <2> QED
      BY <2>1, <2>2 DEF CleanedSoFar, StartupAlone
<1>6. CASE CleanDecide
  <2>1. UNCHANGED <<files, store, clock>> /\ cl.pc = "decide"
      BY <1>6 DEF CleanDecide
  <2>2. CASE phase' = "running" /\ cl' = CleanIdle /\ (UNCHANGED call \/ QuitAborted)
    <3>1. AgedCalls'
      <4>1. \A c \in Calls : AgedCall([call[c] EXCEPT !.ui = FALSE], clock)
          BY DEF Types, AgedCalls, AgedCall, CallState
      <4> QED
          BY <2>1, <2>2, <4>1 DEF QuitAborted, AgedCalls
    <3>2. AgedLists'
        BY <2>1, <2>2 DEF AgedLists, Aged, CleanIdle
    <3> QED
        BY <2>2, <3>1, <3>2 DEF CleanedSoFar, StartupAlone, CleanIdle
  <2>3. CASE cl.left = {} /\ ProcessEnds("exited") /\ cl' = [cl EXCEPT !.pc = "idle"]
    <3>1. /\ cl'.recs = cl.recs /\ cl'.todo = cl.todo /\ cl'.left = {} /\ cl'.pc = "idle"
          /\ phase' = "exited"
        BY <1>0, <2>3 DEF CleanState, ProcessEnds
    <3>2. \A c \in Calls : call'[c] = NoCall
        BY <2>3 DEF ProcessEnds
    <3>3. AgedCalls'
        BY <2>1, <3>2, NoCallAged DEF AgedCalls
    <3>4. AgedLists'
        BY <2>1, <3>1 DEF AgedLists
    <3> QED
        BY <2>1, <2>3, <3>1, <3>2, <3>3, <3>4 DEF CleanedSoFar, StartupAlone
  <2> QED
      BY <1>6, <2>2, <2>3 DEF CleanDecide, QuitAborted
<1> QED
    BY <1>1, <1>2, <1>3, <1>4, <1>5, <1>6 DEF CleanStep

LEMMA CInvStep == CInv /\ [Next]_vars => CInv'
<1> SUFFICES ASSUME CInv, [Next]_vars PROVE CInv'
    OBVIOUS
<1>0. IInv'
    BY IInvStep DEF CInv
<1>1. ASSUME NEW c \in Calls, CallStep(c) PROVE CInv'
    BY <1>0, <1>1, CallAged, CallCleaned DEF CInv, IInv
<1>2. CASE FlushStep
    BY <1>2, FlushCleaned
<1>3. CASE CleanStep
    BY <1>0, <1>3, CleanCleaned DEF CInv, IInv
<1>4. CASE RequestQuit \/ Relaunch
  <2>1. UNCHANGED <<files, store, clock, call>> /\ cl' = CleanFrom(0)
      BY <1>4 DEF RequestQuit, Relaunch, disk
  <2>2. AgedCalls' /\ AgedLists'
      BY <2>1 DEF CInv, IInv, AgedCalls, AgedLists, Aged, CleanFrom, CleanIdle
  <2>3. CleanedSoFar' /\ StartupAlone'
      BY <1>4, <2>1 DEF CInv, IInv, RequestQuit, Relaunch, CleanedSoFar, StartupAlone, CleanFrom,
         CleanIdle
  <2> QED
      BY <1>0, <2>2, <2>3 DEF CInv, IInv
<1>5. CASE Crash
  <2>1. /\ store' \subseteq store /\ UNCHANGED clock /\ cl' = CleanIdle
        /\ phase' = "crashed" /\ \A c \in Calls : call'[c] = NoCall
      BY <1>5 DEF Crash, ProcessEnds
  <2>2. AgedCalls' /\ AgedLists'
      BY <2>1, NoCallAged DEF CInv, IInv, AgedCalls, AgedLists, Aged, CleanIdle
  <2> QED
      BY <1>0, <2>1, <2>2 DEF CInv, IInv, CleanedSoFar, StartupAlone, CleanIdle
<1>6. CASE Finished \/ UNCHANGED vars
  <2>1. UNCHANGED vars
      BY <1>6 DEF Finished
  <2> QED
      BY <1>0, <2>1 DEF vars, disk, CInv, AgedCalls, AgedLists, CleanedSoFar, StartupAlone
<1> QED
    BY <1>1, <1>2, <1>3, <1>4, <1>5, <1>6 DEF Next

\* Quit exits only once every record that its last pass read has lost its file,
\* whatever calls and flushes ran beside that pass: none can bring a file back.
THEOREM CleanupVerdictSafe == Spec => []CleanupVerdict
<1>1. Init => CInv
    BY InitCInv
<1>2. CInv /\ [Next]_vars => CInv'
    BY CInvStep
<1>3. CInv => CleanupVerdict
    BY DEF CInv, IInv, CleanedSoFar, CleanupVerdict
<1> QED
    BY <1>1, <1>2, <1>3, PTL DEF Spec

\* During start-up a record leaves the list only when its file is gone: the
\* cleanup writes back what it could not remove, and nothing else writes then.
THEOREM StartupKeeps == Spec => StartupKeepsRecords
<1> DEFINE Kept == phase = "startup" /\ phase' = "startup" =>
                       \A r \in store \ store' : r.path \notin files'
<1>1. Init => CInv
    BY InitCInv
<1>2. CInv /\ [Next]_vars => CInv'
    BY CInvStep
<1>3. CInv /\ [Next]_vars => [Kept]_vars
  <2> SUFFICES ASSUME CInv, Next, phase = "startup", phase' = "startup",
                      NEW r \in store \ store'
               PROVE  r.path \notin files'
      BY DEF Kept
  <2>1. ASSUME NEW c \in Calls, CallStep(c) PROVE FALSE
      BY <2>1, CallFiles DEF CInv, IInv, StartupAlone
  <2>2. CASE CleanSave
      BY <2>2 DEF CleanSave, CInv, CleanedSoFar, StartupAlone
  <2>3. CASE ~CleanSave
      BY <2>1, <2>3 DEF Next, FlushStep, FlushFire, FlushLoad, FlushDelete, FlushSave,
         CleanStep, CleanLoad, CleanUnload, CleanUnregister, CleanDelete, CleanVerify, CleanFlush,
         CleanDecide,
         RequestQuit, Crash, ProcessEnds, Relaunch, Finished, vars, disk
  <2> QED
      BY <2>2, <2>3
<1>4. StartupKeepsRecords <=> [][Kept]_vars
    BY DEF StartupKeepsRecords
<1> QED
    BY <1>1, <1>2, <1>3, <1>4, PTL DEF Spec


-----------------------------------------------------------------------------
(* What the window shows as active is there, when no two calls overlap and   *)
(* neither AddFontResource nor a deletion fails.  A path may be deleted that *)
(* the delete queue or a call has marked (Doomed): none that a list or a     *)
(* call's snapshot still has is among them, but for the fonts that are being *)
(* taken back (Doom).  While a call of the open window runs, the list is its *)
(* snapshot (InStep), so that what it writes back keeps the other fonts.     *)

\* One call is made at a time; AddFontResource and the deletion of a file do not fail.
Solo == \A c, d \in Calls : c = d
Sure == Faults \cap {"add", "delete"} = {}

\* The records a call may write back or show, and the paths somebody knows.
Own(s) == s.snap \cup s.prep \cup s.again
Known == PathsOf(store) \cup UNION {PathsOf(Own(call[c])) : c \in Calls}

\* The paths marked to be deleted, and the fonts whose records are about to go.
Doomed == pendingDel \cup flush.recs \cup UNION {call[c].book : c \in Calls}
Taken == UNION {call[c].fonts : c \in {d \in Calls : At(d, "deSave")}}

\* No record of R has its file.
Gone(R) == \A r \in R : r.path \notin files

Renaming == {"migrateWrite", "migrateDelete", "migrateSave"}
Making == {"item", "registry", "readd", "add", "undo", "save"} \cup Renaming
Taking == {"unload", "unregister", "queueLoad", "queueSave", "deSave"}

\* A call at each of its stages.
Shape(s) ==
    /\ s.pc = "idle" => s = NoCall
    /\ s.pc = "load" => s.snap = {} /\ s.prep = {} /\ s.again = {} /\ s.undo = {}
    /\ s.pc \in Making => s.kind \in {"activate", "activateBatch"}
    /\ s.pc \in Renaming => s.kind = "activate" /\ s.prep = {}
    /\ s.pc = "item" /\ s.kind = "activate" => s.prep = {} /\ s.again = {}
    /\ s.pc \in Taking => s.kind \in {"deactivate", "deactivateBatch"}
    /\ s.todo \subseteq s.fonts
    /\ \A r \in s.prep \cup s.again \cup s.undo : FontOf(r) \in s.fonts
    /\ OnePerFont(s.prep \cup s.again)
    /\ PathsOf(s.again) \subseteq PathsOf(s.snap)

Shapes == \A c \in Calls : Shape(call[c])

\* What the cleanup has been through has no file left: start-up ends with nothing there.
Removal ==
    /\ Gone(cl.left) /\ (cl.pc = "verify" => cl.cur.path \notin files)
    /\ flush.failed = {}
    /\ phase = "startup" /\ cl.pc \in {"flush", "await", "decide"} => Gone(store)
    /\ phase = "running" => cl.pc = "idle"

\* Once the session runs, nothing known that is there is marked, but for fonts taken back.
Doom ==
    /\ \A p \in Doomed : p.stamp <= clock
    /\ phase \in {"running", "quitting"} =>
        \A p \in Known \cap files : p.font \in Taken \/ p \notin Doomed

MergedIn(snap, R) == {r \in snap : FontOf(r) \notin {FontOf(q) : q \in R}} \cup R

\* A call s of the open window, against the list, the files, the GDI session and what
\* is shown: the list is its snapshot, or that with the renamed record.
InStep(s, st, fs, ld, sh) ==
    /\ s.pc # "load" =>
        \/ st = s.snap
        \/ /\ s.kind = "activate" /\ s.prep = {} /\ s.pc \in {"readd", "add", "save"}
           /\ st = MergedIn(s.snap, s.again)
    /\ s.kind # "activate" => \A f \in s.fonts : sh[f] = None
    /\ \A r \in s.prep \cup s.undo : sh[FontOf(r)] = None
    /\ s.pc \in {"undo", "save"} => \A r \in s.prep \cup s.again : r.path \in fs \cap ld
    /\ s.pc = "undo" => \A r \in s.undo : r.path \notin fs

\* A font that is shown; its GDI entry is missing only between "remove" and "add".
Shown(f) ==
    /\ shown[f].font = f /\ shown[f] \in files /\ shown[f] \in PathsOf(store)
    /\ \/ shown[f] \in loaded
       \/ \E c \in Calls : At(c, "add") /\ shown[f] \in PathsOf(call[c].again)

\* What is shown is there, and the call that shows it is in step with the list; a call
\* whose window is gone runs with nothing shown.
Window ==
    /\ phase \notin {"running", "quitting"} => shown = NothingShown
    /\ phase = "running" =>
        /\ \A f \in Fonts : shown[f] # None => Shown(f)
        /\ \A c \in Calls : call[c] # NoCall =>
             IF call[c].ui THEN InStep(call[c], store, files, loaded, shown)
             ELSE shown = NothingShown

RInv == CInv /\ Shapes /\ Removal /\ Doom /\ Window

LEMMA SoloState ==
    ASSUME Solo, NEW c \in Calls
    PROVE  /\ Known = PathsOf(store) \cup PathsOf(Own(call[c]))
           /\ Doomed = pendingDel \cup flush.recs \cup call[c].book
           /\ Taken = IF call[c].pc = "deSave" THEN call[c].fonts ELSE {}
<1>1. Calls = {c}
    BY DEF Solo
<1> QED
    BY <1>1 DEF Known, Doomed, Taken, At

LEMMA SoloNext ==
    ASSUME Solo, NEW c \in Calls
    PROVE  /\ Known' = PathsOf(store') \cup PathsOf(Own(call'[c]))
           /\ Doomed' = pendingDel' \cup flush'.recs \cup call'[c].book
           /\ Taken' = IF call'[c].pc = "deSave" THEN call'[c].fonts ELSE {}
<1>1. Calls = {c}
    BY DEF Solo
<1> QED
    BY <1>1 DEF Known, Doomed, Taken, At, PathsOf

LEMMA StepTo ==
    ASSUME Types, Solo, NEW c \in Calls, NEW s, Step(c, s)
    PROVE  call'[c] = s /\ \A d \in Calls : d = c
  BY DEF Types, Solo, Step

\* The stamps of what is known and doomed are numbers.
LEMMA Stamps ==
    ASSUME CInv, Solo, NEW c \in Calls
    PROVE  /\ clock \in Nat
           /\ Known \subseteq Path /\ Doomed \subseteq Path
           /\ \A p \in Path : p.stamp \in Nat
           /\ \A p \in Known : p.stamp <= clock
<1>1. clock \in Nat /\ \A p \in Path : p.stamp \in Nat
    BY BoundsAssumption DEF CInv, IInv, Types, Path
<1>2. call[c] \in CallState /\ AgedCall(call[c], clock) /\ Aged(store, clock)
    BY DEF CInv, IInv, Types, AgedCalls, AgedLists
<1>3. /\ Own(call[c]) \in SUBSET Record /\ store \in SUBSET Record
      /\ Aged(Own(call[c]), clock)
    BY <1>2 DEF CInv, IInv, Types, Own, CallState, AgedCall, Aged
<1>4. Known \subseteq Path /\ \A p \in Known : p.stamp <= clock
    BY <1>2, <1>3, SoloState, PathsOfRecords DEF PathsOf, Aged
<1>5. Doomed \subseteq Path
    BY <1>2, SoloState DEF CInv, IInv, Types, FlushState, CallState
<1> QED
    BY <1>1, <1>4, <1>5

LEMMA CallKeeps ==
    ASSUME Types, NEW c \in Calls, CallStep(c)
    PROVE  /\ UNCHANGED <<flush, cl, phase, session>>
           /\ clock' = clock \/ clock' = clock + 1
  BY DEF CallStep, StartActivate, StartDeactivate, ActLoad, ItemInaccessible, disk,
     ItemExisting, ItemInstalled, ItemCopied, ItemCopyFailed, ActItemsDone, MigrateWrite,
     MigrateDelete, MigrateSave, ActRegistry, ActReadd, ActAdd, ActUndo, ActSave, DeLoad,
     DeRemove, DeRegistry, DeQueueLoad, DeQueueSave, DeSave

\* A call cannot bring back what the cleanup has removed.
LEMMA CallRemoval ==
    ASSUME RInv, NEW c \in Calls, CallStep(c) PROVE Removal'
<1> USE DEF RInv, CInv, IInv
<1>1. /\ UNCHANGED <<cl, phase, flush>>
      /\ \A p \in files' : p \in files \/ p.stamp = clock + 1
      /\ phase \in {"running", "quitting"}
    BY CallFiles, CallKeeps DEF StartupAlone
<1>2. ASSUME NEW r \in cl.recs, r.path \in files' PROVE r.path \in files
  <2>1. r.path.stamp \in Nat /\ r.path.stamp <= clock /\ clock \in Nat
      BY BoundsAssumption DEF AgedLists, Aged, Types, CleanState, Record, Path
  <2> QED
      BY <1>1, <1>2, <2>1
<1>3. cl.left \subseteq cl.recs /\ (cl.pc \in Handling => cl.cur \in cl.recs)
    BY DEF UniqueClean
<1> QED
    BY <1>1, <1>2, <1>3 DEF Removal, Gone

\* A step of a call that marks nothing and takes up no path but one it has just made.
LEMMA CallDoom ==
    ASSUME RInv, Solo, NEW c \in Calls, CallStep(c), NEW s, Step(c, s),
           call[c].pc # "deSave", UNCHANGED pendingDel,
           s.book \subseteq pendingDel \cup call[c].book,
           \A p \in PathsOf(store') \cup PathsOf(Own(s)) :
               p \in PathsOf(store) \cup PathsOf(Own(call[c])) \/ p.stamp = clock + 1
    PROVE  Doom'
<1> USE DEF RInv, CInv, IInv
<1>1. /\ UNCHANGED <<flush, phase>> /\ (clock' = clock \/ clock' = clock + 1)
      /\ \A p \in files' : p \in files \/ p.stamp = clock + 1
      /\ phase \in {"running", "quitting"}
    BY CallFiles, CallKeeps DEF StartupAlone
<1>2. call'[c] = s
    BY StepTo
<1>3. Doomed' \subseteq Doomed /\ Taken = {}
    BY <1>1, <1>2, SoloState, SoloNext
<1>4. \A p \in Known' : p \in Known \/ p.stamp = clock + 1
    BY <1>2, SoloState, SoloNext
<1>5. /\ clock \in Nat /\ \A p \in Doomed : p.stamp \in Nat /\ p.stamp <= clock
      /\ \A p \in Known : p.stamp \in Nat /\ p.stamp <= clock
    BY Stamps DEF Doom
<1>6. \A p \in Doomed' : p.stamp <= clock'
    BY <1>1, <1>3, <1>5
<1>7. ASSUME NEW p \in Known' \cap files' PROVE p \notin Doomed'
  <2>1. CASE p.stamp = clock + 1
      BY <1>3, <1>5, <2>1
  <2>2. CASE p.stamp # clock + 1
      BY <1>1, <1>3, <1>4, <2>2 DEF Doom
  <2> QED
      BY <2>1, <2>2
<1> QED
    BY <1>6, <1>7 DEF Doom

\* What the window shows is not to be deleted.
LEMMA ShownStays ==
    ASSUME RInv, Solo, phase = "running", NEW f \in Fonts, shown[f] # None
    PROVE  shown[f] \in Known \cap files /\ shown[f] \notin Doomed
<1> USE DEF RInv, Doom
<1>1. Shown(f)
    BY DEF Window
<1>2. shown[f] \in Known \cap files
    BY <1>1 DEF Shown, Known
<1>3. ASSUME NEW c \in Calls, At(c, "deSave"), f \in call[c].fonts PROVE FALSE
  <2>0. Shape(call[c]) /\ call[c].pc = "deSave"
      BY <1>3 DEF At, Shapes
  <2>1. call[c] # NoCall /\ call[c].kind # "activate"
      BY <2>0 DEF NoCall, Shape, Taking
  <2>2. shown # NothingShown
      BY DEF NothingShown
  <2> QED
      BY <1>3, <2>1, <2>2 DEF Window, InStep
<1>4. f \notin Taken
    BY <1>3 DEF Taken
<1> QED
    BY <1>1, <1>2, <1>4 DEF Shown

\* A call whose window is gone shows nothing.
LEMMA Unseen ==
    ASSUME RInv, Solo, phase = "running", NEW c \in Calls, CallStep(c),
           call[c] # NoCall, ~call[c].ui, NEW s, Step(c, s), s = NoCall \/ ~s.ui,
           UNCHANGED shown
    PROVE  Window'
<1>1. UNCHANGED phase /\ call'[c] = s /\ \A d \in Calls : d = c
    BY CallKeeps, StepTo DEF RInv, CInv, IInv
<1>2. shown = NothingShown
    BY DEF RInv, Window
<1> QED
    BY <1>1, <1>2 DEF Window, NothingShown, NoCall

\* A call of the open window that has been made before.
LEMMA Seen ==
    ASSUME RInv, Solo, phase = "running", NEW c \in Calls, CallStep(c),
           call[c] # NoCall, call[c].ui, NEW s, Step(c, s), s = NoCall \/ s.ui,
           UNCHANGED shown,
           \A f \in Fonts : shown[f] # None =>
               /\ shown[f] \in files' /\ shown[f] \in PathsOf(store')
               /\ shown[f] \in loaded' \/ (s.pc = "add" /\ shown[f] \in PathsOf(s.again)),
           s # NoCall => InStep(s, store', files', loaded', shown)
    PROVE  Window'
<1>1. UNCHANGED phase /\ call'[c] = s /\ \A d \in Calls : d = c
    BY CallKeeps, StepTo DEF RInv, CInv, IInv
<1>2. ASSUME NEW f \in Fonts, shown'[f] # None PROVE Shown(f)'
  <2>1. shown[f].font = f
      BY <1>2 DEF RInv, Window, Shown
  <2> QED
      BY <1>1, <1>2, <2>1 DEF Shown, PathsOf, At
<1>3. ASSUME NEW d \in Calls, call'[d] # NoCall
      PROVE  call'[d].ui /\ InStep(call'[d], store', files', loaded', shown')
    BY <1>1, <1>3
<1> QED
    BY <1>1, <1>2, <1>3 DEF Window

\* Where a call of the open window stands.
LEMMA Facts ==
    ASSUME RInv, NEW c \in Calls
    PROVE  /\ call[c] \in CallState /\ Shape(call[c]) /\ Unique(call[c])
           /\ phase = "running" /\ call[c] # NoCall /\ call[c].ui =>
                /\ InStep(call[c], store, files, loaded, shown)
                /\ \A f \in Fonts : shown[f] # None =>
                     /\ shown[f].font = f /\ shown[f] \in files /\ shown[f] \in PathsOf(store)
BY DEF RInv, CInv, IInv, Types, UniqueCalls, Shapes, Window, Shown

\* No GDI entry is missing but at its one stage.
LEMMA LoadedFact ==
    ASSUME RInv, Solo, NEW c \in Calls, phase = "running", NEW f \in Fonts, shown[f] # None
    PROVE  \/ shown[f] \in loaded
           \/ call[c].pc = "add" /\ shown[f] \in PathsOf(call[c].again)
BY DEF RInv, Window, Shown, Solo, At

\* What every step of a call is shown to do.
Kept(c) == Shape(call'[c]) /\ Doom' /\ (phase = "running" => Window')

\* The steps that end a call early.
LEMMA Ended ==
    ASSUME RInv, Solo, NEW c \in Calls, CallStep(c), EndCall(c), call[c] # NoCall,
           call[c].pc \notin {"add", "deSave"},
           UNCHANGED <<pendingDel, store, shown>>, files \subseteq files', loaded \subseteq loaded'
    PROVE  Kept(c)
<1>1. Step(c, NoCall) /\ call'[c] = NoCall
    BY StepTo DEF EndCall, RInv, CInv, IInv
<1>2. Own(NoCall) = {} /\ NoCall.book = {} /\ ~NoCall.ui /\ Shape(NoCall)
    BY DEF Own, NoCall, Shape, Making, Renaming, Taking, OnePerFont, PathsOf
<1>3. Doom'
    BY <1>1, <1>2, CallDoom DEF PathsOf
<1>4. ASSUME phase = "running" PROVE Window'
  <2>1. CASE ~call[c].ui
      BY <1>1, <1>2, <1>4, <2>1, Unseen
  <2>2. CASE call[c].ui
    <3>1. \A f \in Fonts : shown[f] # None =>
              shown[f] \in files' /\ shown[f] \in PathsOf(store') /\ shown[f] \in loaded'
        BY <1>4, <2>2, Facts, LoadedFact
    <3> QED
        BY <1>1, <1>4, <2>2, <3>1, Seen
  <2> QED
      BY <2>1, <2>2
<1> QED
    BY <1>1, <1>2, <1>3, <1>4 DEF Kept

\* A step that goes on with the call, leaves the list and what is shown alone, and takes
\* up no path that nobody knew but one it has just made.
LEMMA GoesOn ==
    ASSUME RInv, Solo, NEW c \in Calls, CallStep(c), call[c] # NoCall, call[c].pc # "deSave",
           NEW s, Step(c, s), s # NoCall, s.ui = call[c].ui, Shape(s),
           UNCHANGED <<pendingDel, store, shown>>,
           s.book \subseteq pendingDel \cup call[c].book,
           \A p \in PathsOf(Own(s)) :
               p \in PathsOf(store) \cup PathsOf(Own(call[c])) \/ p.stamp = clock + 1,
           phase = "running" /\ call[c].ui =>
               /\ InStep(s, store, files', loaded', shown)
               /\ \A f \in Fonts : shown[f] # None =>
                    /\ shown[f] \in files'
                    /\ shown[f] \in loaded' \/ (s.pc = "add" /\ shown[f] \in PathsOf(s.again))
    PROVE  Kept(c)
<1>1. call'[c] = s
    BY StepTo DEF RInv, CInv, IInv
<1>2. Doom'
    BY CallDoom
<1>3. ASSUME phase = "running" PROVE Window'
  <2>1. CASE ~call[c].ui
      BY <1>3, <2>1, Unseen
  <2>2. CASE call[c].ui
    <3>1. \A f \in Fonts : shown[f] # None => shown[f] \in PathsOf(store')
        BY <1>3, <2>2, Facts
    <3> QED
        BY <1>3, <2>2, <3>1, Seen
  <2> QED
      BY <2>1, <2>2
<1> QED
    BY <1>1, <1>2, <1>3 DEF Kept

\* A call begins: nothing but fonts it does not show, or the one it shows.
LEMMA StartKept ==
    ASSUME RInv, Solo, NEW c \in Calls, CallStep(c), NEW F \in SUBSET Fonts, NEW k \in Kinds,
           \/ k \in {"activate", "activateBatch"} /\ StartActivate(c, k, F)
           \/ k \in {"deactivate", "deactivateBatch"} /\ StartDeactivate(c, k, F)
    PROVE  Kept(c)
<1>1. /\ call[c] = NoCall /\ phase = "running"
      /\ UNCHANGED <<files, loaded, store, pendingDel, phase>>
    BY Facts DEF StartActivate, StartDeactivate, At, Shape, disk
<1>2. PICK s \in {[NoCall EXCEPT !.kind = k, !.pc = "load", !.fonts = F, !.todo = F, !.ui = TRUE],
                  [NoCall EXCEPT !.kind = k, !.pc = "load", !.fonts = F, !.ui = TRUE]} :
          Step(c, s)
    BY DEF StartActivate, StartDeactivate
<1>3. /\ s.kind = k /\ s.pc = "load" /\ s.fonts = F /\ s.todo \subseteq F /\ s.ui = TRUE
      /\ s.snap = {} /\ s.prep = {} /\ s.again = {} /\ s.undo = {} /\ s.book = {}
    BY <1>2 DEF NoCall
<1>4. call'[c] = s /\ \A d \in Calls : d = c
    BY <1>2, StepTo DEF RInv, CInv, IInv
<1>5. Shape(s)
    BY <1>3 DEF Shape, Making, Renaming, Taking, OnePerFont, PathsOf
<1>6. Doom'
  <2>1. PathsOf(store') \cup PathsOf(Own(s)) = PathsOf(store)
      BY <1>1, <1>3 DEF Own, PathsOf
  <2> QED
      BY <1>1, <1>2, <1>3, <2>1, CallDoom DEF NoCall
<1>7. ASSUME NEW f \in Fonts
      PROVE  /\ shown'[f] \in {shown[f], None}
             /\ f \in F /\ k # "activate" => shown'[f] = None
    BY <1>7 DEF StartActivate, StartDeactivate, RInv, CInv, IInv, Types
<1>8. ASSUME NEW f \in Fonts, shown'[f] # None PROVE Shown(f)'
  <2>1. shown'[f] = shown[f] /\ shown[f] # None
      BY <1>7, <1>8
  <2>2. Shown(f) /\ shown[f] \in loaded
      BY <1>1, <2>1, LoadedFact DEF RInv, Window, NoCall
  <2> QED
      BY <1>1, <2>1, <2>2 DEF Shown, PathsOf
<1>9. InStep(s, store', files', loaded', shown')
    BY <1>3, <1>7 DEF InStep
<1>10. Window'
    BY <1>1, <1>3, <1>4, <1>8, <1>9 DEF Window
<1> QED
    BY <1>4, <1>5, <1>6, <1>10 DEF Kept

\* A snapshot of the list is taken.
LEMMA LoadKept ==
    ASSUME RInv, Solo, NEW c \in Calls, CallStep(c), ActLoad(c) \/ DeLoad(c)
    PROVE  Kept(c)
<1>1. /\ call[c] \in CallState /\ Shape(call[c]) /\ call[c].pc = "load" /\ call[c] # NoCall
      /\ UNCHANGED <<files, loaded, store, pendingDel, shown>>
    BY Facts DEF ActLoad, DeLoad, At, disk, NoCall
<1>2. CASE EndCall(c)
    BY <1>1, <1>2, Ended
<1>3. CASE ~EndCall(c)
  <2>1. PICK p \in {"item", "unload", "deSave"} :
            /\ Step(c, [call[c] EXCEPT !.snap = store, !.pc = p])
            /\ IF p = "item" THEN call[c].kind \in {"activate", "activateBatch"}
               ELSE call[c].kind \in {"deactivate", "deactivateBatch"}
      BY <1>3 DEF ActLoad, DeLoad
  <2> DEFINE s == [call[c] EXCEPT !.snap = store, !.pc = p]
  <2>2. /\ s.kind = call[c].kind /\ s.pc = p /\ s.fonts = call[c].fonts
        /\ s.todo = call[c].todo /\ s.ui = call[c].ui /\ s.snap = store
        /\ s.prep = {} /\ s.again = {} /\ s.undo = {} /\ s.book = call[c].book
      BY <1>1 DEF CallState, Shape
  <2>3. Step(c, s)
      BY <2>1
  <2> HIDE DEF s
  <2>4. Shape(s) /\ s # NoCall
      BY <1>1, <2>1, <2>2 DEF Shape, Making, Renaming, Taking, OnePerFont, PathsOf, NoCall
  <2>5. PathsOf(Own(s)) = PathsOf(store)
      BY <2>2 DEF Own, PathsOf
  <2>6. ASSUME phase = "running", call[c].ui
        PROVE  /\ InStep(s, store, files', loaded', shown)
               /\ \A f \in Fonts : shown[f] # None => shown[f] \in files' /\ shown[f] \in loaded'
    <3>1. InStep(call[c], store, files, loaded, shown)
        BY <1>1, <2>6, Facts
    <3>2. InStep(s, store, files', loaded', shown)
        BY <2>1, <2>2, <3>1 DEF InStep
    <3> QED
        BY <1>1, <2>6, <3>2, Facts, LoadedFact
  <2> QED
      BY <1>1, <2>2, <2>3, <2>4, <2>5, <2>6, GoesOn
<1> QED
    BY <1>2, <1>3

\* A record for a font still to be treated: a new copy, or one of the snapshot whose
\* file is there.
LEMMA ItemKept ==
    ASSUME RInv, Solo, NEW c \in Calls, CallStep(c), NEW f \in call[c].todo, f \in Fonts,
           call[c].pc = "item", NEW R \in SUBSET Record, NEW A \in SUBSET Record,
           ItemDone(c, f, R, A),
           UNCHANGED <<loaded, store, pendingDel, shown>>, files \subseteq files',
           R = {} \/ A = {}, OnePerFont(R \cup A), \A r \in R \cup A : FontOf(r) = f,
           R # {} => Existing(c, f) = {} /\ \A r \in R : r.path.stamp = clock + 1,
           A \subseteq call[c].snap, ~Single(c) \/ A = {}
    PROVE  Kept(c)
<1>1. /\ call[c] \in CallState /\ Shape(call[c]) /\ call[c] # NoCall
      /\ Unique(call[c])
    BY Facts DEF NoCall
<1> DEFINE s == [call[c] EXCEPT !.todo = @ \ {f}, !.prep = @ \cup R, !.again = @ \cup A,
                                !.pc = IF Single(c) THEN "registry" ELSE "item"]
<1>2. /\ s.kind = call[c].kind /\ s.pc \in {"registry", "item"} /\ s.fonts = call[c].fonts
      /\ s.todo = call[c].todo \ {f} /\ s.ui = call[c].ui /\ s.snap = call[c].snap
      /\ s.prep = call[c].prep \cup R /\ s.again = call[c].again \cup A
      /\ s.undo = call[c].undo /\ s.book = call[c].book
      /\ s.pc = "item" => s.kind # "activate"
    BY <1>1 DEF CallState, Single, Batch
<1>3. Step(c, s)
    BY DEF ItemDone
<1> HIDE DEF s
<1>4. OnePerFont(s.prep \cup s.again)
    BY <1>1, <1>2 DEF Unique, Shape, OnePerFont
<1>5. Shape(s) /\ s # NoCall
    BY <1>1, <1>2, <1>4 DEF Shape, Making, Renaming, Taking, PathsOf, NoCall
<1>6. \A p \in PathsOf(Own(s)) :
          p \in PathsOf(store) \cup PathsOf(Own(call[c])) \/ p.stamp = clock + 1
    BY <1>2 DEF Own, PathsOf
<1>7. ASSUME phase = "running", call[c].ui
      PROVE  /\ InStep(s, store, files', loaded', shown)
             /\ \A g \in Fonts : shown[g] # None => shown[g] \in files' /\ shown[g] \in loaded'
  <2>1. /\ InStep(call[c], store, files, loaded, shown)
        /\ \A g \in Fonts : shown[g] # None =>
             shown[g].font = g /\ shown[g] \in files /\ shown[g] \in PathsOf(store)
      BY <1>1, <1>7, Facts
  <2>2. store = call[c].snap
      BY <2>1 DEF InStep
  <2>3. R # {} => shown[f] = None
      BY <2>1, <2>2 DEF Existing, OfFonts, FontOf, PathsOf
  <2>4. InStep(s, store, files', loaded', shown)
      BY <1>2, <2>1, <2>2, <2>3 DEF InStep
  <2> QED
      BY <1>7, <2>1, <2>4, LoadedFact
<1> QED
    BY <1>1, <1>2, <1>3, <1>5, <1>6, <1>7, GoesOn

LEMMA FailedKept ==
    ASSUME RInv, Solo, NEW c \in Calls, CallStep(c), NEW f \in call[c].todo, f \in Fonts,
           call[c].pc = "item", ItemFailed(c, f),
           UNCHANGED <<loaded, store, pendingDel, shown>>, files \subseteq files'
    PROVE  Kept(c)
<1>1. CASE Single(c)
    BY <1>1, Ended DEF ItemFailed, NoCall
<1>2. CASE ~Single(c)
  <2>1. ItemDone(c, f, {}, {}) /\ OnePerFont({} \cup {})
      BY <1>2 DEF ItemFailed, OnePerFont
  <2> QED
      BY <1>2, <2>1, ItemKept
<1> QED
    BY <1>1, <1>2

LEMMA ItemsKept ==
    ASSUME RInv, Solo, NEW c \in Calls, CallStep(c),
           \/ ActItemsDone(c)
           \/ \E f \in Fonts : \/ ItemInaccessible(c, f) \/ ItemExisting(c, f)
                               \/ ItemInstalled(c, f) \/ ItemCopied(c, f)
                               \/ ItemCopyFailed(c, f)
    PROVE  Kept(c)
<1>0. call[c] \in CallState /\ Shape(call[c]) /\ Unique(call[c])
    BY Facts
<1>1. CASE ActItemsDone(c)
  <2> DEFINE s == [call[c] EXCEPT !.pc = "registry"]
  <2>1. /\ s.kind = call[c].kind /\ s.pc = "registry" /\ s.fonts = call[c].fonts
        /\ s.todo = call[c].todo /\ s.ui = call[c].ui /\ s.snap = call[c].snap
        /\ s.prep = call[c].prep /\ s.again = call[c].again
        /\ s.undo = call[c].undo /\ s.book = call[c].book
      BY <1>0 DEF CallState
  <2>2. /\ Step(c, s) /\ call[c].pc = "item" /\ call[c] # NoCall
        /\ UNCHANGED <<files, loaded, store, pendingDel, shown>>
      BY <1>1 DEF ActItemsDone, At, Goto, NoCall, disk
  <2> HIDE DEF s
  <2>3. Shape(s) /\ s # NoCall /\ Own(s) = Own(call[c])
      BY <1>0, <2>1, <2>2 DEF Shape, Making, Renaming, Taking, NoCall, Own
  <2>4. ASSUME phase = "running", call[c].ui
        PROVE  /\ InStep(s, store, files', loaded', shown)
               /\ \A g \in Fonts : shown[g] # None => shown[g] \in files' /\ shown[g] \in loaded'
    <3>1. InStep(call[c], store, files, loaded, shown)
        BY <2>2, <2>4, Facts
    <3>2. InStep(s, store, files', loaded', shown)
        BY <2>1, <2>2, <3>1 DEF InStep
    <3> QED
        BY <2>2, <2>4, <3>2, Facts, LoadedFact
  <2> QED
      BY <2>1, <2>2, <2>3, <2>4, GoesOn
<1>2. ASSUME NEW f \in Fonts, ItemInaccessible(c, f) \/ ItemInstalled(c, f) PROVE Kept(c)
  <2>1. /\ f \in call[c].todo /\ call[c].pc = "item" /\ ItemFailed(c, f)
        /\ UNCHANGED <<files, loaded, store, pendingDel, shown>>
      BY <1>2 DEF ItemInaccessible, ItemInstalled, At, disk
  <2> QED
      BY <2>1, FailedKept
<1>3. ASSUME NEW f \in Fonts, ItemCopyFailed(c, f) PROVE Kept(c)
  <2>1. /\ f \in call[c].todo /\ call[c].pc = "item" /\ ItemFailed(c, f)
        /\ UNCHANGED <<loaded, store, pendingDel, shown>> /\ files \subseteq files'
      BY <1>3 DEF ItemCopyFailed, At
  <2> QED
      BY <2>1, FailedKept
<1>4. ASSUME NEW f \in Fonts, ItemCopied(c, f) PROVE Kept(c)
  <2>1. PICK n \in NamesOf[f] : ItemDone(c, f, {[path |-> NewPath(f), reg |-> n]}, {})
      BY <1>4 DEF ItemCopied
  <2> DEFINE R == {[path |-> NewPath(f), reg |-> n]}
  <2>2. R \in SUBSET Record /\ {} \in SUBSET Record
      BY <1>4, NewPathIsPath, NamesAssumption DEF ItemCopied, Record, RInv, CInv, IInv, Types
  <2>3. /\ f \in call[c].todo /\ call[c].pc = "item" /\ Existing(c, f) = {}
        /\ UNCHANGED <<loaded, store, pendingDel, shown>> /\ files \subseteq files'
      BY <1>4 DEF ItemCopied, At
  <2>4. /\ OnePerFont(R \cup {}) /\ \A r \in R \cup {} : FontOf(r) = f
        /\ \A r \in R : r.path.stamp = clock + 1
      BY DEF OnePerFont, FontOf, NewPath
  <2>5. ItemDone(c, f, R, {})
      BY <2>1
  <2> HIDE DEF R
  <2> QED
      BY <2>2, <2>3, <2>4, <2>5, ItemKept
<1>5. ASSUME NEW f \in Fonts, ItemExisting(c, f) PROVE Kept(c)
  <2>0. f \in call[c].todo /\ call[c].pc = "item" /\ UNCHANGED <<disk, shown>>
      BY <1>5 DEF ItemExisting, At
  <2>1. /\ f \in call[c].todo /\ call[c].pc = "item" /\ call[c] # NoCall
        /\ UNCHANGED <<files, loaded, store, pendingDel, shown>>
      BY <2>0 DEF NoCall, disk
  <2>2. PICK r \in Existing(c, f) :
            IF Single(c)
            THEN \E n \in NamesOf[f] :
                   Step(c, [call[c] EXCEPT !.todo = {}, !.again = {[r EXCEPT !.reg = n]},
                              !.pc = IF n = r.reg THEN "readd" ELSE "migrateWrite"])
            ELSE ItemDone(c, f, {}, {r})
      BY <1>5 DEF ItemExisting
  <2>3. r \in call[c].snap /\ r \in Record /\ FontOf(r) = f
      BY <1>0 DEF Existing, OfFonts, CallState
  <2>4. CASE ~Single(c)
    <3>1. /\ ItemDone(c, f, {}, {r}) /\ {r} \in SUBSET Record /\ {} \in SUBSET Record
          /\ OnePerFont({} \cup {r}) /\ \A q \in {} \cup {r} : FontOf(q) = f
        BY <2>2, <2>3, <2>4 DEF OnePerFont
    <3> QED
        BY <2>1, <2>3, <2>4, <3>1, ItemKept
  <2>5. CASE Single(c)
    <3>1. PICK n \in NamesOf[f] :
              Step(c, [call[c] EXCEPT !.todo = {}, !.again = {[r EXCEPT !.reg = n]},
                         !.pc = IF n = r.reg THEN "readd" ELSE "migrateWrite"])
        BY <2>2, <2>5
    <3> DEFINE q == [r EXCEPT !.reg = n]
               s == [call[c] EXCEPT !.todo = {}, !.again = {q},
                         !.pc = IF n = r.reg THEN "readd" ELSE "migrateWrite"]
    <3>2. q.path = r.path /\ FontOf(q) = f
        BY <2>3 DEF Record, FontOf
    <3>3. /\ s.kind = call[c].kind /\ s.pc \in {"readd", "migrateWrite"}
          /\ s.fonts = call[c].fonts /\ s.todo = {} /\ s.ui = call[c].ui
          /\ s.snap = call[c].snap /\ s.prep = call[c].prep /\ s.again = {q}
          /\ s.undo = call[c].undo /\ s.book = call[c].book
        BY <1>0 DEF CallState
    <3>4. Step(c, s)
        BY <3>1
    <3> HIDE DEF q, s
    <3>5. call[c].kind = "activate" /\ call[c].prep = {}
        BY <1>0, <2>1, <2>5 DEF Shape, Making, Single, Batch
    <3>6. Shape(s) /\ s # NoCall
        BY <1>0, <2>1, <2>3, <3>2, <3>3, <3>5
        DEF Shape, Making, Renaming, Taking, NoCall, OnePerFont, PathsOf
    <3>7. PathsOf(Own(s)) \subseteq PathsOf(Own(call[c]))
        BY <2>3, <3>2, <3>3 DEF Own, PathsOf
    <3>8. ASSUME phase = "running", call[c].ui
          PROVE  /\ InStep(s, store, files', loaded', shown)
                 /\ \A g \in Fonts : shown[g] # None => shown[g] \in files' /\ shown[g] \in loaded'
      <4>1. InStep(call[c], store, files, loaded, shown)
          BY <2>1, <3>8, Facts
      <4>2. InStep(s, store, files', loaded', shown)
          BY <2>1, <3>3, <3>5, <4>1 DEF InStep
      <4> QED
          BY <2>1, <3>8, <4>2, Facts, LoadedFact
    <3> QED
        BY <2>1, <3>3, <3>4, <3>6, <3>7, <3>8, GoesOn
  <2> QED
      BY <2>4, <2>5
<1> QED
    BY <1>1, <1>2, <1>3, <1>4, <1>5

LEMMA Fields ==
    ASSUME NEW s \in CallState, NEW p
    PROVE  LET t == [s EXCEPT !.pc = p]
           IN  /\ t.kind = s.kind /\ t.pc = p /\ t.fonts = s.fonts /\ t.todo = s.todo
               /\ t.ui = s.ui /\ t.snap = s.snap /\ t.prep = s.prep /\ t.again = s.again
               /\ t.undo = s.undo /\ t.book = s.book /\ Own(t) = Own(s)
BY DEF CallState, Own

\* A step that only goes on to another stage and changes the system's side.
LEMMA StageKept ==
    ASSUME RInv, Solo, NEW c \in Calls, CallStep(c), call[c] # NoCall, call[c].pc # "deSave",
           NEW p, Goto(c, p), p # "idle", Shape([call[c] EXCEPT !.pc = p]),
           UNCHANGED <<pendingDel, store, shown>>,
           phase = "running" /\ call[c].ui =>
               /\ InStep([call[c] EXCEPT !.pc = p], store, files', loaded', shown)
               /\ \A f \in Fonts : shown[f] # None =>
                    /\ shown[f] \in files'
                    /\ shown[f] \in loaded' \/ (p = "add" /\ shown[f] \in PathsOf(call[c].again))
    PROVE  Kept(c)
<1> DEFINE s == [call[c] EXCEPT !.pc = p]
<1>1. /\ s.pc = p /\ s.ui = call[c].ui /\ s.book = call[c].book
      /\ s.again = call[c].again /\ Own(s) = Own(call[c])
    BY Facts, Fields
<1>2. Step(c, s) /\ Shape(s)
    BY DEF Goto
<1>3. phase = "running" /\ call[c].ui => InStep(s, store, files', loaded', shown)
    OBVIOUS
<1> HIDE DEF s
<1>4. s # NoCall
    BY <1>1 DEF NoCall
<1> QED
    BY <1>1, <1>2, <1>3, <1>4, GoesOn

\* The registry value of a font is renamed, and its record with it.
LEMMA RenameKept ==
    ASSUME RInv, Solo, NEW c \in Calls, CallStep(c), MigrateWrite(c) \/ MigrateDelete(c)
    PROVE  Kept(c)
<1>1. /\ call[c] \in CallState /\ Shape(call[c]) /\ call[c].pc \in {"migrateWrite", "migrateDelete"}
      /\ UNCHANGED <<files, loaded, store, pendingDel, shown>>
    BY Facts DEF MigrateWrite, MigrateDelete, At
<1>2. call[c] # NoCall
    BY <1>1 DEF NoCall
<1>3. CASE EndCall(c)
    BY <1>1, <1>2, <1>3, Ended
<1>4. CASE ~EndCall(c)
  <2>1. PICK p \in {"migrateDelete", "migrateSave"} : Goto(c, p)
      BY <1>4 DEF MigrateWrite, MigrateDelete
  <2> DEFINE s == [call[c] EXCEPT !.pc = p]
  <2>2. Shape(s)
      BY <1>1, Fields DEF Shape, Making, Renaming, Taking
  <2>3. ASSUME phase = "running", call[c].ui
        PROVE  /\ InStep(s, store, files', loaded', shown)
               /\ \A g \in Fonts : shown[g] # None => shown[g] \in files' /\ shown[g] \in loaded'
    <3>1. InStep(call[c], store, files, loaded, shown)
        BY <1>2, <2>3, Facts
    <3>2. InStep(s, store, files', loaded', shown)
        BY <1>1, <3>1, Fields DEF InStep
    <3> QED
        BY <1>1, <1>2, <2>3, <3>2, Facts, LoadedFact
  <2> QED
      BY <1>1, <1>2, <2>1, <2>2, <2>3, StageKept
<1> QED
    BY <1>3, <1>4

LEMMA MergedPaths ==
    ASSUME NEW c, NEW R
    PROVE  /\ Merged(c, R) = MergedIn(call[c].snap, R)
           /\ PathsOf(Merged(c, R)) \subseteq PathsOf(call[c].snap) \cup PathsOf(R)
BY DEF Merged, MergedIn, PathsOf

LEMMA RenamedKept ==
    ASSUME RInv, Solo, NEW c \in Calls, CallStep(c), MigrateSave(c)
    PROVE  Kept(c)
<1>1. /\ call[c] \in CallState /\ Shape(call[c]) /\ Unique(call[c])
      /\ call[c].pc = "migrateSave" /\ call[c] # NoCall
      /\ UNCHANGED <<files, loaded, pendingDel, shown>>
    BY Facts DEF MigrateSave, At, NoCall
<1>2. call[c].kind = "activate" /\ call[c].prep = {}
    BY <1>1 DEF Shape, Renaming
<1> DEFINE s == [call[c] EXCEPT !.pc = "readd"]
<1>3. Step(c, s) /\ store' = Merged(c, call[c].again)
    BY DEF MigrateSave, Goto
<1>4. Shape(s)
  <2>1. /\ s.kind = call[c].kind /\ s.pc = "readd" /\ s.fonts = call[c].fonts
        /\ s.todo = call[c].todo /\ s.snap = call[c].snap /\ s.prep = call[c].prep
        /\ s.again = call[c].again /\ s.undo = call[c].undo
      BY <1>1, Fields
  <2> HIDE DEF s
  <2> QED
      BY <1>1, <1>2, <2>1 DEF Shape, Making, Renaming, Taking
<1>5. s.pc = "readd" /\ s.ui = call[c].ui /\ s.book = call[c].book
    BY <1>1, Fields
<1>6. PathsOf(store') \cup PathsOf(Own(s)) \subseteq PathsOf(store) \cup PathsOf(Own(call[c]))
  <2>1. PathsOf(call[c].snap) \cup PathsOf(call[c].again) \subseteq PathsOf(Own(call[c]))
      BY DEF Own, PathsOf
  <2>2. Own(s) = Own(call[c])
      BY <1>1, Fields
  <2> QED
      BY <1>3, <2>1, <2>2, MergedPaths
<1>7. Doom'
    BY <1>1, <1>3, <1>5, <1>6, CallDoom
<1>8. ASSUME phase = "running" PROVE Window'
  <2>1. CASE ~call[c].ui
      BY <1>1, <1>3, <1>5, <1>8, <2>1, Unseen
  <2>2. CASE call[c].ui
    <3>1. /\ InStep(call[c], store, files, loaded, shown)
          /\ \A f \in Fonts : shown[f] # None =>
               /\ shown[f].font = f /\ shown[f] \in files /\ shown[f] \in PathsOf(store)
        BY <1>1, <1>8, <2>2, Facts
    <3>2. store = call[c].snap
        BY <1>1, <3>1 DEF InStep
    <3>3. InStep(s, store', files', loaded', shown)
        BY <1>1, <1>2, <1>3, <3>1, Fields, MergedPaths DEF InStep
    <3>4. ASSUME NEW f \in Fonts, shown[f] # None PROVE shown[f] \in PathsOf(store')
      <4>1. PICK r \in call[c].snap : r.path = shown[f] /\ FontOf(r) = f
          BY <3>1, <3>2, <3>4 DEF PathsOf, FontOf
      <4>2. CASE \E q \in call[c].again : FontOf(q) = f
        <5>1. PICK q \in call[c].again : FontOf(q) = f
            BY <4>2
        <5>2. PICK t \in call[c].snap : t.path = q.path
            BY <1>1, <5>1 DEF Shape, PathsOf
        <5>3. t = r
            BY <1>1, <4>1, <5>1, <5>2 DEF Unique, OnePerFont, FontOf
        <5> QED
            BY <1>3, <4>1, <5>1, <5>2, <5>3 DEF Merged, PathsOf
      <4>3. CASE ~\E q \in call[c].again : FontOf(q) = f
          BY <1>3, <4>1, <4>3 DEF Merged, PathsOf
      <4> QED
          BY <4>2, <4>3
    <3>5. \A f \in Fonts : shown[f] # None =>
              shown[f] \in files' /\ shown[f] \in PathsOf(store') /\ shown[f] \in loaded'
        BY <1>1, <1>8, <3>1, <3>4, LoadedFact
    <3> HIDE DEF s
    <3> QED
        BY <1>1, <1>3, <1>5, <1>8, <2>2, <3>3, <3>5, Seen
  <2> QED
      BY <2>1, <2>2
<1> QED
    BY <1>1, <1>3, <1>4, <1>7, <1>8, StepTo DEF Kept, RInv, CInv, IInv

\* Nothing shown is among what a call has prepared or must undo.
LEMMA NotPrepared ==
    ASSUME RInv, NEW c \in Calls, phase = "running", call[c] # NoCall, call[c].ui,
           NEW f \in Fonts, shown[f] # None
    PROVE  shown[f] \notin PathsOf(call[c].prep) \cup PathsOf(call[c].undo)
<1>1. InStep(call[c], store, files, loaded, shown) /\ shown[f].font = f
    BY Facts
<1> QED
    BY <1>1 DEF InStep, PathsOf, FontOf

\* The values of the prepared records; when that fails, a batch takes its copies away.
LEMMA RegistryKept ==
    ASSUME RInv, Solo, Sure, NEW c \in Calls, CallStep(c), ActRegistry(c)
    PROVE  Kept(c)
<1>1. /\ call[c] \in CallState /\ Shape(call[c]) /\ call[c].pc = "registry" /\ call[c] # NoCall
      /\ UNCHANGED <<loaded, store, pendingDel, shown>>
    BY Facts DEF ActRegistry, At, NoCall
<1>2. CASE EndCall(c) /\ UNCHANGED files
    BY <1>1, <1>2, Ended
<1>3. CASE UNCHANGED files /\ \E p \in {"add", "readd"} : Goto(c, p)
  <2>1. PICK p \in {"add", "readd"} : Goto(c, p)
      BY <1>3
  <2> DEFINE s == [call[c] EXCEPT !.pc = p]
  <2>2. Shape(s)
      BY <1>1, Fields DEF Shape, Making, Renaming, Taking
  <2>3. ASSUME phase = "running", call[c].ui
        PROVE  /\ InStep(s, store, files', loaded', shown)
               /\ \A g \in Fonts : shown[g] # None => shown[g] \in files' /\ shown[g] \in loaded'
    <3>1. InStep(call[c], store, files, loaded, shown)
        BY <1>1, <2>3, Facts
    <3>2. InStep(s, store, files', loaded', shown)
        BY <1>1, <3>1, Fields DEF InStep
    <3> QED
        BY <1>1, <1>3, <2>3, <3>2, Facts, LoadedFact
  <2> QED
      BY <1>1, <2>1, <2>2, <2>3, StageKept
<1>4. CASE /\ files' = files \ PathsOf(call[c].prep) /\ Batch(c)
           /\ Step(c, [call[c] EXCEPT !.prep = {}, !.pc = "readd"])
  <2> DEFINE s == [call[c] EXCEPT !.prep = {}, !.pc = "readd"]
  <2>1. /\ s.kind = call[c].kind /\ s.pc = "readd" /\ s.fonts = call[c].fonts
        /\ s.todo = call[c].todo /\ s.ui = call[c].ui /\ s.snap = call[c].snap
        /\ s.prep = {} /\ s.again = call[c].again
        /\ s.undo = call[c].undo /\ s.book = call[c].book
      BY <1>1 DEF CallState
  <2>2. Step(c, s)
      BY <1>4
  <2> HIDE DEF s
  <2>3. Shape(s) /\ s # NoCall
      BY <1>1, <2>1 DEF Shape, Making, Renaming, Taking, NoCall, OnePerFont
  <2>4. PathsOf(Own(s)) \subseteq PathsOf(Own(call[c]))
      BY <2>1 DEF Own, PathsOf
  <2>5. ASSUME phase = "running", call[c].ui
        PROVE  /\ InStep(s, store, files', loaded', shown)
               /\ \A g \in Fonts : shown[g] # None => shown[g] \in files' /\ shown[g] \in loaded'
    <3>1. InStep(call[c], store, files, loaded, shown)
        BY <1>1, <2>5, Facts
    <3>2. InStep(s, store, files', loaded', shown)
        BY <1>1, <2>1, <3>1 DEF InStep
    <3> QED
        BY <1>1, <1>4, <2>5, <3>2, Facts, LoadedFact, NotPrepared
  <2> QED
      BY <1>1, <2>1, <2>2, <2>3, <2>4, <2>5, GoesOn
<1>5. \/ EndCall(c) /\ UNCHANGED files
      \/ UNCHANGED files /\ \E p \in {"add", "readd"} : Goto(c, p)
      \/ /\ files' = files \ PathsOf(call[c].prep) /\ Batch(c)
         /\ Step(c, [call[c] EXCEPT !.prep = {}, !.pc = "readd"])
  <2>1. Undone("delete", PathsOf(call[c].prep)) = {{}}
      BY DEF Undone, Sure
  <2> QED
      BY <2>1 DEF ActRegistry, Single
<1> QED
    BY <1>2, <1>3, <1>4, <1>5

\* Remove before add: the one stage at which a shown font may be missing in GDI.
LEMMA ReaddKept ==
    ASSUME RInv, Solo, NEW c \in Calls, CallStep(c), ActReadd(c)
    PROVE  Kept(c)
<1>1. /\ call[c] \in CallState /\ Shape(call[c]) /\ call[c].pc = "readd" /\ call[c] # NoCall
      /\ UNCHANGED <<files, store, pendingDel, shown>> /\ Goto(c, "add")
      /\ loaded \ PathsOf(call[c].again) \subseteq loaded'
    BY Facts DEF ActReadd, At, NoCall
<1> DEFINE s == [call[c] EXCEPT !.pc = "add"]
<1>2. Shape(s)
    BY <1>1, Fields DEF Shape, Making, Renaming, Taking
<1>3. ASSUME phase = "running", call[c].ui PROVE InStep(s, store, files', loaded', shown)
  <2>1. InStep(call[c], store, files, loaded, shown)
      BY <1>1, <1>3, Facts
  <2> QED
      BY <1>1, <2>1, Fields DEF InStep
<1>4. ASSUME phase = "running", call[c].ui, NEW f \in Fonts, shown[f] # None
      PROVE  /\ shown[f] \in files'
             /\ shown[f] \in loaded' \/ shown[f] \in PathsOf(call[c].again)
  <2>1. shown[f] \in loaded /\ shown[f] \in files
      BY <1>1, <1>4, Facts, LoadedFact
  <2> QED
      BY <1>1, <2>1
<1> QED
    BY <1>1, <1>2, <1>3, <1>4, StageKept

\* What is to be added is there, or is left out of what the call goes on with.
LEMMA AddKept ==
    ASSUME RInv, Solo, Sure, NEW c \in Calls, CallStep(c), ActAdd(c)
    PROVE  Kept(c)
<1>1. /\ call[c] \in CallState /\ Shape(call[c]) /\ call[c].pc = "add" /\ call[c] # NoCall
      /\ UNCHANGED <<files, store, pendingDel, shown>>
    BY Facts DEF ActAdd, At, NoCall
<1> DEFINE all == call[c].prep \cup call[c].again
           bad == {r \in all : r.path \notin files}
           s == [call[c] EXCEPT !.pc = IF bad \cap call[c].prep = {} THEN "save" ELSE "undo",
                                !.again = @ \ bad, !.prep = @ \ bad,
                                !.undo = bad \cap call[c].prep]
<1>2. /\ loaded' = loaded \cup PathsOf(all \ bad)
      /\ IF Single(c) /\ bad # {} THEN EndCall(c) ELSE Step(c, s)
  <2>1. Undone("add", all \ bad) = {{}}
      BY DEF Undone, Sure
  <2> QED
      BY <2>1 DEF ActAdd
<1>3. /\ s.kind = call[c].kind /\ s.pc \in {"save", "undo"} /\ s.fonts = call[c].fonts
      /\ s.todo = call[c].todo /\ s.ui = call[c].ui /\ s.snap = call[c].snap
      /\ s.prep = call[c].prep \ bad /\ s.again = call[c].again \ bad
      /\ s.undo = bad \cap call[c].prep /\ s.book = call[c].book
      /\ (s.undo = {} => s.pc = "save")
    BY <1>1 DEF CallState
<1>4. bad \subseteq all /\ \A r \in all : r \in bad <=> r.path \notin files
    OBVIOUS
<1>5. all = call[c].prep \cup call[c].again
    OBVIOUS
<1> HIDE DEF all, bad, s
<1>6. ASSUME phase = "running", NEW f \in Fonts, shown[f] # None
      PROVE  shown[f] \in files' /\ shown[f] \in PathsOf(store') /\ shown[f] \in loaded'
  <2>1. shown[f] \in files /\ shown[f] \in PathsOf(store)
      BY <1>6 DEF RInv, Window, Shown
  <2>2. shown[f] \in loaded \/ shown[f] \in PathsOf(call[c].again)
      BY <1>6, LoadedFact
  <2> QED
      BY <1>1, <1>2, <1>4, <1>5, <2>1, <2>2 DEF PathsOf
<1>7. CASE EndCall(c)
  <2>1. Step(c, NoCall) /\ call'[c] = NoCall
      BY <1>7, StepTo DEF EndCall, RInv, CInv, IInv
  <2>2. Own(NoCall) = {} /\ NoCall.book = {} /\ Shape(NoCall)
      BY DEF Own, NoCall, Shape, Making, Renaming, Taking, OnePerFont, PathsOf
  <2>3. Doom'
      BY <1>1, <2>1, <2>2, CallDoom DEF PathsOf
  <2>4. ASSUME phase = "running" PROVE Window'
      BY <1>1, <1>6, <2>1, <2>4, Unseen, Seen
  <2> QED
      BY <2>1, <2>2, <2>3, <2>4 DEF Kept
<1>8. CASE Step(c, s) /\ ~(Single(c) /\ bad # {})
  <2>1. Shape(s) /\ s # NoCall
      BY <1>1, <1>3 DEF Shape, Making, Renaming, Taking, NoCall, OnePerFont, PathsOf
  <2>2. PathsOf(Own(s)) \subseteq PathsOf(Own(call[c]))
      BY <1>3 DEF Own, PathsOf
  <2>3. ASSUME phase = "running", call[c].ui PROVE InStep(s, store, files', loaded', shown)
    <3>1. InStep(call[c], store, files, loaded, shown)
        BY <1>1, <2>3, Facts
    <3>2. \/ store = s.snap
          \/ /\ s.kind = "activate" /\ s.prep = {} /\ s.pc = "save"
             /\ store = MergedIn(s.snap, s.again)
      <4>1. CASE store = call[c].snap
          BY <1>3, <4>1
      <4>2. CASE store # call[c].snap
        <5>1. /\ call[c].kind = "activate" /\ call[c].prep = {}
              /\ store = MergedIn(call[c].snap, call[c].again)
            BY <1>1, <3>1, <4>2 DEF InStep
        <5>2. bad = {}
            BY <1>8, <5>1 DEF Single, Batch
        <5> QED
            BY <1>3, <5>1, <5>2
      <4> QED
          BY <4>1, <4>2
    <3>3. \A r \in s.prep \cup s.again : r.path \in files' \cap loaded'
        BY <1>1, <1>2, <1>3, <1>4, <1>5 DEF PathsOf
    <3>4. \A r \in s.undo : r.path \notin files'
        BY <1>1, <1>3, <1>4
    <3>5. \A r \in s.prep \cup s.undo : shown[FontOf(r)] = None
        BY <1>3, <3>1 DEF InStep
    <3> QED
        BY <1>3, <3>1, <3>2, <3>3, <3>4, <3>5 DEF InStep
  <2> QED
      BY <1>1, <1>3, <1>6, <1>8, <2>1, <2>2, <2>3, GoesOn
<1> QED
    BY <1>2, <1>7, <1>8

\* The copies that could not be added are not there: taking them back deletes nothing.
LEMMA UndoKept ==
    ASSUME RInv, Solo, Sure, NEW c \in Calls, CallStep(c), ActUndo(c)
    PROVE  Kept(c)
<1>1. /\ call[c] \in CallState /\ Shape(call[c]) /\ call[c].pc = "undo" /\ call[c] # NoCall
      /\ UNCHANGED <<loaded, store, pendingDel, shown>> /\ Goto(c, "save")
    BY Facts DEF ActUndo, At, NoCall
<1>2. files' = files \ PathsOf(call[c].undo)
  <2>1. Undone("delete", PathsOf(call[c].undo)) = {{}}
      BY DEF Undone, Sure
  <2> QED
      BY <2>1 DEF ActUndo
<1> DEFINE s == [call[c] EXCEPT !.pc = "save"]
<1>3. Shape(s)
    BY <1>1, Fields DEF Shape, Making, Renaming, Taking
<1>4. ASSUME phase = "running", call[c].ui
      PROVE  /\ InStep(s, store, files', loaded', shown)
             /\ \A f \in Fonts : shown[f] # None => shown[f] \in files' /\ shown[f] \in loaded'
  <2>1. InStep(call[c], store, files, loaded, shown)
      BY <1>1, <1>4, Facts
  <2>2. files' = files
      BY <1>1, <1>2, <2>1 DEF InStep, PathsOf
  <2>3. InStep(s, store, files', loaded', shown)
      BY <1>1, <2>1, <2>2, Fields DEF InStep
  <2> QED
      BY <1>1, <1>4, <2>2, <2>3, Facts, LoadedFact
<1> QED
    BY <1>1, <1>3, <1>4, StageKept

\* The end of an activation: the list it writes still has every font that is shown, and
\* what it newly shows is there.
LEMMA SaveKept ==
    ASSUME RInv, Solo, NEW c \in Calls, CallStep(c), ActSave(c)
    PROVE  Kept(c)
<1>1. /\ call[c] \in CallState /\ Shape(call[c]) /\ call[c].pc = "save" /\ call[c] # NoCall
      /\ UNCHANGED <<files, loaded, pendingDel>> /\ Step(c, NoCall)
      /\ store' = IF call[c].prep = {} THEN store ELSE Merged(c, call[c].prep)
    BY Facts DEF ActSave, At, EndCall, NoCall
<1>2. call'[c] = NoCall /\ \A d \in Calls : d = c
    BY <1>1, StepTo DEF RInv, CInv, IInv
<1>3. Shape(NoCall) /\ PathsOf(Own(NoCall)) = {} /\ NoCall.book = {}
    BY DEF Own, NoCall, Shape, Making, Renaming, Taking, OnePerFont, PathsOf
<1>4. Doom'
  <2>1. PathsOf(store') \subseteq PathsOf(store) \cup PathsOf(Own(call[c]))
    <3>1. PathsOf(call[c].snap) \cup PathsOf(call[c].prep) \subseteq PathsOf(Own(call[c]))
        BY DEF Own, PathsOf
    <3> QED
        BY <1>1, <3>1, MergedPaths
  <2> QED
      BY <1>1, <1>3, <2>1, CallDoom
<1> DEFINE done == call[c].prep \cup call[c].again
<1>5. ASSUME phase = "running", ~call[c].ui PROVE Window'
  <2>1. shown = NothingShown
      BY <1>1, <1>5 DEF RInv, Window
  <2>2. shown' = NothingShown
      BY <1>5, <2>1 DEF ActSave, Show, NothingShown
  <2>3. UNCHANGED phase
      BY CallKeeps DEF RInv, CInv, IInv
  <2> QED
      BY <1>2, <1>5, <2>2, <2>3 DEF Window, NothingShown
<1>6. ASSUME phase = "running", call[c].ui PROVE Window'
  <2>1. /\ InStep(call[c], store, files, loaded, shown)
        /\ \A f \in Fonts : shown[f] # None =>
             /\ shown[f].font = f /\ shown[f] \in files /\ shown[f] \in PathsOf(store)
             /\ shown[f] \in loaded
      BY <1>1, <1>6, Facts, LoadedFact
  <2>2. call[c].prep # {} => store = call[c].snap
      BY <1>1, <2>1 DEF InStep
  <2>3. ASSUME NEW f \in Fonts, NEW r \in done, FontOf(r) = f
        PROVE  /\ shown'[f] = r.path /\ r.path.font = f
               /\ r.path \in files' /\ r.path \in loaded' /\ r.path \in PathsOf(store')
    <3>1. \A q \in done : FontOf(q) = f => q = r
        BY <1>1, <2>3 DEF Shape, OnePerFont
    <3>2. shown'[f] = r.path
      <4>1. (CHOOSE q \in done : FontOf(q) = f) = r
          BY <2>3, <3>1
      <4> QED
          BY <1>6, <2>3, <4>1 DEF ActSave, Show
    <3>3. r.path \in files' /\ r.path \in loaded'
        BY <1>1, <2>1, <2>3 DEF InStep
    <3>4. CASE r \in call[c].prep
        BY <1>1, <2>3, <3>2, <3>3, <3>4 DEF Merged, PathsOf, FontOf
    <3>5. CASE r \in call[c].again
      <4>1. PICK q \in call[c].snap : q.path = r.path
          BY <1>1, <3>5 DEF Shape, PathsOf
      <4>2. CASE call[c].prep = {}
        <5>1. CASE store = call[c].snap
            BY <1>1, <2>3, <3>2, <3>3, <4>1, <4>2, <5>1 DEF PathsOf, FontOf
        <5>2. CASE store = MergedIn(call[c].snap, call[c].again)
            BY <1>1, <2>3, <3>2, <3>3, <3>5, <4>2, <5>2 DEF PathsOf, FontOf, MergedIn
        <5> QED
            BY <1>1, <2>1, <5>1, <5>2 DEF InStep
      <4>3. CASE call[c].prep # {}
        <5>1. ASSUME NEW t \in call[c].prep, FontOf(t) = FontOf(q) PROVE t = r
            BY <2>3, <3>1, <4>1, <5>1 DEF FontOf
        <5>2. CASE r \in call[c].prep
            BY <3>4, <5>2
        <5>3. CASE r \notin call[c].prep
          <6>1. q \in Merged(c, call[c].prep)
              BY <4>1, <5>1, <5>3 DEF Merged
          <6> QED
              BY <1>1, <2>3, <3>2, <3>3, <4>1, <4>3, <6>1 DEF PathsOf, FontOf
        <5> QED
            BY <5>2, <5>3
      <4> QED
          BY <4>2, <4>3
    <3> QED
        BY <2>3, <3>4, <3>5
  <2>4. ASSUME NEW f \in Fonts, ~\E r \in done : FontOf(r) = f, shown'[f] # None
        PROVE  /\ shown'[f].font = f /\ shown'[f] \in files' /\ shown'[f] \in loaded'
               /\ shown'[f] \in PathsOf(store')
    <3>1. shown'[f] = shown[f]
        BY <2>4 DEF ActSave, Show
    <3>2. shown[f] \in PathsOf(store')
      <4>1. CASE call[c].prep = {}
          BY <1>1, <2>1, <2>4, <3>1, <4>1
      <4>2. CASE call[c].prep # {}
        <5>1. PICK q \in call[c].snap : q.path = shown[f]
            BY <2>1, <2>2, <2>4, <3>1, <4>2 DEF PathsOf
        <5>2. FontOf(q) = f
            BY <2>1, <2>4, <3>1, <5>1 DEF FontOf
        <5>3. q \in Merged(c, call[c].prep)
            BY <2>4, <5>2 DEF Merged
        <5> QED
            BY <1>1, <4>2, <5>1, <5>3 DEF PathsOf
      <4> QED
          BY <4>1, <4>2
    <3> QED
        BY <1>1, <2>1, <2>4, <3>1, <3>2
  <2>5. ASSUME NEW f \in Fonts, shown'[f] # None PROVE Shown(f)'
    <3>1. /\ shown'[f].font = f /\ shown'[f] \in files' /\ shown'[f] \in loaded'
          /\ shown'[f] \in PathsOf(store')
        BY <2>3, <2>4, <2>5
    <3> QED
        BY <3>1 DEF Shown, PathsOf
  <2>6. phase' = "running"
      BY <1>6, CallKeeps DEF RInv, CInv, IInv
  <2> HIDE DEF done
  <2> QED
      BY <1>2, <2>5, <2>6 DEF Window
<1> QED
    BY <1>2, <1>3, <1>4, <1>5, <1>6 DEF Kept

\* A deactivation takes back the fonts of its window that are no longer shown.
LEMMA TakeBackKept ==
    ASSUME RInv, Solo, NEW c \in Calls, CallStep(c), DeRemove(c) \/ DeRegistry(c)
    PROVE  Kept(c)
<1>1. /\ call[c] \in CallState /\ Shape(call[c]) /\ call[c].pc \in {"unload", "unregister"}
      /\ UNCHANGED <<files, store, pendingDel, shown>>
      /\ loaded \ PathsOf(Targets(c)) \subseteq loaded'
    BY Facts DEF DeRemove, DeRegistry, At
<1>2. call[c] # NoCall /\ call[c].kind # "activate"
    BY <1>1 DEF NoCall, Shape, Taking
<1>3. PICK p \in {"unregister", "queueLoad"} : Goto(c, p)
    BY DEF DeRemove, DeRegistry
<1> DEFINE s == [call[c] EXCEPT !.pc = p]
<1>4. Shape(s)
    BY <1>1, Fields DEF Shape, Making, Renaming, Taking
<1>5. ASSUME phase = "running", call[c].ui
      PROVE  /\ InStep(s, store, files', loaded', shown)
             /\ \A f \in Fonts : shown[f] # None => shown[f] \in files' /\ shown[f] \in loaded'
  <2>1. /\ InStep(call[c], store, files, loaded, shown)
        /\ \A f \in Fonts : shown[f] # None =>
             shown[f].font = f /\ shown[f] \in files /\ shown[f] \in loaded
      BY <1>1, <1>2, <1>5, Facts, LoadedFact
  <2>2. InStep(s, store, files', loaded', shown)
      BY <1>1, <2>1, Fields DEF InStep
  <2>3. \A f \in Fonts : shown[f] # None => shown[f] \notin PathsOf(Targets(c))
      BY <1>2, <2>1 DEF InStep, Targets, OfFonts, PathsOf, FontOf
  <2> QED
      BY <1>1, <2>1, <2>2, <2>3
<1> QED
    BY <1>1, <1>2, <1>3, <1>4, <1>5, StageKept

\* The delete queue is read, to be written back with more.
LEMMA QueueReadKept ==
    ASSUME RInv, Solo, NEW c \in Calls, CallStep(c), DeQueueLoad(c)
    PROVE  Kept(c)
<1>1. /\ call[c] \in CallState /\ Shape(call[c]) /\ call[c].pc = "queueLoad" /\ call[c] # NoCall
      /\ UNCHANGED <<files, loaded, store, pendingDel, shown>>
    BY Facts DEF DeQueueLoad, At, disk, NoCall
<1> DEFINE s == [call[c] EXCEPT !.book = pendingDel, !.pc = "queueSave"]
<1>2. /\ s.kind = call[c].kind /\ s.pc = "queueSave" /\ s.fonts = call[c].fonts
      /\ s.todo = call[c].todo /\ s.ui = call[c].ui /\ s.snap = call[c].snap
      /\ s.prep = call[c].prep /\ s.again = call[c].again
      /\ s.undo = call[c].undo /\ s.book = pendingDel
    BY <1>1 DEF CallState
<1>3. Step(c, s)
    BY DEF DeQueueLoad
<1> HIDE DEF s
<1>4. Shape(s) /\ s # NoCall /\ Own(s) = Own(call[c])
    BY <1>1, <1>2 DEF Shape, Making, Renaming, Taking, NoCall, Own
<1>5. ASSUME phase = "running", call[c].ui
      PROVE  /\ InStep(s, store, files', loaded', shown)
             /\ \A g \in Fonts : shown[g] # None => shown[g] \in files' /\ shown[g] \in loaded'
  <2>1. InStep(call[c], store, files, loaded, shown)
      BY <1>1, <1>5, Facts
  <2>2. InStep(s, store, files', loaded', shown)
      BY <1>1, <1>2, <2>1 DEF InStep
  <2> QED
      BY <1>1, <1>5, <2>2, Facts, LoadedFact
<1> QED
    BY <1>1, <1>2, <1>3, <1>4, <1>5, GoesOn

\* The paths of the fonts that are taken back are marked to be deleted.
LEMMA QueueKept ==
    ASSUME RInv, Solo, NEW c \in Calls, CallStep(c), DeQueueSave(c)
    PROVE  Kept(c)
<1>1. /\ call[c] \in CallState /\ Shape(call[c]) /\ call[c].pc = "queueSave" /\ call[c] # NoCall
      /\ UNCHANGED <<files, loaded, store, clock, shown>> /\ Goto(c, "deSave")
      /\ pendingDel' = call[c].book \cup PathsOf(Targets(c))
    BY Facts DEF DeQueueSave, At, NoCall
<1>2. UNCHANGED <<flush, phase>> /\ phase \in {"running", "quitting"}
    BY CallKeeps, CallFiles DEF RInv, CInv, IInv, StartupAlone
<1> DEFINE s == [call[c] EXCEPT !.pc = "deSave"]
<1>3. /\ s.pc = "deSave" /\ s.ui = call[c].ui /\ s.book = call[c].book
      /\ s.fonts = call[c].fonts /\ Own(s) = Own(call[c])
    BY <1>1, Fields
<1>4. call'[c] = s /\ Step(c, s)
    BY <1>1, StepTo DEF Goto, RInv, CInv, IInv
<1>5. Shape(s)
    BY <1>1, Fields DEF Shape, Making, Renaming, Taking
<1>6. InStep(call[c], store, files, loaded, shown) => InStep(s, store', files', loaded', shown)
    BY <1>1, Fields DEF InStep
<1> HIDE DEF s
<1>7. Targets(c) \subseteq Own(call[c]) /\ \A p \in PathsOf(Targets(c)) : p.font \in call[c].fonts
    BY DEF Targets, OfFonts, FontOf, Own, PathsOf
<1>8. PathsOf(Targets(c)) \subseteq Known
    BY <1>7, SoloState DEF PathsOf
<1>9. /\ Doomed' \subseteq Doomed \cup PathsOf(Targets(c)) /\ Known' = Known
      /\ Taken = {} /\ Taken' = call[c].fonts
    BY <1>1, <1>2, <1>3, <1>4, SoloState, SoloNext
<1>10. Doom'
  <2>1. \A p \in Known : p.stamp <= clock
      BY Stamps DEF RInv
  <2> QED
      BY <1>1, <1>2, <1>7, <1>8, <1>9, <2>1 DEF RInv, Doom
<1>11. ASSUME phase = "running" PROVE Window'
  <2>1. CASE ~call[c].ui
      BY <1>1, <1>3, <1>4, <1>11, <2>1, Unseen
  <2>2. CASE call[c].ui
    <3>1. /\ InStep(s, store', files', loaded', shown)
          /\ \A g \in Fonts : shown[g] # None =>
               shown[g] \in files' /\ shown[g] \in PathsOf(store') /\ shown[g] \in loaded'
        BY <1>1, <1>6, <1>11, <2>2, Facts, LoadedFact
    <3> QED
        BY <1>1, <1>3, <1>4, <1>11, <2>2, <3>1, Seen
  <2> QED
      BY <2>1, <2>2
<1> QED
    BY <1>4, <1>5, <1>10, <1>11 DEF Kept

\* The end of a deactivation: its fonts, which are not shown, leave the list, and
\* nothing that is marked is known any more.
LEMMA TakenKept ==
    ASSUME RInv, Solo, NEW c \in Calls, CallStep(c), DeSave(c)
    PROVE  Kept(c)
<1>1. /\ call[c] \in CallState /\ Shape(call[c]) /\ call[c].pc = "deSave" /\ call[c] # NoCall
      /\ UNCHANGED <<files, loaded, pendingDel, clock, shown>> /\ Step(c, NoCall)
      /\ store' = call[c].snap \ Targets(c)
    BY Facts DEF DeSave, At, EndCall, NoCall
<1>2. UNCHANGED <<flush, phase>> /\ phase \in {"running", "quitting"}
    BY CallKeeps, CallFiles DEF RInv, CInv, IInv, StartupAlone
<1>3. call'[c] = NoCall
    BY <1>1, StepTo DEF RInv, CInv, IInv
<1>4. Shape(NoCall) /\ PathsOf(Own(NoCall)) = {} /\ NoCall.book = {} /\ NoCall.pc = "idle"
    BY DEF Own, NoCall, Shape, Making, Renaming, Taking, OnePerFont, PathsOf
<1>5. Doom'
  <2>1. Doomed' \subseteq Doomed /\ Known' = PathsOf(store') /\ Taken = call[c].fonts
      BY <1>1, <1>2, <1>3, <1>4, SoloState, SoloNext
  <2>2. \A p \in PathsOf(store') : p \in PathsOf(Own(call[c])) /\ p.font \notin call[c].fonts
      BY <1>1 DEF Targets, OfFonts, FontOf, PathsOf, Own
  <2>3. PathsOf(store') \subseteq Known
      BY <2>2, SoloState
  <2> QED
      BY <1>1, <1>2, <2>1, <2>2, <2>3 DEF RInv, Doom
<1>6. ASSUME phase = "running" PROVE Window'
  <2>1. CASE ~call[c].ui
      BY <1>1, <1>6, <2>1, Unseen
  <2>2. CASE call[c].ui
    <3>1. /\ InStep(call[c], store, files, loaded, shown)
          /\ \A f \in Fonts : shown[f] # None =>
               /\ shown[f].font = f /\ shown[f] \in files /\ shown[f] \in PathsOf(store)
               /\ shown[f] \in loaded
        BY <1>1, <1>6, <2>2, Facts, LoadedFact
    <3>2. store = call[c].snap /\ call[c].kind # "activate"
        BY <1>1, <3>1 DEF InStep, Shape, Taking
    <3>3. ASSUME NEW f \in Fonts, shown[f] # None PROVE shown[f] \in PathsOf(store')
      <4>1. PICK r \in call[c].snap : r.path = shown[f]
          BY <3>1, <3>2, <3>3 DEF PathsOf
      <4>2. r \notin Targets(c)
          BY <3>1, <3>2, <3>3, <4>1 DEF InStep, Targets, OfFonts, FontOf
      <4> QED
          BY <1>1, <4>1, <4>2 DEF PathsOf
    <3> QED
        BY <1>1, <1>6, <2>2, <3>1, <3>3, Seen
  <2> QED
      BY <2>1, <2>2
<1> QED
    BY <1>3, <1>4, <1>5, <1>6 DEF Kept

\* Every step of a call keeps what it has to keep.
LEMMA CallReal ==
    ASSUME RInv, Solo, Sure, NEW c \in Calls, CallStep(c)
    PROVE  Shapes' /\ Removal' /\ Doom' /\ Window'
<1>1. Kept(c)
  <2>1. CASE \E F \in SUBSET Fonts :
                 \/ StartActivate(c, "activate", F) \/ StartActivate(c, "activateBatch", F)
                 \/ StartDeactivate(c, "deactivate", F) \/ StartDeactivate(c, "deactivateBatch", F)
    <3>1. PICK F \in SUBSET Fonts :
              \/ StartActivate(c, "activate", F) \/ StartActivate(c, "activateBatch", F)
              \/ StartDeactivate(c, "deactivate", F) \/ StartDeactivate(c, "deactivateBatch", F)
        BY <2>1
    <3>2. /\ "activate" \in Kinds /\ "activateBatch" \in Kinds
          /\ "deactivate" \in Kinds /\ "deactivateBatch" \in Kinds
        BY DEF Kinds
    <3> QED
        BY <3>1, <3>2, StartKept
  <2>2. CASE \/ ActLoad(c) \/ DeLoad(c) \/ ActItemsDone(c)
             \/ \E f \in Fonts : \/ ItemInaccessible(c, f) \/ ItemExisting(c, f)
                                 \/ ItemInstalled(c, f) \/ ItemCopied(c, f)
                                 \/ ItemCopyFailed(c, f)
      BY <2>2, LoadKept, ItemsKept
  <2>3. CASE \/ MigrateWrite(c) \/ MigrateDelete(c) \/ MigrateSave(c) \/ ActRegistry(c)
             \/ ActReadd(c) \/ ActAdd(c) \/ ActUndo(c) \/ ActSave(c)
      BY <2>3, RenameKept, RenamedKept, RegistryKept, ReaddKept, AddKept, UndoKept, SaveKept
  <2>4. CASE DeRemove(c) \/ DeRegistry(c) \/ DeQueueLoad(c) \/ DeQueueSave(c) \/ DeSave(c)
      BY <2>4, TakeBackKept, QueueReadKept, QueueKept, TakenKept
  <2> QED
      BY <2>1, <2>2, <2>3, <2>4 DEF CallStep
<1>2. Removal'
    BY CallRemoval
<1>3. Shapes'
    BY <1>1 DEF Kept, Shapes, Solo
<1>4. Window'
  <2>1. UNCHANGED phase /\ phase \in {"running", "quitting"}
      BY CallKeeps, CallFiles DEF RInv, CInv, IInv, StartupAlone
  <2> QED
      BY <1>1, <2>1 DEF Kept, Window
<1> QED
    BY <1>1, <1>2, <1>3, <1>4 DEF Kept

\* The flush deletes what is marked: none of that is known to a running session.
LEMMA FlushReal ==
    ASSUME RInv, Solo, Sure, FlushStep
    PROVE  Shapes' /\ Removal' /\ Doom' /\ Window'
<1> USE DEF RInv, CInv, IInv
<1>0. flush \in FlushState /\ flush.failed = {} /\ cl \in CleanState
    BY DEF Removal, Types
<1>1. /\ UNCHANGED <<call, store, loaded, clock, shown, phase>> /\ files' \subseteq files
      /\ files \ Doomed \subseteq files' /\ Doomed' \subseteq Doomed /\ flush'.failed = {}
  <2>1. CASE FlushFire \/ FlushLoad
    <3>1. /\ UNCHANGED <<files, pendingDel, call, store, loaded, clock, shown, phase>>
          /\ flush' \in {flush, Idle, [Idle EXCEPT !.pc = "load"],
                        [Idle EXCEPT !.pc = "delete", !.recs = pendingDel]}
        BY <2>1 DEF FlushFire, FlushLoad, FlushEnds, disk
    <3>2. ASSUME NEW s \in {Idle, [Idle EXCEPT !.pc = "load"],
                            [Idle EXCEPT !.pc = "delete", !.recs = pendingDel]}
          PROVE  s.failed = {} /\ s.recs \subseteq pendingDel
      <4>1. CASE s = Idle \/ s = [Idle EXCEPT !.pc = "load"]
          BY <4>1 DEF Idle
      <4>2. CASE s = [Idle EXCEPT !.pc = "delete", !.recs = pendingDel]
          BY <4>2 DEF Idle
      <4> QED
          BY <4>1, <4>2
    <3>3. flush'.failed = {} /\ flush'.recs \subseteq flush.recs \cup pendingDel
        BY <1>0, <3>1, <3>2
    <3> QED
        BY <3>1, <3>3 DEF Doomed
  <2>2. CASE FlushDelete
    <3>1. Undone("delete", flush.recs) = {{}}
        BY DEF Undone, Sure
    <3>2. files' = files \ flush.recs /\ flush'.recs = flush.recs /\ flush'.failed = {}
        BY <1>0, <2>2, <3>1 DEF FlushDelete, FlushState
    <3>3. UNCHANGED <<call, store, loaded, clock, shown, phase, pendingDel>>
        BY <2>2 DEF FlushDelete
    <3> QED
        BY <3>2, <3>3 DEF Doomed
  <2>3. CASE FlushSave
      BY <1>0, <2>3 DEF FlushSave, FlushEnds, Idle, Doomed
  <2> QED
      BY <2>1, <2>2, <2>3 DEF FlushStep
<1>2. /\ cl'.left = cl.left /\ cl'.cur = cl.cur
      /\ cl'.pc = cl.pc \/ (cl.pc = "await" /\ cl'.pc = "decide")
    BY <1>0 DEF FlushStep, FlushFire, FlushLoad, FlushDelete, FlushSave, FlushEnds, CleanState
<1>3. Shapes'
    BY <1>1 DEF Shapes
<1>4. Removal'
    BY <1>1, <1>2 DEF Removal, Gone
<1>5. Doom'
  <2>1. Known' = Known /\ Taken' = Taken
      BY <1>1 DEF Known, Taken, At
  <2> QED
      BY <1>1, <2>1 DEF Doom
<1>6. ASSUME phase = "running" PROVE Window'
  <2>1. ASSUME NEW f \in Fonts, shown'[f] # None PROVE Shown(f)'
    <3>1. Shown(f) /\ shown[f] \in files'
        BY <1>1, <1>6, <2>1, ShownStays DEF Window
    <3> QED
        BY <1>1, <3>1 DEF Shown, At
  <2>2. ASSUME NEW c \in Calls, call[c] # NoCall, call[c].ui
        PROVE  InStep(call[c], store, files', loaded, shown)
    <3>1. InStep(call[c], store, files, loaded, shown)
        BY <1>6, <2>2 DEF Window
    <3>2. ASSUME call[c].pc \in {"undo", "save"}, NEW r \in call[c].prep \cup call[c].again
          PROVE  r.path \in files'
      <4>1. r.path \in files
          BY <3>1, <3>2 DEF InStep
      <4>2. r.path \in Known /\ Taken = {}
          BY <3>2, SoloState DEF Own, PathsOf
      <4> QED
          BY <1>1, <1>6, <4>1, <4>2 DEF Doom
    <3> QED
        BY <1>1, <3>1, <3>2 DEF InStep
  <2>3. ASSUME NEW c \in Calls, call'[c] # NoCall
        PROVE  IF call'[c].ui THEN InStep(call'[c], store', files', loaded', shown')
               ELSE shown' = NothingShown
      BY <1>1, <1>6, <2>2, <2>3 DEF Window
  <2> QED
      BY <1>1, <1>6, <2>1, <2>3 DEF Window
<1>7. Window'
    BY <1>1, <1>6 DEF Window
<1> QED
    BY <1>3, <1>4, <1>5, <1>7

\* Where no call moves, and nothing comes to be known, marked or there.
LEMMA NothingNew ==
    ASSUME Doom, UNCHANGED <<call, clock>>, files' \subseteq files, Doomed' \subseteq Doomed,
           phase' \in {"running", "quitting"} => phase \in {"running", "quitting"},
           \A r \in store' : r \in store \/ r.path \notin files
    PROVE  Doom'
<1>1. Known' \cap files' \subseteq Known
    BY DEF Known, PathsOf
<1>2. Taken' = Taken
    BY DEF Taken, At
<1> QED
    BY <1>1, <1>2 DEF Doom

\* The process is gone, in whatever way: no call, no flush, nothing shown.
LEMMA EndReal ==
    ASSUME RInv, \A c \in Calls : call'[c] = NoCall, flush' = Idle, shown' = NothingShown,
           phase' \in {"exited", "crashed"}, cl'.pc = "idle", cl'.left \subseteq cl.left,
           UNCHANGED <<files, clock>>, pendingDel' \subseteq pendingDel
    PROVE  Shapes' /\ Removal' /\ Doom' /\ Window'
<1>1. Shape(NoCall) /\ NoCall.book = {}
    BY DEF NoCall, Shape, Making, Renaming, Taking, OnePerFont, PathsOf
<1>2. Doomed' \subseteq Doomed
    BY <1>1 DEF Doomed, Idle
<1>3. Doom'
    BY <1>2 DEF RInv, Doom
<1>4. Removal'
    BY DEF RInv, Removal, Gone, Idle
<1> QED
    BY <1>1, <1>3, <1>4 DEF Shapes, Window

\* The cleanup runs while nothing is shown, or while the windows are closed.
LEMMA CleanReal ==
    ASSUME RInv, Solo, Sure, CleanStep
    PROVE  Shapes' /\ Removal' /\ Doom' /\ Window'
<1> USE DEF RInv, CInv, IInv
<1>0. cl \in CleanState /\ flush \in FlushState /\ flush.failed = {}
    BY DEF Removal, Types
<1>1. cl.pc # "idle" /\ phase # "running"
    BY DEF Removal, CleanStep, CleanLoad, CleanUnload, CleanUnregister, CleanDelete, CleanVerify,
       CleanSave, CleanFlush, CleanDecide
<1>2. CASE CleanLoad
  <2>1. /\ UNCHANGED <<files, store, pendingDel, clock, call, flush, shown, phase>>
        /\ cl'.left = {} /\ cl'.pc \in {"flush", "remove"} /\ (cl'.pc = "flush" => store = {})
      BY <1>0, <1>2 DEF CleanLoad, CleanState, disk
  <2>2. Doom'
      BY <2>1, NothingNew DEF Doomed
  <2>3. Removal'
      BY <1>1, <2>1 DEF Removal, Gone
  <2> QED
      BY <1>1, <2>1, <2>2, <2>3 DEF Shapes, Window
<1>8. CASE (\E r \in Record : CleanUnload(r)) \/ CleanUnregister
  <2>1. /\ UNCHANGED <<files, store, pendingDel, clock, call, flush, shown, phase>>
        /\ cl'.left = cl.left /\ cl'.pc \in {"unregister", "delete"}
      BY <1>0, <1>8 DEF CleanUnload, CleanUnregister, CleanState
  <2>2. Doom'
      BY <2>1, NothingNew DEF Doomed
  <2>3. Removal'
      BY <1>1, <2>1 DEF Removal, Gone
  <2> QED
      BY <1>1, <2>1, <2>2, <2>3 DEF Shapes, Window
<1>3. CASE CleanDelete
  <2>1. Undone("delete", {cl.cur.path} \cap files) = {{}}
      BY DEF Undone, Sure
  <2>2. /\ UNCHANGED <<store, pendingDel, clock, call, flush, shown, phase>>
        /\ files' = files \ {cl.cur.path}
        /\ cl'.left = cl.left /\ cl'.pc = "verify" /\ cl'.cur = cl.cur
      BY <1>0, <1>3, <2>1 DEF CleanDelete, CleanState
  <2>3. Doom'
      BY <2>2, NothingNew DEF Doomed
  <2>4. Removal'
      BY <1>1, <2>2 DEF Removal, Gone
  <2> QED
      BY <1>1, <2>2, <2>3, <2>4 DEF Shapes, Window
<1>4. CASE CleanVerify
  <2>1. /\ UNCHANGED <<files, store, pendingDel, clock, call, flush, shown, phase>>
        /\ cl.pc = "verify" /\ cl'.left \subseteq cl.left \cup {cl.cur}
        /\ cl'.pc \in {"save", "remove"}
      BY <1>0, <1>4 DEF CleanVerify, CleanState, disk
  <2>2. Doom'
      BY <2>1, NothingNew DEF Doomed
  <2>3. Removal'
      BY <1>1, <2>1 DEF Removal, Gone
  <2> QED
      BY <1>1, <2>1, <2>2, <2>3 DEF Shapes, Window
<1>5. CASE CleanSave
  <2>1. /\ UNCHANGED <<files, pendingDel, clock, call, flush, shown, phase>>
        /\ store' = cl.left /\ cl'.left = cl.left /\ cl'.pc \in {"load", "flush"}
      BY <1>0, <1>5 DEF CleanSave, CleanState
  <2>2. Gone(store')
      BY <2>1 DEF Removal
  <2>3. Doom'
      BY <2>1, <2>2, NothingNew DEF Doomed, Gone
  <2>4. Removal'
      BY <1>1, <2>1, <2>2 DEF Removal, Gone
  <2> QED
      BY <1>1, <2>1, <2>3, <2>4 DEF Shapes, Window
<1>6. CASE CleanFlush
  <2>1. /\ UNCHANGED <<files, store, pendingDel, clock, call, shown, phase>>
        /\ cl'.left = cl.left /\ cl'.pc = "await" /\ cl.pc = "flush"
        /\ flush'.failed = {} /\ flush'.recs \subseteq flush.recs
      BY <1>0, <1>6 DEF CleanFlush, CleanState, Idle, disk
  <2>2. Doom'
      BY <2>1, NothingNew DEF Doomed
  <2>3. Removal'
      BY <1>1, <2>1 DEF Removal, Gone
  <2> QED
      BY <1>1, <2>1, <2>2, <2>3 DEF Shapes, Window
<1>7. CASE CleanDecide
  <2>0. cl.pc = "decide" /\ UNCHANGED disk
      BY <1>7 DEF CleanDecide
  <2>1. CASE phase = "startup" /\ phase' = "running" /\ cl' = CleanIdle
             /\ UNCHANGED <<call, flush, shown>>
    <3>1. Gone(store) /\ shown = NothingShown /\ \A c \in Calls : call[c] = NoCall
        BY <2>0, <2>1 DEF Removal, Window, StartupAlone
    <3>2. Doomed' = Doomed /\ Known' \cap files' = {}
      <4>1. Own(NoCall) = {}
          BY DEF Own, NoCall
      <4> QED
          BY <2>0, <2>1, <3>1, <4>1 DEF Doomed, Known, Gone, PathsOf, disk
    <3>3. Doom'
        BY <2>0, <2>1, <3>2 DEF Doom, disk
    <3>4. Removal'
        BY <1>0, <2>1 DEF Removal, CleanIdle, Gone
    <3>5. Window'
        BY <2>1, <3>1 DEF Window, NothingShown
    <3> QED
        BY <2>1, <3>3, <3>4, <3>5 DEF Shapes
  <2>2. CASE phase = "quitting" /\ QuitAborted
    <3>1. ASSUME NEW c \in Calls
          PROVE  /\ Shape(call'[c]) /\ call'[c].pc = call[c].pc
                 /\ call'[c].book = call[c].book /\ Own(call'[c]) = Own(call[c])
                 /\ call'[c].fonts = call[c].fonts /\ (call'[c] # NoCall => ~call'[c].ui)
      <4> DEFINE s == [call[c] EXCEPT !.ui = FALSE]
      <4>1. call[c] \in CallState /\ Shape(call[c])
          BY Facts
      <4>2. /\ s.kind = call[c].kind /\ s.pc = call[c].pc /\ s.fonts = call[c].fonts
            /\ s.todo = call[c].todo /\ s.ui = FALSE /\ s.snap = call[c].snap
            /\ s.prep = call[c].prep /\ s.again = call[c].again
            /\ s.undo = call[c].undo /\ s.book = call[c].book
          BY <4>1 DEF CallState
      <4>3. call'[c] = s
          BY <2>2 DEF QuitAborted
      <4>4. call[c] = NoCall => s = NoCall
        <5>1. NoCall.ui = FALSE
            BY DEF NoCall
        <5>2. [NoCall EXCEPT !.ui = FALSE] = NoCall
            BY <5>1, NoCallType DEF CallState
        <5> QED
            BY <5>2
      <4> HIDE DEF s
      <4>5. Shape(s)
          BY <4>1, <4>2, <4>4 DEF Shape
      <4> QED
          BY <4>2, <4>3, <4>5 DEF Own
    <3>2. /\ UNCHANGED <<files, store, pendingDel, clock, flush>>
          /\ phase' = "running" /\ shown' = NothingShown /\ cl' = CleanIdle
        BY <2>0, <2>2 DEF QuitAborted, disk
    <3>3. Doomed' = Doomed /\ Known' = Known /\ Taken' = Taken
        BY <3>1, <3>2 DEF Doomed, Known, Taken, At
    <3>4. Doom'
        BY <2>2, <3>2, <3>3 DEF Doom
    <3>5. Removal'
        BY <1>0, <3>2 DEF Removal, CleanIdle, Gone
    <3>6. Window'
        BY <3>1, <3>2 DEF Window, NothingShown
    <3> QED
        BY <3>1, <3>4, <3>5, <3>6 DEF Shapes
  <2>3. CASE ProcessEnds("exited") /\ cl' = [cl EXCEPT !.pc = "idle"]
    <3>1. /\ cl'.pc = "idle" /\ cl'.left = cl.left /\ phase' = "exited"
          /\ \A c \in Calls : call'[c] = NoCall
          /\ flush' = Idle /\ shown' = NothingShown
          /\ UNCHANGED <<files, store, pendingDel, clock>>
        BY <1>0, <2>0, <2>3 DEF ProcessEnds, CleanState, disk
    <3> QED
        BY <3>1, EndReal
  <2> QED
      BY <1>7, <2>1, <2>2, <2>3 DEF CleanDecide
<1> QED
    BY <1>2, <1>3, <1>4, <1>5, <1>6, <1>7, <1>8 DEF CleanStep

LEMMA InitRInv == ASSUME Init, Solo PROVE RInv
<1>1. CInv
    BY InitCInv
<1>2. Shapes
    BY DEF Init, Shapes, NoCall, Shape, Making, Renaming, Taking, OnePerFont, PathsOf
<1>3. Removal
    BY DEF Init, Removal, Gone, CleanFrom, CleanIdle, Idle
<1>4. Doom
  <2>1. Doomed = {}
      BY DEF Init, Doomed, Idle, NoCall
  <2> QED
      BY <2>1 DEF Init, Doom
<1>5. Window
    BY DEF Init, Window
<1> QED
    BY <1>1, <1>2, <1>3, <1>4, <1>5 DEF RInv

\* A quit, a crash, a new session.
LEMMA SessionReal ==
    ASSUME RInv, RequestQuit \/ Crash \/ Relaunch
    PROVE  Shapes' /\ Removal' /\ Doom' /\ Window'
<1> USE DEF RInv
<1>1. CASE RequestQuit \/ Relaunch
  <2>1. /\ UNCHANGED <<files, store, pendingDel, clock, call, flush, shown>>
        /\ cl'.left = {} /\ cl'.pc = "load"
        /\ \/ phase = "running" /\ phase' = "quitting"
           \/ phase \in {"exited", "crashed"} /\ phase' = "startup"
      BY <1>1 DEF RequestQuit, Relaunch, CleanFrom, CleanIdle, disk
  <2>2. Doom'
      BY <2>1, NothingNew DEF Doomed
  <2>3. Removal'
      BY <2>1 DEF Removal, Gone
  <2> QED
      BY <2>1, <2>2, <2>3 DEF Shapes, Window
<1>2. CASE Crash
  <2>1. /\ \A c \in Calls : call'[c] = NoCall
        /\ flush' = Idle /\ shown' = NothingShown /\ phase' \in {"exited", "crashed"}
        /\ cl'.pc = "idle" /\ cl'.left \subseteq cl.left
        /\ UNCHANGED <<files, clock>> /\ pendingDel' \subseteq pendingDel
      BY <1>2 DEF Crash, ProcessEnds, CleanIdle
  <2> QED
      BY <2>1, EndReal
<1> QED
    BY <1>1, <1>2

LEMMA RInvStep == ASSUME RInv, Solo, Sure, [Next]_vars PROVE RInv'
<1>0. CInv'
    BY CInvStep DEF RInv
<1>1. Shapes' /\ Removal' /\ Doom' /\ Window'
  <2>1. ASSUME NEW c \in Calls, CallStep(c) PROVE Shapes' /\ Removal' /\ Doom' /\ Window'
      BY <2>1, CallReal
  <2>2. CASE FlushStep
      BY <2>2, FlushReal
  <2>3. CASE CleanStep
      BY <2>3, CleanReal
  <2>4. CASE RequestQuit \/ Crash \/ Relaunch
      BY <2>4, SessionReal
  <2>5. CASE UNCHANGED vars
    <3>1. /\ UNCHANGED <<files, loaded, store, pendingDel, clock, call, flush, cl>>
          /\ UNCHANGED <<shown, phase>>
        BY <2>5 DEF vars, disk
    <3>2. Known' = Known /\ Doomed' = Doomed /\ Taken' = Taken
        BY <3>1 DEF Known, Doomed, Taken, At
    <3>3. Doom'
        BY <3>1, <3>2 DEF RInv, Doom
    <3>4. Window'
        BY <3>1 DEF RInv, Window, Shown, At
    <3> QED
        BY <3>1, <3>3, <3>4 DEF RInv, Shapes, Removal, Gone
  <2> QED
      BY <2>1, <2>2, <2>3, <2>4, <2>5 DEF Next, Finished
<1> QED
    BY <1>0, <1>1 DEF RInv

\* A font the window shows as active has its copy, its GDI entry and its record, through
\* quits, crashes, failing copies and registry calls, and flushes that run beside a call:
\* provided that one call is made at a time, and that AddFontResource and the deletion of
\* a file do not fail.  Overlapping calls write each other's records away; a failed refresh
\* leaves a font out of GDI; a file that survives its deletion stays on the delete queue
\* while its record is kept, so that it can be shown again and then deleted.
THEOREM ActiveIsReal == ASSUME Solo, Sure PROVE Spec => []ActiveFontIsReal
<1>1. Init => RInv
    BY InitRInv
<1>2. RInv /\ [Next]_vars => RInv'
    BY RInvStep
<1>3. RInv => ActiveFontIsReal
  <2> SUFFICES ASSUME RInv, phase = "running", NEW f \in Fonts, shown[f] # None, ~Busy(f)
               PROVE  shown[f] \in files \cap loaded /\ shown[f] \in PathsOf(store)
      BY DEF ActiveFontIsReal
  <2>1. Shown(f)
      BY DEF RInv, Window
  <2>2. ASSUME NEW c \in Calls, At(c, "add"), shown[f] \in PathsOf(call[c].again) PROVE FALSE
    <3>0. PICK r \in call[c].again : r.path = shown[f]
        BY <2>2 DEF PathsOf
    <3>1. f \in call[c].fonts
      <4>1. Shape(call[c]) /\ FontOf(r) = f
          BY <2>1, <3>0, Facts DEF Shown, FontOf
      <4> QED
          BY <3>0, <4>1 DEF Shape
    <3>2. ~call[c].ui /\ call[c] # NoCall
        BY <2>2, <3>1 DEF Busy, At, NoCall
    <3> QED
        BY <3>2 DEF RInv, Window, NothingShown
  <2> QED
      BY <2>1, <2>2 DEF Shown
<1> QED
    BY <1>1, <1>2, <1>3, PTL DEF Spec
=============================================================================
