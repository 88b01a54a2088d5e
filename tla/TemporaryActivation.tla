------------------------- MODULE TemporaryActivation -------------------------
(***************************************************************************)
(* Temporary activation of fonts: main/activation/runtime, the delete      *)
(* queue main/activation/temporaryFontDeleteQueue.ts, the record store     *)
(* temporary-active-fonts.json and the start-up and quit cleanup driven by *)
(* main/app/mainProcessLifecycleRuntime.ts.                                *)
(*                                                                         *)
(* "Activating" a font copies its file into the user's font directory,     *)
(* writes an HKCU Fonts value, adds the font to the GDI session and        *)
(* records all this in temporary-active-fonts.json, so that a later        *)
(* deactivation, quit or start-up can take it back.  Every handler is an   *)
(* async function: each of its awaits is an action here, and the snapshot  *)
(* of the record store it read first is what it later writes back.  The    *)
(* four operations run in call slots, concurrently with each other, with   *)
(* the timer-driven flush of queued file deletions, and with the cleanup.  *)
(***************************************************************************)
EXTENDS Naturals, FiniteSets

CONSTANTS
    Fonts,           \* font items of the library
    RegNames,        \* names of HKCU Fonts values
    NamesOf,         \* font -> the value names its metadata may give it
    Calls,           \* slots for IPC calls in progress
    Ops,             \* bound: the kinds of call made, of the four
    MaxCopies,       \* bound: copies made
    MaxAttempts,     \* cleanup passes before giving up (6 at start-up, 18 at quit)
    MaxSessions,     \* bound: sessions of the program
    Faults,          \* the operating-system calls that may fail
    None             \* no path, no record

FaultKinds == {"source", "copy", "registry", "add", "remove", "delete", "regDelete"}

ASSUME NamesAssumption == NamesOf \in [Fonts -> SUBSET RegNames]
ASSUME BoundsAssumption ==
    MaxCopies \in Nat /\ MaxAttempts \in Nat \ {0} /\ MaxSessions \in Nat
Kinds == {"activate", "activateBatch", "deactivate", "deactivateBatch"}

ASSUME OpsAssumption == Ops \subseteq Kinds
ASSUME FaultsAssumption == Faults \subseteq FaultKinds
ASSUME NoneAssumption == None \notin [font: Fonts, stamp: Nat]

\* The copy's file name carries Date.now(): each activation has its own path.
Path   == [font: Fonts, stamp: 1..MaxCopies]
Record == [path: Path, reg: RegNames]

VARIABLES
    files,       \* copies present in the user's font directory
    registry,    \* HKCU Fonts: value name -> path, or None
    loaded,      \* paths in the GDI session's font table
    store,       \* temporary-active-fonts.json
    pendingDel,  \* pending-temporary-font-deletes.json
    clock,       \* copies made so far: stands for Date.now() in a file name
    call,        \* the IPC calls in progress
    timer,       \* deleteTimer is set
    flush,       \* deleteInFlight: the flush of the delete queue
    cl,          \* cleanupTemporaryActiveFontsUntilEmpty and its caller
    shown,       \* renderer: font -> managedInstallPath of an active font
    phase,       \* startup, running, quitting, exited, crashed
    session      \* number of this session

disk == <<files, registry, loaded, store, pendingDel, clock>>
vars == <<disk, call, timer, flush, cl, shown, phase, session>>

-----------------------------------------------------------------------------
FontOf(r)   == r.path.font
PathsOf(R)  == {r.path : r \in R}
RegsOf(R)   == {r.reg : r \in R}
OfFonts(R, F) == {r \in R : FontOf(r) \in F}

\* What may be left undone of the work S when calls of kind k can fail.
Undone(k, S) == IF k \in Faults THEN SUBSET S ELSE {{}}

Batch(c) == call[c].kind \in {"activateBatch", "deactivateBatch"}
Single(c) == ~Batch(c)

NoCall == [kind |-> "none", pc |-> "idle", fonts |-> {}, todo |-> {}, snap |-> {},
           prep |-> {}, again |-> {}, undo |-> {}, book |-> {}, ui |-> FALSE]

\* activeOperationFontIds of the window that is open now.
Busy(f) == \E c \in Calls : call[c].ui /\ f \in call[c].fonts

\* registry after deleting the values named in N / after writing records W.
Unregistered(N) == [n \in RegNames |-> IF n \in N THEN None ELSE registry[n]]
Registered(W, reg) ==
    [n \in RegNames |-> IF n \in RegsOf(W)
                        THEN (CHOOSE r \in W : r.reg = n).path ELSE reg[n]]

At(c, pc) == call[c].pc = pc
Step(c, r) == call' = [call EXCEPT ![c] = r]
Goto(c, pc) == Step(c, [call[c] EXCEPT !.pc = pc])
EndCall(c) == Step(c, NoCall)

\* The renderer hears of a result only in the window that made the call.
Show(c, R) == shown' = [f \in Fonts |->
    IF call[c].ui /\ \E r \in R : FontOf(r) = f
    THEN (CHOOSE r \in R : FontOf(r) = f).path ELSE shown[f]]

Idle == [pc |-> "idle", recs |-> {}, failed |-> {}]
CleanIdle == [pc |-> "idle", recs |-> {}, todo |-> {}, left |-> {}, cur |-> None,
              kept |-> FALSE, tries |-> 0]
CleanFrom(n) == [CleanIdle EXCEPT !.pc = "load", !.tries = n]
NothingShown == [f \in Fonts |-> None]

Init ==
    /\ files = {} /\ loaded = {} /\ store = {} /\ pendingDel = {}
    /\ registry = [n \in RegNames |-> None]
    /\ clock = 0
    /\ call = [c \in Calls |-> NoCall]
    /\ timer = FALSE /\ flush = Idle
    /\ cl = CleanFrom(0)
    /\ shown = NothingShown
    /\ phase = "startup" /\ session = 1

-----------------------------------------------------------------------------
(* Activation: activateFontSession and activateFontSessionsBatch.          *)

\* The renderer lets an operation start on fonts it is not busy with; a batch
\* activation takes the fonts it does not show as active.
StartActivate(c, kind, F) ==
    /\ phase = "running" /\ At(c, "idle") /\ kind \in Ops
    /\ \A f \in F : ~Busy(f)
    /\ IF kind = "activate" THEN Cardinality(F) = 1
       ELSE F # {} /\ \A f \in F : shown[f] = None
    /\ Step(c, [NoCall EXCEPT !.kind = kind, !.pc = "load", !.fonts = F,
                              !.todo = F, !.ui = TRUE])
    /\ UNCHANGED <<disk, timer, flush, cl, shown, phase, session>>

ActLoad(c) ==
    /\ At(c, "load") /\ call[c].kind \in {"activate", "activateBatch"}
    /\ Step(c, [call[c] EXCEPT !.snap = store, !.pc = "item"])
    /\ UNCHANGED <<disk, timer, flush, cl, shown, phase, session>>

\* The record of f in the snapshot whose file is still there.
Existing(c, f) == {r \in OfFonts(call[c].snap, {f}) : r.path \in files}

ItemDone(c, f, R, A) == Step(c, [call[c] EXCEPT
    !.todo = @ \ {f}, !.prep = @ \cup R, !.again = @ \cup A,
    !.pc = IF Single(c) THEN "registry" ELSE "item"])
ItemFailed(c, f) == IF Single(c) THEN EndCall(c) ELSE ItemDone(c, f, {}, {})

\* fsp.access fails.
ItemInaccessible(c, f) ==
    /\ At(c, "item") /\ f \in call[c].todo /\ "source" \in Faults
    /\ ItemFailed(c, f)
    /\ UNCHANGED <<disk, timer, flush, cl, shown, phase, session>>

\* Already active: only the GDI entry is refreshed; a single call first renames
\* the registry value when the metadata now gives another name.
ItemExisting(c, f) ==
    /\ At(c, "item") /\ f \in call[c].todo
    /\ \E r \in Existing(c, f) :
         IF Single(c)
         THEN \E n \in NamesOf[f] :
                Step(c, [call[c] EXCEPT !.todo = {}, !.again = {[r EXCEPT !.reg = n]},
                           !.pc = IF n = r.reg THEN "readd" ELSE "migrateWrite"])
         ELSE ItemDone(c, f, {}, {r})
    /\ UNCHANGED <<disk, timer, flush, cl, shown, phase, session>>

\* The install-status index says the font is installed: nothing is copied.
ItemInstalled(c, f) ==
    /\ At(c, "item") /\ f \in call[c].todo /\ Existing(c, f) = {}
    /\ ItemFailed(c, f)
    /\ UNCHANGED <<disk, timer, flush, cl, shown, phase, session>>

\* Mutant: a file name without the clock.
NewPathReused(f) == [font |-> f, stamp |-> 1]
NewPath(f) == [font |-> f, stamp |-> clock + 1]

ItemCopied(c, f) ==
    /\ At(c, "item") /\ f \in call[c].todo /\ Existing(c, f) = {}
    /\ clock < MaxCopies
    /\ clock' = clock + 1
    /\ files' = files \cup {NewPath(f)}
    /\ \E n \in NamesOf[f] : ItemDone(c, f, {[path |-> NewPath(f), reg |-> n]}, {})
    /\ UNCHANGED <<registry, loaded, store, pendingDel, timer, flush, cl, shown,
                   phase, session>>

\* The copy fails; a part of the file may be left behind.
ItemCopyFailed(c, f) ==
    /\ At(c, "item") /\ f \in call[c].todo /\ Existing(c, f) = {}
    /\ "copy" \in Faults /\ clock < MaxCopies
    /\ clock' = clock + 1
    /\ files' \in {files, files \cup {NewPath(f)}}
    /\ ItemFailed(c, f)
    /\ UNCHANGED <<registry, loaded, store, pendingDel, timer, flush, cl, shown,
                   phase, session>>

ActItemsDone(c) ==
    /\ At(c, "item") /\ call[c].todo = {}
    /\ Goto(c, "registry")
    /\ UNCHANGED <<disk, timer, flush, cl, shown, phase, session>>

\* migrate-existing-registry-name: write the new value, delete the old one,
\* save the snapshot with the record renamed.
MigrateWrite(c) ==
    /\ At(c, "migrateWrite")
    /\ \/ registry' = Registered(call[c].again, registry) /\ Goto(c, "migrateDelete")
       \/ "registry" \in Faults /\ UNCHANGED registry /\ EndCall(c)
    /\ UNCHANGED <<files, loaded, store, pendingDel, clock, timer, flush, cl,
                   shown, phase, session>>

MigrateDelete(c) ==
    /\ At(c, "migrateDelete")
    /\ \E left \in Undone("regDelete", RegsOf(OfFonts(call[c].snap, call[c].fonts))) :
         registry' = Unregistered(RegsOf(OfFonts(call[c].snap, call[c].fonts)) \ left)
    /\ Goto(c, "migrateSave")
    /\ UNCHANGED <<files, loaded, store, pendingDel, clock, timer, flush, cl,
                   shown, phase, session>>

\* Mutant: the new record is pushed without filtering the old one out.
MergedUnfiltered(c, R) == call[c].snap \cup R

Merged(c, R) == {r \in call[c].snap : FontOf(r) \notin {FontOf(q) : q \in R}} \cup R

MigrateSave(c) ==
    /\ At(c, "migrateSave")
    /\ store' = Merged(c, call[c].again)
    /\ Goto(c, "readd")
    /\ UNCHANGED <<files, registry, loaded, pendingDel, clock, timer, flush, cl,
                   shown, phase, session>>

\* writeFontRegistryValuesHKCUBatch: when it fails, any part may be written; a
\* single call then throws with its copy left behind, a batch removes its copies.
ActRegistry(c) ==
    /\ At(c, "registry")
    /\ \/ /\ registry' = Registered(call[c].prep, registry)
          /\ Goto(c, IF Single(c) THEN "add" ELSE "readd")
          /\ UNCHANGED files
       \/ /\ "registry" \in Faults /\ call[c].prep # {}
          /\ \E W \in SUBSET call[c].prep : registry' = Registered(W, registry)
          /\ IF Single(c) THEN EndCall(c) /\ UNCHANGED files
             ELSE /\ \E left \in Undone("delete", PathsOf(call[c].prep)) :
                        files' = files \ (PathsOf(call[c].prep) \ left)
                  /\ Step(c, [call[c] EXCEPT !.prep = {}, !.pc = "readd"])
    /\ UNCHANGED <<loaded, store, pendingDel, clock, timer, flush, cl, shown,
                   phase, session>>

\* Remove before add, so that GDI's reference count does not grow.
ActReadd(c) ==
    /\ At(c, "readd")
    /\ \E left \in Undone("remove", PathsOf(call[c].again)) :
         loaded' = loaded \ (PathsOf(call[c].again) \ left)
    /\ Goto(c, "add")
    /\ UNCHANGED <<files, registry, store, pendingDel, clock, timer, flush, cl,
                   shown, phase, session>>

\* AddFontResourceEx fails for a missing file.  A single call then throws; a
\* batch undoes the items it created and goes on with the others.
ActAdd(c) ==
    /\ At(c, "add")
    /\ LET all  == call[c].prep \cup call[c].again
           gone == {r \in all : r.path \notin files}
       IN \E more \in Undone("add", all \ gone) :
            LET bad == gone \cup more
            IN /\ loaded' = loaded \cup PathsOf(all \ bad)
               /\ IF Single(c) /\ bad # {} THEN EndCall(c)
                  ELSE Step(c, [call[c] EXCEPT
                                  !.pc = IF bad \cap call[c].prep = {} THEN "save" ELSE "undo",
                                  !.again = @ \ bad, !.prep = @ \ bad,
                                  !.undo = bad \cap call[c].prep])
    /\ UNCHANGED <<files, registry, store, pendingDel, clock, timer, flush, cl,
                   shown, phase, session>>

\* Per failed created item: delete its registry value, then its copy.
ActUndo(c) ==
    /\ At(c, "undo")
    /\ \E kept \in Undone("regDelete", RegsOf(call[c].undo)),
          left \in Undone("delete", PathsOf(call[c].undo)) :
         /\ registry' = Unregistered(RegsOf(call[c].undo) \ kept)
         /\ files' = files \ (PathsOf(call[c].undo) \ left)
    /\ Goto(c, "save")
    /\ UNCHANGED <<loaded, store, pendingDel, clock, timer, flush, cl, shown,
                   phase, session>>

ActSave(c) ==
    /\ At(c, "save")
    /\ store' = IF call[c].prep = {} THEN store ELSE Merged(c, call[c].prep)
    /\ Show(c, call[c].prep \cup call[c].again)
    /\ EndCall(c)
    /\ UNCHANGED <<files, registry, loaded, pendingDel, clock, timer, flush, cl,
                   phase, session>>

-----------------------------------------------------------------------------
(* Deactivation: deactivateFontSession and deactivateFontSessionsBatch.    *)

\* The renderer drops the font from its active set before it calls.
StartDeactivate(c, kind, F) ==
    /\ phase = "running" /\ At(c, "idle") /\ kind \in Ops /\ F # {}
    /\ \A f \in F : ~Busy(f)
    /\ kind = "deactivate" => Cardinality(F) = 1
    /\ Step(c, [NoCall EXCEPT !.kind = kind, !.pc = "load", !.fonts = F, !.ui = TRUE])
    /\ shown' = [f \in Fonts |-> IF f \in F THEN None ELSE shown[f]]
    /\ UNCHANGED <<disk, timer, flush, cl, phase, session>>

Targets(c) == OfFonts(call[c].snap, call[c].fonts)

\* With no record to take back a single call returns; a batch still saves.
DeLoad(c) ==
    /\ At(c, "load") /\ call[c].kind \in {"deactivate", "deactivateBatch"}
    /\ IF OfFonts(store, call[c].fonts) # {}
       THEN Step(c, [call[c] EXCEPT !.snap = store, !.pc = "unload"])
       ELSE IF Single(c) THEN EndCall(c)
       ELSE Step(c, [call[c] EXCEPT !.snap = store, !.pc = "deSave"])
    /\ UNCHANGED <<disk, timer, flush, cl, shown, phase, session>>

DeRemove(c) ==
    /\ At(c, "unload")
    /\ \E left \in Undone("remove", PathsOf(Targets(c))) :
         loaded' = loaded \ (PathsOf(Targets(c)) \ left)
    /\ Goto(c, "unregister")
    /\ UNCHANGED <<files, registry, store, pendingDel, clock, timer, flush, cl,
                   shown, phase, session>>

DeRegistry(c) ==
    /\ At(c, "unregister")
    /\ \E left \in Undone("regDelete", RegsOf(Targets(c))) :
         registry' = Unregistered(RegsOf(Targets(c)) \ left)
    /\ Goto(c, "queueLoad")
    /\ UNCHANGED <<files, loaded, store, pendingDel, clock, timer, flush, cl,
                   shown, phase, session>>

\* queueTemporaryFontFileDeletes: read the pending list, write it back merged.
DeQueueLoad(c) ==
    /\ At(c, "queueLoad")
    /\ Step(c, [call[c] EXCEPT !.book = pendingDel, !.pc = "queueSave"])
    /\ UNCHANGED <<disk, timer, flush, cl, shown, phase, session>>

DeQueueSave(c) ==
    /\ At(c, "queueSave")
    /\ pendingDel' = call[c].book \cup PathsOf(Targets(c))
    /\ timer' = TRUE
    /\ Goto(c, "deSave")
    /\ UNCHANGED <<files, registry, loaded, store, clock, flush, cl, shown, phase,
                   session>>

DeSave(c) ==
    /\ At(c, "deSave")
    /\ store' = call[c].snap \ Targets(c)
    /\ EndCall(c)
    /\ UNCHANGED <<files, registry, loaded, pendingDel, clock, timer, flush, cl,
                   shown, phase, session>>

-----------------------------------------------------------------------------
(* flushPendingTemporaryFontDeletes: one at a time.                        *)

\* The timer fires.  With a flush in flight the new call waits for that one
\* and returns without flushing.
FlushFire ==
    /\ timer
    /\ timer' = FALSE
    /\ flush' = IF flush.pc = "idle" THEN [Idle EXCEPT !.pc = "load"] ELSE flush
    /\ UNCHANGED <<disk, call, cl, shown, phase, session>>

\* The end of a flush resumes a cleanup that waits for it.
FlushEnds ==
    /\ flush' = Idle
    /\ cl' = IF cl.pc = "await" THEN [cl EXCEPT !.pc = "decide"] ELSE cl

FlushLoad ==
    /\ flush.pc = "load"
    /\ IF pendingDel = {} THEN FlushEnds
       ELSE flush' = [Idle EXCEPT !.pc = "delete", !.recs = pendingDel] /\ UNCHANGED cl
    /\ UNCHANGED <<disk, call, timer, shown, phase, session>>

FlushDelete ==
    /\ flush.pc = "delete"
    /\ \E failed \in Undone("delete", flush.recs) :
         /\ files' = files \ (flush.recs \ failed)
         /\ flush' = [flush EXCEPT !.pc = "save", !.failed = failed]
    /\ UNCHANGED <<registry, loaded, store, pendingDel, clock, call, timer, cl,
                   shown, phase, session>>

\* Mutant: a cleanup that waits for a flush with work to do is not resumed.
FlushSaveSilently ==
    /\ flush.pc = "save"
    /\ pendingDel' = flush.failed
    /\ flush' = Idle
    /\ UNCHANGED <<files, registry, loaded, store, clock, call, timer, cl, shown,
                   phase, session>>

\* The list as this flush read it, less what it deleted: a path queued since
\* then is not in it.
FlushSave ==
    /\ flush.pc = "save"
    /\ pendingDel' = flush.failed
    /\ FlushEnds
    /\ UNCHANGED <<files, registry, loaded, store, clock, call, timer, shown,
                   phase, session>>

-----------------------------------------------------------------------------
(* cleanupTemporaryActiveFontsUntilEmpty, then the flush, then the verdict. *)

CleanLoad ==
    /\ cl.pc = "load"
    /\ cl' = [cl EXCEPT !.recs = store, !.todo = store, !.left = {},
                        !.pc = IF store = {} THEN "flush" ELSE "remove"]
    /\ UNCHANGED <<disk, call, timer, flush, shown, phase, session>>

\* removeTemporaryActiveRecord with inline delete: one record after the other, each
\* by three calls that may fail and change nothing.
CleanUnload(r) ==
    /\ cl.pc = "remove" /\ r \in cl.todo
    /\ \E left \in Undone("remove", {r.path}) : loaded' = loaded \ ({r.path} \ left)
    /\ cl' = [cl EXCEPT !.pc = "unregister", !.cur = r]
    /\ UNCHANGED <<files, registry, store, pendingDel, clock, call, timer, flush, shown,
                   phase, session>>

CleanUnregister ==
    /\ cl.pc = "unregister"
    /\ \E left \in Undone("regDelete", {cl.cur.reg}) :
         registry' = Unregistered({cl.cur.reg} \ left)
    /\ cl' = [cl EXCEPT !.pc = "delete"]
    /\ UNCHANGED <<files, loaded, store, pendingDel, clock, call, timer, flush, shown,
                   phase, session>>

CleanDelete ==
    /\ cl.pc = "delete"
    /\ \E kept \in Undone("delete", {cl.cur.path} \cap files) :
         /\ files' = files \ ({cl.cur.path} \ kept)
         /\ cl' = [cl EXCEPT !.pc = "verify", !.kept = (kept # {})]
    /\ UNCHANGED <<registry, loaded, store, pendingDel, clock, call, timer, flush, shown,
                   phase, session>>

\* temporaryActiveRecordStillVisible: the file, the value name, or the path.
StillVisible(r) ==
    r.path \in files \/ registry[r.reg] # None \/ \E n \in RegNames : registry[n] = r.path

\* Mutant: the verdict looks at the registry value only.
RecordUnregistered(r, kept) == registry[r.reg] = None

RecordRemoved(r, kept) == ~StillVisible(r) /\ ~kept

CleanVerify ==
    /\ cl.pc = "verify"
    /\ LET todo == cl.todo \ {cl.cur}
       IN cl' = [cl EXCEPT
            !.todo = todo, !.cur = None, !.kept = FALSE,
            !.left = IF RecordRemoved(cl.cur, cl.kept) THEN @ ELSE @ \cup {cl.cur},
            !.pc = IF todo = {} THEN "save" ELSE "remove"]
    /\ UNCHANGED <<disk, call, timer, flush, shown, phase, session>>

\* Mutant: one attempt too many.
RetryOnceMore(tries) == tries <= MaxAttempts

\* Another pass while records remain and attempts are left.
Retry(tries) == tries < MaxAttempts

CleanSave ==
    /\ cl.pc = "save"
    /\ store' = cl.left
    /\ cl' = [cl EXCEPT !.tries = @ + 1,
                        !.pc = IF cl.left # {} /\ Retry(cl.tries + 1)
                               THEN "load" ELSE "flush"]
    /\ UNCHANGED <<files, registry, loaded, pendingDel, clock, call, timer, flush,
                   shown, phase, session>>

CleanFlush ==
    /\ cl.pc = "flush"
    /\ timer' = FALSE
    /\ flush' = IF flush.pc = "idle" THEN [Idle EXCEPT !.pc = "load"] ELSE flush
    /\ cl' = [cl EXCEPT !.pc = "await"]
    /\ UNCHANGED <<disk, call, shown, phase, session>>

\* The process is gone: what was in memory is lost.
ProcessEnds(how) ==
    /\ call' = [c \in Calls |-> NoCall]
    /\ timer' = FALSE /\ flush' = Idle
    /\ shown' = NothingShown
    /\ phase' = how
    /\ UNCHANGED session

\* restoreAfterQuitAbort opens a new window, which knows of no running call.
QuitAborted ==
    /\ phase' = "running" /\ cl' = CleanIdle
    /\ shown' = NothingShown
    /\ call' = [c \in Calls |-> [call[c] EXCEPT !.ui = FALSE]]
    /\ UNCHANGED <<timer, flush, session>>

\* Start-up goes on whatever is left.  Quit exits when nothing is left; it is
\* aborted when a record is, and also when something later in it fails: the
\* cleanup itself, or the flush of install statuses and the user chooses to stay.
CleanDecide ==
    /\ cl.pc = "decide"
    /\ \/ /\ phase = "startup"
          /\ phase' = "running" /\ cl' = CleanIdle
          /\ UNCHANGED <<call, timer, flush, shown, session>>
       \/ /\ phase = "quitting" /\ QuitAborted
       \/ /\ phase = "quitting" /\ cl.left = {} /\ ProcessEnds("exited")
          /\ cl' = [cl EXCEPT !.pc = "idle"]
    /\ UNCHANGED disk

\* before-quit, once the windows have closed.  Calls in progress go on.
RequestQuit ==
    /\ phase = "running"
    /\ phase' = "quitting" /\ cl' = CleanFrom(0)
    /\ UNCHANGED <<disk, call, timer, flush, shown, session>>

-----------------------------------------------------------------------------
(* The process dies: a kill, a crash, the machine going down.              *)

Saving(pcs) == \E c \in Calls : call[c].pc \in pcs

\* fsp.writeFile truncates first: a file being written may be left torn, and
\* the loader reads a torn file as an empty list.
Crash ==
    /\ phase \in {"startup", "running", "quitting"} /\ session < MaxSessions
    /\ store' \in {store} \cup
         (IF Saving({"save", "migrateSave", "deSave"}) \/ cl.pc = "save" THEN {{}} ELSE {})
    /\ pendingDel' \in {pendingDel} \cup
         (IF Saving({"queueSave"}) \/ flush.pc = "save" THEN {{}} ELSE {})
    /\ ProcessEnds("crashed")
    /\ cl' = CleanIdle
    /\ UNCHANGED <<files, registry, loaded, clock>>

Relaunch ==
    /\ phase \in {"exited", "crashed"} /\ session < MaxSessions
    /\ session' = session + 1
    /\ phase' = "startup" /\ cl' = CleanFrom(0)
    /\ UNCHANGED <<disk, call, timer, flush, shown>>

\* The last session has ended.
Finished ==
    /\ phase = "exited" /\ session = MaxSessions
    /\ UNCHANGED vars

-----------------------------------------------------------------------------
CallStep(c) ==
    \/ \E F \in SUBSET Fonts : \/ StartActivate(c, "activate", F)
                               \/ StartActivate(c, "activateBatch", F)
                               \/ StartDeactivate(c, "deactivate", F)
                               \/ StartDeactivate(c, "deactivateBatch", F)
    \/ ActLoad(c)
    \/ \E f \in Fonts : \/ ItemInaccessible(c, f) \/ ItemExisting(c, f)
                        \/ ItemInstalled(c, f) \/ ItemCopied(c, f)
                        \/ ItemCopyFailed(c, f)
    \/ ActItemsDone(c) \/ MigrateWrite(c) \/ MigrateDelete(c) \/ MigrateSave(c)
    \/ ActRegistry(c) \/ ActReadd(c) \/ ActAdd(c) \/ ActUndo(c) \/ ActSave(c)
    \/ DeLoad(c) \/ DeRemove(c) \/ DeRegistry(c) \/ DeQueueLoad(c)
    \/ DeQueueSave(c) \/ DeSave(c)

FlushStep == FlushFire \/ FlushLoad \/ FlushDelete \/ FlushSave

CleanStep ==
    \/ CleanLoad \/ (\E r \in Record : CleanUnload(r)) \/ CleanUnregister
    \/ CleanDelete \/ CleanVerify \/ CleanSave \/ CleanFlush \/ CleanDecide

Next ==
    \/ \E c \in Calls : CallStep(c)
    \/ FlushStep \/ CleanStep
    \/ RequestQuit \/ Crash \/ Relaunch \/ Finished

Spec == Init /\ [][Next]_vars

\* The event loop keeps running the cleanup and the flush once started.
FairSpec == Spec /\ WF_vars(FlushStep) /\ WF_vars(CleanStep)

-----------------------------------------------------------------------------
(* Properties.                                                             *)

CallPcs == {"idle", "load", "item", "registry", "readd", "add", "undo", "save",
            "migrateWrite", "migrateDelete", "migrateSave",
            "unload", "unregister", "queueLoad", "queueSave", "deSave"}
CallState == [kind: Kinds \cup {"none"}, pc: CallPcs, fonts: SUBSET Fonts,
              todo: SUBSET Fonts, snap: SUBSET Record, prep: SUBSET Record,
              again: SUBSET Record, undo: SUBSET Record, book: SUBSET Path, ui: BOOLEAN]

\* The types of the variables: every path and record on disk or in a call is
\* one an activation made.
TypeOK ==
    /\ files \subseteq Path /\ loaded \subseteq Path
    /\ registry \in [RegNames -> Path \cup {None}]
    /\ store \subseteq Record /\ pendingDel \subseteq Path
    /\ clock \in 0..MaxCopies
    /\ call \in [Calls -> CallState]
    /\ timer \in BOOLEAN
    /\ flush \in [pc: {"idle", "load", "delete", "save"},
                  recs: SUBSET Path, failed: SUBSET Path]
    /\ cl \in [pc: {"idle", "load", "remove", "unregister", "delete", "verify", "save",
                    "flush", "await", "decide"},
               recs: SUBSET Record, todo: SUBSET Record, left: SUBSET Record,
               cur: Record \cup {None}, kept: BOOLEAN, tries: 0..MaxAttempts]
    /\ shown \in [Fonts -> Path \cup {None}]
    /\ phase \in {"startup", "running", "quitting", "exited", "crashed"}
    /\ session \in Nat

OnePerFont(R) == \A r, q \in R : FontOf(r) = FontOf(q) => r = q

\* temporary-active-fonts.json never holds two records of one font, whatever
\* calls overlap, fail or are cut short: no save appends a record of a font
\* beside an older one (filter and push, findIndex and splice).
OneRecordPerFont == OnePerFont(store)

\* A font the window shows as active, with no operation on it under way, has
\* its copy on disk and a record by which quit can take it back.
ActiveFontIsReal ==
    phase = "running" => \A f \in Fonts :
        shown[f] # None /\ ~Busy(f) =>
            shown[f] \in files \cap loaded /\ shown[f] \in PathsOf(store)

\* Quit exits only once every record its last pass found has lost its file.
CleanupVerdict ==
    phase = "exited" => \A r \in cl.recs : r.path \notin files

\* The start-up cleanup takes a record off the list only when its file is gone:
\* what it could not remove stays recorded for the next attempt.
StartupKeepsRecords == [][
    phase = "startup" /\ phase' = "startup" =>
        \A r \in store \ store' : r.path \notin files']_vars

\* A quit always ends: the program exits or stays open with its message.
QuitDecides == (phase = "quitting") ~> (phase # "quitting")

\* What a message of the code says, and does not hold:
\* fontActivationSessionRuntime.ts:47: quitting cleans up every font installed
\* temporarily.  It works from the two lists, so with nothing in progress each
\* copy has to be on one of them.
QuitCanCleanEverything ==
    phase = "running" /\ flush = Idle /\ (\A c \in Calls : At(c, "idle"))
        => files \subseteq PathsOf(store) \cup pendingDel
=============================================================================
