-------------------------- MODULE SharedRootIndex --------------------------
(***************************************************************************)
(* The font index of one library root, kept in the root itself (often a    *)
(* network share) and written by the processes of several computers.  The  *)
(* index is a snapshot file that is never the same from one save to the    *)
(* next, and a pointer to the one in use; a save takes the lock file,      *)
(* reads the snapshot in use, writes a new one with its changes, points at *)
(* it and deletes the oldest.  A scan first adopts the index: it resolves  *)
(* the snapshot in use and writes the pointer back, without the lock; at   *)
(* its end it stores directory signatures in the snapshot it resolved.     *)
(* A process here is one save, with the scan around it if it is a scanner. *)
(***************************************************************************)
EXTENDS Integers, FiniteSets

CONSTANTS
    Procs,        \* the savers
    Scanners,     \* those of them that scan
    Entries,      \* the font entries of an index
    Old,          \* entries of the index there may be at the start
    Put,          \* saver -> the entries it inserts or updates
    Drop,         \* saver -> the entries it deletes
    Keep,         \* ROOT_INDEX_SNAPSHOT_KEEP_COUNT
    MaxCrashes,   \* bound: processes that die
    MaxStalls     \* bound: holders that stand still while their lock ages

ASSUME SaverAssumption == IsFiniteSet(Procs) /\ Scanners \subseteq Procs
ASSUME ChangeAssumption ==
    /\ Old \subseteq Entries
    /\ Put \in [Procs -> SUBSET Entries] /\ Drop \in [Procs -> SUBSET Entries]
    /\ \A p, q \in Procs : Put[p] \cap Drop[q] = {}
ASSUME BoundAssumption == Keep \in Nat \ {0} /\ MaxCrashes \in Nat /\ MaxStalls \in Nat

None == -1   \* no pointer file
Default == 0 \* index.sqlite, the database of an index that has no snapshot
Snapshots == 1..(Cardinality(Procs) + 1)
Files == Snapshots \cup {Default}

VARIABLES
    pc,       \* where each saver is
    saved,    \* the savers whose save has succeeded
    lock,     \* the lock file: "none", or when it was last written
    beating,  \* the savers with a heartbeat write under way
    files,    \* the databases there are
    mtime,    \* database -> when it was last written, 0 when it never was
    clock,    \* the time of the last such write
    content,  \* database -> its entries
    latest,   \* what the pointer file names
    built,    \* number of snapshots made
    path,     \* scanner -> the database it adopted
    read,     \* saver -> the entries its save starts from
    snap,     \* saver -> its snapshot
    crashes,
    stalls,
    faults    \* what went wrong so far, by the names the properties use

store == <<files, mtime, clock, content, built>>
scan == <<path, snap>>
env == <<crashes, stalls>>
vars == <<pc, saved, lock, beating, store, latest, scan, read, env, faults>>

Init ==
    /\ pc = [p \in Procs |-> IF p \in Scanners THEN "resolve" ELSE "open"]
    /\ saved = {} /\ lock = "none" /\ beating = {}
    /\ \E n \in {0, 1} :
        /\ built = n /\ files = 1..n
        /\ clock = n /\ mtime = [f \in Files |-> IF n = 1 /\ f = 1 THEN 1 ELSE 0]
        /\ content = [f \in Files |-> IF n = 1 /\ f = 1 THEN Old ELSE {}]
        /\ latest = (IF n = 1 THEN 1 ELSE None)
    /\ path = [p \in Procs |-> Default]
    /\ read = [p \in Procs |-> {}]
    /\ snap = [p \in Procs |-> Default]
    /\ crashes = 0 /\ stalls = 0 /\ faults = {}

At(p, here) == pc[p] = here
Goes(p, there) == pc' = [pc EXCEPT ![p] = there]
Moves(p, here, there) == At(p, here) /\ Goes(p, there)

Saving == {"base", "build", "point", "clean", "release"}
Signing == {"sign", "leave"}
Holders == {p \in Procs : pc[p] \in Saving \cup Signing}

Newer(f, g) == mtime[f] > mtime[g]

\* The newest of the databases there are.
Recovered == CHOOSE f \in files : \A g \in files : ~ Newer(g, f)

\* What a process that resolves the index finds.
Active ==
    IF latest \in files THEN latest ELSE IF files # {} THEN Recovered ELSE Default

EntriesOf(f) == IF f \in files THEN content[f] ELSE {}

\* Database f is written: it is the newest now.
Written(f) == clock' = clock + 1 /\ mtime' = [mtime EXCEPT ![f] = clock + 1]

\* A database that is opened and is not there is made, with no entries.
Opened(f) ==
    IF f \in files
    THEN UNCHANGED <<files, content, mtime, clock>>
    ELSE /\ files' = files \cup {f}
         /\ content' = [content EXCEPT ![f] = {}]
         /\ Written(f)

----------------------------------------------------------------------------
\* Adopting the index, before a scan.

ScanResolve(p) ==
    /\ Moves(p, "resolve", "adopt")
    /\ path' = [path EXCEPT ![p] = Active]
    /\ UNCHANGED <<saved, lock, beating, store, latest, snap, read, env, faults>>

\* writeRootCacheManifest of what was resolved: no lock is held.
ScanPoint(p) ==
    /\ Moves(p, "adopt", "load")
    /\ latest' = path[p]
    /\ faults' = faults \cup (IF path[p] = latest \/ files = {} THEN {} ELSE {"overwritten"})
    /\ UNCHANGED <<saved, lock, beating, store, scan, read, env>>

\* The entries and the directory signatures are read; the second opens the
\* database, and makes anew a snapshot that has been deleted since it was adopted.
ScanRead(p) ==
    /\ Moves(p, "load", "open")
    /\ Opened(path[p])
    /\ faults' = faults \cup (IF path[p] \in files \cup {Default} THEN {} ELSE {"remade"})
    /\ UNCHANGED <<saved, lock, beating, built, latest, scan, read, env>>

\* writeJsonAtomic when the pointer cannot be replaced: it is removed first.
DropPointer(p) ==
    /\ pc[p] \in {"adopt", "point"} /\ latest # None
    /\ latest' = None
    /\ faults' = faults \cup (IF At(p, "adopt") THEN {"dropped"} ELSE {})
    /\ UNCHANGED <<pc, saved, lock, beating, store, scan, read, env>>

----------------------------------------------------------------------------
\* The lock file: withRootCacheWriteLockUnlocked.

\* What the holder does with it: the signatures if its save is done.
Section(p) == IF p \in saved THEN "sign" ELSE "base"

\* Mutant: the lock file is opened whether it exists or not.
OpenAnyway(p) ==
    /\ pc[p] \in {"open", "wait"} /\ Goes(p, Section(p)) /\ lock' = "fresh"
    /\ UNCHANGED <<saved, beating, store, latest, scan, read, env, faults>>

Open(p) ==
    /\ pc[p] \in {"open", "wait"}
    /\ \/ lock = "none" /\ lock' = "fresh" /\ Goes(p, Section(p))
       \/ lock # "none" /\ UNCHANGED lock /\ Goes(p, "stat")
    /\ UNCHANGED <<saved, beating, store, latest, scan, read, env, faults>>

\* mkdir or open fails with another error than EEXIST; or the lock file is made
\* and its payload cannot be written: that error leaves the function before the
\* try whose finally removes the file.
OpenFails(p) ==
    /\ pc[p] \in {"open", "wait"} /\ Goes(p, "done")
    /\ \/ UNCHANGED <<lock, faults>>
       \/ lock = "none" /\ lock' = "fresh" /\ faults' = faults \cup {"unwritten"}
    /\ UNCHANGED <<saved, beating, store, latest, scan, read, env>>

\* A lock whose age cannot be read counts as one that is not stale.
Stat(p) ==
    /\ At(p, "stat")
    /\ (lock = "stale" /\ Goes(p, "remove")) \/ Goes(p, "wait")
    /\ UNCHANGED <<saved, lock, beating, store, latest, scan, read, env, faults>>

\* The file removed need not be the one whose age was read; a failure is swallowed.
RemoveStale(p) ==
    /\ Moves(p, "remove", "wait")
    /\ \/ /\ lock' = "none"
          /\ faults' = faults \cup (IF Holders = {} THEN {} ELSE {"robbed"})
       \/ UNCHANGED <<lock, faults>>
    /\ UNCHANGED <<saved, beating, store, latest, scan, read, env>>

\* Mutant: the time waited is looked at only when the lock is gone.
GiveUpLate(p) ==
    /\ Moves(p, "wait", "done") /\ lock = "none"
    /\ UNCHANGED <<saved, lock, beating, store, latest, scan, read, env, faults>>

\* RootCacheLockTimeoutError.
GiveUp(p) ==
    /\ Moves(p, "wait", "done")
    /\ UNCHANGED <<saved, lock, beating, store, latest, scan, read, env, faults>>

\* Whatever lock file is there is removed, or stays: a failure is swallowed.
LockRemoved ==
    \/ lock' = "none" /\ UNCHANGED faults
    \/ lock # "none" /\ UNCHANGED lock /\ faults' = faults \cup {"unremoved"}

\* Mutant: a save that failed is tried again at once.
ReleaseAndRetry(p) ==
    /\ pc[p] \in {"release", "leave"} /\ LockRemoved
    /\ Goes(p, IF At(p, "release") /\ (p \in saved => p \in Scanners) THEN "open" ELSE "done")
    /\ UNCHANGED <<saved, beating, store, latest, scan, read, env>>

\* The finally of both sections.
Release(p) ==
    /\ pc[p] \in {"release", "leave"} /\ LockRemoved
    /\ Goes(p, IF At(p, "release") /\ p \in saved \cap Scanners THEN "open" ELSE "done")
    /\ UNCHANGED <<saved, beating, store, latest, scan, read, env>>

HeartbeatStarts(p) ==
    /\ p \in Holders \ beating
    /\ beating' = beating \cup {p}
    /\ UNCHANGED <<pc, saved, lock, store, latest, scan, read, env, faults>>

\* writeFile creates the file when it is not there any more.
HeartbeatLands(p) ==
    /\ p \in beating /\ beating' = beating \ {p}
    /\ lock' = "fresh"
    /\ faults' = faults \cup (IF lock = "none" THEN {"late beat"} ELSE {})
    /\ UNCHANGED <<pc, saved, store, latest, scan, read, env>>

\* ROOT_SCAN_CACHE_LOCK_STALE_MS without a heartbeat.
LockAges ==
    /\ lock = "fresh" /\ lock' = "stale"
    /\ \/ Holders = {} /\ UNCHANGED stalls
       \/ Holders # {} /\ stalls < MaxStalls /\ stalls' = stalls + 1
    /\ UNCHANGED <<pc, saved, beating, store, latest, scan, read, crashes, faults>>

----------------------------------------------------------------------------
\* A save: saveRootIndexSqliteChangesAtomicSnapshot.

\* Mutant: the save starts from the database its caller named.
ReadAdopted(p) ==
    /\ Moves(p, "base", "build")
    /\ read' = [read EXCEPT ![p] = EntriesOf(path[p])]
    /\ UNCHANGED <<saved, lock, beating, store, latest, scan, env, faults>>

\* The database in use is resolved and read; there may be none.
ReadBase(p) ==
    /\ Moves(p, "base", "build")
    /\ read' = [read EXCEPT ![p] = EntriesOf(Active)]
    /\ UNCHANGED <<saved, lock, beating, store, latest, scan, env, faults>>

Changed(p) == (read[p] \ Drop[p]) \cup Put[p]

\* assertRootIndexSwitchAllowed, then the new snapshot is written and renamed into place.
Build(p) ==
    /\ Moves(p, "build", "point")
    /\ EntriesOf(Active) # {} => Changed(p) # {}
    /\ built' = built + 1
    /\ files' = files \cup {built + 1}
    /\ content' = [content EXCEPT ![built + 1] = Changed(p)]
    /\ Written(built + 1)
    /\ snap' = [snap EXCEPT ![p] = built + 1]
    /\ UNCHANGED <<saved, lock, beating, latest, path, read, env, faults>>

Point(p) ==
    /\ Moves(p, "point", "clean")
    /\ latest' = snap[p] /\ saved' = saved \cup {p}
    /\ UNCHANGED <<lock, beating, store, scan, read, env, faults>>

\* Mutant: the snapshot in use is counted among those kept.
SupersededToo(p) ==
    LET others == files \ {snap[p], Default}
    IN  {f \in others : Cardinality({g \in others : Newer(g, f)}) >= Keep - 1}

\* The snapshots but p's own that have Keep newer ones among them.
Superseded(p) ==
    LET others == files \ {snap[p], Default}
    IN  {f \in others : Cardinality({g \in others : Newer(g, f)}) >= Keep}

Cleanup(p) ==
    /\ Moves(p, "clean", "release")
    /\ files' = files \ Superseded(p)
    /\ UNCHANGED <<saved, lock, beating, mtime, clock, content, built, latest, scan, read, env, faults>>

\* Mutant: a save that fails leaves without its finally.
FailOutright(p) ==
    /\ pc[p] \in {"base", "build", "point"} /\ Goes(p, "done")
    /\ faults' = faults \cup (IF At(p, "point") /\ latest = None THEN {"dropped"} ELSE {})
    /\ UNCHANGED <<saved, lock, beating, store, latest, scan, read, env>>

\* A read, a write or a check fails before the pointer is written.
FailSave(p) ==
    /\ pc[p] \in {"base", "build", "point"} /\ Goes(p, "release")
    /\ faults' = faults \cup (IF At(p, "point") /\ latest = None THEN {"dropped"} ELSE {})
    /\ UNCHANGED <<saved, lock, beating, store, latest, scan, read, env>>

\* saveRootDirectorySignatures: into the database the scan adopted.
Sign(p) ==
    /\ Moves(p, "sign", "leave")
    /\ files' = files \cup {path[p]}
    /\ content' = [content EXCEPT ![path[p]] = EntriesOf(path[p])]
    /\ Written(path[p])
    /\ UNCHANGED <<saved, lock, beating, built, latest, scan, read, env, faults>>

----------------------------------------------------------------------------
Ended == {"done", "dead"}

\* The process, or its connection to the share, is gone.
Crash(p) ==
    /\ pc[p] \notin Ended /\ crashes < MaxCrashes
    /\ Goes(p, "dead") /\ crashes' = crashes + 1
    /\ beating' = beating \ {p}
    /\ faults' = faults \cup (IF pc[p] = "point" /\ latest = None THEN {"dropped"} ELSE {})
    /\ UNCHANGED <<saved, lock, store, latest, scan, read, stalls>>

Done ==
    /\ \A p \in Procs : pc[p] \in Ended
    /\ UNCHANGED vars

ScanStep(p) == ScanResolve(p) \/ ScanPoint(p) \/ ScanRead(p)
SaveStep(p) == ReadBase(p) \/ Build(p) \/ Point(p) \/ Cleanup(p) \/ Sign(p)
LockStep(p) == Open(p) \/ Stat(p) \/ RemoveStale(p) \/ GiveUp(p) \/ Release(p)
Step(p) == ScanStep(p) \/ SaveStep(p) \/ FailSave(p) \/ LockStep(p)

Next ==
    \/ \E p \in Procs :
        \/ Step(p) \/ OpenFails(p) \/ DropPointer(p) \/ Crash(p)
        \/ HeartbeatStarts(p) \/ HeartbeatLands(p)
    \/ LockAges \/ Done

Spec == Init /\ [][Next]_vars

(***************************************************************************)
(* A process goes on with its save, the file operations return, and the    *)
(* clock of one that waits for the lock passes its 30 seconds.  Nothing is *)
(* assumed of the lock: it may be held or left behind for ever.            *)
(***************************************************************************)
FairSpec ==
    /\ Spec
    /\ \A p \in Procs : WF_vars(Step(p)) /\ SF_vars(GiveUp(p))

----------------------------------------------------------------------------
\* The faults that leave a lock file nobody holds, and nobody has died.
LockLeft == {"late beat", "unwritten", "unremoved"}

\* Every variable has a value of its kind; what is pointed at or started from
\* is a database the code has named, and a holder's snapshot has been made.
TypeOK ==
    /\ pc \in [Procs -> {"resolve", "adopt", "load", "open", "stat", "remove", "wait"}
                         \cup Saving \cup Signing \cup Ended]
    /\ saved \subseteq Procs /\ beating \subseteq Procs
    /\ lock \in {"none", "fresh", "stale"}
    /\ built \in 0..(Cardinality(Procs) + 1)
    /\ files \subseteq 0..built
    /\ mtime \in [Files -> Nat] /\ clock \in Nat
    /\ content \in [Files -> SUBSET Entries]
    /\ latest \in {None} \cup 0..built
    /\ path \in [Procs -> 0..built]
    /\ read \in [Procs -> SUBSET Entries]
    /\ snap \in [Procs -> 0..built]
    /\ crashes \in 0..MaxCrashes /\ stalls \in 0..MaxStalls
    /\ faults \subseteq {"overwritten", "dropped", "robbed", "remade"} \cup LockLeft

\* Two processes are in a section of the lock only after a waiter has removed
\* the lock file of one of them: crashes, late heartbeats and the removal of a
\* lock left behind do not let two in (rootIndexLockRuntime.ts).
OneHolderUnlessRobbed == "robbed" \notin faults => Cardinality(Holders) <= 1

\* What a process has saved is what the index says, whatever the others save,
\* fail to save or leave behind, unless a lock was robbed or the pointer was
\* written or removed outside the lock, or left removed by a failure.
SavedIsServed ==
    (faults \subseteq {"remade"} \cup LockLeft /\ latest # None) =>
        \A p \in saved :
            Put[p] \subseteq EntriesOf(Active) /\ EntriesOf(Active) \cap Drop[p] = {}

\* A snapshot a scan has adopted, and will write its signatures to, is deleted
\* only when more than Keep databases have been written since it was, until a lock
\* is robbed or a scan, without the lock, makes a deleted snapshot anew: that one
\* counts as recent, and can cost another scan its snapshot one save too early.
KeptForScans ==
    faults \cap {"robbed", "remade"} = {} =>
        \A p \in Scanners :
            pc[p] \in {"load", "open", "stat", "remove", "wait", "sign"} \cup Saving =>
                \/ path[p] \in files \cup {Default}
                \/ Cardinality({f \in Files : Newer(f, path[p])}) > Keep

\* When all have ended and none has died, whatever of the saves has failed or was
\* given up, no lock is left behind that would keep the next save out for two
\* minutes; but by a heartbeat that landed late, by a lock file whose payload could
\* not be written and by one that could not be removed.
NoLockLeft ==
    (/\ \A p \in Procs : At(p, "done")
     /\ beating = {} /\ faults \cap LockLeft = {}) => lock = "none"

\* Every scan and save returns, though the lock may never be free.
EverySaveEnds == \A p \in Procs : <>(pc[p] \in Ended)

\* What the manifest says of the index, "shared-nas-single-writer-lock": when no
\* process dies or stands still, no save is undone by another process.
NoSaveUndone ==
    latest # None =>
        \A p \in saved :
            Put[p] \subseteq EntriesOf(Active) /\ EntriesOf(Active) \cap Drop[p] = {}
=============================================================================
