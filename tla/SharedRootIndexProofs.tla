----------------------- MODULE SharedRootIndexProofs -----------------------
(***************************************************************************)
(* Proofs about SharedRootIndex, for every number of savers and scanners.  *)
(* The inductive invariant is Typed /\ SoleHolder /\ LockHeld /\ Kept.     *)
(***************************************************************************)
EXTENDS SharedRootIndex, FiniteSetTheorems, WellFoundedInduction, TLAPS

Makers == {p \in Procs : snap[p] # Default}

\* p has not made its snapshot yet.
Before(p) ==
    \/ pc[p] \in {"resolve", "adopt", "load", "base", "build"}
    \/ pc[p] \in {"open", "stat", "remove", "wait"} /\ p \notin saved

\* A process makes one snapshot, so that the names suffice.
Typed ==
    /\ TypeOK
    /\ built <= 1 + Cardinality(Makers)
    /\ \A p \in Procs : Before(p) => snap[p] = Default

SoleHolder ==
    "robbed" \notin faults =>
        /\ Holders # {} => lock # "none"
        /\ \A p, q \in Holders : p = q

LockHeld ==
    ((\A p \in Procs : pc[p] # "dead") /\ faults \cap LockLeft = {}) =>
        (lock # "none" => Holders # {})

Calm == faults \subseteq {"remade"} \cup LockLeft

\* The entries S say what q has saved.
Has(S, q) == Put[q] \subseteq S /\ S \cap Drop[q] = {}

\* What has been saved is at the pointer, in what a saver has read, and in the
\* snapshot it is about to point at; only then may the pointer be missing.
Served == latest # None => \A q \in saved : latest \in files /\ Has(content[latest], q)
Started == \A p \in Procs : At(p, "build") => \A q \in saved : Has(read[p], q)
Made ==
    \A p \in Procs : At(p, "point") =>
        snap[p] \in files /\ \A q \in saved \cup {p} : Has(content[snap[p]], q)
Pointed == \A p \in Procs : At(p, "clean") => latest = snap[p] /\ latest \in files
Missing == latest = None => saved = {} \/ \E p \in Procs : At(p, "point")

Kept == Calm => Served /\ Started /\ Made /\ Pointed /\ Missing

IInv == Typed /\ SoleHolder /\ LockHeld /\ Kept

USE DEF At, Goes, Moves

Savers == Cardinality(Procs)

LEMMA SaversNat == Savers \in Nat
BY SaverAssumption, FS_CardinalityType DEF Savers

LEMMA MakersFinite == IsFiniteSet(Makers) /\ Cardinality(Makers) \in Nat
<1>1. Makers \subseteq Procs
    BY DEF Makers
<1>2. IsFiniteSet(Makers)
    BY <1>1, SaverAssumption, FS_Subset
<1> QED BY <1>2, FS_CardinalityType

LEMMA SpareName ==
    ASSUME NEW p \in Procs, snap[p] = Default
    PROVE  Cardinality(Makers) < Savers
<1>1. Makers \subseteq Procs /\ Makers # Procs
    BY DEF Makers
<1> QED BY <1>1, SaverAssumption, FS_Subset, FS_CardinalityType, MakersFinite, SaversNat DEF Savers

LEMMA FilesAre == Files = 0..(Savers + 1)
BY SaversNat DEF Files, Snapshots, Default, Savers

LEMMA NewestExists ==
    ASSUME TypeOK, files # {}
    PROVE  \E f \in files : \A g \in files : ~ Newer(g, f)
<1> DEFINE After(f) == {g \in files : Newer(g, f)}
           T == {After(f) : f \in files}
           R == StrictSubsetOrdering(files)
<1>1. IsFiniteSet(files) /\ \A f \in files : mtime[f] \in Nat
    <2>1. built \in 0..(Savers + 1) /\ files \subseteq 0..built
        BY DEF TypeOK, Savers
    <2>2. IsFiniteSet(0..built) /\ files \subseteq Files
        BY <2>1, FS_Interval, FilesAre, SaversNat
    <2> QED BY <2>1, <2>2, FS_Subset DEF TypeOK
<1>2. T \subseteq SUBSET files /\ T # {}
    OBVIOUS
<1>3. IsWellFoundedOn(R, SUBSET files)
    BY <1>1, FS_StrictSubsetOrderingWellFounded, FS_FiniteSubsetsOfFinite
<1> HIDE DEF T, R
<1>4. PICK m \in T : \A t \in T : ~ (<<t, m>> \in R)
    BY <1>2, <1>3, WFMin
<1> USE DEF T, R
<1>5. PICK f \in files : m = After(f)
    BY <1>4
<1>6. \A g \in files : ~ Newer(g, f)
    <2> SUFFICES ASSUME NEW g \in files, Newer(g, f) PROVE FALSE
        OBVIOUS
    <2>1. After(g) \subseteq After(f) /\ g \in After(f) /\ g \notin After(g)
        BY <1>1 DEF Newer
    <2>2. <<After(g), After(f)>> \in R
        BY <2>1 DEF StrictSubsetOrdering
    <2> QED BY <2>2, <1>4, <1>5
<1> QED BY <1>6

LEMMA ActiveIsKnown ==
    ASSUME TypeOK
    PROVE  Active \in 0..built
<1>1. built \in Nat
    <2>1. built \in 0..(Savers + 1)
        BY DEF TypeOK, Savers
    <2> QED BY <2>1, SaversNat
<1>2. CASE latest \in files
    BY <1>2 DEF Active, TypeOK
<1>3. CASE latest \notin files /\ files = {}
    BY <1>1, <1>3 DEF Active, Default
<1>4. CASE latest \notin files /\ files # {}
    <2> QED BY NewestExists, <1>4 DEF Active, Recovered, TypeOK
<1> QED BY <1>2, <1>3, <1>4

LEMMA BuiltGrows ==
    ASSUME Typed, NEW p \in Procs, snap[p] = Default
    PROVE  built + 1 \in 0..(Savers + 1) /\ built \in Nat /\ built + 1 \in Files
<1>1. built \in 0..(Savers + 1)
    BY DEF Typed, TypeOK, Savers
<1>2. built <= 1 + Cardinality(Makers)
    BY DEF Typed
<1> QED BY <1>1, <1>2, SpareName, SaversNat, MakersFinite, FilesAre

LEMMA OpenedTyped ==
    ASSUME Typed, NEW p \in Procs, Opened(path[p])
    PROVE  /\ files' \subseteq 0..built /\ content' \in [Files -> SUBSET Entries]
           /\ mtime' \in [Files -> Nat] /\ clock' \in Nat
<1>1. path[p] \in 0..built /\ path[p] \in Files
    <2>1. path[p] \in 0..built /\ built \in 0..(Savers + 1)
        BY DEF Typed, TypeOK, Savers
    <2> QED BY <2>1, FilesAre, SaversNat
<1>2. CASE path[p] \in files
    BY <1>2 DEF Opened, Typed, TypeOK
<1>3. CASE path[p] \notin files
    <2>1. /\ files' = files \cup {path[p]}
          /\ content' = [content EXCEPT ![path[p]] = {}]
          /\ clock' = clock + 1 /\ mtime' = [mtime EXCEPT ![path[p]] = clock + 1]
        BY <1>3 DEF Opened, Written
    <2>2. /\ files \subseteq 0..built /\ content \in [Files -> SUBSET Entries]
          /\ mtime \in [Files -> Nat] /\ clock \in Nat
        BY DEF Typed, TypeOK
    <2>3. content' \in [Files -> SUBSET Entries]
        <3>1. {} \in SUBSET Entries
            OBVIOUS
        <3> QED BY <2>1, <2>2, <3>1
    <2>4. clock' \in Nat
        BY <2>1, <2>2
    <2>6. mtime' \in [Files -> Nat]
        <3> DEFINE t == clock'
        <3>1. mtime' = [mtime EXCEPT ![path[p]] = t] /\ t \in Nat
            BY <2>1, <2>4
        <3> HIDE DEF t
        <3> QED BY <2>2, <3>1
    <2>5. files' \subseteq 0..built
        BY <1>1, <2>1, <2>2
    <2> QED BY <2>3, <2>4, <2>5, <2>6
<1> QED BY <1>2, <1>3

LEMMA InitTyped == Init => Typed
<1> SUFFICES ASSUME Init PROVE Typed
    OBVIOUS
<1> USE DEF Init
<1>1. PICK n \in {0, 1} :
        /\ built = n /\ files = 1..n
        /\ clock = n /\ mtime = [f \in Files |-> IF n = 1 /\ f = 1 THEN 1 ELSE 0]
        /\ content = [f \in Files |-> IF n = 1 /\ f = 1 THEN Old ELSE {}]
        /\ latest = (IF n = 1 THEN 1 ELSE None)
    OBVIOUS
<1>2. built \in 0..(Savers + 1) /\ built <= 1 + Cardinality(Makers)
    BY <1>1, SaversNat, MakersFinite
<1>3. files \subseteq 0..built /\ latest \in {None} \cup 0..built
    BY <1>1
<1>4. content \in [Files -> SUBSET Entries] /\ mtime \in [Files -> Nat] /\ clock \in Nat
    BY <1>1, ChangeAssumption
<1>5. Default \in 0..built
    BY <1>2, SaversNat DEF Default
<1>6. TypeOK
    BY <1>2, <1>3, <1>4, <1>5, BoundAssumption DEF TypeOK, Savers
<1> QED BY <1>2, <1>6 DEF Typed

----------------------------------------------------------------------------
\* The two halves of TypeOK.

Places ==
    {"resolve", "adopt", "load", "open", "stat", "remove", "wait"}
        \cup Saving \cup Signing \cup Ended

Control ==
    /\ pc \in [Procs -> Places]
    /\ saved \subseteq Procs /\ beating \subseteq Procs
    /\ lock \in {"none", "fresh", "stale"}
    /\ crashes \in 0..MaxCrashes /\ stalls \in 0..MaxStalls
    /\ faults \subseteq {"overwritten", "dropped", "robbed", "remade"} \cup LockLeft

Stored ==
    /\ built \in 0..(Savers + 1)
    /\ files \subseteq 0..built
    /\ mtime \in [Files -> Nat] /\ clock \in Nat
    /\ content \in [Files -> SUBSET Entries]
    /\ latest \in {None} \cup 0..built
    /\ path \in [Procs -> 0..built]
    /\ read \in [Procs -> SUBSET Entries]
    /\ snap \in [Procs -> 0..built]

LEMMA TypeHalves == TypeOK <=> Control /\ Stored
BY DEF TypeOK, Control, Stored, Places, Savers, LockLeft

\* The steps that leave the databases, the pointer and what was read alone.
Quiet == UNCHANGED <<saved, store, latest, scan, read>>

Calmly(p) ==
    \/ Open(p) \/ OpenFails(p) \/ Stat(p) \/ RemoveStale(p) \/ GiveUp(p) \/ Release(p)
    \/ HeartbeatStarts(p) \/ HeartbeatLands(p) \/ FailSave(p) \/ Crash(p)

Busy(p) ==
    \/ ScanResolve(p) \/ ScanPoint(p) \/ ScanRead(p) \/ DropPointer(p)
    \/ ReadBase(p) \/ Build(p) \/ Point(p) \/ Cleanup(p) \/ Sign(p)

LEMMA StepCases ==
    ASSUME [Next]_vars
    PROVE  \/ \E p \in Procs : Calmly(p) \/ Busy(p)
           \/ LockAges \/ UNCHANGED vars
BY DEF Next, Step, ScanStep, SaveStep, LockStep, Calmly, Busy, Done

LEMMA CalmlyIsQuiet ==
    ASSUME NEW p \in Procs, Calmly(p)
    PROVE  Quiet
BY DEF Calmly, Quiet, Open, OpenFails, Stat, RemoveStale, GiveUp, Release, LockRemoved,
       HeartbeatStarts, HeartbeatLands, FailSave, Crash, store, scan, env

LEMMA CalmlyControl ==
    ASSUME Control, NEW p \in Procs, Calmly(p)
    PROVE  Control'
<1> USE DEF Control, Places, Saving, Signing, Ended, LockLeft
<1>0. CASE OpenFails(p)
    BY <1>0 DEF OpenFails, env
<1>1. CASE Open(p)
    BY <1>1 DEF Open, Section, env
<1>2. CASE Stat(p)
    BY <1>2 DEF Stat, env
<1>3. CASE RemoveStale(p)
    BY <1>3 DEF RemoveStale, env
<1>4. CASE GiveUp(p)
    BY <1>4 DEF GiveUp, env
<1>5. CASE Release(p)
    BY <1>5 DEF Release, LockRemoved, env
<1>6. CASE HeartbeatStarts(p)
    BY <1>6 DEF HeartbeatStarts, env
<1>7. CASE HeartbeatLands(p)
    BY <1>7 DEF HeartbeatLands, env
<1>8. CASE FailSave(p)
    BY <1>8 DEF FailSave, env
<1>9. CASE Crash(p)
    <2>1. crashes' \in 0..MaxCrashes
        <3>1. crashes \in 0..MaxCrashes /\ MaxCrashes \in Nat
            BY BoundAssumption
        <3>2. crashes < MaxCrashes /\ crashes' = crashes + 1
            BY <1>9 DEF Crash
        <3> HIDE DEF Control
        <3> QED BY <3>1, <3>2
    <2>2. pc' \in [Procs -> Places] /\ beating' \subseteq Procs
        BY <1>9 DEF Crash
    <2> QED BY <1>9, <2>1, <2>2 DEF Crash
<1> QED BY <1>0, <1>1, <1>2, <1>3, <1>4, <1>5, <1>6, <1>7, <1>8, <1>9 DEF Calmly

LEMMA BusyControl ==
    ASSUME Control, NEW p \in Procs, Busy(p)
    PROVE  Control'
<1> USE DEF Control, Places, Saving, Signing, Ended
<1>1. CASE ScanResolve(p)
    BY <1>1 DEF ScanResolve, env
<1>2. CASE ScanPoint(p)
    BY <1>2 DEF ScanPoint, env
<1>3. CASE ScanRead(p)
    BY <1>3 DEF ScanRead, env
<1>4. CASE DropPointer(p)
    BY <1>4 DEF DropPointer, env
<1>5. CASE ReadBase(p)
    BY <1>5 DEF ReadBase, env
<1>6. CASE Build(p)
    BY <1>6 DEF Build, env
<1>7. CASE Point(p)
    BY <1>7 DEF Point, env
<1>8. CASE Cleanup(p)
    BY <1>8 DEF Cleanup, env
<1>9. CASE Sign(p)
    BY <1>9 DEF Sign, env
<1> QED BY <1>1, <1>2, <1>3, <1>4, <1>5, <1>6, <1>7, <1>8, <1>9 DEF Busy

LEMMA LockAgesControl ==
    ASSUME Control, LockAges
    PROVE  Control' /\ Quiet
<1>1. Quiet
    BY DEF LockAges, Quiet, store, scan
<1>2. stalls' \in 0..MaxStalls /\ lock' = "stale"
    <2>1. stalls \in 0..MaxStalls /\ MaxStalls \in Nat
        BY BoundAssumption DEF Control
    <2>2. lock' = "stale" /\ (stalls' = stalls \/ (stalls < MaxStalls /\ stalls' = stalls + 1))
        BY DEF LockAges
    <2> QED BY <2>1, <2>2
<1>3. UNCHANGED <<pc, saved, beating, crashes, faults>>
    BY DEF LockAges
<1>4. Control'
    BY <1>2, <1>3 DEF Control
<1> QED BY <1>1, <1>4

\* What the stored half says of one saver's names.
LEMMA Names ==
    ASSUME Typed, NEW p \in Procs
    PROVE  /\ path[p] \in 0..built /\ snap[p] \in 0..built /\ path[p] \in Files
           /\ snap[p] \in Files /\ built \in Nat /\ built \in 0..(Savers + 1)
           /\ Active \in 0..built
<1>1. /\ path[p] \in 0..built /\ snap[p] \in 0..built
      /\ built \in 0..(Savers + 1)
    BY DEF Typed, TypeOK, Savers
<1> QED BY <1>1, FilesAre, SaversNat, ActiveIsKnown DEF Typed

LEMMA EntriesTyped ==
    ASSUME Typed, NEW f \in Files
    PROVE  EntriesOf(f) \in SUBSET Entries
BY DEF Typed, TypeOK, EntriesOf

LEMMA BuildStored ==
    ASSUME Typed, NEW p \in Procs, Build(p)
    PROVE  Stored'
<1>1. Stored
    BY TypeHalves DEF Typed
<1>2. snap[p] = Default
    BY DEF Build, Typed, Before
<1> DEFINE n == built + 1
           new == Changed(p)
<1>3. n \in 0..(Savers + 1) /\ built \in Nat /\ n \in Files
    BY <1>2, BuiltGrows
<1>4. new \in SUBSET Entries
    BY <1>1, ChangeAssumption DEF Changed, Stored
<1>5. /\ built' = n /\ files' = files \cup {n}
      /\ content' = [content EXCEPT ![n] = new]
      /\ clock' = clock + 1 /\ mtime' = [mtime EXCEPT ![n] = clock']
      /\ snap' = [snap EXCEPT ![p] = n]
      /\ UNCHANGED <<latest, path, read>>
    BY DEF Build, Written
<1> HIDE DEF new
<1>6. content' \in [Files -> SUBSET Entries]
    BY <1>1, <1>3, <1>4, <1>5 DEF Stored
<1>7. clock' \in Nat
    BY <1>1, <1>5 DEF Stored
<1>8. mtime' \in [Files -> Nat]
    BY <1>1, <1>3, <1>5, <1>7 DEF Stored
<1>9. 0..built \subseteq 0..n /\ n \in 0..n
    BY <1>3
<1> HIDE DEF n
<1>10. files' \subseteq 0..built' /\ latest' \in {None} \cup 0..built'
    BY <1>1, <1>5, <1>9 DEF Stored
<1>11. path' \in [Procs -> 0..built'] /\ snap' \in [Procs -> 0..built']
    BY <1>1, <1>5, <1>9 DEF Stored
<1>12. read' \in [Procs -> SUBSET Entries]
    BY <1>1, <1>5 DEF Stored
<1> QED BY <1>3, <1>5, <1>6, <1>7, <1>8, <1>10, <1>11, <1>12 DEF Stored

LEMMA SignStored ==
    ASSUME Typed, NEW p \in Procs, Sign(p)
    PROVE  Stored'
<1>1. Stored
    BY TypeHalves DEF Typed
<1> DEFINE n == path[p]
           new == EntriesOf(path[p])
<1>2. n \in 0..built /\ n \in Files
    BY Names
<1>3. new \in SUBSET Entries
    BY <1>2, EntriesTyped
<1>4. /\ files' = files \cup {n} /\ content' = [content EXCEPT ![n] = new]
      /\ clock' = clock + 1 /\ mtime' = [mtime EXCEPT ![n] = clock']
      /\ UNCHANGED <<built, latest, path, snap, read>>
    BY DEF Sign, Written, scan
<1> HIDE DEF n, new
<1>5. content' \in [Files -> SUBSET Entries] /\ files' \subseteq 0..built
    BY <1>1, <1>2, <1>3, <1>4 DEF Stored
<1>6. clock' \in Nat
    BY <1>1, <1>4 DEF Stored
<1>7. mtime' \in [Files -> Nat]
    BY <1>1, <1>2, <1>4, <1>6 DEF Stored
<1> QED BY <1>1, <1>4, <1>5, <1>6, <1>7 DEF Stored

LEMMA BusyStored ==
    ASSUME Typed, NEW p \in Procs, Busy(p)
    PROVE  Stored'
<1>0. Stored
    BY TypeHalves DEF Typed
<1>a. path[p] \in 0..built /\ snap[p] \in 0..built /\ Active \in 0..built /\ Active \in Files
    BY Names, FilesAre, SaversNat
<1>1. CASE ScanResolve(p)
    BY <1>0, <1>a, <1>1 DEF ScanResolve, Stored, store
<1>2. CASE ScanPoint(p)
    BY <1>0, <1>a, <1>2 DEF ScanPoint, Stored, store, scan
<1>3. CASE ScanRead(p)
    <2>1. UNCHANGED <<built, latest, path, snap, read>> /\ Opened(path[p])
        BY <1>3 DEF ScanRead, scan
    <2>2. /\ files' \subseteq 0..built /\ content' \in [Files -> SUBSET Entries]
          /\ mtime' \in [Files -> Nat] /\ clock' \in Nat
        BY <2>1, OpenedTyped
    <2> QED BY <1>0, <2>1, <2>2 DEF Stored
<1>4. CASE DropPointer(p)
    BY <1>0, <1>4 DEF DropPointer, Stored, store, scan
<1>5. CASE ReadBase(p)
    <2>1. EntriesOf(Active) \in SUBSET Entries
        BY <1>a, EntriesTyped
    <2> QED BY <1>0, <2>1, <1>5 DEF ReadBase, Stored, store, scan
<1>6. CASE Build(p)
    BY <1>6, BuildStored
<1>7. CASE Point(p)
    BY <1>0, <1>a, <1>7 DEF Point, Stored, store, scan
<1>8. CASE Cleanup(p)
    BY <1>0, <1>8 DEF Cleanup, Stored, scan
<1>9. CASE Sign(p)
    BY <1>9, SignStored
<1> QED BY <1>1, <1>2, <1>3, <1>4, <1>5, <1>6, <1>7, <1>8, <1>9 DEF Busy

\* A saver that has not made its snapshot has not made one before.
LEMMA BeforeStays ==
    ASSUME Control, NEW p \in Procs, Calmly(p) \/ Busy(p), NEW q \in Procs, Before(q)'
    PROVE  Before(q) /\ ~ (q = p /\ Build(p))
<1> USE DEF Control, Before, Places, Saving, Signing, Ended
<1>1. CASE Open(p) \/ OpenFails(p)
    BY <1>1 DEF Open, OpenFails, Section, Build
<1>2. CASE Stat(p) \/ RemoveStale(p) \/ GiveUp(p)
    BY <1>2 DEF Stat, RemoveStale, GiveUp, Build
<1>3. CASE Release(p)
    BY <1>3 DEF Release, Build
<1>4. CASE HeartbeatStarts(p) \/ HeartbeatLands(p) \/ FailSave(p) \/ Crash(p)
    BY <1>4 DEF HeartbeatStarts, HeartbeatLands, FailSave, Crash, Build
<1>5. CASE ScanResolve(p) \/ ScanPoint(p) \/ ScanRead(p) \/ DropPointer(p)
    BY <1>5 DEF ScanResolve, ScanPoint, ScanRead, DropPointer, Build
<1>6. CASE ReadBase(p) \/ Build(p)
    BY <1>6 DEF ReadBase, Build
<1>7. CASE Point(p) \/ Cleanup(p) \/ Sign(p)
    BY <1>7 DEF Point, Cleanup, Sign, Build
<1> QED BY <1>1, <1>2, <1>3, <1>4, <1>5, <1>6, <1>7 DEF Calmly, Busy

LEMMA OneMore ==
    ASSUME Typed, NEW p \in Procs, Build(p)
    PROVE  built' <= 1 + Cardinality(Makers') /\ snap' = [snap EXCEPT ![p] = built + 1]
<1>1. snap[p] = Default /\ built' = built + 1 /\ snap' = [snap EXCEPT ![p] = built + 1]
    BY DEF Build, Typed, Before
<1>2. built \in Nat /\ built <= 1 + Cardinality(Makers)
    BY Names DEF Typed
<1>3. p \notin Makers /\ Makers' = Makers \cup {p}
    <2>1. snap \in [Procs -> 0..built]
        BY DEF Typed, TypeOK
    <2>2. built + 1 # Default
        BY <1>2 DEF Default
    <2> QED BY <1>1, <2>1, <2>2 DEF Makers
<1>4. Cardinality(Makers') = Cardinality(Makers) + 1
    BY <1>3, MakersFinite, FS_AddElement
<1> QED BY <1>1, <1>2, <1>4, MakersFinite

LEMMA StepTyped == Typed /\ [Next]_vars => Typed'
<1> SUFFICES ASSUME Typed, [Next]_vars PROVE Typed'
    OBVIOUS
<1>0. Control /\ Stored
    BY TypeHalves DEF Typed
<1>1. CASE UNCHANGED vars
    <2>1. /\ UNCHANGED <<pc, saved, lock, beating, files, mtime, clock, content, built, latest>>
          /\ UNCHANGED <<path, snap, read, crashes, stalls, faults>>
        BY <1>1 DEF vars, store, scan, env
    <2>2. Control' /\ Stored'
        BY <1>0, <2>1 DEF Control, Stored
    <2>3. TypeOK'
        BY <2>2, TypeHalves, PTL
    <2>4. Makers' = Makers /\ \A q \in Procs : Before(q)' = Before(q)
        BY <2>1 DEF Makers, Before
    <2> QED BY <2>1, <2>3, <2>4 DEF Typed
<1>2. CASE LockAges
    <2>1. Control' /\ Quiet
        BY <1>0, <1>2, LockAgesControl
    <2>2. UNCHANGED <<saved, files, mtime, clock, content, built, latest, path, snap, read, pc>>
        BY <1>2, <2>1 DEF Quiet, store, scan, LockAges
    <2>3. Stored'
        BY <1>0, <2>2 DEF Stored
    <2>4. TypeOK'
        BY <2>1, <2>3, TypeHalves, PTL
    <2>5. Makers' = Makers /\ \A q \in Procs : Before(q)' = Before(q)
        BY <2>2 DEF Makers, Before
    <2> QED BY <2>2, <2>4, <2>5 DEF Typed
<1>3. ASSUME NEW p \in Procs, Calmly(p) PROVE Typed'
    <2>1. UNCHANGED <<saved, files, mtime, clock, content, built, latest, path, snap, read>>
        BY <1>3, CalmlyIsQuiet DEF Quiet, store, scan
    <2>2. Control' /\ Stored'
        BY <1>0, <1>3, <2>1, CalmlyControl DEF Stored
    <2>3. TypeOK'
        BY <2>2, TypeHalves, PTL
    <2>4. Makers' = Makers
        BY <2>1 DEF Makers
    <2>5. \A q \in Procs : Before(q)' => Before(q)
        BY <1>0, <1>3, BeforeStays
    <2> QED BY <2>1, <2>3, <2>4, <2>5 DEF Typed
<1>4. ASSUME NEW p \in Procs, Busy(p) PROVE Typed'
    <2>1. Control' /\ Stored'
        BY <1>0, <1>4, BusyControl, BusyStored
    <2>2. TypeOK'
        BY <2>1, TypeHalves, PTL
    <2>3. \A q \in Procs : Before(q)' => Before(q) /\ ~ (q = p /\ Build(p))
        BY <1>0, <1>4, BeforeStays
    <2>4. CASE Build(p)
        <3>1. built' <= 1 + Cardinality(Makers') /\ snap' = [snap EXCEPT ![p] = built + 1]
            BY <2>4, OneMore
        <3>2. ASSUME NEW q \in Procs, Before(q)' PROVE snap'[q] = Default
            BY <2>3, <2>4, <3>1, <3>2, <1>0 DEF Typed, Stored
        <3> QED BY <2>2, <3>1, <3>2 DEF Typed
    <2>5. CASE ~ Build(p)
        <3>1. UNCHANGED <<built, snap>>
            BY <1>4, <2>5 DEF Busy, ScanResolve, ScanPoint, ScanRead, DropPointer, ReadBase,
                              Point, Cleanup, Sign, store, scan
        <3>2. Makers' = Makers
            BY <3>1 DEF Makers
        <3> QED BY <2>2, <2>3, <3>1, <3>2 DEF Typed
    <2> QED BY <2>4, <2>5
<1> QED BY <1>1, <1>2, <1>3, <1>4, StepCases

----------------------------------------------------------------------------
\* Who holds the lock.

LEMMA HoldersStay ==
    ASSUME Control, NEW p \in Procs,
           \/ Busy(p) \/ OpenFails(p) \/ Stat(p) \/ RemoveStale(p) \/ GiveUp(p)
           \/ HeartbeatStarts(p) \/ HeartbeatLands(p) \/ FailSave(p)
    PROVE  Holders' = Holders
<1> SUFFICES ASSUME NEW q \in Procs
             PROVE  pc'[q] \in Saving \cup Signing <=> pc[q] \in Saving \cup Signing
    BY DEF Holders
<1> USE DEF Control, Saving, Signing, Section
<1>1. CASE OpenFails(p) \/ Stat(p) \/ RemoveStale(p) \/ GiveUp(p)
    BY <1>1 DEF OpenFails, Stat, RemoveStale, GiveUp
<1>2. CASE HeartbeatStarts(p) \/ HeartbeatLands(p) \/ FailSave(p)
    BY <1>2 DEF HeartbeatStarts, HeartbeatLands, FailSave
<1>3. CASE ScanResolve(p) \/ ScanPoint(p) \/ ScanRead(p) \/ DropPointer(p)
    BY <1>3 DEF ScanResolve, ScanPoint, ScanRead, DropPointer
<1>4. CASE ReadBase(p) \/ Build(p) \/ Point(p) \/ Cleanup(p) \/ Sign(p)
    BY <1>4 DEF ReadBase, Build, Point, Cleanup, Sign
<1> QED BY <1>1, <1>2, <1>3, <1>4 DEF Busy

LEMMA HolderLeaves ==
    ASSUME Control, NEW p \in Procs, Release(p) \/ Crash(p)
    PROVE  Holders' = Holders \ {p}
<1> SUFFICES ASSUME NEW q \in Procs
             PROVE  pc'[q] \in Saving \cup Signing <=> (q # p /\ pc[q] \in Saving \cup Signing)
    BY DEF Holders
<1> QED BY DEF Release, Crash, Control, Saving, Signing

LEMMA HolderEnters ==
    ASSUME Control, NEW p \in Procs, Open(p)
    PROVE  \/ lock = "none" /\ lock' = "fresh" /\ Holders' = Holders \cup {p}
           \/ lock # "none" /\ lock' = lock /\ Holders' = Holders
<1>1. CASE lock = "none"
    <2>1. lock' = "fresh" /\ pc' = [pc EXCEPT ![p] = Section(p)]
        BY <1>1 DEF Open
    <2>2. ASSUME NEW q \in Procs
          PROVE  pc'[q] \in Saving \cup Signing <=> (q = p \/ pc[q] \in Saving \cup Signing)
        BY <2>1 DEF Control, Section, Saving, Signing
    <2> QED BY <1>1, <2>1, <2>2 DEF Holders
<1>2. CASE lock # "none"
    <2>1. lock' = lock /\ pc' = [pc EXCEPT ![p] = "stat"] /\ pc[p] \in {"open", "wait"}
        BY <1>2 DEF Open
    <2>2. ASSUME NEW q \in Procs
          PROVE  pc'[q] \in Saving \cup Signing <=> pc[q] \in Saving \cup Signing
        BY <2>1 DEF Control, Saving, Signing
    <2> QED BY <1>2, <2>1, <2>2 DEF Holders
<1> QED BY <1>1, <1>2

LEMMA FaultsStay ==
    ASSUME [Next]_vars
    PROVE  faults \subseteq faults'
<1>1. ASSUME NEW p \in Procs, Calmly(p) PROVE faults \subseteq faults'
    BY <1>1 DEF Calmly, Open, OpenFails, Stat, RemoveStale, GiveUp, Release, LockRemoved,
                HeartbeatStarts, HeartbeatLands, FailSave, Crash, env
<1>2. ASSUME NEW p \in Procs, Busy(p) PROVE faults \subseteq faults'
    BY <1>2 DEF Busy, ScanResolve, ScanPoint, ScanRead, DropPointer, ReadBase, Build, Point,
                Cleanup, Sign, env
<1>3. CASE LockAges
    BY <1>3 DEF LockAges
<1>4. CASE UNCHANGED vars
    BY <1>4 DEF vars
<1> QED BY <1>1, <1>2, <1>3, <1>4, StepCases

LEMMA BusyKeepsLock ==
    ASSUME NEW p \in Procs, Busy(p)
    PROVE  UNCHANGED lock
BY DEF Busy, ScanResolve, ScanPoint, ScanRead, DropPointer, ReadBase, Build, Point,
       Cleanup, Sign, env

LEMMA StepSole == Typed /\ SoleHolder /\ [Next]_vars => SoleHolder'
<1> SUFFICES ASSUME Typed, SoleHolder, [Next]_vars, "robbed" \notin faults'
             PROVE  /\ Holders' # {} => lock' # "none"
                    /\ \A p, q \in Holders' : p = q
    BY DEF SoleHolder
<1>0. Control
    BY TypeHalves DEF Typed
<1>a. /\ Holders # {} => lock # "none"
      /\ \A p, q \in Holders : p = q
    BY FaultsStay DEF SoleHolder
<1>1. CASE UNCHANGED vars
    BY <1>1, <1>a DEF vars, Holders
<1>2. CASE LockAges
    <2>1. UNCHANGED pc /\ lock' # "none"
        BY <1>2 DEF LockAges
    <2>2. Holders' = Holders
        BY <2>1 DEF Holders
    <2> QED BY <1>a, <2>1, <2>2
<1>3. ASSUME NEW p \in Procs, Busy(p)
      PROVE  (Holders' # {} => lock' # "none") /\ \A r, q \in Holders' : r = q
    BY <1>0, <1>a, <1>3, HoldersStay, BusyKeepsLock
<1>4. ASSUME NEW p \in Procs, Calmly(p)
      PROVE  (Holders' # {} => lock' # "none") /\ \A r, q \in Holders' : r = q
    <2>0. CASE OpenFails(p)
        <3>1. lock = lock' \/ lock' = "fresh"
            BY <2>0 DEF OpenFails
        <3> QED BY <1>0, <1>a, <2>0, <3>1, HoldersStay
    <2>1. CASE Open(p)
        BY <1>0, <1>a, <2>1, HolderEnters
    <2>2. CASE Stat(p) \/ GiveUp(p) \/ HeartbeatStarts(p) \/ FailSave(p)
        <3>1. UNCHANGED lock
            BY <2>2 DEF Stat, GiveUp, HeartbeatStarts, FailSave
        <3> QED BY <1>0, <1>a, <2>2, <3>1, HoldersStay
    <2>3. CASE RemoveStale(p)
        <3>1. Holders = {} \/ UNCHANGED lock
            BY <2>3 DEF RemoveStale
        <3> QED BY <1>0, <1>a, <2>3, <3>1, HoldersStay
    <2>4. CASE HeartbeatLands(p)
        <3>1. lock' # "none"
            BY <2>4 DEF HeartbeatLands
        <3> QED BY <1>0, <1>a, <2>4, <3>1, HoldersStay
    <2>5. CASE Release(p)
        <3>1. p \in Holders
            BY <2>5 DEF Release, Holders, Saving, Signing
        <3>2. Holders' = {}
            BY <1>0, <1>a, <2>5, <3>1, HolderLeaves
        <3> QED BY <3>2
    <2>6. CASE Crash(p)
        <3>1. UNCHANGED lock
            BY <2>6 DEF Crash
        <3> QED BY <1>0, <1>a, <2>6, <3>1, HolderLeaves
    <2> QED BY <1>4, <2>0, <2>1, <2>2, <2>3, <2>4, <2>5, <2>6 DEF Calmly
<1> QED BY <1>1, <1>2, <1>3, <1>4, StepCases

LEMMA StepLockHeld == Typed /\ LockHeld /\ [Next]_vars => LockHeld'
<1> SUFFICES ASSUME Typed, LockHeld, [Next]_vars, \A p \in Procs : pc'[p] # "dead",
                    faults' \cap LockLeft = {}, lock' # "none"
             PROVE  Holders' # {}
    BY DEF LockHeld
<1>0. Control
    BY TypeHalves DEF Typed
<1>b. \A p \in Procs : pc[p] # "dead"
    <2>1. ASSUME NEW p \in Procs, Calmly(p) \/ Busy(p), NEW q \in Procs, pc[q] = "dead"
          PROVE  pc'[q] = "dead"
        BY <1>0, <2>1 DEF Calmly, Busy, Open, OpenFails, Stat, RemoveStale, GiveUp, Release,
           HeartbeatStarts, HeartbeatLands, FailSave, Crash, ScanResolve, ScanPoint, ScanRead,
           DropPointer, ReadBase, Build, Point, Cleanup, Sign, Control, Ended
    <2>2. CASE LockAges \/ UNCHANGED vars
        BY <2>2 DEF LockAges, vars
    <2> QED BY <2>1, <2>2, StepCases
<1>a. lock # "none" => Holders # {}
    BY <1>b, FaultsStay DEF LockHeld
<1>1. CASE UNCHANGED vars
    BY <1>1, <1>a DEF vars, Holders
<1>2. CASE LockAges
    <2>1. UNCHANGED pc /\ lock = "fresh"
        BY <1>2 DEF LockAges
    <2>2. Holders' = Holders
        BY <2>1 DEF Holders
    <2> QED BY <1>a, <2>1, <2>2
<1>3. ASSUME NEW p \in Procs, Busy(p) PROVE Holders' # {}
    BY <1>0, <1>a, <1>3, HoldersStay, BusyKeepsLock
<1>4. ASSUME NEW p \in Procs, Calmly(p) PROVE Holders' # {}
    <2>0. CASE OpenFails(p)
        <3>1. UNCHANGED lock
            BY <2>0 DEF OpenFails, LockLeft
        <3> QED BY <1>0, <1>a, <2>0, <3>1, HoldersStay
    <2>1. CASE Open(p)
        BY <1>0, <1>a, <2>1, HolderEnters
    <2>2. CASE Stat(p) \/ GiveUp(p) \/ HeartbeatStarts(p) \/ FailSave(p)
        <3>1. UNCHANGED lock
            BY <2>2 DEF Stat, GiveUp, HeartbeatStarts, FailSave
        <3> QED BY <1>0, <1>a, <2>2, <3>1, HoldersStay
    <2>3. CASE RemoveStale(p)
        <3>1. UNCHANGED lock
            BY <2>3 DEF RemoveStale
        <3> QED BY <1>0, <1>a, <2>3, <3>1, HoldersStay
    <2>6. CASE Release(p)
        BY <2>6 DEF Release, LockRemoved, LockLeft
    <2>4. CASE HeartbeatLands(p)
        <3>1. lock # "none"
            BY <2>4 DEF HeartbeatLands, LockLeft
        <3> QED BY <1>0, <1>a, <2>4, <3>1, HoldersStay
    <2>5. CASE Crash(p)
        BY <1>0, <2>5 DEF Crash, Control
    <2> QED BY <1>4, <2>0, <2>1, <2>2, <2>3, <2>4, <2>5, <2>6 DEF Calmly
<1> QED BY <1>1, <1>2, <1>3, <1>4, StepCases

----------------------------------------------------------------------------
\* What the index serves.

\* What the steps below start from.
Sound(p) ==
    /\ Typed /\ Calm
    /\ \A r, q \in Holders : r = q
    /\ Served /\ Started /\ Made /\ Pointed /\ Missing

LEMMA SoundHere ==
    ASSUME Typed, SoleHolder, Kept, [Next]_vars, Calm', NEW p \in Procs
    PROVE  Sound(p)
<1>1. Calm
    BY FaultsStay DEF Calm
<1>2. "robbed" \notin faults
    BY <1>1 DEF Calm, LockLeft
<1> QED BY <1>1, <1>2 DEF Sound, Kept, SoleHolder

\* A step that leaves the store alone keeps it if no saver comes to a place
\* where something is claimed of it, and none leaves the pointer missing.
LEMMA QuietKept ==
    ASSUME Served, Started, Made, Pointed, Missing, Quiet,
           \A q \in Procs : \A here \in {"build", "point", "clean"} :
               pc'[q] = here => pc[q] = here,
           latest = None => \A q \in Procs : pc[q] = "point" => pc'[q] = "point"
    PROVE  (Served /\ Started /\ Made /\ Pointed /\ Missing)'
<1>0. UNCHANGED <<saved, files, content, latest, read, snap>>
    BY DEF Quiet, store, scan
<1>1. Served'
    BY <1>0 DEF Served, Has
<1>2. Started'
    BY <1>0 DEF Started, Has
<1>3. Made'
    BY <1>0 DEF Made, Has
<1>4. Pointed'
    BY <1>0 DEF Pointed
<1>5. Missing'
    BY <1>0 DEF Missing
<1> QED BY <1>1, <1>2, <1>3, <1>4, <1>5

LEMMA CalmlyKept ==
    ASSUME NEW p \in Procs, Sound(p), Calmly(p), Calm'
    PROVE  (Served /\ Started /\ Made /\ Pointed /\ Missing)'
<1>0. Control
    BY TypeHalves DEF Typed, Sound
<1>1. ASSUME NEW q \in Procs, NEW here \in {"build", "point", "clean"}, pc'[q] = here
      PROVE  pc[q] = here
    BY <1>0, <1>1 DEF Calmly, Open, OpenFails, Section, Stat, RemoveStale, GiveUp, Release,
       HeartbeatStarts, HeartbeatLands, FailSave, Crash, Control
<1>2. ASSUME latest = None, NEW q \in Procs, pc[q] = "point"
      PROVE  pc'[q] = "point"
    <2>1. CASE q # p
        BY <1>0, <1>2, <2>1 DEF Calmly, Open, OpenFails, Section, Stat, RemoveStale, GiveUp, Release,
           HeartbeatStarts, HeartbeatLands, FailSave, Crash, Control
    <2>2. CASE q = p
        <3>1. ~ FailSave(p) /\ ~ Crash(p)
            <4>1. "dropped" \notin faults'
                BY DEF Calm, LockLeft
            <4>2. ~ FailSave(p)
                BY <1>2, <2>2, <4>1 DEF FailSave
            <4>3. ~ Crash(p)
                BY <1>2, <2>2, <4>1 DEF Crash
            <4> QED BY <4>2, <4>3
        <3> QED BY <1>2, <2>2, <3>1 DEF Calmly, Open, OpenFails, Stat, RemoveStale, GiveUp, Release,
           HeartbeatStarts, HeartbeatLands
    <2> QED BY <2>1, <2>2
<1> QED BY <1>1, <1>2, CalmlyIsQuiet, QuietKept DEF Sound

LEMMA OpenedKept ==
    ASSUME Typed, NEW p \in Procs, Opened(path[p])
    PROVE  \A f \in files : f \in files' /\ content'[f] = content[f]
<1>1. CASE path[p] \in files
    BY <1>1 DEF Opened
<1>2. CASE path[p] \notin files
    <2>1. files' = files \cup {path[p]} /\ content' = [content EXCEPT ![path[p]] = {}]
        BY <1>2 DEF Opened
    <2>2. content \in [Files -> SUBSET Entries] /\ files \subseteq Files
        BY FilesAre, SaversNat, Names, TypeHalves DEF Typed, Stored
    <2> QED BY <1>2, <2>1, <2>2
<1> QED BY <1>1, <1>2

\* A step of the store that leaves what there is as it is, and moves no saver to
\* where something is claimed of it.
LEMMA GrowthKept ==
    ASSUME Served, Started, Made, Pointed, Missing,
           UNCHANGED <<saved, latest, read, snap>>,
           \A f \in files : f \in files' /\ content'[f] = content[f],
           \A q \in Procs : \A here \in {"build", "point", "clean"} :
               pc'[q] = here <=> pc[q] = here
    PROVE  (Served /\ Started /\ Made /\ Pointed /\ Missing)'
<1>1. Served'
    BY DEF Served, Has
<1>2. Started'
    BY DEF Started, Has
<1>3. Made'
    BY DEF Made, Has
<1>4. Pointed'
    BY DEF Pointed
<1>5. Missing'
    BY DEF Missing
<1> QED BY <1>1, <1>2, <1>3, <1>4, <1>5

LEMMA ScanKept ==
    ASSUME NEW p \in Procs, Sound(p), Calm',
           ScanResolve(p) \/ ScanPoint(p) \/ ScanRead(p) \/ Sign(p)
    PROVE  (Served /\ Started /\ Made /\ Pointed /\ Missing)'
<1>0. Control
    BY TypeHalves DEF Typed, Sound
<1>1. \A q \in Procs : \A here \in {"build", "point", "clean"} :
          pc'[q] = here <=> pc[q] = here
    BY <1>0 DEF ScanResolve, ScanPoint, ScanRead, Sign, Control
<1>2. CASE ScanResolve(p)
    <2>1. UNCHANGED <<saved, latest, read, snap, files, content>>
        BY <1>2 DEF ScanResolve, store
    <2> QED BY <1>1, <2>1, GrowthKept DEF Sound
<1>3. CASE ScanRead(p)
    <2>1. UNCHANGED <<saved, latest, read, snap>> /\ Opened(path[p])
        BY <1>3 DEF ScanRead, scan
    <2>2. \A f \in files : f \in files' /\ content'[f] = content[f]
        BY <2>1, OpenedKept DEF Sound
    <2> QED BY <1>1, <2>1, <2>2, GrowthKept DEF Sound
<1>4. CASE Sign(p)
    <2>1. /\ UNCHANGED <<saved, latest, read, snap>>
          /\ files' = files \cup {path[p]}
          /\ content' = [content EXCEPT ![path[p]] = EntriesOf(path[p])]
        BY <1>4 DEF Sign, scan
    <2>2. content \in [Files -> SUBSET Entries] /\ files \subseteq Files
        BY FilesAre, SaversNat, Names, TypeHalves DEF Sound, Typed, Stored
    <2>3. \A f \in files : f \in files' /\ content'[f] = content[f]
        BY <2>1, <2>2 DEF EntriesOf
    <2> QED BY <1>1, <2>1, <2>3, GrowthKept DEF Sound
<1>5. CASE ScanPoint(p)
    <2>1. /\ UNCHANGED <<saved, read, snap, files, content>> /\ latest' = path[p]
          /\ path[p] = latest \/ files = {}
        BY <1>5 DEF ScanPoint, store, scan, Calm, LockLeft
    <2>2. CASE path[p] = latest
        <3>1. latest' = latest
            BY <2>1, <2>2
        <3> QED BY <1>1, <2>1, <3>1, GrowthKept DEF Sound
    <2>3. CASE files = {}
        <3>1. saved = {} /\ \A q \in Procs : pc[q] \notin {"point", "clean"}
            <4>1. \A q \in Procs : pc[q] \notin {"point", "clean"}
                BY <2>3 DEF Sound, Made, Pointed
            <4>2. latest # None => saved = {}
                BY <2>3 DEF Sound, Served
            <4>3. latest = None => saved = {}
                BY <4>1 DEF Sound, Missing
            <4> QED BY <4>1, <4>2, <4>3
        <3>2. saved' = {} /\ \A q \in Procs : pc'[q] \notin {"point", "clean"}
            BY <3>1, <1>1, <2>1
        <3> QED BY <3>2 DEF Served, Started, Made, Pointed, Missing
    <2> QED BY <2>1, <2>2, <2>3
<1> QED BY <1>2, <1>3, <1>4, <1>5

\* The only holder is p: no other saver is where something is claimed of it.
LEMMA Alone ==
    ASSUME NEW p \in Procs, Sound(p), p \in Holders, NEW q \in Procs, q # p
    PROVE  pc[q] \notin {"base", "build", "point", "clean"}
BY DEF Sound, Holders, Saving

LEMMA ReadBaseKept ==
    ASSUME NEW p \in Procs, Sound(p), ReadBase(p)
    PROVE  (Served /\ Started /\ Made /\ Pointed /\ Missing)'
<1>0. pc \in [Procs -> Places] /\ read \in [Procs -> SUBSET Entries]
    BY TypeHalves DEF Typed, Sound, Control, Stored
<1>1. /\ pc[p] = "base" /\ pc' = [pc EXCEPT ![p] = "build"]
      /\ read' = [read EXCEPT ![p] = EntriesOf(Active)]
      /\ UNCHANGED <<saved, latest, files, content, snap>>
    BY DEF ReadBase, store, scan
<1>2. \A q \in Procs : pc[q] \notin {"build", "point", "clean"}
    BY <1>1, Alone DEF Holders, Saving
<1>3. \A q \in Procs : pc'[q] \notin {"point", "clean"} /\ (pc'[q] = "build" => q = p)
    BY <1>0, <1>1, <1>2
<1>4. latest = None => saved = {}
    BY <1>2 DEF Sound, Missing
<1>5. \A q \in saved : Has(EntriesOf(Active), q)
    BY <1>4 DEF Sound, Served, EntriesOf, Active
<1>6. Started'
    BY <1>0, <1>1, <1>3, <1>5 DEF Started, Has
<1>7. Served'
    BY <1>1 DEF Sound, Served, Has
<1>8. Made' /\ Pointed' /\ Missing'
    BY <1>1, <1>3, <1>4 DEF Made, Pointed, Missing
<1> QED BY <1>6, <1>7, <1>8

\* What p read, with its changes, says what p and the others have saved.
LEMMA ChangesMerge ==
    ASSUME NEW p \in Procs, saved \subseteq Procs, \A q \in saved : Has(read[p], q)
    PROVE  \A q \in saved \cup {p} : Has(Changed(p), q)
<1> SUFFICES ASSUME NEW q \in saved \cup {p} PROVE Has(Changed(p), q)
    OBVIOUS
<1>1. q \in Procs /\ Put[q] \cap Drop[p] = {} /\ Put[p] \cap Drop[q] = {}
    BY ChangeAssumption
<1>2. CASE q = p
    BY <1>1, <1>2 DEF Has, Changed
<1>3. CASE q # p
    <2>1. Has(read[p], q)
        BY <1>3
    <2> QED BY <1>1, <2>1 DEF Has, Changed
<1> QED BY <1>2, <1>3

LEMMA BuildKept ==
    ASSUME NEW p \in Procs, Sound(p), Build(p)
    PROVE  (Served /\ Started /\ Made /\ Pointed /\ Missing)'
<1> DEFINE n == built + 1
           new == Changed(p)
<1>0. /\ pc \in [Procs -> Places] /\ snap \in [Procs -> 0..built] /\ saved \subseteq Procs
      /\ content \in [Files -> SUBSET Entries] /\ files \subseteq 0..built
    BY TypeHalves DEF Typed, Sound, Control, Stored
<1>1. /\ pc[p] = "build" /\ pc' = [pc EXCEPT ![p] = "point"]
      /\ files' = files \cup {n} /\ content' = [content EXCEPT ![n] = new]
      /\ snap' = [snap EXCEPT ![p] = n]
      /\ UNCHANGED <<saved, latest, read>>
    BY DEF Build
<1>2. n \in Files /\ n \notin files
    <2>1. snap[p] = Default
        BY <1>1 DEF Sound, Typed, Before
    <2>2. n \in Files /\ built \in Nat
        BY <2>1, BuiltGrows DEF Sound
    <2> QED BY <1>0, <2>2
<1>3. \A q \in saved \cup {p} : Has(new, q)
    BY <1>0, <1>1, ChangesMerge DEF Sound, Started
<1> HIDE DEF n, new
<1>4. \A f \in files : f \in files' /\ content'[f] = content[f]
    <2>1. files \subseteq Files
        BY <1>0, FilesAre, SaversNat, Names DEF Sound
    <2> QED BY <1>0, <1>1, <1>2, <2>1
<1>5. \A q \in Procs : /\ pc'[q] = "point" => q = p
                       /\ pc'[q] \notin {"build", "clean"}
    BY <1>0, <1>1, Alone DEF Holders, Saving
<1>6. n \in files' /\ content'[n] = new /\ snap'[p] = n /\ pc'[p] = "point"
    BY <1>0, <1>1, <1>2
<1>7. Made'
    BY <1>1, <1>3, <1>5, <1>6 DEF Made, Has
<1>8. Served'
    BY <1>1, <1>4 DEF Sound, Served, Has
<1>9. Started' /\ Pointed' /\ Missing'
    BY <1>5, <1>6 DEF Started, Pointed, Missing
<1> QED BY <1>7, <1>8, <1>9

LEMMA PointKept ==
    ASSUME NEW p \in Procs, Sound(p), Point(p)
    PROVE  (Served /\ Started /\ Made /\ Pointed /\ Missing)'
<1>0. pc \in [Procs -> Places] /\ snap \in [Procs -> 0..built] /\ built \in Nat
    BY TypeHalves, Names DEF Typed, Sound, Control, Stored
<1>1. /\ pc[p] = "point" /\ pc' = [pc EXCEPT ![p] = "clean"]
      /\ latest' = snap[p] /\ saved' = saved \cup {p}
      /\ UNCHANGED <<files, content, snap, read>>
    BY DEF Point, store, scan
<1>2. \A q \in Procs : pc'[q] \notin {"build", "point"} /\ (pc'[q] = "clean" => q = p)
    BY <1>0, <1>1, Alone DEF Holders, Saving
<1>3. snap[p] \in files /\ \A q \in saved \cup {p} : Has(content[snap[p]], q)
    BY <1>1 DEF Sound, Made
<1>4. latest' # None
    BY <1>0, <1>1 DEF None
<1>5. Served'
    BY <1>1, <1>3 DEF Served, Has
<1>6. Started' /\ Made' /\ Missing' /\ Pointed'
    BY <1>1, <1>2, <1>3, <1>4 DEF Started, Made, Missing, Pointed
<1> QED BY <1>5, <1>6

LEMMA CleanupKept ==
    ASSUME NEW p \in Procs, Sound(p), Cleanup(p)
    PROVE  (Served /\ Started /\ Made /\ Pointed /\ Missing)'
<1>0. pc \in [Procs -> Places]
    BY TypeHalves DEF Typed, Sound, Control
<1>1. /\ pc[p] = "clean" /\ pc' = [pc EXCEPT ![p] = "release"]
      /\ files' = files \ Superseded(p)
      /\ UNCHANGED <<saved, latest, content, snap, read>>
    BY DEF Cleanup, scan
<1>2. \A q \in Procs : pc'[q] \notin {"build", "point", "clean"}
    BY <1>0, <1>1, Alone DEF Holders, Saving
<1>3. latest = snap[p] /\ latest \in files /\ snap[p] \notin Superseded(p)
    BY <1>1 DEF Sound, Pointed, Superseded
<1>4. saved = {} \/ latest # None
    <2>1. \A q \in Procs : pc[q] # "point"
        BY <1>1, Alone DEF Holders, Saving
    <2> QED BY <2>1 DEF Sound, Missing
<1>5. Served'
    BY <1>1, <1>3 DEF Sound, Served, Has
<1>6. Started' /\ Made' /\ Missing' /\ Pointed'
    BY <1>1, <1>2, <1>4 DEF Started, Made, Missing, Pointed
<1> QED BY <1>5, <1>6

LEMMA DropKept ==
    ASSUME NEW p \in Procs, Sound(p), DropPointer(p), Calm'
    PROVE  (Served /\ Started /\ Made /\ Pointed /\ Missing)'
<1>1. /\ latest' = None /\ pc[p] = "point"
      /\ UNCHANGED <<pc, saved, files, content, snap, read>>
    <2>1. "dropped" \notin faults'
        BY DEF Calm, LockLeft
    <2> QED BY <2>1 DEF DropPointer, store, scan
<1>2. \A q \in Procs : pc[q] # "clean"
    BY <1>1, Alone DEF Holders, Saving
<1>3. Served' /\ Pointed' /\ Missing'
    BY <1>1, <1>2 DEF Served, Pointed, Missing
<1>4. Started' /\ Made'
    BY <1>1 DEF Sound, Started, Made, Has
<1> QED BY <1>3, <1>4

LEMMA StepKept == Typed /\ SoleHolder /\ Kept /\ [Next]_vars => Kept'
<1> SUFFICES ASSUME Typed, SoleHolder, Kept, [Next]_vars, Calm'
             PROVE  (Served /\ Started /\ Made /\ Pointed /\ Missing)'
    BY DEF Kept
<1>1. ASSUME NEW p \in Procs, Calmly(p)
      PROVE  (Served /\ Started /\ Made /\ Pointed /\ Missing)'
    BY <1>1, SoundHere, CalmlyKept
<1>2. ASSUME NEW p \in Procs, Busy(p)
      PROVE  (Served /\ Started /\ Made /\ Pointed /\ Missing)'
    BY <1>2, SoundHere, ScanKept, ReadBaseKept, BuildKept, PointKept, CleanupKept, DropKept
       DEF Busy
<1>3. CASE LockAges \/ UNCHANGED vars
    <2>1. Quiet /\ UNCHANGED pc
        BY <1>3 DEF LockAges, vars, Quiet, store, scan
    <2>2. Calm
        BY FaultsStay DEF Calm
    <2> QED BY <2>1, <2>2, QuietKept DEF Kept
<1> QED BY <1>1, <1>2, <1>3, StepCases

----------------------------------------------------------------------------
LEMMA InitIInv == Init => IInv
<1> SUFFICES ASSUME Init PROVE IInv
    OBVIOUS
<1>1. Typed
    BY InitTyped
<1>2. \A p \in Procs : pc[p] \in {"resolve", "open"}
    BY DEF Init
<1>3. Holders = {} /\ lock = "none" /\ saved = {}
    BY <1>2 DEF Init, Holders, Saving, Signing
<1>4. SoleHolder /\ LockHeld
    BY <1>3 DEF SoleHolder, LockHeld
<1>5. Kept
    BY <1>2, <1>3 DEF Kept, Served, Started, Made, Pointed, Missing
<1> QED BY <1>1, <1>4, <1>5 DEF IInv

LEMMA Inductive == Spec => []IInv
<1>1. IInv /\ [Next]_vars => IInv'
    BY StepTyped, StepSole, StepLockHeld, StepKept DEF IInv
<1> QED BY InitIInv, <1>1, PTL DEF Spec

\* Every variable keeps its kind of value: in particular the snapshots a root
\* gets are no more than the savers, and all that is named has been made.
THEOREM TypeCorrect == Spec => []TypeOK
<1>1. IInv => TypeOK
    BY DEF IInv, Typed
<1> QED BY <1>1, Inductive, PTL

\* The lock excludes, for any number of processes, until a waiter removes the
\* lock file of a process that holds it.
THEOREM OneHolder == Spec => []OneHolderUnlessRobbed
<1>1. IInv => OneHolderUnlessRobbed
    <2> SUFFICES ASSUME IInv, "robbed" \notin faults PROVE Cardinality(Holders) <= 1
        BY DEF OneHolderUnlessRobbed
    <2>1. \A p, q \in Holders : p = q
        BY DEF IInv, SoleHolder
    <2>2. CASE Holders = {}
        BY <2>2, FS_EmptySet
    <2>3. CASE Holders # {}
        <3>1. PICK p \in Holders : TRUE
            BY <2>3
        <3>2. Holders = {p}
            BY <2>1, <3>1
        <3>3. Cardinality({p}) = 1
            BY FS_Singleton
        <3> QED BY <3>2, <3>3
    <2> QED BY <2>2, <2>3
<1> QED BY <1>1, Inductive, PTL

\* What has been saved is served, whatever other savers do, fail to do or leave
\* behind, as long as the pointer is written under a lock nobody has robbed.
THEOREM SavesServed == Spec => []SavedIsServed
<1>1. IInv => SavedIsServed
    <2> SUFFICES ASSUME IInv, Calm, latest # None, NEW p \in saved
                 PROVE  Put[p] \subseteq EntriesOf(Active) /\ EntriesOf(Active) \cap Drop[p] = {}
        BY DEF SavedIsServed, Calm
    <2>1. latest \in files /\ Has(content[latest], p)
        BY DEF IInv, Kept, Served
    <2> QED BY <2>1 DEF Has, EntriesOf, Active
<1> QED BY <1>1, Inductive, PTL

\* Savers that end, by whatever path, leave no lock behind: unless its payload or
\* its removal failed, or a heartbeat wrote it anew.
THEOREM LockIsReleased == Spec => []NoLockLeft
<1>1. IInv => NoLockLeft
    <2> SUFFICES ASSUME IInv, \A p \in Procs : pc[p] = "done", faults \cap LockLeft = {}
                 PROVE  lock = "none"
        BY DEF NoLockLeft
    <2>1. Holders = {}
        BY DEF Holders, Saving, Signing
    <2> QED BY <2>1 DEF IInv, LockHeld
<1> QED BY <1>1, Inductive, PTL

----------------------------------------------------------------------------
\* What a cleanup deletes.  The holder's own snapshot is newer than all the
\* others until it is done, because nobody else writes an old one meanwhile: so
\* what has Keep newer ones among the others has one more in all.

\* The times of writing are those of the clock so far.
Timed == \A f \in Files : mtime[f] <= clock

Later(f) == {h \in Files : Newer(h, f)}
Spared(f) == f \in files \cup {Default} \/ Cardinality(Later(f)) > Keep

\* A scan that has resolved the index and will still write to what it adopted.
Adopted == {"adopt", "load", "open", "stat", "remove", "wait", "sign"} \cup Saving

Undisturbed == faults \cap {"robbed", "remade"} = {}

OwnIsNewest ==
    \A p \in Procs : pc[p] \in {"point", "clean"} =>
        \A f \in files \ {snap[p], Default} : Newer(snap[p], f)
AdoptedSpared == \A p \in Scanners : pc[p] \in Adopted => Spared(path[p])

Sparing == Timed /\ (Undisturbed => OwnIsNewest /\ AdoptedSpared)

LEMMA LaterFinite ==
    ASSUME NEW f
    PROVE  /\ IsFiniteSet(Files) /\ IsFiniteSet(Later(f))
           /\ Cardinality(Later(f)) \in Nat /\ Keep \in Nat
<1>1. IsFiniteSet(Files)
    BY FilesAre, SaversNat, FS_Interval
<1>2. Later(f) \subseteq Files
    BY DEF Later
<1> QED BY <1>1, <1>2, FS_Subset, FS_CardinalityType, BoundAssumption

LEMMA TimesTyped ==
    ASSUME Typed
    PROVE  /\ mtime \in [Files -> Nat] /\ clock \in Nat
           /\ files \subseteq Files /\ Default \in Files
<1>1. built \in 0..(Savers + 1) /\ files \subseteq 0..built
      /\ mtime \in [Files -> Nat] /\ clock \in Nat
    BY DEF Typed, TypeOK, Savers
<1> QED BY <1>1, FilesAre, SaversNat DEF Default

\* Writing a database makes it the newest and changes no other's time.
LEMMA WrittenTimes ==
    ASSUME Typed, Timed, NEW g \in Files, Written(g)
    PROVE  /\ Timed'
           /\ \A f \in Files \ {g} : mtime'[g] > mtime'[f]
           /\ \A f \in Files \ {g}, h \in Files : Newer(h, f) => mtime'[h] > mtime'[f]
<1>1. mtime \in [Files -> Nat] /\ clock \in Nat
    BY TimesTyped
<1>2. clock' = clock + 1 /\ \A f \in Files : mtime'[f] = IF f = g THEN clock + 1 ELSE mtime[f]
    BY <1>1 DEF Written
<1>3. \A f \in Files : mtime[f] \in Nat /\ mtime[f] <= clock
    BY <1>1 DEF Timed
<1> QED BY <1>1, <1>2, <1>3 DEF Timed, Newer

\* So a database keeps the newer ones it has until it is written itself.
LEMMA WrittenSpares ==
    ASSUME Typed, Timed, NEW g \in Files, Written(g), files \subseteq files', g \in files',
           NEW f \in Files, Spared(f)
    PROVE  Spared(f)'
<1>1. CASE f = g \/ f \in files \cup {Default}
    BY <1>1 DEF Spared
<1>2. CASE f # g /\ f \notin files \cup {Default}
    <2>1. Later(f) \subseteq Later(f)'
        BY <1>2, WrittenTimes DEF Later, Newer
    <2>2. IsFiniteSet(Later(f)')
        <3>1. Later(f)' \subseteq Files
            BY DEF Later
        <3> QED BY <3>1, LaterFinite, FS_Subset
    <2>3. Cardinality(Later(f)) <= Cardinality(Later(f)')
        BY <2>1, <2>2, FS_Subset
    <2>4. Cardinality(Later(f)') \in Nat
        BY <2>2, FS_CardinalityType
    <2>5. Cardinality(Later(f)') > Keep
        BY <1>2, <2>3, <2>4, LaterFinite DEF Spared
    <2> QED BY <2>5 DEF Spared
<1> QED BY <1>1, <1>2

\* What a scanner adopts is there.
LEMMA ActiveIsThere == ASSUME Typed PROVE Active \in files \cup {Default}
<1>1. CASE latest \in files
    BY <1>1 DEF Active
<1>2. CASE latest \notin files /\ files = {}
    BY <1>2 DEF Active
<1>3. CASE latest \notin files /\ files # {}
    BY <1>3, NewestExists DEF Typed, Active, Recovered
<1> QED BY <1>1, <1>2, <1>3

LEMMA CalmlySpares ==
    ASSUME Typed, Sparing, NEW p \in Procs, Calmly(p), Undisturbed
    PROVE  Sparing'
<1>0. Control
    BY TypeHalves DEF Typed
<1>1. UNCHANGED <<files, mtime, clock, path, snap>>
    BY CalmlyIsQuiet DEF Quiet, store, scan
<1>3. ASSUME NEW q \in Procs
      PROVE  /\ pc'[q] \in {"point", "clean"} => pc[q] \in {"point", "clean"}
             /\ pc'[q] \in Adopted => pc[q] \in Adopted
    BY <1>0 DEF Calmly, Open, OpenFails, Section, Stat, RemoveStale, GiveUp, Release, Adopted, Saving,
       HeartbeatStarts, HeartbeatLands, FailSave, Crash, Control
<1>4. OwnIsNewest'
    BY <1>1, <1>3 DEF Sparing, OwnIsNewest, Newer
<1>5. AdoptedSpared'
    BY <1>1, <1>3, SaverAssumption DEF Sparing, AdoptedSpared, Spared, Later, Newer
<1> QED BY <1>1, <1>4, <1>5 DEF Sparing, Timed

\* The steps that touch neither the files nor what a saver or scanner looks at,
\* but adopting: what is adopted is there.
LEMMA LookingSpares ==
    ASSUME Typed, Sparing, NEW p \in Procs, Undisturbed,
           \/ ScanResolve(p) \/ ScanPoint(p) \/ DropPointer(p) \/ ReadBase(p) \/ Point(p)
    PROVE  Sparing'
<1>0. Control /\ path \in [Procs -> 0..built]
    BY TypeHalves DEF Typed, Stored
<1>1. UNCHANGED <<files, mtime, clock, snap>>
    BY DEF ScanResolve, ScanPoint, DropPointer, ReadBase, Point, store, scan
<1>2. ASSUME NEW q \in Procs
      PROVE  /\ pc'[q] \in {"point", "clean"} => pc[q] \in {"point", "clean"}
             /\ pc'[q] \in Adopted => pc[q] \in Adopted \/ (q = p /\ ScanResolve(p))
  <2>1. CASE ScanResolve(p)
      BY <1>0, <2>1 DEF ScanResolve, Adopted, Saving, Control
  <2>2. CASE ScanPoint(p) \/ DropPointer(p) \/ ReadBase(p) \/ Point(p)
      BY <1>0, <2>2 DEF ScanPoint, DropPointer, ReadBase, Point, Adopted, Saving, Control
  <2> QED BY <2>1, <2>2
<1>3. OwnIsNewest'
    BY <1>1, <1>2 DEF Sparing, OwnIsNewest, Newer
<1>4. ASSUME NEW q \in Scanners, pc'[q] \in Adopted PROVE Spared(path[q])'
    <2>1. CASE q = p /\ ScanResolve(p)
        <3>1. path'[q] = Active
            BY <1>0, <2>1 DEF ScanResolve
        <3> QED BY <1>1, <3>1, ActiveIsThere DEF Spared
    <2>2. CASE ~ (q = p /\ ScanResolve(p))
        <3>1. path'[q] = path[q] /\ pc[q] \in Adopted
            BY <1>0, <1>2, <1>4, <2>2, SaverAssumption
               DEF ScanResolve, ScanPoint, DropPointer, ReadBase, Point, scan
        <3>2. Spared(path[q])
            BY <3>1 DEF Sparing, AdoptedSpared
        <3> QED BY <1>1, <3>1, <3>2 DEF Spared, Later, Newer
    <2> QED BY <2>1, <2>2
<1>5. AdoptedSpared'
    BY <1>4 DEF AdoptedSpared
<1> QED BY <1>1, <1>3, <1>5 DEF Sparing, Timed

\* A scan that opens what it adopted writes only when that is the default
\* database, unless it makes a deleted snapshot anew.
LEMMA ReadSpares ==
    ASSUME Typed, Sparing, NEW p \in Procs, Undisturbed, Undisturbed', ScanRead(p)
    PROVE  Sparing'
<1>0. Control /\ path[p] \in Files /\ \A q \in Procs : path[q] \in Files /\ snap[q] \in Files
    BY TypeHalves, Names DEF Typed
<1>1. /\ UNCHANGED <<path, snap>> /\ Opened(path[p])
      /\ pc' = [pc EXCEPT ![p] = "open"] /\ pc[p] = "load"
      /\ path[p] \in files \cup {Default}
    BY DEF ScanRead, scan, Undisturbed
<1>2. ASSUME NEW q \in Procs
      PROVE  /\ pc'[q] \in {"point", "clean"} => pc[q] \in {"point", "clean"}
             /\ pc'[q] \in Adopted => pc[q] \in Adopted
    BY <1>0, <1>1 DEF Control, Adopted, Saving
<1>3. CASE path[p] \in files
    <2>1. UNCHANGED <<files, mtime, clock>>
        BY <1>1, <1>3 DEF Opened
    <2>2. OwnIsNewest'
        BY <1>1, <1>2, <2>1 DEF Sparing, OwnIsNewest, Newer
    <2>3. AdoptedSpared'
        BY <1>1, <1>2, <2>1, SaverAssumption
           DEF Sparing, AdoptedSpared, Spared, Later, Newer
    <2> QED BY <2>1, <2>2, <2>3 DEF Sparing, Timed
<1>4. CASE path[p] \notin files
    <2>1. path[p] = Default /\ files' = files \cup {Default} /\ Written(Default)
        BY <1>1, <1>4 DEF Opened
    <2>2. Default \in Files /\ files \subseteq Files
        BY TimesTyped
    <2>3. ASSUME NEW q \in Procs, pc'[q] \in {"point", "clean"},
                 NEW f \in files' \ {snap[q], Default}
          PROVE  Newer(snap[q], f)'
        <3>1. Newer(snap[q], f) /\ f \in Files \ {Default}
            BY <1>1, <1>2, <2>1, <2>2, <2>3 DEF Sparing, OwnIsNewest
        <3> QED BY <1>0, <1>1, <2>1, <2>2, <3>1, WrittenTimes DEF Sparing, Newer
    <2>4. OwnIsNewest'
        BY <1>1, <2>3 DEF OwnIsNewest
    <2>5. ASSUME NEW q \in Scanners, pc'[q] \in Adopted
          PROVE  Spared(path[q])'
        <3>1. Spared(path[q]) /\ path[q] \in Files /\ path'[q] = path[q]
            BY <1>0, <1>1, <1>2, <2>5, SaverAssumption DEF Sparing, AdoptedSpared
        <3> QED BY <2>1, <2>2, <3>1, WrittenSpares DEF Sparing, Spared, Later, Newer
    <2>6. AdoptedSpared'
        BY <2>5 DEF AdoptedSpared
    <2> QED BY <2>1, <2>2, <2>4, <2>6, WrittenTimes DEF Sparing
<1> QED BY <1>3, <1>4

\* What the holder writes is the newest, and no other saver has one to defend.
LEMMA WritingSpares ==
    ASSUME Typed, Sparing, NEW p \in Procs, Undisturbed, \A r, q \in Holders : r = q,
           Build(p) \/ Sign(p)
    PROVE  Sparing'
<1>0. Control /\ snap \in [Procs -> 0..built] /\ files \subseteq 0..built /\ built \in Nat
    BY TypeHalves, Names DEF Typed, Stored
<1>1. \E g \in Files : /\ files' = files \cup {g} /\ Written(g) /\ UNCHANGED path
                       /\ Build(p) => g = built + 1
    <2>1. CASE Build(p)
        <3>1. snap[p] = Default
            BY <2>1 DEF Build, Typed, Before
        <3>2. built + 1 \in Files
            BY <3>1, BuiltGrows
        <3> QED BY <2>1, <3>2 DEF Build
    <2>2. CASE Sign(p)
        <3>1. path[p] \in Files /\ ~ Build(p)
            BY <2>2, Names DEF Sign, Build
        <3> QED BY <2>2, <3>1 DEF Sign, scan
    <2> QED BY <2>1, <2>2
<1>2. PICK g \in Files : /\ files' = files \cup {g} /\ Written(g) /\ UNCHANGED path
                         /\ Build(p) => g = built + 1
    BY <1>1
<1>3. p \in Holders /\ \A q \in Procs \ {p} : pc[q] \notin {"point", "clean"}
    BY DEF Build, Sign, Holders, Saving, Signing
<1>4. ASSUME NEW q \in Procs
      PROVE  /\ pc'[q] \in {"point", "clean"} => q = p /\ Build(p) /\ snap'[q] = g
             /\ pc'[q] \in Adopted => pc[q] \in Adopted
  <2>1. CASE Build(p)
      BY <1>0, <1>2, <1>3, <2>1 DEF Build, Control, Adopted, Saving
  <2>2. CASE Sign(p)
      BY <1>0, <1>3, <2>2 DEF Sign, Control, Adopted, Saving
  <2> QED BY <2>1, <2>2
<1>5. files \subseteq Files
    BY TimesTyped
<1>6. \A f \in Files \ {g} : mtime'[g] > mtime'[f]
    BY <1>1, <1>2, WrittenTimes DEF Sparing
<1>7. ASSUME NEW q \in Procs, pc'[q] \in {"point", "clean"},
             NEW f \in files' \ {snap'[q], Default}
      PROVE  Newer(snap[q], f)'
    <2>1. snap'[q] = g /\ f \in Files \ {g}
        BY <1>2, <1>4, <1>5, <1>7
    <2> QED BY <1>6, <2>1 DEF Newer
<1>8. OwnIsNewest'
    BY <1>7 DEF OwnIsNewest
<1>9. ASSUME NEW q \in Scanners, pc'[q] \in Adopted
      PROVE  Spared(path[q])'
    <2>1. Spared(path[q]) /\ path[q] \in Files /\ path'[q] = path[q]
        BY <1>2, <1>4, <1>9, SaverAssumption, Names DEF Sparing, AdoptedSpared
    <2> QED BY <1>1, <1>2, <2>1, WrittenSpares DEF Sparing, Spared, Later, Newer
<1>10. AdoptedSpared'
    BY <1>9 DEF AdoptedSpared
<1> QED BY <1>1, <1>2, <1>8, <1>10, WrittenTimes DEF Sparing

\* A database is deleted for Keep newer ones among those that are not the
\* holder's own, and the holder's own is newer too.
LEMMA CleanupSpares ==
    ASSUME Typed, Sparing, NEW p \in Procs, Undisturbed, \A r, q \in Holders : r = q,
           Cleanup(p)
    PROVE  Sparing'
<1>0. Control
    BY TypeHalves DEF Typed
<1>1. /\ pc[p] = "clean" /\ pc' = [pc EXCEPT ![p] = "release"]
      /\ files' = files \ Superseded(p)
      /\ UNCHANGED <<mtime, clock, path, snap>>
    BY DEF Cleanup, scan
<1>2. \A q \in Procs : pc'[q] \notin {"point", "clean"}
    <2>1. p \in Holders /\ \A q \in Procs \ {p} : q \notin Holders
        BY <1>1 DEF Holders, Saving
    <2>2. \A q \in Procs \ {p} : pc[q] \notin {"point", "clean"}
        BY <2>1 DEF Holders, Saving
    <2> QED BY <1>0, <1>1, <2>2 DEF Control
<1>3. \A q \in Procs : pc'[q] \in Adopted => pc[q] \in Adopted
    BY <1>0, <1>1 DEF Control, Adopted, Saving
<1>4. ASSUME NEW f \in Superseded(p) PROVE Cardinality(Later(f)) > Keep
    <2> DEFINE others == files \ {snap[p], Default}
               among == {g \in others : Newer(g, f)}
    <2>1. f \in others /\ Cardinality(among) >= Keep
        BY <1>4 DEF Superseded
    <2>2. snap[p] \in Files /\ files \subseteq Files
        BY Names, TimesTyped
    <2>3. Newer(snap[p], f)
        BY <1>1, <2>1 DEF Sparing, OwnIsNewest
    <2>4. snap[p] \notin among /\ among \cup {snap[p]} \subseteq Later(f)
        BY <2>2, <2>3 DEF Later
    <2>5. among \subseteq Later(f)
        BY <2>4
    <2> HIDE DEF others, among
    <2>6. IsFiniteSet(among) /\ Cardinality(among) \in Nat
        BY <2>5, LaterFinite, FS_Subset, FS_CardinalityType
    <2>7. Cardinality(among \cup {snap[p]}) = Cardinality(among) + 1
        BY <2>4, <2>6, FS_AddElement
    <2>8. Cardinality(among \cup {snap[p]}) <= Cardinality(Later(f))
        BY <2>4, LaterFinite, FS_Subset
    <2> QED BY <2>1, <2>6, <2>7, <2>8, LaterFinite
<1>5. ASSUME NEW q \in Scanners, pc'[q] \in Adopted
      PROVE  Spared(path[q])'
    <2>1. Spared(path[q])
        BY <1>3, <1>5, SaverAssumption DEF Sparing, AdoptedSpared
    <2>2. CASE path[q] \in Superseded(p)
        <3>1. Cardinality(Later(path[q])) > Keep
            BY <1>4, <2>2
        <3> QED BY <1>1, <3>1 DEF Spared, Later, Newer
    <2>3. CASE path[q] \notin Superseded(p)
        BY <1>1, <2>1, <2>3 DEF Spared, Later, Newer
    <2> QED BY <2>2, <2>3
<1>6. AdoptedSpared'
    BY <1>5 DEF AdoptedSpared
<1>7. OwnIsNewest'
    BY <1>2 DEF OwnIsNewest
<1> QED BY <1>1, <1>6, <1>7 DEF Sparing, Timed

\* The times alone, whatever has gone wrong.
LEMMA StepTimed == Typed /\ Timed /\ [Next]_vars => Timed'
<1> SUFFICES ASSUME Typed, Timed, [Next]_vars PROVE Timed'
    OBVIOUS
<1>1. ASSUME UNCHANGED <<mtime, clock>> PROVE Timed'
    BY <1>1 DEF Timed
<1>2. ASSUME NEW g \in Files, Written(g) PROVE Timed'
    BY <1>2, WrittenTimes
<1>3. ASSUME NEW p \in Procs, Busy(p) PROVE Timed'
    <2>1. path[p] \in Files
        BY Names
    <2>2. CASE ScanRead(p)
        BY <1>1, <1>2, <2>1, <2>2 DEF ScanRead, Opened
    <2>3. CASE Build(p)
        <3>1. snap[p] = Default
            BY <2>3 DEF Build, Typed, Before
        <3>2. built + 1 \in Files
            BY <3>1, BuiltGrows
        <3> QED BY <1>2, <2>3, <3>2 DEF Build
    <2>4. CASE Sign(p)
        BY <1>2, <2>1, <2>4 DEF Sign
    <2>5. CASE ~ (ScanRead(p) \/ Build(p) \/ Sign(p))
        BY <1>1, <1>3, <2>5 DEF Busy, ScanResolve, ScanPoint, DropPointer, ReadBase, Point,
           Cleanup, store
    <2> QED BY <2>2, <2>3, <2>4, <2>5
<1>4. ASSUME NEW p \in Procs, Calmly(p) PROVE Timed'
    BY <1>1, <1>4, CalmlyIsQuiet DEF Quiet, store
<1>5. CASE LockAges \/ UNCHANGED vars
    BY <1>1, <1>5 DEF LockAges, vars, store
<1> QED BY <1>3, <1>4, <1>5, StepCases

LEMMA StepSparing == Typed /\ SoleHolder /\ Sparing /\ [Next]_vars => Sparing'
<1> SUFFICES ASSUME Typed, SoleHolder, Sparing, [Next]_vars, Undisturbed'
             PROVE  Sparing'
    BY StepTimed DEF Sparing
<1>1. Undisturbed
    BY FaultsStay DEF Undisturbed
<1>2. \A r, q \in Holders : r = q
    BY <1>1 DEF SoleHolder, Undisturbed
<1>3. ASSUME NEW p \in Procs, Busy(p) PROVE Sparing'
    BY <1>1, <1>2, <1>3, LookingSpares, ReadSpares, WritingSpares, CleanupSpares DEF Busy
<1>4. ASSUME NEW p \in Procs, Calmly(p) PROVE Sparing'
    BY <1>1, <1>4, CalmlySpares
<1>5. CASE LockAges \/ UNCHANGED vars
    <2>1. UNCHANGED <<pc, files, mtime, clock, path, snap>>
        BY <1>5 DEF LockAges, vars, store, scan
    <2>2. OwnIsNewest' /\ AdoptedSpared'
        BY <1>1, <2>1 DEF Sparing, OwnIsNewest, AdoptedSpared, Spared, Later, Newer
    <2> QED BY <2>1, <2>2 DEF Sparing, Timed
<1> QED BY <1>3, <1>4, <1>5, StepCases

LEMMA InitSparing == Init => Sparing
<1> SUFFICES ASSUME Init PROVE Sparing
    OBVIOUS
<1>1. \A p \in Procs : pc[p] \in {"resolve", "open"} /\ (p \in Scanners => pc[p] = "resolve")
    BY DEF Init
<1>2. Timed
    BY DEF Init, Timed
<1>3. OwnIsNewest /\ AdoptedSpared
    BY <1>1, SaverAssumption DEF OwnIsNewest, AdoptedSpared, Adopted, Saving
<1> QED BY <1>2, <1>3 DEF Sparing

\* Until a lock is robbed or a deleted snapshot made anew, a cleanup leaves a scan
\* the snapshot it has adopted for at least Keep saves after it was last written.
THEOREM ScansAreSpared == Spec => []KeptForScans
<1>1. Init => IInv /\ Sparing
    BY InitIInv, InitSparing
<1>2. IInv /\ Sparing /\ [Next]_vars => IInv' /\ Sparing'
    BY StepTyped, StepSole, StepLockHeld, StepKept, StepSparing DEF IInv
<1>3. Sparing => KeptForScans
    BY DEF Sparing, Undisturbed, AdoptedSpared, Adopted, Spared, Later, KeptForScans
<1> QED BY <1>1, <1>2, <1>3, PTL DEF Spec
=============================================================================
