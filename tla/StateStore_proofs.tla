-------------------------- MODULE StateStore_proofs --------------------------
(***************************************************************************)
(* Proofs about StateStore for any set of processes, any names and any     *)
(* bound on the edits.                                                     *)
(***************************************************************************)
EXTENDS StateStore, SequenceTheorems, TLAPS

-----------------------------------------------------------------------------
(* Registries: every list operation of the store keeps the names distinct. *)

LEMMA EmptyRegistry == <<>> \in Registry
  BY EmptySeq DEF Registry, NamesDistinct

LEMMA MigrateSite == \A s \in Site : /\ Migrate(s) \in Site
                                     /\ Migrate(s).name = s.name
                                     /\ Migrate(Migrate(s)) = Migrate(s)
  BY DEF Site, Migrate, siteIsWP, CacheModes, Types

LEMMA RegistryElement ==
  ASSUME NEW r \in Registry, NEW i \in DOMAIN r
  PROVE  r[i] \in Site
  BY DEF Registry

LEMMA MigrateRegistry ==
  ASSUME NEW r \in Registry
  PROVE  /\ MigrateAll(r) \in Registry
         /\ MigrateAll(MigrateAll(r)) = MigrateAll(r)
<1>1. r \in Seq(Site) /\ NamesDistinct(r)
  BY DEF Registry
<1>2. /\ DOMAIN r = 1 .. Len(r)
      /\ Len(r) \in Nat
      /\ \A i \in 1 .. Len(r) : r[i] \in Site
  BY <1>1
<1>3. /\ DOMAIN MigrateAll(r) = 1 .. Len(r)
      /\ \A i \in 1 .. Len(r) : MigrateAll(r)[i] = Migrate(r[i])
  BY <1>2 DEF MigrateAll
<1>4. MigrateAll(r) \in Seq(Site)
  <2>1. \A i \in 1 .. Len(r) : Migrate(r[i]) \in Site
    BY <1>2, MigrateSite
  <2>2. MigrateAll(r) = [i \in 1 .. Len(r) |-> Migrate(r[i])]
    BY <1>2 DEF MigrateAll
  <2>3. QED
    BY <2>1, <2>2, <1>2
<1>5. NamesDistinct(MigrateAll(r))
  BY <1>1, <1>2, <1>3, MigrateSite DEF NamesDistinct
<1>6. MigrateAll(MigrateAll(r)) = MigrateAll(r)
  <2>1. MigrateAll(MigrateAll(r)) = [i \in 1 .. Len(r) |-> Migrate(MigrateAll(r)[i])]
    BY <1>3 DEF MigrateAll
  <2>2. \A i \in 1 .. Len(r) : Migrate(MigrateAll(r)[i]) = MigrateAll(r)[i]
    BY <1>2, <1>3, MigrateSite
  <2>3. MigrateAll(r) = [i \in 1 .. Len(r) |-> MigrateAll(r)[i]]
    BY <1>3 DEF MigrateAll
  <2>4. QED
    BY <2>1, <2>2, <2>3
<1>7. QED
  BY <1>4, <1>5, <1>6 DEF Registry

LEMMA AppendRegistry ==
  ASSUME NEW r \in Registry, NEW s \in Site, ~Has(r, s.name)
  PROVE  Append(r, s) \in Registry
<1>1. /\ r \in Seq(Site)
      /\ Append(r, s) \in Seq(Site)
      /\ Len(Append(r, s)) = Len(r) + 1
      /\ \A i \in 1 .. Len(r) : Append(r, s)[i] = r[i]
      /\ Append(r, s)[Len(r) + 1] = s
      /\ Len(r) \in Nat
  BY DEF Registry
<1>2. NamesDistinct(Append(r, s))
  <2> SUFFICES ASSUME NEW i \in 1 .. Len(r) + 1, NEW j \in 1 .. Len(r) + 1,
                      Append(r, s)[i].name = Append(r, s)[j].name
               PROVE  i = j
    BY <1>1 DEF NamesDistinct
  <2>1. \A k \in 1 .. Len(r) : r[k].name # s.name
    BY <1>1 DEF Has
  <2>2. \A k, l \in 1 .. Len(r) : r[k].name = r[l].name => k = l
    BY <1>1 DEF Registry, NamesDistinct
  <2>3. CASE i \in 1 .. Len(r) /\ j \in 1 .. Len(r)
    BY <2>2, <2>3, <1>1
  <2>4. CASE i = Len(r) + 1 /\ j \in 1 .. Len(r)
    BY <2>1, <2>4, <1>1
  <2>5. CASE i \in 1 .. Len(r) /\ j = Len(r) + 1
    BY <2>1, <2>5, <1>1
  <2>6. QED
    BY <2>3, <2>4, <2>5, <1>1
<1>3. QED
  BY <1>1, <1>2 DEF Registry

LEMMA WithoutRegistry ==
  ASSUME NEW r \in Registry, NEW d \in DOMAIN r
  PROVE  Without(r, d) \in Registry
<1>1. /\ r \in Seq(Site)
      /\ Len(r) \in Nat
      /\ d \in 1 .. Len(r)
      /\ \A k \in 1 .. Len(r) : r[k] \in Site
      /\ \A k, l \in 1 .. Len(r) : r[k].name = r[l].name => k = l
  BY DEF Registry, NamesDistinct
<1>2. \A k \in 1 .. Len(r) - 1 : (IF k < d THEN r[k] ELSE r[k + 1]) \in Site
  BY <1>1
<1>3. Without(r, d) \in Seq(Site) /\ Len(Without(r, d)) = Len(r) - 1
  <2>1. Len(r) - 1 \in Nat
    BY <1>1
  <2>2. Without(r, d) \in [1 .. Len(r) - 1 -> Site]
    BY <1>2 DEF Without
  <2>3. QED
    BY <2>1, <2>2
<1>4. NamesDistinct(Without(r, d))
  <2> SUFFICES ASSUME NEW i \in 1 .. Len(r) - 1, NEW j \in 1 .. Len(r) - 1,
                      Without(r, d)[i].name = Without(r, d)[j].name
               PROVE  i = j
    BY <1>3 DEF NamesDistinct
  <2> DEFINE at(k) == IF k < d THEN k ELSE k + 1
  <2>1. \A k \in 1 .. Len(r) - 1 : at(k) \in 1 .. Len(r) /\ Without(r, d)[k] = r[at(k)]
    BY <1>1 DEF Without
  <2>2. at(i) = at(j)
    BY <2>1, <1>1
  <2>3. QED
    BY <2>2, <1>1
<1>5. QED
  BY <1>3, <1>4 DEF Registry

LEMMA ReplaceRegistry ==
  ASSUME NEW r \in Registry, NEW d \in DOMAIN r, NEW s \in Site, s.name = r[d].name
  PROVE  [r EXCEPT ![d] = s] \in Registry
<1>1. r \in Seq(Site) /\ NamesDistinct(r)
  BY DEF Registry
<1>2. [r EXCEPT ![d] = s] \in Seq(Site)
  BY <1>1
<1>3. NamesDistinct([r EXCEPT ![d] = s])
  BY <1>1 DEF NamesDistinct
<1>4. QED
  BY <1>2, <1>3 DEF Registry

LEMMA EmptyMigrates == MigrateAll(<<>>) = <<>>
  BY EmptySeq DEF MigrateAll

-----------------------------------------------------------------------------
(* Types.                                                                  *)

LEMMA ExitTypes ==
  ASSUME TypeOK, NEW p \in Procs, Exit(p)
  PROVE  /\ holder' \in Procs \cup {NoProc}
         /\ mem' \in [Procs -> Registry]
         /\ edits' \in [Procs -> 0 .. MaxEdits]
         /\ base' \in [Procs -> Registry]
  BY EmptyRegistry, BoundAssumption DEF TypeOK, Exit

LEMMA NoContentFile ==
  ASSUME NEW k \in {"missing", "empty", "torn"}
  PROVE  NoContent(k) \in File
  BY EmptyRegistry DEF NoContent, File

LEMMA EditTypes ==
  ASSUME TypeOK, NEW p \in Procs, NEW reg \in Registry, Edit(p, reg)
  PROVE  TypeOK'
  BY BoundAssumption DEF TypeOK, Edit

LEMMA InitTypes == Init => TypeOK
<1> SUFFICES ASSUME Init PROVE TypeOK
  OBVIOUS
<1>1. file \in File /\ last \in Registry
  <2>1. CASE file \in {NoContent("missing"), NoContent("empty")} /\ last = <<>>
    BY <2>1, NoContentFile, EmptyRegistry
  <2>2. CASE \E reg \in InitialRegs : file = Whole(reg) /\ last = reg
    BY <2>2, InitialAssumption DEF Whole, File
  <2>3. QED
    BY <2>1, <2>2 DEF Init
<1>2. QED
  BY <1>1, EmptyRegistry, BoundAssumption DEF Init, TypeOK, Locations

LEMMA NextTypes == TypeOK /\ [Next]_vars => TypeOK'
<1> SUFFICES ASSUME TypeOK, [Next]_vars PROVE TypeOK'
  OBVIOUS
<1> USE DEF Goto, Locations, Waiting, Holding
<1>1. ASSUME NEW p \in Procs, StartLock(p) PROVE TypeOK'
  BY <1>1 DEF StartLock, TypeOK
<1>2. ASSUME NEW p \in Procs, Acquire(p) PROVE TypeOK'
  BY <1>2 DEF Acquire, FlockGranted, FlockBusy, FlockError, GiveUp, SleepAndRetry, TypeOK
<1>3. ASSUME NEW p \in Procs, DeadlinePasses(p) PROVE TypeOK'
  BY <1>3 DEF DeadlinePasses, TypeOK
<1>4. ASSUME NEW p \in Procs, Load(p) PROVE TypeOK'
  <2>1. CASE ReadNothing(p)
    BY <2>1, EmptyRegistry DEF ReadNothing, TypeOK
  <2>2. CASE ReadRegistry(p)
    <3>1. MigrateAll(file.sites) \in Registry
      BY MigrateRegistry DEF TypeOK, File
    <3>2. QED
      BY <2>2, <3>1 DEF ReadRegistry, TypeOK
  <2>3. CASE ReadTorn(p)
    BY <2>3, ExitTypes DEF ReadTorn, TypeOK
  <2>4. CASE ReadError(p)
    BY <2>4, ExitTypes DEF ReadError, TypeOK
  <2>5. QED
    BY <1>4, <2>1, <2>2, <2>3, <2>4 DEF Load
<1>5. ASSUME NEW p \in Procs, Use(p) PROVE TypeOK'
  <2>0. mem[p] \in Registry
    BY DEF TypeOK
  <2>1. CASE Add(p)
    <3>1. PICK s \in Edits : ~Has(mem[p], s.name) /\ Edit(p, Append(mem[p], s))
      BY <2>1 DEF Add
    <3>2. QED
      BY <3>1, <2>0, AppendRegistry, EditsAssumption, EditTypes
  <2>2. CASE Remove(p)
    <3>1. PICK i \in DOMAIN mem[p] : Edit(p, Without(mem[p], i))
      BY <2>2 DEF Remove
    <3>2. QED
      BY <3>1, <2>0, WithoutRegistry, EditTypes
  <2>3. CASE Update(p)
    <3>1. PICK i \in DOMAIN mem[p], s \in Edits :
             s.name = mem[p][i].name /\ Edit(p, [mem[p] EXCEPT ![i] = s])
      BY <2>3 DEF Update
    <3>2. QED
      BY <3>1, <2>0, ReplaceRegistry, EditsAssumption, EditTypes
  <2>4. CASE Close(p)
    BY <2>4, ExitTypes DEF Close, TypeOK
  <2>5. QED
    BY <1>5, <2>1, <2>2, <2>3, <2>4 DEF Use
<1>6. ASSUME NEW p \in Procs, Save(p) PROVE TypeOK'
  <2>1. CASE SaveTruncate(p)
    BY <2>1, NoContentFile DEF SaveTruncate, TypeOK
  <2>2. CASE SaveWrite(p)
    BY <2>2 DEF SaveWrite, TypeOK, Whole, File
  <2>3. CASE SaveError(p)
    <3>1. file' \in File
      BY <2>3, NoContentFile, BoundAssumption DEF SaveError, CutShort
    <3>2. QED
      BY <2>3, <3>1, ExitTypes DEF SaveError, TypeOK
  <2>4. QED
    BY <1>6, <2>1, <2>2, <2>3 DEF Save
<1>7. ASSUME NEW p \in Procs, Kill(p) PROVE TypeOK'
  BY <1>7, ExitTypes DEF Kill, TypeOK
<1>8. ASSUME NEW p \in Procs, KillInSave(p) PROVE TypeOK'
  <2>1. file' \in File
    BY <1>8, NoContentFile, BoundAssumption DEF KillInSave, CutShort
  <2>2. QED
    BY <1>8, <2>1, ExitTypes DEF KillInSave, TypeOK
<1>9. CASE UNCHANGED vars
  BY <1>9 DEF vars, TypeOK
<1>10. QED
  BY <1>1, <1>2, <1>3, <1>4, <1>5, <1>6, <1>7, <1>8, <1>9 DEF Next

\* In every reachable state the registries on disk and in memory list each
\* name at most once (Store.Add's duplicate check is enough).
THEOREM TypeCorrect == Spec => []TypeOK
<1>1. QED
  BY InitTypes, NextTypes, PTL DEF Spec

-----------------------------------------------------------------------------
(* Mutual exclusion.  The inductive part: a process is past a granted      *)
(* flock exactly as long as the kernel holds that flock for it.            *)

LockInv == \A p \in Procs : pc[p] \in Holding <=> holder = p

LEMMA InitLock == Init => LockInv
  BY ProcsAssumption DEF Init, LockInv, Holding

LEMMA NextLock == TypeOK /\ LockInv /\ [Next]_vars => LockInv'
<1> SUFFICES ASSUME TypeOK, LockInv, [Next]_vars PROVE LockInv'
  OBVIOUS
<1> USE ProcsAssumption DEF Goto, Holding, Waiting, LockInv, TypeOK
<1>1. ASSUME NEW p \in Procs, StartLock(p) PROVE LockInv'
  BY <1>1 DEF StartLock
<1>2. ASSUME NEW p \in Procs, Acquire(p) PROVE LockInv'
  BY <1>2 DEF Acquire, FlockGranted, FlockBusy, FlockError, GiveUp, SleepAndRetry
<1>3. ASSUME NEW p \in Procs, DeadlinePasses(p) PROVE LockInv'
  BY <1>3 DEF DeadlinePasses
<1>4. ASSUME NEW p \in Procs, Load(p) PROVE LockInv'
  BY <1>4 DEF Load, ReadNothing, ReadRegistry, ReadTorn, ReadError, Exit
<1>5. ASSUME NEW p \in Procs, Use(p) PROVE LockInv'
  BY <1>5 DEF Use, Add, Remove, Update, Edit, Close, Exit
<1>6. ASSUME NEW p \in Procs, Save(p) PROVE LockInv'
  BY <1>6 DEF Save, SaveTruncate, SaveWrite, SaveError, Exit
<1>7. ASSUME NEW p \in Procs, Kill(p) \/ KillInSave(p) PROVE LockInv'
  BY <1>7 DEF Kill, KillInSave, Exit
<1>8. CASE UNCHANGED vars
  BY <1>8 DEF vars
<1>9. QED
  BY <1>1, <1>2, <1>3, <1>4, <1>5, <1>6, <1>7, <1>8 DEF Next

\* No two gow commands are ever between a granted flock and its release,
\* however commands interleave, time out or are killed.
THEOREM LockExcludes == Spec => []MutualExclusion
<1>1. LockInv => MutualExclusion
  BY DEF LockInv, MutualExclusion
<1>2. QED
  BY <1>1, InitLock, NextLock, TypeCorrect, PTL DEF Spec

-----------------------------------------------------------------------------
(* A corrupt registry is never written over.                               *)

\* Open only takes the path that writes a new registry when the file it read
\* was missing or empty, and nobody else writes while it holds the lock.
FreshInv == \A p \in Procs : pc[p] \in {"fresh", "creating"} => file.kind # "torn"

LEMMA NextFresh == TypeOK /\ LockInv /\ FreshInv /\ [Next]_vars => FreshInv'
<1> SUFFICES ASSUME TypeOK, LockInv, FreshInv, [Next]_vars PROVE FreshInv'
  OBVIOUS
<1> USE ProcsAssumption DEF Goto, Holding, Waiting, LockInv, TypeOK, FreshInv
<1>1. ASSUME NEW p \in Procs, StartLock(p) PROVE FreshInv'
  BY <1>1 DEF StartLock
<1>2. ASSUME NEW p \in Procs, Acquire(p) PROVE FreshInv'
  BY <1>2 DEF Acquire, FlockGranted, FlockBusy, FlockError, GiveUp, SleepAndRetry
<1>3. ASSUME NEW p \in Procs, DeadlinePasses(p) PROVE FreshInv'
  BY <1>3 DEF DeadlinePasses
<1>4. ASSUME NEW p \in Procs, Load(p) PROVE FreshInv'
  BY <1>4 DEF Load, ReadNothing, ReadRegistry, ReadTorn, ReadError, Exit
<1>5. ASSUME NEW p \in Procs, Use(p) PROVE FreshInv'
  BY <1>5 DEF Use, Add, Remove, Update, Edit, Close, Exit
<1>6. ASSUME NEW p \in Procs, Save(p) PROVE FreshInv'
  <2>1. CASE SaveTruncate(p)
    BY <2>1 DEF SaveTruncate, NoContent
  <2>2. CASE SaveWrite(p)
    BY <2>2 DEF SaveWrite, Whole
  <2>3. CASE SaveError(p)
    BY <2>3 DEF SaveError, Exit
  <2>4. QED
    BY <1>6, <2>1, <2>2, <2>3 DEF Save
<1>7. ASSUME NEW p \in Procs, Kill(p) \/ KillInSave(p) PROVE FreshInv'
  BY <1>7 DEF Kill, KillInSave, Exit
<1>8. CASE UNCHANGED vars
  BY <1>8 DEF vars
<1>9. QED
  BY <1>1, <1>2, <1>3, <1>4, <1>5, <1>6, <1>7, <1>8 DEF Next

\* Whatever is killed or fails, a registry that does not parse stays as it is
\* until somebody repairs it: Open's error path writes nothing.
THEOREM CorruptKept == Spec => NeverOverwriteCorrupt
<1> DEFINE Kept == file.kind = "torn" /\ (\A p \in Procs : pc[p] \notin {"open", "writing"})
                     => file' = file
<1>1. Init => FreshInv
  BY DEF Init, FreshInv
<1>2. FreshInv /\ [Next]_vars => [Kept]_vars
  <2> SUFFICES ASSUME FreshInv, Next PROVE Kept
    BY DEF vars
  <2> USE DEF Goto, FreshInv
  <2>1. ASSUME NEW p \in Procs, StartLock(p) \/ Acquire(p) \/ DeadlinePasses(p) PROVE Kept
    BY <2>1 DEF StartLock, DeadlinePasses,
                Acquire, FlockGranted, FlockBusy, FlockError, GiveUp, SleepAndRetry
  <2>2. ASSUME NEW p \in Procs, Load(p) \/ Use(p) PROVE Kept
    BY <2>2 DEF Load, ReadNothing, ReadRegistry, ReadTorn, ReadError,
                Use, Add, Remove, Update, Edit, Close
  <2>3. ASSUME NEW p \in Procs, Save(p) \/ Kill(p) \/ KillInSave(p) PROVE Kept
    BY <2>3 DEF Save, SaveTruncate, SaveWrite, SaveError, Kill, KillInSave
  <2>4. QED
    BY <2>1, <2>2, <2>3 DEF Next
<1>3. QED
  BY <1>1, <1>2, NextFresh, InitLock, NextLock, InitTypes, NextTypes, PTL
     DEF Spec, NeverOverwriteCorrupt

-----------------------------------------------------------------------------
(* Serial transactions.  From here on a Save that is cut short leaves a    *)
(* prefix and never a file of zero bytes, which the next command would     *)
(* take for a new registry: the run MCStateStoreTorn shows that the        *)
(* theorems fail without it.                                               *)

\* The file holds what was last saved, except while its holder rewrites it, and
\* whoever has read it read that.
LoadInv ==
    /\ file.kind = "whole" => file.sites = last
    /\ file.kind \in {"missing", "empty"} =>
          last = <<>> \/ \E p \in Procs : pc[p] = "writing"
    /\ \A p \in Procs :
          pc[p] \in {"fresh", "creating"} => last = <<>> /\ mem[p] = <<>>
    /\ \A p \in Procs :
          pc[p] \in Holding \ {"read"} => MigrateAll(base[p]) = MigrateAll(last)

LEMMA InitLoad == Init => LoadInv
  BY DEF Init, LoadInv, NoContent, Whole, Holding

LEMMA CutIsTorn ==
  ASSUME "empty" \notin SaveLeaves
  PROVE  CutShort => file'.kind = "torn"
  BY BoundAssumption DEF CutShort, NoContent

LEMMA NextLoad ==
  ASSUME "empty" \notin SaveLeaves, TypeOK, LockInv, LoadInv, [Next]_vars
  PROVE  LoadInv'
<1> USE ProcsAssumption DEF Goto, Holding, Waiting
<1>0. \A p, q \in Procs : pc[p] \in Holding /\ pc[q] \in Holding => p = q
  BY DEF LockInv
<1>1. ASSUME NEW p \in Procs, StartLock(p) PROVE LoadInv'
  BY <1>1 DEF StartLock, LoadInv, TypeOK
<1>2. ASSUME NEW p \in Procs, Acquire(p) PROVE LoadInv'
  BY <1>2 DEF Acquire, FlockGranted, FlockBusy, FlockError, GiveUp, SleepAndRetry, LoadInv, TypeOK
<1>3. ASSUME NEW p \in Procs, DeadlinePasses(p) PROVE LoadInv'
  BY <1>3 DEF DeadlinePasses, LoadInv, TypeOK
<1>4. ASSUME NEW p \in Procs, Load(p) PROVE LoadInv'
  <2>1. CASE ReadNothing(p)
    <3>1. last = <<>>
      BY <2>1, <1>0 DEF ReadNothing, LoadInv
    <3>2. QED
      BY <2>1, <3>1, <1>0 DEF ReadNothing, LoadInv, TypeOK
  <2>2. CASE ReadRegistry(p)
    <3>1. file.sites = last /\ last \in Registry
      BY <2>2 DEF ReadRegistry, LoadInv, TypeOK
    <3>2. MigrateAll(MigrateAll(last)) = MigrateAll(last)
      BY <3>1, MigrateRegistry
    <3>3. QED
      BY <2>2, <3>1, <3>2, <1>0 DEF ReadRegistry, LoadInv, TypeOK
  <2>3. CASE ReadTorn(p) \/ ReadError(p)
    BY <2>3, <1>0 DEF ReadTorn, ReadError, Exit, LoadInv, TypeOK
  <2>4. QED
    BY <1>4, <2>1, <2>2, <2>3 DEF Load
<1>5. ASSUME NEW p \in Procs, Use(p) PROVE LoadInv'
  BY <1>5, <1>0 DEF Use, Add, Remove, Update, Edit, Close, Exit, LoadInv, TypeOK
<1>6. ASSUME NEW p \in Procs, Save(p) PROVE LoadInv'
  <2>1. CASE SaveTruncate(p)
    BY <2>1, <1>0 DEF SaveTruncate, NoContent, LoadInv, TypeOK
  <2>2. CASE SaveWrite(p)
    BY <2>2, <1>0 DEF SaveWrite, Whole, LoadInv, TypeOK
  <2>3. CASE SaveError(p)
    BY <2>3, <1>0, CutIsTorn DEF SaveError, Exit, LoadInv, TypeOK
  <2>4. QED
    BY <1>6, <2>1, <2>2, <2>3 DEF Save
<1>7. ASSUME NEW p \in Procs, Kill(p) \/ KillInSave(p) PROVE LoadInv'
  <2>1. CASE Kill(p)
    BY <1>0, <2>1 DEF Kill, Exit, LoadInv, TypeOK
  <2>2. CASE KillInSave(p)
    BY <1>0, <2>2, CutIsTorn DEF KillInSave, Exit, LoadInv, TypeOK
  <2>3. QED
    BY <1>7, <2>1, <2>2
<1>8. CASE UNCHANGED vars
  BY <1>8 DEF vars, LoadInv
<1>9. QED
  BY <1>1, <1>2, <1>3, <1>4, <1>5, <1>6, <1>7, <1>8 DEF Next

\* As long as no Save cut short leaves a file of zero bytes, no command ever works
\* on, and so overwrites, an outdated copy of the registry.
THEOREM UpdatesKept ==
  ASSUME "empty" \notin SaveLeaves
  PROVE  Spec => []NoLostUpdate
<1>1. LoadInv => NoLostUpdate
  BY DEF LoadInv, NoLostUpdate
<1>2. TypeOK /\ LockInv /\ LoadInv /\ [Next]_vars => LoadInv'
  BY NextLoad
<1>3. QED
  BY <1>1, <1>2, InitLoad, InitLock, NextLock, TypeCorrect, PTL DEF Spec

-----------------------------------------------------------------------------
(* The refinement of Registry.  First, what the list operations of the     *)
(* store do to the set of sites a registry stands for.                     *)

Others(S, n) == {x \in S : x.name # n}

LEMMA SetOfRegistry ==
  ASSUME NEW r \in Registry
  PROVE  /\ AsSet(r) \subseteq Site
         /\ Abstract!Keyed(AsSet(r))
         /\ AsSet(MigrateAll(r)) = AsSet(r)
<1>1. /\ DOMAIN r = 1 .. Len(r)
      /\ \A i \in DOMAIN r : r[i] \in Site
      /\ \A i, j \in DOMAIN r : r[i].name = r[j].name => i = j
  BY DEF Registry, NamesDistinct
<1>2. \A i \in DOMAIN r : /\ Migrate(r[i]) \in Site
                           /\ Migrate(r[i]).name = r[i].name
                           /\ Migrate(Migrate(r[i])) = Migrate(r[i])
  BY <1>1, MigrateSite
<1>3. AsSet(r) \subseteq Site
  BY <1>2 DEF AsSet
<1>4. Abstract!Keyed(AsSet(r))
  BY <1>1, <1>2 DEF AsSet, Abstract!Keyed
<1>5. AsSet(MigrateAll(r)) = AsSet(r)
  <2>1. /\ DOMAIN MigrateAll(r) = DOMAIN r
        /\ \A i \in DOMAIN r : MigrateAll(r)[i] = Migrate(r[i])
    BY DEF MigrateAll
  <2>2. QED
    BY <2>1, <1>2 DEF AsSet
<1>6. QED
  BY <1>3, <1>4, <1>5

LEMMA SetOfAppend ==
  ASSUME NEW r \in Registry, NEW s \in Site, ~Has(r, s.name)
  PROVE  AsSet(Append(r, s)) = Others(AsSet(r), s.name) \cup {Migrate(s)}
<1>1. /\ r \in Seq(Site)
      /\ Len(r) \in Nat
      /\ DOMAIN r = 1 .. Len(r)
      /\ DOMAIN Append(r, s) = 1 .. Len(r) + 1
      /\ \A i \in 1 .. Len(r) : Append(r, s)[i] = r[i]
      /\ Append(r, s)[Len(r) + 1] = s
      /\ \A i \in 1 .. Len(r) : r[i] \in Site /\ r[i].name # s.name
  BY DEF Registry, Has
<1>2. \A i \in 1 .. Len(r) : Migrate(r[i]).name # s.name
  BY <1>1, MigrateSite
<1>3. \A x \in AsSet(Append(r, s)) : x \in AsSet(r) \/ x = Migrate(s)
  <2> SUFFICES ASSUME NEW i \in 1 .. Len(r) + 1
               PROVE  Migrate(Append(r, s)[i]) \in AsSet(r) \cup {Migrate(s)}
    BY <1>1 DEF AsSet
  <2>1. CASE i \in 1 .. Len(r)
    BY <1>1, <2>1 DEF AsSet
  <2>2. CASE i = Len(r) + 1
    BY <1>1, <2>2
  <2>3. QED
    BY <2>1, <2>2, <1>1
<1>4. \A i \in 1 .. Len(r) : Migrate(r[i]) \in AsSet(Append(r, s))
  <2> TAKE i \in 1 .. Len(r)
  <2>1. i \in 1 .. Len(r) + 1 /\ Append(r, s)[i] = r[i]
    BY <1>1
  <2>2. QED
    BY <2>1, <1>1 DEF AsSet
<1>5. Migrate(s) \in AsSet(Append(r, s))
  <2>1. Len(r) + 1 \in 1 .. Len(r) + 1
    BY <1>1
  <2>2. QED
    BY <2>1, <1>1 DEF AsSet
<1>6. \A x \in AsSet(r) : x.name # s.name /\ x \in AsSet(Append(r, s))
  BY <1>1, <1>2, <1>4 DEF AsSet
<1>7. QED
  BY <1>3, <1>5, <1>6 DEF Others

LEMMA SetOfWithout ==
  ASSUME NEW r \in Registry, NEW d \in DOMAIN r
  PROVE  AsSet(Without(r, d)) = Others(AsSet(r), r[d].name)
<1> DEFINE at(k) == IF k < d THEN k ELSE k + 1
<1>1. /\ Len(r) \in Nat
      /\ DOMAIN r = 1 .. Len(r)
      /\ d \in 1 .. Len(r)
      /\ \A k \in 1 .. Len(r) : r[k] \in Site
      /\ \A k, l \in 1 .. Len(r) : r[k].name = r[l].name => k = l
  BY DEF Registry, NamesDistinct
<1>2. DOMAIN Without(r, d) = 1 .. Len(r) - 1
  BY DEF Without
<1>3. \A k \in 1 .. Len(r) - 1 :
         at(k) \in 1 .. Len(r) /\ at(k) # d /\ Without(r, d)[k] = r[at(k)]
  BY <1>1 DEF Without
<1>4. \A j \in 1 .. Len(r) : j # d => \E k \in 1 .. Len(r) - 1 : at(k) = j
  <2> TAKE j \in 1 .. Len(r)
  <2> HAVE j # d
  <2>1. CASE j < d
    <3>1. j \in 1 .. Len(r) - 1 /\ at(j) = j
      BY <2>1, <1>1
    <3>2. QED
      BY <3>1
  <2>2. CASE j > d
    <3>1. j - 1 \in 1 .. Len(r) - 1 /\ at(j - 1) = j
      BY <2>2, <1>1
    <3>2. QED
      BY <3>1
  <2>3. QED
    BY <2>1, <2>2, <1>1
<1>5. \A k \in 1 .. Len(r) : Migrate(r[k]).name = r[k].name
  BY <1>1, MigrateSite
<1> HIDE DEF at
<1>6. \A x \in AsSet(Without(r, d)) : x \in AsSet(r) /\ x.name # r[d].name
  BY <1>1, <1>2, <1>3, <1>5 DEF AsSet
<1>7. \A x \in AsSet(r) : x.name # r[d].name => x \in AsSet(Without(r, d))
  <2> SUFFICES ASSUME NEW j \in 1 .. Len(r), Migrate(r[j]).name # r[d].name
               PROVE  Migrate(r[j]) \in AsSet(Without(r, d))
    BY <1>1 DEF AsSet
  <2>1. j # d
    BY <1>5
  <2>2. PICK k \in 1 .. Len(r) - 1 : at(k) = j
    BY <2>1, <1>4
  <2>3. Migrate(Without(r, d)[k]) = Migrate(r[j])
    BY <2>2, <1>3
  <2>4. QED
    BY <2>3, <1>2 DEF AsSet
<1>8. QED
  BY <1>6, <1>7 DEF Others

LEMMA SetOfReplace ==
  ASSUME NEW r \in Registry, NEW d \in DOMAIN r, NEW s \in Site, s.name = r[d].name
  PROVE  AsSet([r EXCEPT ![d] = s])
           = Others(AsSet(r), s.name) \cup {Migrate(s)}
<1> DEFINE t == [r EXCEPT ![d] = s]
<1>1. /\ DOMAIN t = DOMAIN r
      /\ t[d] = s
      /\ \A k \in DOMAIN r : k # d => t[k] = r[k]
      /\ \A k \in DOMAIN r : r[k] \in Site
      /\ \A k \in DOMAIN r : r[k].name = s.name => k = d
  BY DEF Registry, NamesDistinct
<1>2. \A k \in DOMAIN r : Migrate(r[k]).name = r[k].name
  BY <1>1, MigrateSite
<1> HIDE DEF t
<1>3. AsSet(t) = Others(AsSet(r), s.name) \cup {Migrate(s)}
  BY <1>1, <1>2 DEF AsSet, Others
<1>4. QED
  BY <1>3 DEF t

-----------------------------------------------------------------------------
(* Every step of the store is a step of Registry, or changes nothing there. *)

\* A step that touches neither what was last saved nor the open copy.
LEMMA Stutter ==
  ASSUME last' = last, OpenCopy' = OpenCopy
  PROVE  UNCHANGED <<AsSet(last), OpenCopy>>
  BY DEF AsSet

LEMMA OpenCopyIs ==
  ASSUME TypeOK, NEW p \in Procs, holder = p, pc[p] \in {"open", "writing"}
  PROVE  OpenCopy = Abstract!Working(AsSet(mem[p]))
  BY ProcsAssumption DEF OpenCopy, Abstract!Working

LEMMA EditStep ==
  ASSUME TypeOK, LockInv, NEW p \in Procs, NEW reg, Edit(p, reg),
         NEW n \in Names, NEW new \in {{}} \cup {{s} : s \in Site},
         \A s \in new : s.name = n,
         AsSet(reg) = Others(AsSet(mem[p]), n) \cup new
  PROVE  Abstract!Edit
<1>1. holder = p /\ pc[p] = "open"
  BY DEF Edit, LockInv, Holding
<1>2. /\ OpenCopy.open
      /\ OpenCopy.sites = AsSet(mem[p])
  BY <1>1, ProcsAssumption DEF OpenCopy
<1>3. holder' = p /\ pc'[p] = "open" /\ mem'[p] = reg
  BY <1>1 DEF Edit, TypeOK
<1>4. OpenCopy' = Abstract!Working(AsSet(reg))
  BY <1>3, ProcsAssumption DEF OpenCopy, Abstract!Working, AsSet
<1>5. OpenCopy' = Abstract!Working(Others(OpenCopy.sites, n) \cup new)
  BY <1>2, <1>4
<1>6. AsSet(last)' = AsSet(last)
  BY DEF Edit, AsSet
<1>7. QED
  BY <1>2, <1>5, <1>6 DEF Abstract!Edit, Others

LEMMA UseStep ==
  ASSUME TypeOK, LockInv, NEW p \in Procs, Add(p) \/ Remove(p) \/ Update(p)
  PROVE  Abstract!Edit
<1>0. mem[p] \in Registry
  BY DEF TypeOK
<1>1. CASE Add(p)
  <2>1. PICK s \in Edits : ~Has(mem[p], s.name) /\ Edit(p, Append(mem[p], s))
    BY <1>1 DEF Add
  <2>2. s \in Site /\ Migrate(s) \in Site /\ Migrate(s).name = s.name /\ s.name \in Names
    BY EditsAssumption, MigrateSite DEF Site
  <2>3. AsSet(Append(mem[p], s)) = Others(AsSet(mem[p]), s.name) \cup {Migrate(s)}
    BY <1>0, <2>1, <2>2, SetOfAppend
  <2>4. /\ {Migrate(s)} \in {{}} \cup {{x} : x \in Site}
        /\ \A x \in {Migrate(s)} : x.name = s.name
    BY <2>2
  <2>5. QED
    BY <2>1, <2>2, <2>3, <2>4, EditStep
<1>2. CASE Remove(p)
  <2>1. PICK i \in DOMAIN mem[p] : Edit(p, Without(mem[p], i))
    BY <1>2 DEF Remove
  <2>2. mem[p][i].name \in Names
    BY <1>0, RegistryElement DEF Site
  <2>3. AsSet(Without(mem[p], i)) = Others(AsSet(mem[p]), mem[p][i].name) \cup {}
    BY <1>0, SetOfWithout
  <2>4. /\ {} \in {{}} \cup {{x} : x \in Site}
        /\ \A x \in {} : x.name = mem[p][i].name
    OBVIOUS
  <2>5. QED
    BY <2>1, <2>2, <2>3, <2>4, EditStep
<1>3. CASE Update(p)
  <2>1. PICK i \in DOMAIN mem[p], s \in Edits :
           s.name = mem[p][i].name /\ Edit(p, [mem[p] EXCEPT ![i] = s])
    BY <1>3 DEF Update
  <2>2. s \in Site /\ Migrate(s) \in Site /\ Migrate(s).name = s.name /\ s.name \in Names
    BY EditsAssumption, MigrateSite DEF Site
  <2>3. AsSet([mem[p] EXCEPT ![i] = s])
          = Others(AsSet(mem[p]), s.name) \cup {Migrate(s)}
    BY <1>0, <2>1, <2>2, SetOfReplace
  <2>4. /\ {Migrate(s)} \in {{}} \cup {{x} : x \in Site}
        /\ \A x \in {Migrate(s)} : x.name = s.name
    BY <2>2
  <2>5. QED
    BY <2>1, <2>2, <2>3, <2>4, EditStep
<1>4. QED
  BY <1>1, <1>2, <1>3

\* The end of a process: the end of its transaction if it had one.
LEMMA ExitStep ==
  ASSUME TypeOK, LockInv, NEW p \in Procs, pc[p] # "idle",
         pc' = [pc EXCEPT ![p] = "idle"], Exit(p), last' = last
  PROVE  Abstract!End \/ UNCHANGED <<AsSet(last), OpenCopy>>
<1>1. AsSet(last)' = AsSet(last)
  BY DEF AsSet
<1>2. CASE holder = p
  <2>1. OpenCopy' = Abstract!Closed
    BY <1>2 DEF OpenCopy, Abstract!Closed, Exit
  <2>2. CASE OpenCopy.open
    BY <2>1, <2>2, <1>1 DEF Abstract!End
  <2>3. CASE ~OpenCopy.open
    <3>1. OpenCopy = Abstract!Closed
      BY <2>3 DEF OpenCopy, Abstract!Closed
    <3>2. QED
      BY <2>1, <3>1, <1>1
  <2>4. QED
    BY <2>2, <2>3
<1>3. CASE holder # p
  <2>1. holder' = holder
    BY <1>3 DEF Exit
  <2>2. CASE holder = NoProc
    BY <2>1, <2>2, <1>1 DEF OpenCopy
  <2>3. CASE holder # NoProc
    <3>1. holder \in Procs
      BY <2>3 DEF TypeOK
    <3>2. pc'[holder] = pc[holder] /\ mem'[holder] = mem[holder]
      BY <1>3, <3>1 DEF Exit, TypeOK
    <3>3. QED
      BY <2>1, <3>2, <1>1 DEF OpenCopy, AsSet
  <2>4. QED
    BY <2>2, <2>3
<1>4. QED
  BY <1>2, <1>3

\* A process outside its transaction that moves to another such place.
LEMMA OutsideStep ==
  ASSUME TypeOK, LockInv, NEW p \in Procs, NEW to,
         pc[p] \notin {"open", "writing"}, to \notin {"open", "writing"},
         pc' = [pc EXCEPT ![p] = to], last' = last,
         holder' = holder \/ (holder = NoProc /\ holder' = p),
         \A q \in Procs : q # p => mem'[q] = mem[q]
  PROVE  UNCHANGED <<AsSet(last), OpenCopy>>
<1>1. AsSet(last)' = AsSet(last)
  BY DEF AsSet
<1>2. CASE holder = NoProc
  BY <1>1, <1>2 DEF OpenCopy, TypeOK
<1>3. CASE holder \in Procs
  <2>1. holder' = holder
    BY <1>3, ProcsAssumption
  <2>2. CASE holder = p
    BY <1>1, <2>1, <2>2, ProcsAssumption DEF OpenCopy, TypeOK
  <2>3. CASE holder # p
    <3>1. pc'[holder] = pc[holder] /\ mem'[holder] = mem[holder]
      BY <1>3, <2>3 DEF TypeOK
    <3>2. QED
      BY <1>1, <2>1, <3>1 DEF OpenCopy, AsSet
  <2>4. QED
    BY <2>2, <2>3
<1>4. QED
  BY <1>2, <1>3 DEF TypeOK

LEMMA NextRefines ==
  ASSUME "empty" \notin SaveLeaves, TypeOK, LockInv, LoadInv, [Next]_vars
  PROVE  [Abstract!Next]_<<AsSet(last), OpenCopy>>
<1> USE DEF Goto, Holding, Waiting
<1>1. ASSUME NEW p \in Procs, StartLock(p) \/ Acquire(p) \/ DeadlinePasses(p)
      PROVE  UNCHANGED <<AsSet(last), OpenCopy>>
  <2>1. CASE DeadlinePasses(p)
    BY <2>1, Stutter DEF DeadlinePasses, OpenCopy, AsSet
  <2>2. CASE StartLock(p)
    BY <2>2, OutsideStep DEF StartLock
  <2>3. CASE FlockGranted(p)
    BY <2>3, OutsideStep DEF FlockGranted
  <2>4. CASE FlockBusy(p) \/ FlockError(p) \/ GiveUp(p) \/ SleepAndRetry(p)
    BY <2>4, OutsideStep DEF FlockBusy, FlockError, GiveUp, SleepAndRetry
  <2>5. QED
    BY <1>1, <2>1, <2>2, <2>3, <2>4 DEF Acquire
<1>2. ASSUME NEW p \in Procs, Load(p)
      PROVE  [Abstract!Next]_<<AsSet(last), OpenCopy>>
  <2>1. CASE ReadNothing(p)
    BY <2>1, OutsideStep DEF ReadNothing, TypeOK
  <2>2. CASE ReadRegistry(p)
    <3>1. holder = p /\ holder' = p /\ pc'[p] = "open" /\ mem'[p] = MigrateAll(last)
      BY <2>2 DEF ReadRegistry, LockInv, LoadInv, TypeOK
    <3>2. AsSet(MigrateAll(last)) = AsSet(last) /\ AsSet(last)' = AsSet(last)
      BY <2>2, SetOfRegistry DEF ReadRegistry, TypeOK, AsSet
    <3>3. ~OpenCopy.open
      BY <2>2, <3>1 DEF ReadRegistry, OpenCopy
    <3>4. OpenCopy' = Abstract!Working(AsSet(mem'[p]))
      BY <3>1, ProcsAssumption DEF OpenCopy, Abstract!Working, AsSet
    <3>5. Abstract!Begin
      BY <3>1, <3>2, <3>3, <3>4 DEF Abstract!Begin
    <3>6. QED
      BY <3>5 DEF Abstract!Next
  <2>3. CASE ReadTorn(p) \/ ReadError(p)
    BY <2>3, ExitStep DEF ReadTorn, ReadError, TypeOK, Abstract!Next
  <2>4. QED
    BY <1>2, <2>1, <2>2, <2>3 DEF Load
<1>3. ASSUME NEW p \in Procs, Use(p)
      PROVE  [Abstract!Next]_<<AsSet(last), OpenCopy>>
  <2>1. CASE Add(p) \/ Remove(p) \/ Update(p)
    BY <2>1, UseStep DEF Abstract!Next
  <2>2. CASE Close(p)
    BY <2>2, ExitStep DEF Close, TypeOK, Abstract!Next
  <2>3. QED
    BY <1>3, <2>1, <2>2 DEF Use
<1>4. ASSUME NEW p \in Procs, Save(p)
      PROVE  [Abstract!Next]_<<AsSet(last), OpenCopy>>
  <2>1. CASE SaveTruncate(p)
    <3>1. CASE pc[p] = "fresh"
      BY <2>1, <3>1, OutsideStep DEF SaveTruncate
    <3>2. CASE pc[p] = "open"
      <4>1. holder = p /\ pc'[p] = "writing" /\ mem' = mem /\ holder' = holder /\ last' = last
        BY <2>1, <3>2 DEF SaveTruncate, LockInv, TypeOK
      <4>2. OpenCopy' = OpenCopy
        BY <3>2, <4>1, ProcsAssumption DEF OpenCopy, AsSet
      <4>3. QED
        BY <4>1, <4>2, Stutter
    <3>3. QED
      BY <2>1, <3>1, <3>2 DEF SaveTruncate
  <2>2. CASE SaveWrite(p)
    <3>1. /\ holder = p /\ holder' = p /\ pc'[p] = "open" /\ mem' = mem
          /\ pc[p] \in {"creating", "writing"} /\ last' = mem[p]
      BY <2>2 DEF SaveWrite, LockInv, TypeOK
    <3>2. OpenCopy' = Abstract!Working(AsSet(mem[p]))
      BY <3>1, ProcsAssumption DEF OpenCopy, Abstract!Working, AsSet
    <3>3. AsSet(last)' = AsSet(mem[p])
      BY <3>1 DEF AsSet
    <3>4. CASE pc[p] = "creating"
      <4>1. mem[p] = last
        BY <3>4 DEF LoadInv
      <4>2. ~OpenCopy.open
        BY <3>1, <3>4 DEF OpenCopy
      <4>3. Abstract!Begin
        BY <3>2, <3>3, <4>1, <4>2 DEF Abstract!Begin
      <4>4. QED
        BY <4>3 DEF Abstract!Next
    <3>5. CASE pc[p] = "writing"
      <4>1. OpenCopy = Abstract!Working(AsSet(mem[p]))
        BY <3>1, <3>5, OpenCopyIs
      <4>2. Abstract!Commit
        BY <3>2, <3>3, <4>1 DEF Abstract!Commit, Abstract!Working
      <4>3. QED
        BY <4>2 DEF Abstract!Next
    <3>6. QED
      BY <3>1, <3>4, <3>5
  <2>3. CASE SaveError(p)
    <3>1. CASE pc[p] = "creating"
      BY <2>3, <3>1, ExitStep DEF SaveError, Abstract!Next
    <3>2. CASE pc[p] = "writing"
      <4>1. holder = p /\ pc'[p] = "open" /\ mem' = mem /\ holder' = holder /\ last' = last
        BY <2>3, <3>2 DEF SaveError, LockInv, TypeOK
      <4>2. OpenCopy' = OpenCopy
        BY <3>2, <4>1, ProcsAssumption DEF OpenCopy, AsSet
      <4>3. QED
        BY <4>1, <4>2, Stutter
    <3>3. QED
      BY <2>3, <3>1, <3>2 DEF SaveError
  <2>4. QED
    BY <1>4, <2>1, <2>2, <2>3 DEF Save
<1>5. ASSUME NEW p \in Procs, Kill(p) \/ KillInSave(p)
      PROVE  [Abstract!Next]_<<AsSet(last), OpenCopy>>
  <2>1. CASE Kill(p)
    BY <2>1, ExitStep DEF Kill, Abstract!Next
  <2>2. CASE KillInSave(p)
    BY <2>2, ExitStep DEF KillInSave, Abstract!Next
  <2>3. QED
    BY <1>5, <2>1, <2>2
<1>6. CASE UNCHANGED vars
  BY <1>6, Stutter DEF vars, OpenCopy, AsSet
<1>7. QED
  BY <1>1, <1>2, <1>3, <1>4, <1>5, <1>6 DEF Next

LEMMA InitRefines == Init => Abstract!Init
<1> SUFFICES ASSUME Init PROVE Abstract!Init
  OBVIOUS
<1>1. last \in Registry
  BY InitTypes DEF TypeOK
<1>2. OpenCopy = Abstract!Closed
  BY DEF Init, OpenCopy, Abstract!Closed
<1>3. QED
  BY <1>1, <1>2, SetOfRegistry DEF Abstract!Init

\* As long as no Save cut short leaves a file of zero bytes, everything the
\* commands do to the registry file, with their lock waits, timeouts, failed
\* writes and deaths, is a serial history of atomic transactions on one set of
\* sites keyed by name.
THEOREM StoreIsRegistry ==
  ASSUME "empty" \notin SaveLeaves
  PROVE  Spec => ImplementsRegistry
<1>1. TypeOK /\ LockInv /\ LoadInv /\ [Next]_vars => LoadInv'
  BY NextLoad
<1>2. TypeOK /\ LockInv /\ LoadInv /\ [Next]_vars
        => [Abstract!Next]_<<AsSet(last), OpenCopy>>
  BY NextRefines
<1>3. QED
  BY <1>1, <1>2, InitLoad, InitLock, NextLock, InitTypes, NextTypes, InitRefines, PTL
     DEF Spec, ImplementsRegistry, Abstract!Spec
=============================================================================
