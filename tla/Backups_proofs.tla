--------------------------- MODULE Backups_proofs ---------------------------
(***************************************************************************)
(* Proofs about the archives and their schedule, for any number of sites,  *)
(* archives and retentions.                                                *)
(***************************************************************************)
EXTENDS Backups, FiniteSetTheorems, WellFoundedInduction, TLAPS

\* A set of numbers that is not empty has a least element.
LEMMA Least ==
  ASSUME NEW S, S \subseteq Nat, S # {}
  PROVE  \E x \in S : \A y \in S : x <= y
<1> DEFINE less == {ss \in Nat \X Nat : ss[1] < ss[2]}
<1>1. IsWellFoundedOn(less, Nat)
  BY NatLessThanWellFounded DEF OpToRel
<1>2. PICK x \in S : \A y \in S : ~ (<<y, x>> \in less)
  <2> HIDE DEF less
  <2> QED
    BY <1>1, WFMin
<1>3. \A y \in S : <<y, x>> \in Nat \X Nat
  OBVIOUS
<1>4. \A y \in S : ~ (y < x)
  BY <1>2, <1>3
<1>5. QED
  BY <1>4

-----------------------------------------------------------------------------
(* Types, and what the running command is about.                           *)

\* A job is about a site; those of backup-cron are about scheduled sites, whose
\* records do not change while it holds the lock.
JobInv ==
    /\ pc = "idle" => due = {}
    /\ pc \in {"backup", "prune"} => site \in Names
    /\ due \subseteq Scheduled
    /\ pc = "backup" /\ InCron => site \in due
    /\ pc = "prune" => site \in due

LEMMA InitTypes == Init => TypeOK /\ JobInv
<1> SUFFICES ASSUME Init PROVE TypeOK /\ JobInv
  OBVIOUS
<1>1. Scheduled = {}
  BY DEF Init, Scheduled, Registered
<1>2. 0 \in 0 .. MaxTime /\ 0 \in 0 .. 0
  BY RetainsAssumption
<1>3. QED
  BY <1>1, <1>2 DEF Init, TypeOK, JobInv, Steps, InCron

LEMMA WriteTypes ==
  ASSUME archives \subseteq Archive, now \in 0 .. MaxTime,
         site \in Names, NEW whole \in BOOLEAN, Write(whole)
  PROVE  archives' \subseteq Archive
<1>1. [site |-> site, at |-> now, whole |-> whole] \in Archive
  BY DEF Archive
<1>2. QED
  BY <1>1 DEF Write

LEMMA SameSchedules == disk' = disk => Scheduled' = Scheduled
  BY DEF Scheduled, Registered

Flags == cronFile \in BOOLEAN /\ trusted \in BOOLEAN

LEMMA NextFlags == Flags /\ [Next]_vars => Flags'
<1> SUFFICES ASSUME Flags, [Next]_vars PROVE Flags'
  OBVIOUS
<1> USE DEF Flags
<1>1. ASSUME NEW n \in Names,
             Create(n) \/ Schedule(n) \/ Unschedule(n) \/ DeleteSchedule(n) \/ StartBackup(n)
      PROVE  Flags'
  BY <1>1, Zenon DEF Create, Schedule, Unschedule, DeleteSchedule, StartBackup, removeGlobalBackupCron
<1>2. CASE ensureGlobalBackupCron \/ CronNotWritten \/ DropCron \/ Delete \/ DeleteFails
  BY <1>2, Zenon DEF ensureGlobalBackupCron, CronNotWritten, DropCron, removeGlobalBackupCron,
                     Delete, DeleteFails
<1>3. CASE StartCron \/ NextSite \/ CronDone \/ Backup \/ BackupFails
  BY <1>3, Zenon DEF StartCron, NextSite, CronDone, Backup, BackupFails
<1>4. CASE PruneBackups \/ PruneFails \/ PruneDone \/ Tick
  BY <1>4, Zenon DEF PruneBackups, PruneFails, PruneDone, Tick
<1>5. CASE Kill
  BY <1>5, Zenon DEF Kill
<1>6. CASE UNCHANGED vars
  BY <1>6, Zenon DEF vars
<1>7. QED
  BY <1>1, <1>2, <1>3, <1>4, <1>5, <1>6 DEF Next

RestOK ==
    /\ disk \in [Names -> Site \cup {NoSite}]
    /\ \A n \in Scheduled : disk[n].retain \in Retains
    /\ archives \subseteq Archive
    /\ now \in 0 .. MaxTime /\ began \in 0 .. now
    /\ pc \in Steps /\ site \in Names \cup {NoSite}
    /\ due \subseteq Names /\ todo \subseteq due /\ failed \subseteq Names

LEMMA NextRest == RestOK /\ JobInv /\ [Next]_vars => RestOK' /\ JobInv'
<1> SUFFICES ASSUME RestOK, JobInv, [Next]_vars PROVE RestOK' /\ JobInv'
  OBVIOUS
<1> USE SameSchedules, RetainsAssumption DEF Steps, InCron, RestOK, JobInv
<1>0. Unscheduled \in Site /\ NoSite \notin Site /\ Unscheduled.schedule = ""
  BY NoSiteAssumption DEF Unscheduled, Site
<1>1. ASSUME NEW n \in Names, Create(n) PROVE RestOK' /\ JobInv'
  <2>1. PICK s \in {Unscheduled, NoSite} : disk' = [disk EXCEPT ![n] = s]
    BY <1>1 DEF Create
  <2>2. /\ disk' \in [Names -> Site \cup {NoSite}]
        /\ disk'[n] = s
        /\ \A m \in Names : m # n => disk'[m] = disk[m]
    BY <1>0, <2>1
  <2>3. \A m \in Scheduled' : m \in Scheduled /\ disk'[m] = disk[m]
    BY <1>0, <2>2 DEF Scheduled, Registered
  <2>4. QED
    BY <1>1, <2>2, <2>3 DEF Create, command
<1>2. ASSUME NEW n \in Names, Schedule(n) PROVE RestOK' /\ JobInv'
  <2>1. PICK s \in Site : s.retain # 0 /\ disk' = [disk EXCEPT ![n] = s]
    BY <1>2 DEF Schedule
  <2>2. s.retain \in Retains
    BY <2>1 DEF Site
  <2>3. /\ disk' \in [Names -> Site \cup {NoSite}]
        /\ disk'[n] = s
        /\ \A m \in Names : m # n => disk'[m] = disk[m]
    BY <2>1
  <2>4. \A m \in Scheduled' : m = n \/ (m \in Scheduled /\ disk'[m] = disk[m])
    BY <2>3 DEF Scheduled, Registered
  <2>5. QED
    BY <1>2, <2>2, <2>3, <2>4 DEF Schedule, Begin
<1>3. ASSUME NEW n \in Names, Unschedule(n) PROVE RestOK' /\ JobInv'
  <2>1. /\ disk' \in [Names -> Site \cup {NoSite}]
        /\ \A m \in Scheduled' : m \in Scheduled /\ disk'[m] = disk[m]
    BY <1>0, <1>3 DEF Unschedule, Scheduled, Registered
  <2>2. QED
    BY <1>3, <2>1 DEF Unschedule, Begin
<1>4. ASSUME NEW n \in Names, DeleteSchedule(n) PROVE RestOK' /\ JobInv'
  BY <1>4 DEF DeleteSchedule, Begin
<1>5. ASSUME NEW n \in Names, StartBackup(n) PROVE RestOK' /\ JobInv'
  BY <1>5 DEF StartBackup, Begin
<1>6. CASE ensureGlobalBackupCron \/ CronNotWritten \/ DropCron
  <2>1. End /\ UNCHANGED <<disk, archives, now>>
    BY <1>6, Zenon DEF ensureGlobalBackupCron, CronNotWritten, DropCron
  <2>2. QED
    BY <2>1 DEF End
<1>7. CASE Delete
  <2>1. /\ disk' \in [Names -> Site \cup {NoSite}]
        /\ \A m \in Scheduled' : m \in Scheduled /\ disk'[m] = disk[m]
    BY <1>7 DEF Delete, Scheduled, Registered
  <2>2. QED
    BY <1>7, <2>1 DEF Delete, End
<1>8. CASE DeleteFails
  BY <1>8 DEF DeleteFails, End
<1>9. CASE StartCron
  <2>1. due' \subseteq Scheduled /\ Scheduled \subseteq Names
    BY <1>9 DEF StartCron, Scheduled, Registered
  <2>2. QED
    BY <1>9, <2>1 DEF StartCron
<1>10. CASE NextSite \/ CronDone
  BY <1>10 DEF NextSite, CronDone, End
<1>11. CASE Backup \/ BackupFails
  <2>1. archives' \subseteq Archive
    BY <1>11, WriteTypes DEF Backup, BackupFails, NoArchive
  <2>2. CASE Backup
    BY <2>1, <2>2 DEF Backup, End, command
  <2>3. CASE BackupFails
    BY <2>1, <2>3 DEF BackupFails, FailureNoted, End
  <2>4. QED
    BY <1>11, <2>2, <2>3
<1>12. CASE PruneBackups \/ PruneFails \/ PruneDone
  BY <1>12 DEF PruneBackups, PruneFails, PruneDone, command
<1>13. CASE Tick
  BY <1>13 DEF Tick, command
<1>14. CASE Kill
  <2>1. archives' \subseteq Archive
    BY <1>14, WriteTypes DEF Kill
  <2>2. QED
    BY <1>14, <2>1 DEF Kill, End
<1>15. CASE UNCHANGED vars
  BY <1>15 DEF vars, command
<1>16. QED
  BY <1>1, <1>2, <1>3, <1>4, <1>5, <1>6, <1>7, <1>8, <1>9, <1>10, <1>11, <1>12, <1>13, <1>14,
     <1>15 DEF Next

LEMMA NextTypes == TypeOK /\ JobInv /\ [Next]_vars => TypeOK' /\ JobInv'
<1>1. TypeOK <=> Flags /\ RestOK
  BY Zenon DEF TypeOK, Flags, RestOK
<1>2. QED
  BY <1>1, NextFlags, NextRest, PTL

\* Whatever fails or is killed, a scheduled site has a number of archives to keep,
\* and the steps of backup-cron are about sites it may back up.
THEOREM TypeCorrect == Spec => []TypeOK
<1>1. QED
  BY InitTypes, NextTypes, PTL DEF Spec

-----------------------------------------------------------------------------
(* The cron file.                                                          *)

\* As long as nothing was cut off, the file is there when a site needs it; a
\* schedule that is being saved has not come to it yet, and a site that is being
\* deleted needs it no more.
CronInv ==
    /\ trusted /\ pc = "delete" /\ Scheduled \ {site} # {} => cronFile
    /\ trusted /\ pc \notin {"writeCron", "delete"} /\ Scheduled # {} => cronFile

LEMMA KeptForOthers ==
  ASSUME NEW others, others # {}, removeGlobalBackupCron(others)
  PROVE  cronFile' = cronFile
  BY DEF removeGlobalBackupCron

LEMMA NextCron == RestOK /\ CronInv /\ [Next]_vars => CronInv'
<1> SUFFICES ASSUME RestOK, CronInv, [Next]_vars PROVE CronInv'
  OBVIOUS
<1> USE SameSchedules DEF Begin, End, CronInv
<1>0. Unscheduled.schedule = ""
  BY DEF Unscheduled
<1>1. ASSUME NEW n \in Names, Create(n) \/ Unschedule(n) PROVE CronInv'
  <2>1. PICK s \in {Unscheduled, NoSite} : disk' = [disk EXCEPT ![n] = s]
    BY <1>1 DEF Create, Unschedule
  <2>2. Scheduled' \subseteq Scheduled
    BY <1>0, <2>1 DEF Scheduled, Registered, RestOK
  <2>3. QED
    BY <1>1, <2>2 DEF Create, Unschedule
<1>2. ASSUME NEW n \in Names, Schedule(n) PROVE CronInv'
  BY <1>2 DEF Schedule
<1>3. ASSUME NEW n \in Names, DeleteSchedule(n) PROVE CronInv'
  <2>1. CASE n \in Scheduled
    BY <1>3, <2>1, KeptForOthers DEF DeleteSchedule
  <2>2. CASE n \notin Scheduled
    BY <1>3, <2>2 DEF DeleteSchedule
  <2>3. QED
    BY <2>1, <2>2
<1>4. ASSUME NEW n \in Names, StartBackup(n) PROVE CronInv'
  BY <1>4 DEF StartBackup
<1>5. CASE ensureGlobalBackupCron
  BY <1>5 DEF ensureGlobalBackupCron
<1>6. CASE CronNotWritten \/ DeleteFails
  BY <1>6 DEF CronNotWritten, DeleteFails
<1>7. CASE DropCron
  BY <1>7, KeptForOthers DEF DropCron
<1>8. CASE Delete
  <2>1. Scheduled' = Scheduled \ {site}
    BY <1>8 DEF Delete, Scheduled, Registered, RestOK
  <2>2. QED
    BY <1>8, <2>1 DEF Delete
<1>9. CASE StartCron \/ NextSite \/ CronDone
  BY <1>9 DEF StartCron, NextSite, CronDone
<1>10. CASE Backup \/ BackupFails
  <2>1. pc = "backup" /\ pc' \notin {"writeCron", "delete"} /\ UNCHANGED <<disk, cronFile, trusted>>
    BY <1>10 DEF Backup, BackupFails
  <2>2. QED
    BY <2>1
<1>11. CASE PruneBackups \/ PruneFails \/ PruneDone \/ Tick
  BY <1>11 DEF PruneBackups, PruneFails, PruneDone, Tick, command
<1>12. CASE Kill
  <2>1. trusted' => trusted /\ pc \notin {"writeCron", "delete"}
    BY <1>12, Zenon DEF Kill
  <2>2. trusted' => cronFile' = cronFile
    BY <1>12, <2>1, Zenon DEF Kill
  <2>3. pc' = "idle" /\ disk' = disk
    BY <1>12 DEF Kill
  <2>4. QED
    BY <2>1, <2>2, <2>3
<1>13. CASE UNCHANGED vars
  BY <1>13 DEF vars, command
<1>14. QED
  BY <1>1, <1>2, <1>3, <1>4, <1>5, <1>6, <1>7, <1>8, <1>9, <1>10, <1>11, <1>12, <1>13
     DEF Next

\* For any number of sites: backup-cron runs whenever a site is scheduled, unless
\* a command that schedules or deletes was cut off since the last one that
\* scheduled (RunBackupUnschedule and RunDelete look for other schedules first).
THEOREM ScheduleRuns == Spec => []ScheduledIsRun
<1>1. Init => CronInv
  BY DEF Init, CronInv, Scheduled, Registered
<1>2. TypeOK => RestOK
  BY Zenon DEF TypeOK, RestOK
<1>3. CronInv => ScheduledIsRun
  BY DEF CronInv, ScheduledIsRun
<1>4. QED
  BY <1>1, <1>2, <1>3, NextCron, TypeCorrect, PTL DEF Spec

-----------------------------------------------------------------------------
(* The archives.  From here on no domain looks like another's: the run     *)
(* MCBackupsPrefix shows that the theorems fail without it.                *)

NoneAlike == \A n \in Names : Extends[n] = {}

ArchiveInv ==
    /\ IsFiniteSet(archives)
    /\ \A a \in archives : a.at <= now
    /\ \A a, b \in archives : a.site = b.site /\ a.at = b.at => a = b

\* The archive backup-cron has just made is the newest of its site.
Newest(c) == \A b \in archives : b.site = c.site => b.at <= c.at

MadeInv ==
    pc = "prune" =>
      \E c \in archives : c.site = site /\ c.whole /\ began <= c.at /\ Newest(c)

\* What ArchiveInv says after tar has written an archive.
LEMMA WriteArchives ==
  ASSUME TypeOK, ArchiveInv, site \in Names, NEW whole \in BOOLEAN, Write(whole), now' = now
  PROVE  ArchiveInv'
<1> DEFINE new == [site |-> site, at |-> now, whole |-> whole]
           kept == {a \in archives : ~(a.site = site /\ a.at = now)}
<1>1. archives' = kept \cup {new} /\ new.site = site /\ new.at = now
  BY DEF Write
<1>2. IsFiniteSet(kept)
  <2>1. kept \in SUBSET archives
    OBVIOUS
  <2>2. QED
    BY <2>1, FS_Subset DEF ArchiveInv
<1>3. IsFiniteSet(archives')
  <2> HIDE DEF kept, new
  <2> QED
    BY <1>1, <1>2, FS_AddElement
<1>4. \A a \in kept : a \in archives /\ ~(a.site = new.site /\ a.at = new.at)
  BY <1>1
<1>5. \A a \in archives' : a.at <= now
  <2> HIDE DEF kept, new
  <2> QED
    BY <1>1, <1>4 DEF ArchiveInv, TypeOK
<1>6. \A a, b \in archives' : a.site = b.site /\ a.at = b.at => a = b
  <2> HIDE DEF kept, new
  <2> QED
    BY <1>1, <1>4 DEF ArchiveInv
<1>7. QED
  BY <1>3, <1>5, <1>6 DEF ArchiveInv

\* What one step of PruneBackups takes: an archive of the site that is older than
\* all others of it, of which there are as many as are to be kept.
LEMMA PruneTakes ==
  ASSUME NoneAlike, TypeOK, JobInv, ArchiveInv, PruneBackups
  PROVE  \E o \in archives :
           /\ archives' = archives \ {o}
           /\ o.site = site
           /\ \A b \in archives' : b.site = site => b.at > o.at
           /\ Cardinality({b \in archives' : b.site = site /\ b.at > o.at}) >= disk[site].retain
           /\ \E b \in archives' : b.site = site
<1> DEFINE L == {a \in archives : a.site = site}
           o == Oldest(L)
           times == {a.at : a \in L}
           rest == {b \in archives' : b.site = site /\ b.at > o.at}
<1>0. site \in Names /\ disk[site].retain \in Nat \ {0} /\ pc = "prune"
  BY RetainsAssumption DEF PruneBackups, JobInv, TypeOK
<1>1. ListBackups(site) = L
  BY <1>0 DEF ListBackups, NoneAlike
<1>2. IsFiniteSet(L) /\ Cardinality(L) > disk[site].retain /\ archives' = archives \ {o}
  <2>1. L \in SUBSET archives
    OBVIOUS
  <2>2. IsFiniteSet(L)
    BY <2>1, FS_Subset DEF ArchiveInv
  <2> HIDE DEF L
  <2>3. QED
    BY <1>1, <2>2 DEF PruneBackups, Surplus
<1>3. L # {} /\ Cardinality(L) \in Nat
  <2> HIDE DEF L
  <2> QED
    BY <1>0, <1>2, FS_EmptySet, FS_CardinalityType
<1>4. \A a \in L : a.at \in Nat /\ a.site = site
  BY DEF TypeOK, Archive
<1>5. \E a \in L : \A b \in L : a.at <= b.at
  <2> HIDE DEF L
  <2>1. times \subseteq Nat /\ times # {}
    BY <1>3, <1>4
  <2>2. PICK t \in times : \A u \in times : t <= u
    <3> HIDE DEF times
    <3> QED
      BY <2>1, Least
  <2>3. QED
    BY <2>2
<1>6. o \in L /\ \A b \in L : o.at <= b.at
  <2> DEFINE first(a, b) == a.site < b.site \/ (a.site = b.site /\ a.at <= b.at)
  <2>1. \E a \in L : \A b \in L : first(a, b)
    BY <1>4, <1>5
  <2>2. o \in L /\ \A b \in L : first(o, b)
    BY <2>1 DEF Oldest
  <2>3. site \in Nat
    BY <1>0, NamesAssumption
  <2> HIDE DEF L, o
  <2>4. QED
    BY <2>2, <2>3, <1>4
<1>7. \A b \in L \ {o} : b.at > o.at
  BY <1>4, <1>6 DEF ArchiveInv
<1>8. rest = L \ {o}
  <2> HIDE DEF o
  <2> QED
    BY <1>2, <1>7
<1>9. Cardinality(L \ {o}) = Cardinality(L) - 1 /\ IsFiniteSet(L \ {o})
  <2> HIDE DEF L, o
  <2> QED
    BY <1>2, <1>6, FS_RemoveElement
<1>10. Cardinality(rest) >= disk[site].retain
  <2> HIDE DEF L, o, rest
  <2> QED
    BY <1>0, <1>2, <1>3, <1>8, <1>9
<1>11. L \ {o} # {}
  <2> HIDE DEF L, o
  <2> QED
    BY <1>0, <1>2, <1>3, <1>9, FS_EmptySet
<1>12. o \in archives /\ o.site = site
  BY <1>6
<1>13. \A b \in archives' : b.site = site => b.at > o.at
  <2> HIDE DEF o
  <2> QED
    BY <1>2, <1>7
<1>14. \E b \in archives' : b.site = site
  <2> HIDE DEF o
  <2> QED
    BY <1>2, <1>11
<1>15. QED
  <2> HIDE DEF L, o
  <2> QED
    BY <1>2, <1>10, <1>12, <1>13, <1>14

\* The three kinds of step there are for the archives.
LEMMA ArchiveSteps ==
  ASSUME TypeOK, JobInv, [Next]_vars
  PROVE  \/ archives' = archives /\ now <= now'
         \/ pc = "backup" /\ now' = now /\ \E whole \in BOOLEAN : Write(whole)
         \/ PruneBackups /\ now' = now
<1>0. now \in Nat
  BY DEF TypeOK
<1>1. ASSUME NEW n \in Names,
             Create(n) \/ Schedule(n) \/ Unschedule(n) \/ DeleteSchedule(n) \/ StartBackup(n)
      PROVE  UNCHANGED <<archives, now>>
  BY <1>1, Zenon DEF Create, Schedule, Unschedule, DeleteSchedule, StartBackup
<1>2. CASE ensureGlobalBackupCron \/ CronNotWritten \/ DropCron \/ Delete \/ DeleteFails
  <2>1. UNCHANGED <<archives, now>>
    BY <1>2, Zenon DEF ensureGlobalBackupCron, CronNotWritten, DropCron, Delete, DeleteFails
  <2>2. QED
    BY <1>0, <2>1
<1>3. CASE StartCron \/ NextSite \/ CronDone \/ Tick
  BY <1>0, <1>3 DEF StartCron, NextSite, CronDone, Tick
<1>4. CASE Backup \/ BackupFails \/ Kill
  <2>1. now' = now
    BY <1>4, Zenon DEF Backup, BackupFails, Kill
  <2>2. archives' = archives \/ (pc = "backup" /\ \E whole \in BOOLEAN : Write(whole))
    BY <1>4, Zenon DEF Backup, BackupFails, NoArchive, Kill
  <2>3. QED
    BY <1>0, <2>1, <2>2
<1>5. CASE PruneBackups \/ PruneFails \/ PruneDone
  BY <1>0, <1>5 DEF PruneBackups, PruneFails, PruneDone
<1>6. CASE UNCHANGED vars
  BY <1>0, <1>6 DEF vars
<1>7. QED
  BY <1>0, <1>1, <1>2, <1>3, <1>4, <1>5, <1>6 DEF Next

LEMMA NextArchives == TypeOK /\ JobInv /\ ArchiveInv /\ [Next]_vars => ArchiveInv'
<1> SUFFICES ASSUME TypeOK, JobInv, ArchiveInv, [Next]_vars PROVE ArchiveInv'
  OBVIOUS
<1>1. CASE archives' = archives /\ now <= now'
  <2>1. now \in Nat /\ now' \in Nat /\ \A a \in archives : a.at \in Nat
    BY NextTypes DEF TypeOK, Archive
  <2>2. QED
    BY <1>1, <2>1 DEF ArchiveInv
<1>2. CASE pc = "backup" /\ now' = now /\ \E whole \in BOOLEAN : Write(whole)
  BY <1>2, WriteArchives DEF JobInv
<1>3. CASE PruneBackups /\ now' = now
  <2>1. archives' \in SUBSET archives
    BY <1>3 DEF PruneBackups
  <2>2. IsFiniteSet(archives')
    BY <2>1, FS_Subset DEF ArchiveInv
  <2>3. QED
    BY <1>3, <2>1, <2>2 DEF ArchiveInv
<1>4. QED
  BY <1>1, <1>2, <1>3, ArchiveSteps

LEMMA InitArchives == Init => ArchiveInv
  BY FS_EmptySet DEF Init, ArchiveInv

\* Pruning for a site takes nothing of another site, and leaves as many newer
\* archives as the site keeps, if no domain looks like another's.
THEOREM RetentionHolds == ASSUME NoneAlike PROVE Spec => RetentionKept
<1> DEFINE Kept ==
      \A n \in Names : \A a \in Of(n, archives \ archives') :
        \/ \E b \in Of(n, archives') : b.at = a.at
        \/ n \in Scheduled
             /\ Cardinality({b \in Of(n, archives') : b.at > a.at}) >= disk[n].retain
<1>1. TypeOK /\ JobInv /\ ArchiveInv /\ [Next]_vars => [Kept]_vars
  <2> SUFFICES ASSUME TypeOK, JobInv, ArchiveInv, [Next]_vars,
                      NEW n \in Names, NEW a \in Of(n, archives \ archives')
               PROVE  \/ \E b \in Of(n, archives') : b.at = a.at
                      \/ n \in Scheduled
                           /\ Cardinality({b \in Of(n, archives') : b.at > a.at}) >= disk[n].retain
    OBVIOUS
  <2>0. a \in archives /\ a \notin archives' /\ a.site = n
    BY DEF Of
  <2>1. CASE archives' = archives
    BY <2>0, <2>1
  <2>2. CASE \E whole \in BOOLEAN : Write(whole)
    <3>1. \E new \in archives' : new.site = site /\ new.at = now
      <4>1. PICK whole \in BOOLEAN : [site |-> site, at |-> now, whole |-> whole] \in archives'
        BY <2>2 DEF Write
      <4>2. QED
        BY <4>1
    <3>2. a.site = site /\ a.at = now
      BY <2>0, <2>2 DEF Write
    <3>3. QED
      BY <2>0, <3>1, <3>2 DEF Of
  <2>3. CASE PruneBackups
    <3>1. PICK o \in archives :
             /\ archives' = archives \ {o}
             /\ o.site = site
             /\ Cardinality({b \in archives' : b.site = site /\ b.at > o.at}) >= disk[site].retain
      BY <2>3, PruneTakes
    <3>2. a = o /\ n = site
      BY <2>0, <3>1
    <3>3. {b \in Of(n, archives') : b.at > a.at} = {b \in archives' : b.site = site /\ b.at > o.at}
      BY <3>2 DEF Of
    <3>4. n \in Scheduled
      BY <2>3, <3>2 DEF PruneBackups, JobInv
    <3>5. Cardinality({b \in Of(n, archives') : b.at > a.at}) >= disk[n].retain
      BY <3>1, <3>2, <3>3
    <3>6. QED
      BY <3>4, <3>5
  <2>4. QED
    BY <2>1, <2>2, <2>3, ArchiveSteps
<1>2. QED
  BY <1>1, InitTypes, NextTypes, InitArchives, NextArchives, PTL DEF Spec, RetentionKept

\* Pruning never takes the archive that has just been made.
LEMMA PruneSpares ==
  ASSUME NoneAlike, TypeOK, JobInv, ArchiveInv, PruneBackups,
         NEW c \in archives, c.site = site, Newest(c)
  PROVE  c \in archives'
<1>1. PICK o \in archives :
         /\ archives' = archives \ {o}
         /\ \A b \in archives' : b.site = site => b.at > o.at
         /\ \E b \in archives' : b.site = site
  BY PruneTakes
<1>2. PICK b \in archives : b.site = site /\ b.at > o.at
  BY <1>1
<1>3. b.at <= c.at /\ b.at \in Nat /\ c.at \in Nat /\ o.at \in Nat
  BY <1>2 DEF Newest, TypeOK, Archive
<1>4. c # o
  BY <1>2, <1>3
<1>5. QED
  BY <1>1, <1>4

\* A step that comes to, or stays at, the pruning.
LEMMA ToPrune ==
  ASSUME TypeOK, [Next]_vars, pc' = "prune"
  PROVE  /\ site' = site /\ began' = began
         /\ \/ pc = "backup" /\ Write(TRUE)
            \/ pc = "prune" /\ archives' = archives
            \/ PruneBackups
<1>1. ASSUME NEW n \in Names,
             Create(n) \/ Schedule(n) \/ Unschedule(n) \/ DeleteSchedule(n) \/ StartBackup(n)
      PROVE  FALSE
  BY <1>1 DEF Create, Schedule, Unschedule, DeleteSchedule, StartBackup, Begin
<1>2. ~ (ensureGlobalBackupCron \/ CronNotWritten \/ DropCron \/ Delete \/ DeleteFails)
  BY DEF ensureGlobalBackupCron, CronNotWritten, DropCron, Delete, DeleteFails, End
<1>3. ~ (StartCron \/ NextSite \/ CronDone \/ PruneFails \/ PruneDone \/ Kill)
  BY DEF StartCron, NextSite, CronDone, PruneFails, PruneDone, Kill, End
<1>4. ~ BackupFails
  BY DEF BackupFails, End
<1>5. ASSUME Backup
      PROVE  pc = "backup" /\ Write(TRUE) /\ site' = site /\ began' = began
  BY <1>5 DEF Backup, End, command
<1>6. ASSUME PruneBackups PROVE site' = site /\ began' = began
  BY <1>6 DEF PruneBackups, command
<1>7. ASSUME Tick \/ UNCHANGED vars
      PROVE  UNCHANGED <<pc, site, began, archives>>
  BY <1>7 DEF Tick, vars, command
<1>8. QED
  BY <1>1, <1>2, <1>3, <1>4, <1>5, <1>6, <1>7 DEF Next

LEMMA NextMade ==
  ASSUME NoneAlike, TypeOK, JobInv, ArchiveInv, MadeInv, [Next]_vars
  PROVE  MadeInv'
<1> SUFFICES ASSUME pc' = "prune"
             PROVE  \E c \in archives' : /\ c.site = site' /\ c.whole /\ began' <= c.at
                                         /\ \A b \in archives' : b.site = c.site => b.at <= c.at
  BY DEF MadeInv, Newest
<1>0. site' = site /\ began' = began
  BY ToPrune
<1>1. CASE pc = "backup" /\ Write(TRUE)
  <2> DEFINE new == [site |-> site, at |-> now, whole |-> TRUE]
  <2>1. new.site = site /\ new.whole /\ new.at = now
    OBVIOUS
  <2>2. new \in archives' /\ \A b \in archives' : b = new \/ b \in archives
    BY <1>1 DEF Write
  <2>3. began <= now /\ now <= now
    BY DEF TypeOK
  <2>4. \A b \in archives : b.at <= now
    BY DEF ArchiveInv
  <2> HIDE DEF new
  <2>5. QED
    BY <1>0, <2>1, <2>2, <2>3, <2>4
<1>2. CASE pc = "prune" /\ archives' = archives
  BY <1>0, <1>2 DEF MadeInv, Newest
<1>3. CASE PruneBackups
  <2>1. PICK c \in archives : c.site = site /\ c.whole /\ began <= c.at /\ Newest(c)
    BY <1>3 DEF PruneBackups, MadeInv
  <2>2. c \in archives' /\ archives' \subseteq archives
    BY <1>3, <2>1, PruneSpares DEF PruneBackups
  <2>3. QED
    BY <1>0, <2>1, <2>2 DEF Newest
<1>4. QED
  BY <1>1, <1>2, <1>3, ToPrune

\* As long as a whole archive from an earlier second is there, a whole one stays,
\* for any number of failing backups, kills and retentions.
THEOREM WholeCopyStays == ASSUME NoneAlike PROVE Spec => WholeCopyKept
<1> DEFINE Kept ==
      \A n \in Names :
        (\E a \in Of(n, archives) : a.whole /\ a.at < now) => \E a \in Of(n, archives') : a.whole
<1>1. TypeOK /\ JobInv /\ ArchiveInv /\ MadeInv /\ [Next]_vars => [Kept]_vars
  <2> SUFFICES ASSUME TypeOK, JobInv, ArchiveInv, MadeInv, [Next]_vars, NEW n \in Names,
                      NEW a \in archives, a.site = n, a.whole, a.at < now
               PROVE  \E b \in archives' : b.site = n /\ b.whole
    BY DEF Of
  <2>1. CASE archives' = archives
    BY <2>1
  <2>2. CASE \E whole \in BOOLEAN : Write(whole)
    <3>1. a.at # now
      BY DEF TypeOK, Archive
    <3>2. a \in archives'
      BY <2>2, <3>1 DEF Write
    <3>3. QED
      BY <3>2
  <2>3. CASE PruneBackups
    <3>1. PICK o \in archives : archives' = archives \ {o} /\ o.site = site
      BY <2>3, PruneTakes
    <3>2. CASE a # o
      BY <3>1, <3>2
    <3>3. CASE a = o
      <4>1. PICK c \in archives : c.site = site /\ c.whole /\ Newest(c)
        BY <2>3 DEF PruneBackups, MadeInv
      <4>2. c \in archives'
        BY <2>3, <4>1, PruneSpares
      <4>3. QED
        BY <3>1, <3>3, <4>1, <4>2
    <3>4. QED
      BY <3>2, <3>3
  <2>4. QED
    BY <2>1, <2>2, <2>3, ArchiveSteps
<1>2. Init => MadeInv
  BY DEF Init, MadeInv
<1>3. TypeOK /\ JobInv /\ ArchiveInv /\ MadeInv /\ [Next]_vars => MadeInv'
  BY NextMade
<1>4. QED
  BY <1>1, <1>2, <1>3, InitTypes, NextTypes, InitArchives, NextArchives, PTL
     DEF Spec, WholeCopyKept

-----------------------------------------------------------------------------
(* A run of backup-cron.                                                   *)

HasCopy(n) == \E a \in archives : a.site = n /\ a.whole /\ a.at >= began

\* Each site of the run that is not still to come, being archived, or failed has
\* its archive.
CoverInv ==
    \A n \in due \ (todo \cup failed) : (pc = "backup" /\ n = site) \/ HasCopy(n)

\* An archive of this run outlives every step of the run.
LEMMA CopyStays ==
  ASSUME NoneAlike, TypeOK, JobInv, ArchiveInv, MadeInv, [Next]_vars,
         began' = began, NEW n, HasCopy(n), pc = "backup" => n # site
  PROVE  HasCopy(n)'
<1>1. PICK a \in archives : a.site = n /\ a.whole /\ a.at >= began
  BY DEF HasCopy
<1>2. SUFFICES \E b \in archives' : b.site = n /\ b.whole /\ b.at >= began
  BY DEF HasCopy
<1>3. CASE archives' = archives
  BY <1>1, <1>3
<1>4. CASE pc = "backup" /\ \E whole \in BOOLEAN : Write(whole)
  <2>1. a \in archives'
    BY <1>1, <1>4 DEF Write
  <2>2. QED
    BY <1>1, <2>1
<1>5. CASE PruneBackups
  <2>1. PICK o \in archives : archives' = archives \ {o} /\ o.site = site
    BY <1>5, PruneTakes
  <2>2. CASE a # o
    BY <1>1, <2>1, <2>2
  <2>3. CASE a = o
    <3>1. PICK c \in archives : c.site = site /\ c.whole /\ began <= c.at /\ Newest(c)
      BY <1>5 DEF PruneBackups, MadeInv
    <3>2. c \in archives' /\ c.at >= began
      BY <1>5, <3>1, PruneSpares DEF TypeOK, Archive
    <3>3. QED
      BY <1>1, <2>1, <2>3, <3>1, <3>2
  <2>4. QED
    BY <2>2, <2>3
<1>6. QED
  BY <1>3, <1>4, <1>5, ArchiveSteps

LEMMA NextCover ==
  ASSUME NoneAlike, TypeOK, JobInv, ArchiveInv, MadeInv, CoverInv, [Next]_vars
  PROVE  CoverInv'
<1> SUFFICES ASSUME NEW n \in due' \ (todo' \cup failed')
             PROVE  (pc' = "backup" /\ n = site') \/ HasCopy(n)'
  BY DEF CoverInv
<1>1. ASSUME NEW m \in Names,
             Create(m) \/ Schedule(m) \/ Unschedule(m) \/ DeleteSchedule(m) \/ StartBackup(m)
      PROVE  FALSE
  <2>1. pc = "idle" /\ due' = due
    BY <1>1 DEF Create, Schedule, Unschedule, DeleteSchedule, StartBackup, Begin, command
  <2>2. QED
    BY <2>1 DEF JobInv
<1>2. ASSUME End PROVE FALSE
  BY <1>2 DEF End
<1>3. CASE StartCron
  BY <1>3 DEF StartCron
<1>4. CASE NextSite
  <2>1. /\ pc = "cron" /\ pc' = "backup" /\ began' = began
        /\ n \in due /\ n \notin failed
        /\ n = site' \/ n \notin todo
    BY <1>4 DEF NextSite
  <2>2. CASE n = site'
    BY <2>1, <2>2
  <2>3. CASE n # site'
    <3>1. HasCopy(n)
      BY <2>1, <2>3 DEF CoverInv
    <3>2. QED
      BY <2>1, <3>1, CopyStays
  <2>4. QED
    BY <2>2, <2>3
<1>5. CASE Backup /\ InCron
  <2>1. /\ pc = "backup" /\ Write(TRUE) /\ began' = began
        /\ n \in due /\ n \notin todo /\ n \notin failed
    BY <1>5 DEF Backup, command
  <2>2. CASE n = site
    <3> DEFINE new == [site |-> site, at |-> now, whole |-> TRUE]
    <3>1. new \in archives' /\ new.site = n /\ new.whole /\ new.at >= began'
      BY <2>1, <2>2 DEF Write, TypeOK
    <3>2. QED
      BY <3>1 DEF HasCopy
  <2>3. CASE n # site
    <3>1. HasCopy(n)
      BY <2>1, <2>3 DEF CoverInv
    <3>2. QED
      BY <2>1, <2>3, <3>1, CopyStays
  <2>4. QED
    BY <2>2, <2>3
<1>6. CASE BackupFails /\ InCron
  <2>1. /\ pc = "backup" /\ began' = began
        /\ n \in due /\ n \notin todo /\ n \notin failed /\ n # site
    BY <1>6 DEF BackupFails, FailureNoted
  <2>2. HasCopy(n)
    BY <2>1 DEF CoverInv
  <2>3. QED
    BY <2>1, <2>2, CopyStays
<1>7. CASE PruneBackups \/ PruneFails \/ PruneDone
  <2>1. pc = "prune" /\ began' = began /\ n \in due /\ n \notin todo /\ n \notin failed
    BY <1>7 DEF PruneBackups, PruneFails, PruneDone, command
  <2>2. HasCopy(n)
    BY <2>1 DEF CoverInv
  <2>3. QED
    BY <2>1, <2>2, CopyStays
<1>8. CASE Tick \/ UNCHANGED vars
  <2>1. UNCHANGED <<archives, pc, site, due, todo, failed, began>>
    BY <1>8 DEF Tick, vars, command
  <2>2. (pc = "backup" /\ n = site) \/ HasCopy(n)
    BY <2>1 DEF CoverInv
  <2>3. HasCopy(n)' <=> HasCopy(n)
    BY <2>1 DEF HasCopy
  <2>4. QED
    BY <2>1, <2>2, <2>3
<1>9. CASE ensureGlobalBackupCron \/ CronNotWritten \/ DropCron \/ Delete \/ DeleteFails
  BY <1>2, <1>9, Zenon DEF ensureGlobalBackupCron, CronNotWritten, DropCron, Delete, DeleteFails
<1>10. CASE CronDone \/ Kill
  BY <1>2, <1>10, Zenon DEF CronDone, Kill
<1>11. CASE (Backup \/ BackupFails) /\ ~InCron
  BY <1>2, <1>11, Zenon DEF Backup, BackupFails
<1>12. QED
  BY <1>1, <1>3, <1>4, <1>5, <1>6, <1>7, <1>8, <1>9, <1>10, <1>11 DEF Next

\* At the end of a run of backup-cron each site that was due has a whole archive
\* of this run, which its pruning has spared, unless its own backup failed.
THEOREM CronCovers == ASSUME NoneAlike PROVE Spec => []CronCoversAll
<1>1. Init => MadeInv /\ CoverInv
  BY DEF Init, MadeInv, CoverInv
<1>2. TypeOK /\ JobInv /\ ArchiveInv /\ MadeInv /\ [Next]_vars => MadeInv'
  BY NextMade
<1>3. TypeOK /\ JobInv /\ ArchiveInv /\ MadeInv /\ CoverInv /\ [Next]_vars => CoverInv'
  BY NextCover
<1>4. CoverInv => CronCoversAll
  BY DEF CoverInv, CronCoversAll, HasCopy, Of
<1>5. QED
  BY <1>1, <1>2, <1>3, <1>4, InitTypes, NextTypes, InitArchives, NextArchives, PTL DEF Spec

=============================================================================
