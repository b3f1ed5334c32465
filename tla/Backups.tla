------------------------------ MODULE Backups ------------------------------
(***************************************************************************)
(* Backups (internal/site/backup.go, internal/app/backup.go): archives of  *)
(* sites by hand and by the nightly backup-cron, their retention, and the  *)
(* one cron file that runs backup-cron for all scheduled sites.  Commands  *)
(* hold the state lock from start to end, so that one runs at a time; any  *)
(* step may fail, and any command may be killed.  A domain is the number   *)
(* of its place when archives are sorted by name, and Extends[n] are the   *)
(* domains that go on with a hyphen where n ends: foo.co-op.com is one of  *)
(* foo.co.  (A continuation that begins with a digit would mix with the    *)
(* time stamps of n and is left out.)                                      *)
(***************************************************************************)
EXTENDS Integers, FiniteSets

CONSTANTS
    Names,      \* domains
    Extends,    \* Extends[n]: the domains whose archives look like n's
    Retains,    \* values of --retain
    MaxTime,    \* bound on the seconds at which something is archived
    NoSite

ASSUME NamesAssumption == Names \subseteq Nat
ASSUME ExtendsAssumption == \A n \in Names : Extends[n] \subseteq Names \ {n}
ASSUME RetainsAssumption == Retains \subseteq Nat \ {0} /\ MaxTime \in Nat

VARIABLES
    disk,       \* the saved registry: the schedule of each site
    cronFile,   \* whether /etc/cron.d/gow-backups exists
    archives,   \* what is in BackupDir
    now,        \* the clock
    pc, site,   \* the next step of the running command, and its site
    due, todo,  \* backup-cron: the sites of this run, and those still to come
    failed,     \* history: those whose backup failed
    began,      \* history: when backup-cron started
    trusted     \* history: no schedule or delete was cut off since the last schedule

command == <<site, due, todo, failed, began>>
vars == <<disk, cronFile, archives, now, pc, command, trusted>>

Site == [schedule : {"", "daily", "weekly"}, retain : Retains \cup {0}]
ASSUME NoSiteAssumption == NoSite \notin Site \cup Names

Unscheduled == [schedule |-> "", retain |-> 0]
Archive == [site : Names, at : 0 .. MaxTime, whole : BOOLEAN]

Registered == {n \in Names : disk[n] # NoSite}
Scheduled == {n \in Registered : disk[n].schedule # ""}

Init ==
    /\ disk = [n \in Names |-> NoSite]
    /\ cronFile = FALSE /\ archives = {} /\ now = 0
    /\ pc = "idle" /\ site = NoSite
    /\ due = {} /\ todo = {} /\ failed = {} /\ began = 0
    /\ trusted = TRUE

Tick == now < MaxTime /\ now' = now + 1 /\ UNCHANGED <<disk, cronFile, archives, pc, command, trusted>>

\* A command for site n starts, finds the site in the registry, and goes on at step.
Begin(n, step) ==
    /\ pc = "idle" /\ n \in Registered
    /\ pc' = step /\ site' = n
    /\ UNCHANGED <<due, todo, failed, began>>

End ==
    /\ pc' = "idle" /\ site' = NoSite
    /\ due' = {} /\ todo' = {} /\ failed' = {} /\ began' = 0

\* create (--force), restore and clone save a record without a schedule, and may
\* fail with the old one deleted.  They leave the cron file alone.
Create(n) ==
    /\ pc = "idle"
    /\ \E s \in {Unscheduled, NoSite} : disk' = [disk EXCEPT ![n] = s]
    /\ UNCHANGED <<cronFile, archives, now, pc, command, trusted>>

-----------------------------------------------------------------------------
(* backup-schedule and backup-unschedule.  When Save fails nothing happened. *)

\* Mutant: any number is accepted for --retain.
ScheduleUnchecked(n) ==
    /\ Begin(n, "writeCron")
    /\ \E s \in Site : s.schedule # "" /\ disk' = [disk EXCEPT ![n] = s]
    /\ UNCHANGED <<cronFile, archives, now, trusted>>

Schedule(n) ==
    /\ Begin(n, "writeCron")
    /\ \E s \in Site : s.schedule # "" /\ s.retain # 0 /\ disk' = [disk EXCEPT ![n] = s]
    /\ UNCHANGED <<cronFile, archives, now, trusted>>

ensureGlobalBackupCron ==
    /\ pc = "writeCron" /\ End
    /\ cronFile' = TRUE /\ trusted' = TRUE
    /\ UNCHANGED <<disk, archives, now>>

\* A file that is there already may be cut short by the attempt.
CronNotWritten ==
    /\ pc = "writeCron" /\ End
    /\ cronFile' \in {cronFile, FALSE} /\ trusted' = FALSE
    /\ UNCHANGED <<disk, archives, now>>

\* The file is removed unless a site needs it; an error is ignored.
\* Mutant: it is removed in any case.
removeWithoutLooking(others) == cronFile' \in {cronFile, FALSE}

removeGlobalBackupCron(others) ==
    cronFile' \in IF others = {} THEN {cronFile, FALSE} ELSE {cronFile}

Unschedule(n) ==
    /\ Begin(n, "dropCron")
    /\ n \in Scheduled
    /\ disk' = [disk EXCEPT ![n] = Unscheduled]
    /\ UNCHANGED <<cronFile, archives, now, trusted>>

DropCron ==
    /\ pc = "dropCron" /\ End
    /\ removeGlobalBackupCron(Scheduled)
    /\ UNCHANGED <<disk, archives, now, trusted>>

\* RunDelete looks after the cron file first; Delete saves last, or fails.
DeleteSchedule(n) ==
    /\ Begin(n, "delete")
    /\ IF n \in Scheduled THEN removeGlobalBackupCron(Scheduled \ {n}) ELSE UNCHANGED cronFile
    /\ UNCHANGED <<disk, archives, now, trusted>>

Delete ==
    /\ pc = "delete" /\ End
    /\ disk' = [disk EXCEPT ![site] = NoSite]
    /\ UNCHANGED <<cronFile, archives, now, trusted>>

DeleteFails ==
    /\ pc = "delete" /\ End
    /\ trusted' = FALSE
    /\ UNCHANGED <<disk, cronFile, archives, now>>

-----------------------------------------------------------------------------
(* backup and backup-cron *)

InCron == due # {}

StartBackup(n) == Begin(n, "backup") /\ UNCHANGED <<disk, cronFile, archives, now, trusted>>

\* Weekly sites are due on Sundays.  The runs are a day apart.
StartCron ==
    /\ pc = "idle" /\ cronFile
    /\ now < MaxTime /\ now' = now + 1
    /\ pc' = "cron"
    /\ \E days \in {{"daily"}, {"daily", "weekly"}} :
         due' = {n \in Registered : disk[n].schedule \in days}
    /\ todo' = due' /\ failed' = {} /\ began' = now'
    /\ UNCHANGED <<disk, cronFile, archives, site, trusted>>

NextSite ==
    /\ pc = "cron" /\ pc' = "backup"
    /\ \E n \in todo : site' = n /\ todo' = todo \ {n}
    /\ UNCHANGED <<disk, cronFile, archives, now, due, failed, began, trusted>>

CronDone ==
    /\ pc = "cron" /\ todo = {} /\ End
    /\ UNCHANGED <<disk, cronFile, archives, now, trusted>>

\* tar writes the archive of this second, over another one of the same second.
Write(whole) ==
    archives' = {a \in archives : ~(a.site = site /\ a.at = now)}
                  \cup {[site |-> site, at |-> now, whole |-> whole]}

Backup ==
    /\ pc = "backup" /\ Write(TRUE)
    /\ IF InCron THEN pc' = "prune" /\ UNCHANGED command ELSE End
    /\ UNCHANGED <<disk, cronFile, now, trusted>>

\* The dump or a copy fails before there is an archive, or tar fails, which may
\* leave one that is not whole.
NoArchive == UNCHANGED archives \/ Write(FALSE)

FailureNoted == failed' = failed \cup {site} /\ UNCHANGED <<site, due, todo, began>>

\* Mutants: the site is pruned all the same; the run ends with the first failure.
BackupFailsPruned ==
    /\ pc = "backup" /\ NoArchive
    /\ IF InCron THEN pc' = "prune" /\ FailureNoted ELSE End
    /\ UNCHANGED <<disk, cronFile, now, trusted>>

BackupFailsForAll ==
    /\ pc = "backup" /\ NoArchive
    /\ IF InCron
       THEN pc' = "cron" /\ todo' = {} /\ failed' = failed \cup {site} /\ UNCHANGED <<site, due, began>>
       ELSE End
    /\ UNCHANGED <<disk, cronFile, now, trusted>>

BackupFails ==
    /\ pc = "backup" /\ NoArchive
    /\ IF InCron THEN pc' = "cron" /\ FailureNoted ELSE End
    /\ UNCHANGED <<disk, cronFile, now, trusted>>

ListBackups(n) == {a \in archives : a.site \in {n} \cup Extends[n]}

\* The first of the sorted list.
Oldest(list) ==
    CHOOSE a \in list : \A b \in list : a.site < b.site \/ (a.site = b.site /\ a.at <= b.at)

\* Mutant: one archive too many goes.
SurplusByOne(n) == Cardinality(ListBackups(n)) >= disk[n].retain

Surplus(n) == Cardinality(ListBackups(n)) > disk[n].retain

PruneBackups ==
    /\ pc = "prune" /\ Surplus(site)
    /\ archives' = archives \ {Oldest(ListBackups(site))}
    /\ UNCHANGED <<disk, cronFile, now, pc, command, trusted>>

PruneFails ==
    /\ pc = "prune" /\ Surplus(site) /\ pc' = "cron"
    /\ UNCHANGED <<disk, cronFile, archives, now, command, trusted>>

PruneDone ==
    /\ pc = "prune" /\ ~Surplus(site) /\ pc' = "cron"
    /\ UNCHANGED <<disk, cronFile, archives, now, command, trusted>>

-----------------------------------------------------------------------------
\* The process is killed; a file it is writing is cut short.
Kill ==
    /\ pc # "idle" /\ End
    /\ UNCHANGED archives \/ (pc = "backup" /\ Write(FALSE))
    /\ cronFile' = cronFile \/ (pc = "writeCron" /\ cronFile' = FALSE)
    /\ trusted' = (trusted /\ pc \notin {"writeCron", "delete"})
    /\ UNCHANGED <<disk, now>>

Next ==
    \/ \E n \in Names :
         Create(n) \/ Schedule(n) \/ Unschedule(n) \/ DeleteSchedule(n) \/ StartBackup(n)
    \/ ensureGlobalBackupCron \/ CronNotWritten \/ DropCron
    \/ Delete \/ DeleteFails
    \/ StartCron \/ NextSite \/ CronDone
    \/ Backup \/ BackupFails \/ PruneBackups \/ PruneFails \/ PruneDone
    \/ Tick \/ Kill

Spec == Init /\ [][Next]_vars

-----------------------------------------------------------------------------
Steps == {"idle", "writeCron", "dropCron", "delete", "cron", "backup", "prune"}

\* Types; a site is never scheduled without a number of archives to keep.
TypeOK ==
    /\ disk \in [Names -> Site \cup {NoSite}]
    /\ \A n \in Scheduled : disk[n].retain \in Retains
    /\ cronFile \in BOOLEAN /\ trusted \in BOOLEAN
    /\ archives \subseteq Archive
    /\ now \in 0 .. MaxTime /\ began \in 0 .. now
    /\ pc \in Steps /\ site \in Names \cup {NoSite}
    /\ due \subseteq Names /\ todo \subseteq due /\ failed \subseteq Names

Of(n, s) == {a \in s : a.site = n}

\* Retention removes an archive of a site only while at least as many newer ones
\* as its schedule keeps are there (PruneBackups, ListBackups).
RetentionKept ==
    [][\A n \in Names : \A a \in Of(n, archives \ archives') :
         \/ \E b \in Of(n, archives') : b.at = a.at
         \/ n \in Scheduled
              /\ Cardinality({b \in Of(n, archives') : b.at > a.at}) >= disk[n].retain]_vars

\* As long as there is a whole archive of a site from an earlier second, a whole
\* one remains, however many backups fail half-way and count for the retention:
\* backup-cron prunes only after it has made one (RunBackupCron's continue).
WholeCopyKept ==
    [][\A n \in Names :
         (\E a \in Of(n, archives) : a.whole /\ a.at < now)
           => \E a \in Of(n, archives') : a.whole]_vars

\* When backup-cron comes to its end, each site that was due has a whole archive
\* of this run, or its own backup failed: no site suffers from another's failure.
CronCoversAll ==
    (pc = "cron" /\ todo = {}) =>
      \A n \in due \ failed : \E a \in Of(n, archives) : a.whole /\ a.at >= began

\* While no schedule or delete was cut off half-way, backup-cron runs whenever a
\* site is scheduled: the file they share goes with the last schedule only.
ScheduledIsRun == (pc = "idle" /\ trusted /\ Scheduled # {}) => cronFile

=============================================================================
