---------------------------- MODULE Stack_proofs ----------------------------
(***************************************************************************)
(* Proofs about Stack for any set of sites, any selections of components   *)
(* and any of the commands.                                                *)
(***************************************************************************)
EXTENDS Stack, TLAPS

-----------------------------------------------------------------------------
(* The inductive invariant.                                                *)

MigrateSteps == {"stop", "apt", "repo", "reinstall", "import", "rmdump"}

\* The lock is the site command's from its opening of the store to its end.
JobInv ==
    /\ job.at = "none" => job = NoJob
    /\ job.at # "none" => job.site \in Names /\ job.type \in Types
    /\ (lock = "site") = (job.at \in {"save", "db", "close"})
    /\ job.at = "db" /\ job.kind = "create" => reg[job.site] = "wp"
    /\ job.at = "db" /\ job.kind = "delete" => job.site \notin made
    /\ made \subseteq {n \in Names : reg[n] = "wp"}

CommandInv ==
    /\ pc \in {"idle", "open", "next", "rm", "ok", "dump"} \cup MigrateSteps
    /\ op \in Ops \cup {"none"}
    /\ pc = "open" => op = "purge"
    /\ pc = "rm" => op = "purge"
    /\ pc = "next" => op # "migrate"
    /\ pc = "ok" /\ op = "purge" => todo = {}
    /\ pc \in MigrateSteps \cup {"dump"} => op = "migrate"

\* A purge has the lock, and nobody depends on what it was given.
PurgeInv ==
    op = "purge" /\ pc \in {"next", "rm", "ok"} => lock = "purge" /\ ~Blocked

\* A package on record, or a binary that is there.
Present(c) == c \in (IF c \in Binaries THEN files ELSE pkgs)

\* What a purge found installed is there until its turn, and gone afterwards.
GoneInv ==
    op = "purge" =>
        \A c \in (chosen \cap had) \ {"lsphp"} :
            /\ c \notin todo => c \notin pkgs \cup files
            /\ c \in todo => Present(c) \/ (pc = "rm" /\ First(c))
            /\ c \in todo /\ pc = "rm" /\ First(c) => c \notin pkgs

\* Which copies of the databases a migration has at each of its steps.
MigrateInv ==
    /\ pc \in MigrateSteps => dump \subseteq Names
    /\ pc \in {"apt", "repo", "reinstall"} => ~server
    /\ pc \in {"stop", "apt"} => made \subseteq dump \cup lost
    /\ pc = "rmdump" => made \subseteq db \cup lost

IInv == TypeOK /\ JobInv /\ CommandInv /\ PurgeInv /\ GoneInv /\ MigrateInv /\ DataKept

-----------------------------------------------------------------------------
(* Every step preserves each part of it.                                   *)

LEMMA TypeStep == ASSUME IInv, [Next]_vars PROVE TypeOK'
<1> USE DEF IInv, TypeOK, NoJob, Components, Binaries
<1>1. ASSUME NEW n \in Names, NEW t \in Types, StartCreate(n, t) PROVE TypeOK'
  BY <1>1, NamesAssumption, TypesAssumption, OpsAssumption, SelectionsAssumption
     DEF StartCreate, sites, host, command
<1>2. ASSUME NEW n \in Names, StartDelete(n) PROVE TypeOK'
  BY <1>2, NamesAssumption, TypesAssumption, OpsAssumption, SelectionsAssumption
     DEF StartDelete, sites, host, command, JobInv
<1>3. CASE OpenStore
  BY <1>3 DEF OpenStore, sites, host, command
<1>4. CASE SaveSite
  BY <1>4 DEF SaveSite, sites, host, command, JobInv
<1>5. CASE CreateSiteDB
  BY <1>5 DEF CreateSiteDB, sites, host, command, JobInv
<1>6. CASE CreateSiteDBFails
  BY <1>6 DEF CreateSiteDBFails, sites, host, command
<1>7. CASE dropSiteDB
  BY <1>7 DEF dropSiteDB, sites, host, command, JobInv
<1>8. CASE EndSite
  BY <1>8 DEF EndSite, sites, host, command
<1>9. ASSUME NEW o \in Ops, NEW sel \in Selections, Start(o, sel) PROVE TypeOK'
  BY <1>9, NamesAssumption, TypesAssumption, OpsAssumption, SelectionsAssumption
     DEF Start, sites, host, command
<1>10. CASE RunStackPurge
  BY <1>10 DEF RunStackPurge, Goto, sites, host, command
<1>11. CASE CommandDone
  BY <1>11 DEF CommandDone, Goto, sites, host, command
<1>12. CASE End
  BY <1>12 DEF End, Return, sites, host, command
<1>13. ASSUME NEW c \in todo, First(c), Skip(c) PROVE TypeOK'
  BY <1>13 DEF Skip, Proceed, Goto, sites, host, command, CommandInv
<1>14. ASSUME NEW c \in todo, First(c), Install(c) PROVE TypeOK'
  BY <1>14
     DEF Install, Turn, Installed, Proceed, Goto, sites, host, command, CommandInv
<1>15. ASSUME NEW c \in todo, First(c), Remove(c) PROVE TypeOK'
  BY <1>15
     DEF Remove, Turn, Uninstalled, Proceed, Goto, sites, host, command, CommandInv
<1>16. ASSUME NEW c \in todo, First(c), Purge(c) PROVE TypeOK'
  BY <1>16 DEF Purge, Turn, Uninstalled, sites, host, command, CommandInv
<1>17. ASSUME NEW c \in todo, First(c), RemoveDirs(c) PROVE TypeOK'
  BY <1>17 DEF RemoveDirs, Emptied, Proceed, Goto, sites, host, command, CommandInv
<1>18. ASSUME NEW c \in todo, First(c), Serve(c) PROVE TypeOK'
  BY <1>18 DEF Serve, Serving, Turn, Proceed, Goto, sites, host, command, CommandInv
<1>19. ASSUME NEW c \in todo, First(c), Upgrade(c) PROVE TypeOK'
  BY <1>19 DEF Upgrade, Turn, Proceed, Goto, sites, host, command, CommandInv
<1>20. ASSUME NEW c \in todo, First(c), CallFails(c) PROVE TypeOK'
  <2>1. /\ {pkgs', files'} \subseteq SUBSET Components
        /\ pkgs' \cap Binaries = {}
        /\ server' \in BOOLEAN
        /\ db' \subseteq Names /\ dump' = dump
    <3>1. CASE Installed(c)
      BY <1>20, <3>1 DEF Installed
    <3>2. CASE Uninstalled(c) /\ UNCHANGED dump
      BY <1>20, <3>2 DEF Uninstalled
    <3>3. CASE server' = FALSE /\ UNCHANGED <<pkgs, files, db, dump>>
      <4>1. server' \in BOOLEAN
        BY <3>3
      <4>2. QED
        BY <4>1, <3>3
    <3>4. CASE Emptied(c) /\ UNCHANGED <<pkgs, server, db, dump>>
      BY <1>20, <3>4 DEF Emptied
    <3>5. QED
      BY <1>20, <3>1, <3>2, <3>3, <3>4 DEF CallFails
  <2>2. QED
    BY <1>20, <2>1 DEF CallFails, Return, sites, host, command
<1>21. CASE Dump
  BY <1>21
     DEF Dump, Goto, OnlyInDump, sites, host, command, CommandInv, MigrateInv,
         MigrateSteps
<1>22. CASE DumpFails
  BY <1>22
     DEF DumpFails, Return, OnlyInDump, sites, host, command, CommandInv,
         MigrateInv, MigrateSteps
<1>23. CASE StopServer
  BY <1>23
     DEF StopServer, Goto, sites, host, command, CommandInv, MigrateInv,
         MigrateSteps
<1>24. CASE PurgeOldVersion
  BY <1>24
     DEF PurgeOldVersion, Goto, OldVersionGone, sites, host, command, CommandInv,
         MigrateInv, MigrateSteps
<1>25. CASE AddRepo
  BY <1>25
     DEF AddRepo, Goto, sites, host, command, CommandInv, MigrateInv, MigrateSteps
<1>26. CASE InstallTarget
  BY <1>26
     DEF InstallTarget, Goto, Installed, sites, host, command, CommandInv,
         MigrateInv, MigrateSteps
<1>27. CASE ImportDump
  BY <1>27
     DEF ImportDump, Goto, sites, host, command, CommandInv, MigrateInv,
         MigrateSteps
<1>28. CASE RemoveDump
  <2>1. /\ dump' = NoDump
        /\ UNCHANGED <<sites, pkgs, files, server, db, op, chosen, todo, had, made, lost>>
    BY <1>28 DEF RemoveDump
  <2>2. pc = "rmdump" /\ pc' = "ok"
    BY <1>28 DEF RemoveDump, Goto
  <2>3. QED
    BY <2>1, <2>2, NamesAssumption DEF sites
<1>29. CASE MigrateFails
  <2> USE <1>29 DEF sites, host, command, CommandInv, MigrateInv, MigrateSteps
  <2>1. /\ {pkgs', files'} \subseteq SUBSET Components
        /\ pkgs' \cap Binaries = {}
        /\ server' \in BOOLEAN
        /\ db' \subseteq Names
    <3>1. CASE pc = "stop"
      <4>1. server' = FALSE
        BY <3>1 DEF MigrateFails
      <4>2. UNCHANGED <<pkgs, files, db>>
        BY <3>1 DEF MigrateFails
      <4>3. server' \in BOOLEAN
        BY <4>1
      <4>4. QED
        BY <4>2, <4>3
    <3>2. CASE pc = "apt"
      BY <3>2 DEF MigrateFails, OldVersionGone
    <3>3. CASE pc = "reinstall"
      BY <3>3 DEF MigrateFails, Installed
    <3>4. CASE pc = "import"
      BY <3>4 DEF MigrateFails
    <3>5. QED
      BY <3>1, <3>2, <3>3, <3>4 DEF MigrateFails
  <2>2. QED
    BY <2>1 DEF MigrateFails, Return
<1>30. CASE UNCHANGED vars
  BY <1>30 DEF vars, sites, host, command
<1>31. QED
  BY <1>1, <1>2, <1>3, <1>4, <1>5, <1>6, <1>7, <1>8, <1>9, <1>10, <1>11, <1>12,
     <1>13, <1>14, <1>15, <1>16, <1>17, <1>18, <1>19, <1>20, <1>21, <1>22, <1>23,
     <1>24, <1>25, <1>26, <1>27, <1>28, <1>29, <1>30
     DEF Next, SiteCommand, StackOp, Migrate

\* A stack command leaves the registry, the site command and its databases alone, and
\* has of the lock only the purge's part.
CommandFrame ==
    /\ UNCHANGED <<reg, job, made>>
    /\ \/ lock' = lock
       \/ {lock, lock'} = {"free", "purge"}

LEMMA CommandStep ==
  ASSUME IInv, \/ (\E o \in Ops, sel \in Selections : Start(o, sel))
               \/ RunStackPurge \/ CommandDone \/ End \/ StackOp \/ Migrate
  PROVE  CommandFrame
<1> USE DEF CommandFrame
<1>1. ASSUME NEW o \in Ops, NEW sel \in Selections, Start(o, sel) PROVE CommandFrame
  BY <1>1 DEF Start, sites
<1>2. CASE RunStackPurge
  BY <1>2 DEF RunStackPurge, sites
<1>3. CASE CommandDone
  BY <1>3 DEF CommandDone, sites
<1>4. CASE End
  BY <1>4 DEF End, Return, sites
<1>5. ASSUME NEW c \in todo, First(c), Skip(c) PROVE CommandFrame
  BY <1>5 DEF Skip, sites
<1>6. ASSUME NEW c \in todo, First(c), Install(c) PROVE CommandFrame
  BY <1>6 DEF Install, sites
<1>7. ASSUME NEW c \in todo, First(c), Remove(c) PROVE CommandFrame
  BY <1>7 DEF Remove, sites
<1>8. ASSUME NEW c \in todo, First(c), Purge(c) PROVE CommandFrame
  BY <1>8 DEF Purge, sites
<1>9. ASSUME NEW c \in todo, First(c), RemoveDirs(c) PROVE CommandFrame
  BY <1>9 DEF RemoveDirs, sites
<1>10. ASSUME NEW c \in todo, First(c), Serve(c) PROVE CommandFrame
  BY <1>10 DEF Serve, sites
<1>11. ASSUME NEW c \in todo, First(c), Upgrade(c) PROVE CommandFrame
  BY <1>11 DEF Upgrade, sites
<1>12. ASSUME NEW c \in todo, First(c), CallFails(c) PROVE CommandFrame
  BY <1>12 DEF CallFails, Return, sites
<1>13. CASE Dump
  BY <1>13 DEF Dump, sites
<1>14. CASE DumpFails
  BY <1>14 DEF DumpFails, Return, sites
<1>15. CASE StopServer
  BY <1>15 DEF StopServer, sites
<1>16. CASE PurgeOldVersion
  BY <1>16 DEF PurgeOldVersion, sites
<1>17. CASE AddRepo
  BY <1>17 DEF AddRepo, sites
<1>18. CASE InstallTarget
  BY <1>18 DEF InstallTarget, sites
<1>19. CASE ImportDump
  BY <1>19 DEF ImportDump, sites
<1>20. CASE RemoveDump
  BY <1>20 DEF RemoveDump, sites
<1>21. CASE MigrateFails
  BY <1>21 DEF MigrateFails, Return, sites
<1>22. QED
  BY <1>1, <1>2, <1>3, <1>4, <1>5, <1>6, <1>7, <1>8, <1>9, <1>10, <1>11, <1>12,
     <1>13, <1>14, <1>15, <1>16, <1>17, <1>18, <1>19, <1>20, <1>21
     DEF StackOp, Migrate

LEMMA JobStep == ASSUME IInv, [Next]_vars PROVE JobInv'
<1> USE DEF IInv, JobInv, NoJob
<1>1. ASSUME NEW n \in Names, NEW t \in Types, StartCreate(n, t) PROVE JobInv'
  BY <1>1 DEF StartCreate, TypeOK
<1>2. ASSUME NEW n \in Names, StartDelete(n) PROVE JobInv'
  BY <1>2 DEF StartDelete, TypeOK
<1>3. CASE OpenStore
  BY <1>3 DEF OpenStore, TypeOK
<1>4. CASE SaveSite
  BY <1>4 DEF SaveSite, TypeOK
<1>5. CASE CreateSiteDB
  BY <1>5 DEF CreateSiteDB, TypeOK
<1>6. CASE CreateSiteDBFails
  BY <1>6 DEF CreateSiteDBFails, TypeOK
<1>7. CASE dropSiteDB
  BY <1>7 DEF dropSiteDB, TypeOK
<1>8. CASE EndSite
  BY <1>8 DEF EndSite, TypeOK
<1>9. CASE CommandFrame
  BY <1>9 DEF CommandFrame, TypeOK
<1>10. CASE UNCHANGED vars
  BY <1>10 DEF vars, sites
<1>11. QED
  BY <1>1, <1>2, <1>3, <1>4, <1>5, <1>6, <1>7, <1>8, <1>9, <1>10, CommandStep
     DEF Next, SiteCommand

\* A site command leaves the stack command alone.
LEMMA SiteFrame == ASSUME SiteCommand PROVE UNCHANGED <<command, pkgs, files, server, dump>>
  BY DEF SiteCommand, StartCreate, StartDelete, OpenStore, SaveSite, CreateSiteDB,
         CreateSiteDBFails, dropSiteDB, EndSite, host, command

LEMMA CommandInvStep == ASSUME IInv, [Next]_vars PROVE CommandInv'
<1> USE DEF IInv, CommandInv, MigrateSteps
<1>1. CASE SiteCommand
  BY <1>1, SiteFrame DEF command
<1>2. ASSUME NEW o \in Ops, NEW sel \in Selections, Start(o, sel) PROVE CommandInv'
  BY <1>2, OpsAssumption DEF Start, sites, host, command
<1>3. CASE RunStackPurge
  BY <1>3 DEF RunStackPurge, Goto, sites, host, command
<1>4. CASE CommandDone
  BY <1>4 DEF CommandDone, Goto, sites, host, command
<1>5. CASE End
  BY <1>5 DEF End, Return, sites, host, command
<1>6. ASSUME NEW c \in todo, First(c), Skip(c) PROVE CommandInv'
  BY <1>6 DEF Skip, Proceed, Goto, sites, host, command
<1>7. ASSUME NEW c \in todo, First(c), Install(c) PROVE CommandInv'
  BY <1>7 DEF Install, Turn, Installed, Proceed, Goto, sites, host, command
<1>8. ASSUME NEW c \in todo, First(c), Remove(c) PROVE CommandInv'
  BY <1>8 DEF Remove, Turn, Uninstalled, Proceed, Goto, sites, host, command
<1>9. ASSUME NEW c \in todo, First(c), Purge(c) PROVE CommandInv'
  BY <1>9 DEF Purge, Turn, Uninstalled, sites, host, command
<1>10. ASSUME NEW c \in todo, First(c), RemoveDirs(c) PROVE CommandInv'
  BY <1>10 DEF RemoveDirs, Emptied, Proceed, Goto, sites, host, command
<1>11. ASSUME NEW c \in todo, First(c), Serve(c) PROVE CommandInv'
  BY <1>11 DEF Serve, Serving, Turn, Proceed, Goto, sites, host, command
<1>12. ASSUME NEW c \in todo, First(c), Upgrade(c) PROVE CommandInv'
  BY <1>12 DEF Upgrade, Turn, Proceed, Goto, sites, host, command
<1>13. ASSUME NEW c \in todo, First(c), CallFails(c) PROVE CommandInv'
  BY <1>13
     DEF CallFails, Return, Turn, Installed, Uninstalled, Serving, Emptied, sites,
         host, command
<1>14. CASE Dump
  BY <1>14 DEF Dump, Goto, OnlyInDump, sites, host, command
<1>15. CASE DumpFails
  BY <1>15 DEF DumpFails, Return, OnlyInDump, sites, host, command
<1>16. CASE StopServer
  BY <1>16 DEF StopServer, Goto, sites, host, command
<1>17. CASE PurgeOldVersion
  BY <1>17 DEF PurgeOldVersion, Goto, OldVersionGone, sites, host, command
<1>18. CASE AddRepo
  BY <1>18 DEF AddRepo, Goto, sites, host, command
<1>19. CASE InstallTarget
  BY <1>19 DEF InstallTarget, Goto, Installed, sites, host, command
<1>20. CASE ImportDump
  BY <1>20 DEF ImportDump, Goto, sites, host, command
<1>21. CASE RemoveDump
  BY <1>21 DEF RemoveDump, Goto, sites, host, command
<1>22. CASE MigrateFails
  BY <1>22 DEF MigrateFails, Return, OldVersionGone, Installed, sites, host, command
<1>23. CASE UNCHANGED vars
  BY <1>23 DEF vars, sites, host, command
<1>24. QED
  BY <1>1, <1>2, <1>3, <1>4, <1>5, <1>6, <1>7, <1>8, <1>9, <1>10, <1>11, <1>12,
     <1>13, <1>14, <1>15, <1>16, <1>17, <1>18, <1>19, <1>20, <1>21, <1>22, <1>23
     DEF Next, StackOp, Migrate

LEMMA RegistryOrder ==
  /\ \A c \in Components : Registry[c] \in Int
  /\ \A c, d \in Components : c # d => Registry[c] # Registry[d]
  /\ Registry["ols"] < Registry["lsphp"]
  BY DEF Registry, Components

LEMMA Blocks ==
  ASSUME UNCHANGED <<reg, chosen>>
  PROVE  Blocked' = Blocked
  BY DEF Blocked, componentDependents

LEMMA PurgeStep == ASSUME IInv, [Next]_vars PROVE PurgeInv'
<1> USE DEF IInv, PurgeInv, CommandInv, TypeOK
<1>1. CASE SiteCommand
  <2>1. SUFFICES ASSUME op = "purge", pc \in {"next", "rm", "ok"}
                 PROVE  lock' = "purge" /\ ~Blocked'
    BY <1>1, SiteFrame DEF command
  <2>2. UNCHANGED <<lock, reg, chosen>>
    BY <1>1, <2>1, SiteFrame
       DEF command, SiteCommand, StartCreate, StartDelete, OpenStore, SaveSite,
       CreateSiteDB, CreateSiteDBFails, dropSiteDB, EndSite, JobInv, sites, NoJob
  <2>3. QED
    BY <2>1, <2>2, Blocks
<1>2. ASSUME NEW o \in Ops, NEW sel \in Selections, Start(o, sel) PROVE PurgeInv'
  BY <1>2, Blocks DEF Start, sites, host, command
<1>3. CASE RunStackPurge
  BY <1>3, Blocks, Blocks
     DEF RunStackPurge, Goto, sites, host, command, PurgeInv, CommandInv
<1>4. CASE CommandDone
  BY <1>4, Blocks DEF CommandDone, Goto, sites, host, command
<1>5. CASE End
  BY <1>5, Blocks DEF End, Return, sites, host, command
<1>6. ASSUME NEW c \in todo, First(c), Skip(c) PROVE PurgeInv'
  BY <1>6, Blocks DEF Skip, Proceed, Goto, sites, host, command
<1>7. ASSUME NEW c \in todo, First(c), Install(c) PROVE PurgeInv'
  BY <1>7, Blocks DEF Install, Turn, Installed, Proceed, Goto, sites, host, command
<1>8. ASSUME NEW c \in todo, First(c), Remove(c) PROVE PurgeInv'
  BY <1>8, Blocks DEF Remove, Turn, Uninstalled, Proceed, Goto, sites, host, command
<1>9. ASSUME NEW c \in todo, First(c), Purge(c) PROVE PurgeInv'
  BY <1>9, Blocks DEF Purge, Turn, Uninstalled, sites, host, command
<1>10. ASSUME NEW c \in todo, First(c), RemoveDirs(c) PROVE PurgeInv'
  BY <1>10, Blocks DEF RemoveDirs, Emptied, Proceed, Goto, sites, host, command
<1>11. ASSUME NEW c \in todo, First(c), Serve(c) PROVE PurgeInv'
  BY <1>11, Blocks DEF Serve, Serving, Turn, Proceed, Goto, sites, host, command
<1>12. ASSUME NEW c \in todo, First(c), Upgrade(c) PROVE PurgeInv'
  BY <1>12, Blocks DEF Upgrade, Turn, Proceed, Goto, sites, host, command
<1>13. ASSUME NEW c \in todo, First(c), CallFails(c) PROVE PurgeInv'
  BY <1>13, Blocks
     DEF CallFails, Return, Turn, Installed, Uninstalled, Serving, Emptied, sites,
         host, command
<1>14. CASE Dump
  BY <1>14, Blocks DEF Dump, Goto, OnlyInDump, sites, host, command
<1>15. CASE DumpFails
  BY <1>15, Blocks DEF DumpFails, Return, OnlyInDump, sites, host, command
<1>16. CASE StopServer
  BY <1>16, Blocks DEF StopServer, Goto, sites, host, command
<1>17. CASE PurgeOldVersion
  BY <1>17, Blocks DEF PurgeOldVersion, Goto, OldVersionGone, sites, host, command
<1>18. CASE AddRepo
  BY <1>18, Blocks DEF AddRepo, Goto, sites, host, command
<1>19. CASE InstallTarget
  BY <1>19, Blocks DEF InstallTarget, Goto, Installed, sites, host, command
<1>20. CASE ImportDump
  BY <1>20, Blocks DEF ImportDump, Goto, sites, host, command
<1>21. CASE RemoveDump
  BY <1>21, Blocks DEF RemoveDump, Goto, sites, host, command
<1>22. CASE MigrateFails
  BY <1>22, Blocks
     DEF MigrateFails, Return, OldVersionGone, Installed, sites, host, command
<1>23. CASE UNCHANGED vars
  BY <1>23, Blocks DEF vars, sites, host, command
<1>24. QED
  BY <1>1, <1>2, <1>3, <1>4, <1>5, <1>6, <1>7, <1>8, <1>9, <1>10, <1>11, <1>12,
     <1>13, <1>14, <1>15, <1>16, <1>17, <1>18, <1>19, <1>20, <1>21, <1>22, <1>23
     DEF Next, StackOp, Migrate

LEMMA MigrateStep == ASSUME IInv, [Next]_vars PROVE MigrateInv'
<1> USE DEF IInv, MigrateInv, MigrateSteps, TypeOK, CommandInv, DataKept
<1>1. ASSUME NEW n \in Names, NEW t \in Types, StartCreate(n, t) PROVE MigrateInv'
  BY <1>1 DEF StartCreate, sites, host, command, JobInv
<1>2. ASSUME NEW n \in Names, StartDelete(n) PROVE MigrateInv'
  BY <1>2 DEF StartDelete, sites, host, command, JobInv
<1>3. CASE OpenStore
  BY <1>3 DEF OpenStore, sites, host, command, JobInv
<1>4. CASE SaveSite
  BY <1>4 DEF SaveSite, sites, host, command, JobInv
<1>5. CASE CreateSiteDB
  BY <1>5 DEF CreateSiteDB, sites, host, command, JobInv
<1>6. CASE CreateSiteDBFails
  BY <1>6 DEF CreateSiteDBFails, sites, host, command, JobInv
<1>7. CASE dropSiteDB
  BY <1>7 DEF dropSiteDB, sites, host, command, JobInv
<1>8. CASE EndSite
  BY <1>8 DEF EndSite, sites, host, command, JobInv
<1>9. ASSUME NEW o \in Ops, NEW sel \in Selections, Start(o, sel) PROVE MigrateInv'
  BY <1>9 DEF Start, sites, host, command
<1>10. CASE RunStackPurge
  BY <1>10 DEF RunStackPurge, Goto, sites, host, command
<1>11. CASE CommandDone
  BY <1>11 DEF CommandDone, Goto, sites, host, command
<1>12. CASE End
  BY <1>12 DEF End, Return, sites, host, command
<1>13. ASSUME NEW c \in todo, First(c), Skip(c) PROVE MigrateInv'
  BY <1>13 DEF Skip, Proceed, Goto, sites, host, command
<1>14. ASSUME NEW c \in todo, First(c), Install(c) PROVE MigrateInv'
  BY <1>14 DEF Install, Turn, Installed, Proceed, Goto, sites, host, command
<1>15. ASSUME NEW c \in todo, First(c), Remove(c) PROVE MigrateInv'
  BY <1>15 DEF Remove, Turn, Uninstalled, Proceed, Goto, sites, host, command
<1>16. ASSUME NEW c \in todo, First(c), Purge(c) PROVE MigrateInv'
  BY <1>16 DEF Purge, Turn, Uninstalled, sites, host, command
<1>17. ASSUME NEW c \in todo, First(c), RemoveDirs(c) PROVE MigrateInv'
  BY <1>17 DEF RemoveDirs, Emptied, Proceed, Goto, sites, host, command
<1>18. ASSUME NEW c \in todo, First(c), Serve(c) PROVE MigrateInv'
  BY <1>18 DEF Serve, Serving, Turn, Proceed, Goto, sites, host, command
<1>19. ASSUME NEW c \in todo, First(c), Upgrade(c) PROVE MigrateInv'
  BY <1>19 DEF Upgrade, Turn, Proceed, Goto, sites, host, command
<1>20. ASSUME NEW c \in todo, First(c), CallFails(c) PROVE MigrateInv'
  BY <1>20
     DEF CallFails, Return, Turn, Installed, Uninstalled, Serving, Emptied, sites,
         host, command
<1>21. CASE Dump
  BY <1>21 DEF Dump, Goto, OnlyInDump, sites, host, command
<1>22. CASE DumpFails
  BY <1>22 DEF DumpFails, Return, OnlyInDump, sites, host, command
<1>23. CASE StopServer
  BY <1>23 DEF StopServer, Goto, sites, host, command
<1>24. CASE PurgeOldVersion
  BY <1>24 DEF PurgeOldVersion, Goto, OldVersionGone, sites, host, command
<1>25. CASE AddRepo
  BY <1>25 DEF AddRepo, Goto, sites, host, command
<1>26. CASE InstallTarget
  BY <1>26 DEF InstallTarget, Goto, Installed, sites, host, command
<1>27. CASE ImportDump
  BY <1>27 DEF ImportDump, Goto, sites, host, command
<1>28. CASE RemoveDump
  BY <1>28 DEF RemoveDump, Goto, sites, host, command
<1>29. CASE MigrateFails
  BY <1>29 DEF MigrateFails, Return, OldVersionGone, Installed, sites, host, command
<1>30. CASE UNCHANGED vars
  BY <1>30 DEF vars, sites, host, command
<1>31. QED
  BY <1>1, <1>2, <1>3, <1>4, <1>5, <1>6, <1>7, <1>8, <1>9, <1>10, <1>11, <1>12,
     <1>13, <1>14, <1>15, <1>16, <1>17, <1>18, <1>19, <1>20, <1>21, <1>22, <1>23,
     <1>24, <1>25, <1>26, <1>27, <1>28, <1>29, <1>30
     DEF Next, SiteCommand, StackOp, Migrate

\* Nobody's database is on a server that is purged.
LEMMA NothingMade ==
  ASSUME IInv, op = "purge", pc = "next", "mariadb" \in todo
  PROVE  made = {}
<1>1. componentDependents("mariadb") = {}
  BY DEF IInv, PurgeInv, Blocked, TypeOK
<1>2. QED
  BY <1>1 DEF componentDependents, IInv, JobInv

LEMMA DataStep == ASSUME IInv, [Next]_vars PROVE DataKept'
<1> USE DEF IInv, DataKept, TypeOK
<1>1. ASSUME NEW n \in Names, NEW t \in Types, StartCreate(n, t) PROVE DataKept'
  BY <1>1
     DEF StartCreate, sites, host, command, MigrateInv, MigrateSteps, CommandInv,
         JobInv
<1>2. ASSUME NEW n \in Names, StartDelete(n) PROVE DataKept'
  BY <1>2
     DEF StartDelete, sites, host, command, MigrateInv, MigrateSteps, CommandInv,
         JobInv
<1>3. CASE OpenStore
  BY <1>3
     DEF OpenStore, sites, host, command, MigrateInv, MigrateSteps, CommandInv,
         JobInv
<1>4. CASE SaveSite
  BY <1>4
     DEF SaveSite, sites, host, command, MigrateInv, MigrateSteps, CommandInv,
         JobInv
<1>5. CASE CreateSiteDB
  BY <1>5
     DEF CreateSiteDB, sites, host, command, MigrateInv, MigrateSteps, CommandInv,
         JobInv
<1>6. CASE CreateSiteDBFails
  BY <1>6
     DEF CreateSiteDBFails, sites, host, command, MigrateInv, MigrateSteps,
         CommandInv, JobInv
<1>7. CASE dropSiteDB
  BY <1>7
     DEF dropSiteDB, sites, host, command, MigrateInv, MigrateSteps, CommandInv,
         JobInv
<1>8. CASE EndSite
  BY <1>8
     DEF EndSite, sites, host, command, MigrateInv, MigrateSteps, CommandInv, JobInv
<1>9. ASSUME NEW o \in Ops, NEW sel \in Selections, Start(o, sel) PROVE DataKept'
  BY <1>9 DEF Start, sites, host, command, MigrateInv, MigrateSteps, CommandInv
<1>10. CASE RunStackPurge
  BY <1>10
     DEF RunStackPurge, Goto, sites, host, command, MigrateInv, MigrateSteps,
         CommandInv
<1>11. CASE CommandDone
  BY <1>11
     DEF CommandDone, Goto, sites, host, command, MigrateInv, MigrateSteps,
         CommandInv
<1>12. CASE End
  BY <1>12 DEF End, Return, sites, host, command, MigrateInv, MigrateSteps, CommandInv
<1>13. ASSUME NEW c \in todo, First(c), Skip(c) PROVE DataKept'
  BY <1>13
     DEF Skip, Proceed, Goto, sites, host, command, MigrateInv, MigrateSteps,
         CommandInv
<1>14. ASSUME NEW c \in todo, First(c), Install(c) PROVE DataKept'
  BY <1>14
     DEF Install, Turn, Installed, Proceed, Goto, sites, host, command, MigrateInv,
         MigrateSteps, CommandInv
<1>15. ASSUME NEW c \in todo, First(c), Remove(c) PROVE DataKept'
  BY <1>15
     DEF Remove, Turn, Uninstalled, Proceed, Goto, sites, host, command, MigrateInv,
         MigrateSteps, CommandInv
<1>16. ASSUME NEW c \in todo, First(c), Purge(c) PROVE DataKept'
  <2>1. c = "mariadb" => made = {}
    BY <1>16, NothingMade DEF Purge, Turn
  <2>2. QED
    BY <1>16, <2>1 DEF Purge, Uninstalled
<1>17. ASSUME NEW c \in todo, First(c), RemoveDirs(c) PROVE DataKept'
  BY <1>17
     DEF RemoveDirs, Emptied, Proceed, Goto, sites, host, command, MigrateInv,
         MigrateSteps, CommandInv
<1>18. ASSUME NEW c \in todo, First(c), Serve(c) PROVE DataKept'
  BY <1>18
     DEF Serve, Serving, Turn, Proceed, Goto, sites, host, command, MigrateInv,
         MigrateSteps, CommandInv
<1>19. ASSUME NEW c \in todo, First(c), Upgrade(c) PROVE DataKept'
  BY <1>19
     DEF Upgrade, Turn, Proceed, Goto, sites, host, command, MigrateInv,
         MigrateSteps, CommandInv
<1>20. ASSUME NEW c \in todo, First(c), CallFails(c) PROVE DataKept'
  <2>1. CASE Uninstalled(c) /\ Turn("purge", c) /\ UNCHANGED dump
    <3>1. c = "mariadb" => made = {}
      BY <1>20, <2>1, NothingMade DEF Turn
    <3>2. QED
      BY <1>20, <2>1, <3>1 DEF CallFails, Uninstalled
  <2>2. CASE Uninstalled(c) /\ Turn("remove", c) /\ UNCHANGED dump
    BY <1>20, <2>2 DEF CallFails, Turn, Uninstalled
  <2>3. CASE Installed(c) \/ UNCHANGED <<db, dump>>
    BY <1>20, <2>3 DEF CallFails, Installed
  <2>4. QED
    BY <1>20, <2>1, <2>2, <2>3 DEF CallFails
<1>21. CASE Dump
  BY <1>21
     DEF Dump, Goto, OnlyInDump, sites, host, command, MigrateInv, MigrateSteps,
         CommandInv
<1>22. CASE DumpFails
  BY <1>22
     DEF DumpFails, Return, OnlyInDump, sites, host, command, MigrateInv,
         MigrateSteps, CommandInv
<1>23. CASE StopServer
  BY <1>23
     DEF StopServer, Goto, sites, host, command, MigrateInv, MigrateSteps,
         CommandInv
<1>24. CASE PurgeOldVersion
  BY <1>24
     DEF PurgeOldVersion, Goto, OldVersionGone, sites, host, command, MigrateInv,
         MigrateSteps, CommandInv
<1>25. CASE AddRepo
  BY <1>25
     DEF AddRepo, Goto, sites, host, command, MigrateInv, MigrateSteps, CommandInv
<1>26. CASE InstallTarget
  BY <1>26
     DEF InstallTarget, Goto, Installed, sites, host, command, MigrateInv,
         MigrateSteps, CommandInv
<1>27. CASE ImportDump
  BY <1>27
     DEF ImportDump, Goto, sites, host, command, MigrateInv, MigrateSteps,
         CommandInv
<1>28. CASE RemoveDump
  BY <1>28
     DEF RemoveDump, Goto, sites, host, command, MigrateInv, MigrateSteps,
         CommandInv
<1>29. CASE MigrateFails
  BY <1>29
     DEF MigrateFails, Return, OldVersionGone, Installed, sites, host, command,
         MigrateInv, MigrateSteps, CommandInv
<1>30. CASE UNCHANGED vars
  BY <1>30 DEF vars, sites, host, command
<1>31. QED
  BY <1>1, <1>2, <1>3, <1>4, <1>5, <1>6, <1>7, <1>8, <1>9, <1>10, <1>11, <1>12,
     <1>13, <1>14, <1>15, <1>16, <1>17, <1>18, <1>19, <1>20, <1>21, <1>22, <1>23,
     <1>24, <1>25, <1>26, <1>27, <1>28, <1>29, <1>30
     DEF Next, SiteCommand, StackOp, Migrate

LEMMA FirstIsOne ==
  ASSUME TypeOK, NEW c \in todo, NEW d \in todo, First(c), First(d)
  PROVE  c = d
<1>1. c \in Components /\ d \in Components
  BY DEF TypeOK
<1>2. c # d => Precedes(c, d) /\ Precedes(d, c)
  BY DEF First
<1>3. c # d => Registry[c] < Registry[d] /\ Registry[d] < Registry[c]
  BY <1>2 DEF Precedes
<1>4. QED
  BY <1>1, <1>3, RegistryOrder

\* moveOLSBeforeLSPHP: apt never takes along an OLS whose turn is to come.
LEMMA OLSBeforeLSPHP ==
  ASSUME op = "purge", First("lsphp")
  PROVE  "ols" \notin todo
<1>1. "ols" \in todo => Precedes("lsphp", "ols")
  BY DEF First
<1>2. "ols" \in todo => Registry["lsphp"] < Registry["ols"]
  BY <1>1 DEF Precedes, Reversed
<1>3. QED
  BY <1>2, RegistryOrder DEF Components

LEMMA GoneStep == ASSUME IInv, [Next]_vars PROVE GoneInv'
<1> USE DEF IInv, GoneInv, Present, TypeOK, CommandInv, MigrateSteps
<1>1. CASE SiteCommand
  BY <1>1, SiteFrame DEF command, First, Precedes, Reversed
<1>2. ASSUME NEW o \in Ops, NEW sel \in Selections, Start(o, sel) PROVE GoneInv'
  BY <1>2 DEF Start, sites, host, command, First, Precedes, Reversed
<1>3. CASE RunStackPurge
  BY <1>3 DEF RunStackPurge, Goto, sites, host, command, First, Precedes, Reversed
<1>4. CASE CommandDone
  BY <1>4 DEF CommandDone, Goto, sites, host, command, First, Precedes, Reversed
<1>5. CASE End
  BY <1>5 DEF End, Return, sites, host, command, First, Precedes, Reversed
<1>6. ASSUME NEW c \in todo, First(c), Skip(c) PROVE GoneInv'
  <2>1. SUFFICES ASSUME op = "purge", NEW d \in (chosen \cap had) \ {"lsphp"}
                 PROVE  /\ d \notin todo' => d \notin pkgs \cup files
                        /\ d \in todo' => Present(d)
    BY <1>6 DEF Skip, Proceed, Goto, sites, host
  <2>2. ~Verify(c)
    BY <1>6, <2>1 DEF Skip, Skips
  <2>3. d # c
    BY <1>6, <2>1, <2>2 DEF Verify, Skip, Proceed, Goto
  <2>4. QED
    BY <1>6, <2>1, <2>3 DEF Skip, Proceed, Goto
<1>7. ASSUME NEW c \in todo, First(c), Install(c) PROVE GoneInv'
  BY <1>7 DEF Install, Turn, Installed, Proceed, Goto, sites, host, command
<1>8. ASSUME NEW c \in todo, First(c), Remove(c) PROVE GoneInv'
  BY <1>8 DEF Remove, Turn, Uninstalled, Proceed, Goto, sites, host, command
<1>9. ASSUME NEW c \in todo, First(c), Purge(c) PROVE GoneInv'
  <2>1. SUFFICES ASSUME NEW d \in (chosen \cap had) \ {"lsphp"}
                 PROVE  /\ d \notin todo => d \notin pkgs' \cup files'
                        /\ d \in todo => Present(d)' \/ First(d)
                        /\ d \in todo /\ First(d) => d \notin pkgs'
    BY <1>9 DEF Purge, Turn, sites, First, Precedes, Reversed
  <2>2. op = "purge" /\ pc = "next" /\ pkgs' \subseteq pkgs /\ files' \subseteq files
    BY <1>9 DEF Purge, Turn, Uninstalled
  <2>3. d \in todo /\ First(d) => d \notin pkgs'
    BY <1>9, FirstIsOne DEF Purge, Uninstalled
  <2>4. d \in todo /\ d # c => Present(d)'
    BY <1>9, <2>1, <2>2, OLSBeforeLSPHP DEF Purge, Uninstalled
  <2>5. QED
    BY <1>9, <2>1, <2>2, <2>3, <2>4
<1>10. ASSUME NEW c \in todo, First(c), RemoveDirs(c) PROVE GoneInv'
  <2>1. SUFFICES ASSUME op = "purge", NEW d \in (chosen \cap had) \ {"lsphp"}
                 PROVE  /\ d \notin todo' => d \notin pkgs \cup files'
                        /\ d \in todo' => Present(d)'
    BY <1>10 DEF RemoveDirs, Proceed, Goto, sites
  <2>2. files' \subseteq files /\ c \notin files' /\ todo' = todo \ {c} /\ pc = "rm"
    BY <1>10 DEF RemoveDirs, Emptied, Proceed, Goto
  <2>3. d \in todo' => Present(d) /\ d # c
    BY <1>10, <2>1, <2>2, FirstIsOne
  <2>4. Present(d) /\ d # c => Present(d)'
    BY <1>10, <2>1 DEF RemoveDirs, Emptied, Binaries
  <2>5. QED
    BY <1>10, <2>1, <2>2, <2>3, <2>4
<1>11. ASSUME NEW c \in todo, First(c), Serve(c) PROVE GoneInv'
  BY <1>11 DEF Serve, Serving, Turn, Proceed, Goto, sites, host, command
<1>12. ASSUME NEW c \in todo, First(c), Upgrade(c) PROVE GoneInv'
  BY <1>12 DEF Upgrade, Turn, Proceed, Goto, sites, host, command
<1>13. ASSUME NEW c \in todo, First(c), CallFails(c) PROVE GoneInv'
  BY <1>13
     DEF CallFails, Return, Turn, Installed, Uninstalled, Serving, Emptied, sites,
         host, command
<1>14. CASE Dump
  BY <1>14 DEF Dump, Goto, OnlyInDump, sites, host, command, First, Precedes, Reversed
<1>15. CASE DumpFails
  BY <1>15
     DEF DumpFails, Return, OnlyInDump, sites, host, command, First, Precedes,
         Reversed
<1>16. CASE StopServer
  BY <1>16 DEF StopServer, Goto, sites, host, command, First, Precedes, Reversed
<1>17. CASE PurgeOldVersion
  BY <1>17
     DEF PurgeOldVersion, Goto, OldVersionGone, sites, host, command, First,
         Precedes, Reversed
<1>18. CASE AddRepo
  BY <1>18 DEF AddRepo, Goto, sites, host, command, First, Precedes, Reversed
<1>19. CASE InstallTarget
  BY <1>19
     DEF InstallTarget, Goto, Installed, sites, host, command, First, Precedes,
         Reversed
<1>20. CASE ImportDump
  BY <1>20 DEF ImportDump, Goto, sites, host, command, First, Precedes, Reversed
<1>21. CASE RemoveDump
  BY <1>21 DEF RemoveDump, Goto, sites, host, command, First, Precedes, Reversed
<1>22. CASE MigrateFails
  BY <1>22
     DEF MigrateFails, Return, OldVersionGone, Installed, sites, host, command,
         First, Precedes, Reversed
<1>23. CASE UNCHANGED vars
  BY <1>23 DEF vars, host, command, First, Precedes, Reversed
<1>24. QED
  BY <1>1, <1>2, <1>3, <1>4, <1>5, <1>6, <1>7, <1>8, <1>9, <1>10, <1>11, <1>12,
     <1>13, <1>14, <1>15, <1>16, <1>17, <1>18, <1>19, <1>20, <1>21, <1>22, <1>23
     DEF Next, StackOp, Migrate

-----------------------------------------------------------------------------
(* The theorems.                                                           *)

LEMMA InitIInv == Init => IInv
<1>1. Init => TypeOK
  <2>1. Init => server \in BOOLEAN
    BY DEF Init
  <2>2. QED
    BY <2>1 DEF Init, TypeOK, NoJob, Binaries, Components
<1>2. Init => JobInv /\ CommandInv
  BY DEF Init, JobInv, CommandInv, NoJob, MigrateSteps
<1>3. Init => PurgeInv /\ GoneInv /\ MigrateInv /\ DataKept
  BY DEF Init, PurgeInv, GoneInv, MigrateInv, MigrateSteps, DataKept
<1>4. QED
  BY <1>1, <1>2, <1>3 DEF IInv

LEMMA Inductive == Spec => []IInv
<1>1. IInv /\ [Next]_vars => IInv'
  BY TypeStep, JobStep, CommandInvStep, PurgeStep, GoneStep, MigrateStep, DataStep DEF IInv
<1>2. QED
  BY InitIInv, <1>1, PTL DEF Spec

\* Every variable keeps its type, whatever site commands and stack commands overlap;
\* no site is recorded without its type (app/stack.go:185 goes by it).
THEOREM TypeCorrect == Spec => []TypeOK
<1>1. IInv => TypeOK
  BY DEF IInv
<1>2. QED
  BY Inductive, <1>1, PTL

\* Wherever a migration is cut off, no database that was made is on neither the server
\* nor the dump, but for the two ways `lost' names (stack/mariadb.go:105-140); and no
\* purge finds a WordPress site's database on the server.
THEOREM DataStays == Spec => []DataKept
<1>1. IInv => DataKept
  BY DEF IInv
<1>2. QED
  BY Inductive, <1>1, PTL

\* A purge that ends well has left neither package nor files of what it found, in the
\* order RunStackOp takes with moveOLSBeforeLSPHP (app/stack.go:93-97, 343-362).
THEOREM PurgeClears == Spec => []PurgeCleans
<1>1. IInv => PurgeCleans
  BY DEF IInv, CommandInv, GoneInv, PurgeCleans
<1>2. QED
  BY Inductive, <1>1, PTL

\* What a step of a purge takes, nobody depends on.
LEMMA SparesStep ==
  ASSUME IInv, Next, op = "purge",
         NEW c \in Components, c \in (pkgs \ pkgs') \cup (files \ files'),
         ~(c = "ols" /\ First("lsphp"))
  PROVE  componentDependents(c) = {}
<1>1. ASSUME NEW d \in todo, pc \in {"next", "rm"} PROVE componentDependents(d) = {}
  BY <1>1 DEF IInv, TypeOK, PurgeInv, Blocked
<1>2. componentDependents("ols") = {} => componentDependents("lsphp") = {}
  BY DEF componentDependents
<1>3. ASSUME NEW d \in todo, First(d), Turn("purge", d), Uninstalled(d)
      PROVE  c = d
  BY <1>3 DEF Uninstalled
<1>4. ASSUME NEW d \in todo, pc = "rm", Emptied(d), UNCHANGED pkgs
      PROVE  c = d \/ (d = "ols" /\ c = "lsphp")
  BY <1>4 DEF Emptied
<1>5. ASSUME NEW d \in todo, First(d), CallFails(d)
      PROVE  \/ Turn("purge", d) /\ Uninstalled(d)
             \/ pc = "rm" /\ Emptied(d) /\ UNCHANGED pkgs
  BY <1>5 DEF CallFails, Turn, Serving, Installed
<1>6. ASSUME NEW d \in todo, First(d),
             \/ Turn("purge", d) /\ Uninstalled(d)
             \/ pc = "rm" /\ Emptied(d) /\ UNCHANGED pkgs
      PROVE  componentDependents(c) = {}
  BY <1>1, <1>2, <1>3, <1>4, <1>6 DEF Turn
<1>7. CASE StackOp
  <2>1. PICK d \in todo : First(d) /\ (Purge(d) \/ RemoveDirs(d) \/ CallFails(d))
    BY <1>7 DEF StackOp, Skip, Install, Remove, Serve, Serving, Upgrade, Turn, host
  <2>2. Purge(d) => Turn("purge", d) /\ Uninstalled(d)
    BY DEF Purge
  <2>3. RemoveDirs(d) => pc = "rm" /\ Emptied(d) /\ UNCHANGED pkgs
    BY DEF RemoveDirs, Proceed, Goto
  <2>4. QED
    BY <1>5, <1>6, <2>1, <2>2, <2>3
<1>8. ~Migrate
  BY DEF IInv, CommandInv, MigrateSteps, Migrate, Goto, Dump, DumpFails, StopServer,
         PurgeOldVersion, AddRepo, InstallTarget, ImportDump, RemoveDump, MigrateFails
<1>9. CASE UNCHANGED <<pkgs, files>>
  BY <1>9
<1>10. QED
  BY <1>7, <1>8, <1>9, SiteFrame
     DEF Next, Start, RunStackPurge, CommandDone, End, host

\* Purge takes nothing that a site depends on, also when the site is being created
\* (RunStackPurge keeps the store open while RunStackOp runs, app/stack.go:149-173).
THEOREM PurgeSparing == Spec => PurgeSpares
<1>1. IInv /\ [Next]_vars =>
        [op = "purge" => \A c \in Components :
            c \in (pkgs \ pkgs') \cup (files \ files') /\ ~(c = "ols" /\ First("lsphp"))
                => componentDependents(c) = {}]_vars
  BY SparesStep
<1>2. QED
  BY Inductive, <1>1, PTL DEF Spec, PurgeSpares

=============================================================================
