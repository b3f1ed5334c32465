-------------------------- MODULE Provision_proofs --------------------------
(***************************************************************************)
(* Proofs about Provision for any domains, any commands and any bound on   *)
(* the passwords.                                                          *)
(***************************************************************************)
EXTENDS Provision, TLAPS

-----------------------------------------------------------------------------
(* The inductive invariant.                                                *)

Copying == {"clone", "restore"}

\* Which command can be at which step, and what it was asked.
CommandInv ==
    /\ cmd \in [kind : Kinds \cup {"none"}, site : Names \cup {NoName},
                from : Names \cup {NoName}, type : Types \cup {"none"}]
    /\ pc # "idle" => cmd.kind \in Kinds /\ cmd.type \in Types
    /\ pc # "idle" /\ cmd.kind \in Copying => from \in Names
    /\ pc # "idle" /\ cmd.kind = "clone" => from # site
    /\ pc \in {"copy", "import", "rewrite"} => cmd.kind \in Copying
    /\ pc \in {"install", "reconcile"} => cmd.kind \in Creating
    /\ pc = "delete" => cmd.kind \in {"delete", "force"}
    /\ pc \in Steps \cup {"cleanup"} => cmd.kind # "delete"

\* The site in work has its own database in wp-config.php when wp-cli is to use it.
ConfInv ==
    pc \in {"password", "install", "rewrite"} =>
        conf[site] \in Conf /\ conf[site].db = site /\ conf[site].user = site

\* A database is dropped after its site, and copied only if it is there.
DataInv ==
    /\ pc = "drop" => reg[site] = "none" \/ cmd.kind \in Creating
    /\ pc = "import" /\ cmd.kind = "clone" => db[from] # NoDb

WithDb == {"import", "config", "password", "install", "rewrite"}

\* The record of the site in work, and that of a clone's source.
RecordInv ==
    /\ pc = "register" => reg[site] = "none"
    /\ pc \in (Steps \ {"register"}) \cup {"cleanup"} => reg[site] = cmd.type
    /\ pc = "delete" /\ cmd.kind = "delete" => reg[site] = cmd.type
    /\ pc \in WithDb \cup {"createDB"} => cmd.type = "wp"
    /\ pc \in {"cron", "reconcile"} /\ cmd.kind \in Creating => cmd.type = "wp"
    /\ pc = "drop" => reg[site] = "none" \/ site \in broken
    /\ pc # "idle" /\ cmd.kind = "clone" => reg[from] = "wp"

\* A database user without a WordPress site is one that nobody looked after, and only
\* such a user has another password than the command's.
UserInv ==
    /\ \A n \in Names : owner[n] # NoPass /\ reg[n] # "wp" /\ ~(pc = "drop" /\ n = site)
                            => n \in left
    /\ pc \in {"copy", "createDB"} /\ owner[site] # NoPass => site \in left
    /\ pc \in WithDb =>
        /\ db[site] # NoDb /\ owner[site] # NoPass
        /\ owner[site] = pass \/ site \in left

\* What the site in work has got so far.
ProgressInv ==
    /\ pc \in {"createDB"} \cup WithDb /\ cmd.kind = "clone" /\ from \in broken => site \in broken
    /\ pc \in {"createDB", "import", "config"} /\ cmd.kind \in Copying /\ conf[site] = NoConf
        => site \in broken
    /\ pc \in {"config", "password", "rewrite"} /\ cmd.kind \in Copying
        => db[site] = from \/ site \in broken
    /\ pc \in {"install", "rewrite"} =>
        /\ conf[site].pass = pass
        /\ owner[site] = pass \/ site \in stale
    /\ pc = "cron" /\ cmd.type = "wp" /\ site \notin broken => Reaches(site)

\* Sites that no command is at work on, and what a command has when it is done.
WorkInv ==
    \A n \in Names \ broken :
        reg[n] = "wp" /\ (n = site => pc \in {"delete", "reconcile", "ok", "failed"})
            => Reaches(n) /\ n \in cron

IInv ==
    /\ TypeOK /\ CommandInv /\ ConfInv /\ DataInv
    /\ RecordInv /\ UserInv /\ ProgressInv /\ WorkInv

-----------------------------------------------------------------------------
(* What a step that fails or is killed may have done.                      *)

\* A part of a step is typed, and leaves the registry alone.
LEMMA PartlyTyped ==
  ASSUME IInv, Partly, pc # "idle"
  PROVE  /\ quotable' = quotable /\ reg' = reg
         /\ db' \in [Names -> Names \cup {NoDb, Bare}]
         /\ owner' \in [Names -> NoPass .. MaxPass]
         /\ conf' \in [Names -> Conf \cup {NoConf}]
         /\ cron' \subseteq Names
<1> USE DEF IInv, TypeOK, CommandInv
<1>0. site \in Names /\ (pc \in {"copy", "import", "rewrite"} => from \in Names)
  BY DEF site, from, Copying
<1>1. CASE UNCHANGED host
  BY <1>1 DEF host
<1>2. CASE /\ pc = "copy" /\ \E c \in CopiedConf \cup BrokenConf : conf' = [conf EXCEPT ![site] = c]
           /\ UNCHANGED <<quotable, reg, db, owner, cron>>
  BY <1>0, <1>2, MaxPassAssumption DEF CopiedConf, BrokenConf, Conf, NoPass
<1>3. CASE /\ pc = "createDB" /\ db' = CreateDatabase
           /\ \E p \in 1 .. MaxPass : owner' \in {owner, CreateUser(p)}
           /\ UNCHANGED <<quotable, reg, conf, cron>>
  BY <1>0, <1>3 DEF CreateDatabase, CreateUser, NoPass
<1>4. CASE pc = "import" /\ db' \in Imported /\ UNCHANGED <<quotable, reg, owner, conf, cron>>
  BY <1>0, <1>4 DEF Imported, Dumped
<1>5. CASE /\ pc = "config" /\ conf[site] # NoConf
           /\ conf' = [conf EXCEPT ![site].db = site]
           /\ UNCHANGED <<quotable, reg, db, owner, cron>>
  BY <1>0, <1>5 DEF Conf
<1>6. CASE /\ pc \in {"install", "rewrite"}
           /\ db' = [db EXCEPT ![conf[site].db] = site]
           /\ UNCHANGED <<quotable, reg, owner, conf, cron>>
  BY <1>0, <1>6
<1>7. CASE pc = "cron" /\ cron' = cron \cup {site} /\ UNCHANGED <<quotable, reg, db, owner, conf>>
  BY <1>0, <1>7
<1>8. QED
  BY <1>1, <1>2, <1>3, <1>4, <1>5, <1>6, <1>7 DEF Partly

-----------------------------------------------------------------------------
(* Every step preserves each part of the invariant.                        *)

LEMMA CommandStep == ASSUME IInv, [Next]_vars PROVE CommandInv'
<1> USE DEF IInv, CommandInv, TypeOK, Copying, Creating, Steps
<1>1. ASSUME NEW kind \in Kinds, NEW n \in Names, NEW f \in Names \cup {NoName}, NEW t \in Types,
             Start(kind, n, f, t)
      PROVE  CommandInv'
  BY <1>1, NamesAssumption, KindsAssumption
     DEF Start, Admissible, host, command, history, site, from
<1>2. CASE Create
  BY <1>2, NamesAssumption, KindsAssumption
     DEF Create, host, command, history, site, from
<1>3. CASE Delete
  BY <1>3, NamesAssumption, KindsAssumption
     DEF Delete, AfterDelete, Dropping, host, command, history, site, from
<1>4. CASE DeleteFails
  BY <1>4, NamesAssumption, KindsAssumption
     DEF DeleteFails, Outside, host, command, history, site, from
<1>5. CASE dropSiteDB
  BY <1>5, NamesAssumption, KindsAssumption
     DEF dropSiteDB, AfterDrop, host, command, history, site, from
<1>6. CASE DropFails
  BY <1>6, NamesAssumption, KindsAssumption
     DEF DropFails, AfterDrop, Outside, host, command, history, site, from
<1>7. CASE CopyFiles
  BY <1>7, NamesAssumption, KindsAssumption
     DEF CopyFiles, CopiedConf, BrokenConf, host, command, history, site, from
<1>8. ASSUME NEW p \in 1 .. MaxPass, CreateDB(p) PROVE CommandInv'
  BY <1>8, NamesAssumption, KindsAssumption
     DEF CreateDB, CanCreateDB, CreateDatabase, CreateUser, host, command, history,
         site, from
<1>9. CASE Import
  BY <1>9, NamesAssumption, KindsAssumption
     DEF Import, Imported, Dumped, Goto, host, command, history, site, from
<1>10. CASE Configure
  BY <1>10, NamesAssumption, KindsAssumption
     DEF Configure, Own, Goto, host, command, history, site, from
<1>11. CASE writeWPConfigPassword
  BY <1>11, NamesAssumption, KindsAssumption
     DEF writeWPConfigPassword, AfterPassword, host, command, history, site, from
<1>12. CASE CoreInstall
  BY <1>12, NamesAssumption, KindsAssumption
     DEF CoreInstall, Connects, Goto, host, command, history, site, from
<1>13. CASE SearchReplace
  BY <1>13, NamesAssumption, KindsAssumption
     DEF SearchReplace, Connects, Goto, host, command, history, site, from
<1>14. CASE writeCronFile
  BY <1>14, NamesAssumption, KindsAssumption
     DEF writeCronFile, host, command, history, site, from
<1>15. CASE Reconcile
  BY <1>15, NamesAssumption, KindsAssumption
     DEF Reconcile, Goto, host, command, history, site, from
<1>16. CASE StepFails
  BY <1>16, NamesAssumption, KindsAssumption
     DEF StepFails, Abandon, Outside, host, command, history, site, from
<1>17. CASE GivesUp
  BY <1>17, NamesAssumption, KindsAssumption
     DEF GivesUp, Abandon, Impossible, host, command, history, site, from
<1>18. CASE Kill
  BY <1>18, NamesAssumption, KindsAssumption
     DEF Kill, Exit, NoCommand, host, command, history, site, from
<1>19. CASE End
  BY <1>19, NamesAssumption, KindsAssumption
     DEF End, Exit, NoCommand, host, command, history, site, from
<1>20. CASE UNCHANGED vars
  BY <1>20 DEF vars, host, command, history, site, from
<1>21. QED
  BY <1>1, <1>2, <1>3, <1>4, <1>5, <1>6, <1>7, <1>8, <1>9, <1>10, <1>11, <1>12,
     <1>13, <1>14, <1>15, <1>16, <1>17, <1>18, <1>19, <1>20 DEF Next

LEMMA TypeStep == ASSUME IInv, [Next]_vars PROVE TypeOK'
<1> USE DEF IInv, CommandInv, TypeOK, ConfInv, Copying, Creating, Steps
<1>1. ASSUME NEW kind \in Kinds, NEW n \in Names, NEW f \in Names \cup {NoName}, NEW t \in Types,
             Start(kind, n, f, t)
      PROVE  TypeOK'
  BY <1>1, MaxPassAssumption, NamesAssumption
     DEF Start, Admissible, host, command, history, site, from
<1>2. CASE Create
  BY <1>2, MaxPassAssumption, NamesAssumption
     DEF Create, host, command, history, site, from
<1>3. CASE Delete
  BY <1>3, MaxPassAssumption, NamesAssumption
     DEF Delete, AfterDelete, Dropping, host, command, history, site, from
<1>4. CASE DeleteFails
  BY <1>4, MaxPassAssumption, NamesAssumption
     DEF DeleteFails, Outside, host, command, history, site, from
<1>5. CASE dropSiteDB
  BY <1>5, MaxPassAssumption, NamesAssumption
     DEF dropSiteDB, AfterDrop, host, command, history, site, from, NoPass
<1>6. CASE DropFails
  <2>1. fault' \in BOOLEAN
    BY <1>6 DEF DropFails, Outside
  <2>2. /\ db' \in [Names -> Names \cup {NoDb, Bare}]
        /\ cron' \subseteq Names /\ left' \subseteq Names
    BY <1>6, NamesAssumption DEF DropFails, site
  <2>3. QED
    BY <1>6, <2>1, <2>2 DEF DropFails, AfterDrop, site, from
<1>7. CASE CopyFiles
  BY <1>7, MaxPassAssumption, NamesAssumption
     DEF CopyFiles, CopiedConf, BrokenConf, host, command, history, site, from, Conf, NoPass
<1>8. ASSUME NEW p \in 1 .. MaxPass, CreateDB(p) PROVE TypeOK'
  BY <1>8, MaxPassAssumption, NamesAssumption
     DEF CreateDB, CanCreateDB, CreateDatabase, CreateUser, host, command, history,
         site, from, NoPass
<1>9. CASE Import
  BY <1>9, MaxPassAssumption, NamesAssumption
     DEF Import, Imported, Dumped, Goto, host, command, history, site, from
<1>10. CASE Configure
  BY <1>10, MaxPassAssumption, NamesAssumption
     DEF Configure, Own, Goto, host, command, history, site, from, Conf, NoPass
<1>11. CASE writeWPConfigPassword
  BY <1>11, MaxPassAssumption, NamesAssumption
     DEF writeWPConfigPassword, AfterPassword, host, command, history, site, from,
         Conf, NoPass
<1>12. CASE CoreInstall
  BY <1>12, MaxPassAssumption, NamesAssumption
     DEF CoreInstall, Connects, Goto, host, command, history, site, from
<1>13. CASE SearchReplace
  BY <1>13, MaxPassAssumption, NamesAssumption
     DEF SearchReplace, Connects, Goto, host, command, history, site, from
<1>14. CASE writeCronFile
  BY <1>14, MaxPassAssumption, NamesAssumption
     DEF writeCronFile, host, command, history, site, from
<1>15. CASE Reconcile
  BY <1>15, MaxPassAssumption, NamesAssumption
     DEF Reconcile, Goto, host, command, history, site, from
<1>16. CASE StepFails
  BY <1>16, MaxPassAssumption, NamesAssumption, PartlyTyped
     DEF StepFails, Abandon, Outside, host, command, history, site, from
<1>17. CASE GivesUp
  BY <1>17, MaxPassAssumption, NamesAssumption
     DEF GivesUp, Abandon, Impossible, host, command, history, site, from
<1>18. CASE Kill
  <2>1. fault' \in BOOLEAN
    BY <1>18 DEF Kill, Exit
  <2>2. QED
    BY <1>18, <2>1, MaxPassAssumption, NamesAssumption, PartlyTyped
       DEF Kill, Exit, NoCommand, NoPass, site
<1>19. CASE End
  <2>1. fault' \in BOOLEAN
    BY <1>19 DEF End, Exit
  <2>2. QED
    BY <1>19, <2>1, MaxPassAssumption, NamesAssumption
       DEF End, Exit, NoCommand, NoPass, host, history
<1>20. CASE UNCHANGED vars
  BY <1>20 DEF vars, host, command, history, site, from
<1>21. QED
  BY <1>1, <1>2, <1>3, <1>4, <1>5, <1>6, <1>7, <1>8, <1>9, <1>10, <1>11, <1>12,
     <1>13, <1>14, <1>15, <1>16, <1>17, <1>18, <1>19, <1>20 DEF Next

LEMMA ConfStep == ASSUME IInv, [Next]_vars PROVE ConfInv'
<1> USE DEF IInv, CommandInv, ConfInv, TypeOK, Copying, Creating, Steps, Conf, NoPass
<1>1. ASSUME NEW kind \in Kinds, NEW n \in Names, NEW f \in Names \cup {NoName}, NEW t \in Types,
             Start(kind, n, f, t)
      PROVE  ConfInv'
  BY <1>1, MaxPassAssumption DEF Start, Admissible, host, command, history, site, from
<1>2. CASE Create
  BY <1>2, MaxPassAssumption DEF Create, host, command, history, site, from
<1>3. CASE Delete
  BY <1>3, MaxPassAssumption
     DEF Delete, AfterDelete, Dropping, host, command, history, site, from
<1>4. CASE DeleteFails
  BY <1>4, MaxPassAssumption
     DEF DeleteFails, Outside, host, command, history, site, from
<1>5. CASE dropSiteDB
  BY <1>5, MaxPassAssumption
     DEF dropSiteDB, AfterDrop, host, command, history, site, from
<1>6. CASE DropFails
  BY <1>6, MaxPassAssumption
     DEF DropFails, AfterDrop, Outside, host, command, history, site, from
<1>7. CASE CopyFiles
  BY <1>7, MaxPassAssumption
     DEF CopyFiles, CopiedConf, BrokenConf, host, command, history, site, from
<1>8. ASSUME NEW p \in 1 .. MaxPass, CreateDB(p) PROVE ConfInv'
  BY <1>8, MaxPassAssumption
     DEF CreateDB, CanCreateDB, CreateDatabase, CreateUser, host, command, history,
         site, from
<1>9. CASE Import
  BY <1>9, MaxPassAssumption
     DEF Import, Imported, Dumped, Goto, host, command, history, site, from
<1>10. CASE Configure
  BY <1>10, MaxPassAssumption
     DEF Configure, Own, Goto, host, command, history, site, from
<1>11. CASE writeWPConfigPassword
  BY <1>11, MaxPassAssumption
     DEF writeWPConfigPassword, AfterPassword, host, command, history, site, from
<1>12. CASE CoreInstall
  BY <1>12, MaxPassAssumption
     DEF CoreInstall, Connects, Goto, host, command, history, site, from
<1>13. CASE SearchReplace
  BY <1>13, MaxPassAssumption
     DEF SearchReplace, Connects, Goto, host, command, history, site, from
<1>14. CASE writeCronFile
  BY <1>14, MaxPassAssumption DEF writeCronFile, host, command, history, site, from
<1>15. CASE Reconcile
  BY <1>15, MaxPassAssumption DEF Reconcile, Goto, host, command, history, site, from
<1>16. CASE StepFails
  BY <1>16, MaxPassAssumption
     DEF StepFails, Abandon, Outside, host, command, history, site, from
<1>17. CASE GivesUp
  BY <1>17, MaxPassAssumption
     DEF GivesUp, Abandon, Impossible, host, command, history, site, from
<1>18. CASE Kill
  BY <1>18, MaxPassAssumption
     DEF Kill, Exit, NoCommand, host, command, history, site, from
<1>19. CASE End
  BY <1>19, MaxPassAssumption
     DEF End, Exit, NoCommand, host, command, history, site, from
<1>20. CASE UNCHANGED vars
  BY <1>20 DEF vars, host, command, history, site, from
<1>21. QED
  BY <1>1, <1>2, <1>3, <1>4, <1>5, <1>6, <1>7, <1>8, <1>9, <1>10, <1>11, <1>12,
     <1>13, <1>14, <1>15, <1>16, <1>17, <1>18, <1>19, <1>20 DEF Next

LEMMA DataStep == ASSUME IInv, [Next]_vars PROVE DataInv'
<1> USE DEF IInv, CommandInv, DataInv, TypeOK, Copying, Creating, Steps
<1>1. ASSUME NEW kind \in Kinds, NEW n \in Names, NEW f \in Names \cup {NoName}, NEW t \in Types,
             Start(kind, n, f, t)
      PROVE  DataInv'
  BY <1>1, NamesAssumption DEF Start, Admissible, host, command, history, site, from
<1>2. CASE Create
  BY <1>2, NamesAssumption DEF Create, host, command, history, site, from
<1>3. CASE Delete
  BY <1>3, NamesAssumption
     DEF Delete, AfterDelete, Dropping, host, command, history, site, from
<1>4. CASE DeleteFails
  BY <1>4, NamesAssumption
     DEF DeleteFails, Outside, host, command, history, site, from
<1>5. CASE dropSiteDB
  BY <1>5, NamesAssumption
     DEF dropSiteDB, AfterDrop, host, command, history, site, from
<1>6. CASE DropFails
  BY <1>6, NamesAssumption
     DEF DropFails, AfterDrop, Outside, host, command, history, site, from
<1>7. CASE CopyFiles
  BY <1>7, NamesAssumption
     DEF CopyFiles, CopiedConf, BrokenConf, host, command, history, site, from
<1>8. ASSUME NEW p \in 1 .. MaxPass, CreateDB(p) PROVE DataInv'
  BY <1>8, NamesAssumption
     DEF CreateDB, CanCreateDB, CreateDatabase, CreateUser, host, command, history,
         site, from
<1>9. CASE Import
  BY <1>9, NamesAssumption
     DEF Import, Imported, Dumped, Goto, host, command, history, site, from
<1>10. CASE Configure
  BY <1>10, NamesAssumption
     DEF Configure, Own, Goto, host, command, history, site, from
<1>11. CASE writeWPConfigPassword
  BY <1>11, NamesAssumption
     DEF writeWPConfigPassword, AfterPassword, host, command, history, site, from
<1>12. CASE CoreInstall
  BY <1>12, NamesAssumption
     DEF CoreInstall, Connects, Goto, host, command, history, site, from
<1>13. CASE SearchReplace
  BY <1>13, NamesAssumption
     DEF SearchReplace, Connects, Goto, host, command, history, site, from
<1>14. CASE writeCronFile
  BY <1>14, NamesAssumption DEF writeCronFile, host, command, history, site, from
<1>15. CASE Reconcile
  BY <1>15, NamesAssumption DEF Reconcile, Goto, host, command, history, site, from
<1>16. CASE StepFails
  BY <1>16, NamesAssumption
     DEF StepFails, Abandon, Outside, host, command, history, site, from
<1>17. CASE GivesUp
  BY <1>17, NamesAssumption
     DEF GivesUp, Abandon, Impossible, host, command, history, site, from
<1>18. CASE Kill
  BY <1>18, NamesAssumption
     DEF Kill, Exit, NoCommand, host, command, history, site, from
<1>19. CASE End
  BY <1>19, NamesAssumption
     DEF End, Exit, NoCommand, host, command, history, site, from
<1>20. CASE UNCHANGED vars
  BY <1>20 DEF vars, host, command, history, site, from
<1>21. QED
  BY <1>1, <1>2, <1>3, <1>4, <1>5, <1>6, <1>7, <1>8, <1>9, <1>10, <1>11, <1>12,
     <1>13, <1>14, <1>15, <1>16, <1>17, <1>18, <1>19, <1>20 DEF Next

LEMMA PartlyOthers ==
  ASSUME IInv, Partly, pc # "idle", NEW n \in Names, n # site
  PROVE  /\ db'[n] = db[n] /\ owner'[n] = owner[n] /\ conf'[n] = conf[n]
         /\ (n \in cron') = (n \in cron)
<1> USE DEF IInv, TypeOK, CommandInv, ConfInv
<1>1. site \in Names
  BY DEF site
<1>2. CASE UNCHANGED host
  BY <1>2 DEF host
<1>3. CASE \E c \in CopiedConf \cup BrokenConf : conf' = [conf EXCEPT ![site] = c] /\ UNCHANGED <<db, owner, cron>>
  BY <1>1, <1>3
<1>4. CASE /\ db' = CreateDatabase /\ UNCHANGED <<conf, cron>>
           /\ \E p \in 1 .. MaxPass : owner' \in {owner, CreateUser(p)}
  BY <1>1, <1>4 DEF CreateDatabase, CreateUser
<1>5. CASE db' \in Imported /\ UNCHANGED <<owner, conf, cron>>
  BY <1>1, <1>5 DEF Imported, Dumped
<1>6. CASE conf' = [conf EXCEPT ![site].db = site] /\ UNCHANGED <<db, owner, cron>>
  BY <1>1, <1>6
<1>7. CASE /\ pc \in {"install", "rewrite"} /\ UNCHANGED <<owner, conf, cron>>
           /\ db' = [db EXCEPT ![conf[site].db] = site]
  BY <1>1, <1>7
<1>8. CASE cron' = cron \cup {site} /\ UNCHANGED <<db, owner, conf>>
  BY <1>1, <1>8
<1>9. QED
  BY <1>2, <1>3, <1>4, <1>5, <1>6, <1>7, <1>8 DEF Partly

\* Nothing of a site but the one in work is changed.
Untouched(n) ==
    /\ reg'[n] = reg[n] /\ db'[n] = db[n] /\ owner'[n] = owner[n] /\ conf'[n] = conf[n]
    /\ (n \in cron') = (n \in cron) /\ (n \in broken') = (n \in broken)
    /\ (n \in stale') = (n \in stale) /\ (n \in left') = (n \in left)

LEMMA OthersStep ==
  ASSUME IInv, [Next]_vars, NEW n \in Names, n # site
  PROVE  Untouched(n)
<1> USE DEF IInv, TypeOK, CommandInv, ConfInv, Untouched
<1>1. ASSUME NEW kind \in Kinds, NEW m \in Names, NEW f \in Names \cup {NoName}, NEW t \in Types,
             Start(kind, m, f, t)
      PROVE  Untouched(n)
  BY <1>1, NamesAssumption DEF Start, Admissible, host, command, history, site, from
<1>2. CASE Create
  BY <1>2, NamesAssumption DEF Create, host, command, history, site, from
<1>3. CASE Delete
  BY <1>3, NamesAssumption
     DEF Delete, AfterDelete, Dropping, host, command, history, site, from
<1>4. CASE DeleteFails
  BY <1>4, NamesAssumption
     DEF DeleteFails, Outside, host, command, history, site, from
<1>5. CASE dropSiteDB
  BY <1>5, NamesAssumption
     DEF dropSiteDB, AfterDrop, host, command, history, site, from
<1>6. CASE DropFails
  BY <1>6, NamesAssumption
     DEF DropFails, AfterDrop, Outside, host, command, history, site, from
<1>7. CASE CopyFiles
  BY <1>7, NamesAssumption
     DEF CopyFiles, CopiedConf, BrokenConf, host, command, history, site, from
<1>8. ASSUME NEW p \in 1 .. MaxPass, CreateDB(p) PROVE Untouched(n)
  BY <1>8, NamesAssumption
     DEF CreateDB, CanCreateDB, CreateDatabase, CreateUser, host, command, history,
         site, from
<1>9. CASE Import
  BY <1>9, NamesAssumption
     DEF Import, Imported, Dumped, Goto, host, command, history, site, from
<1>10. CASE Configure
  BY <1>10, NamesAssumption
     DEF Configure, Own, Goto, host, command, history, site, from
<1>11. CASE writeWPConfigPassword
  BY <1>11, NamesAssumption
     DEF writeWPConfigPassword, AfterPassword, host, command, history, site, from
<1>12. CASE CoreInstall
  BY <1>12, NamesAssumption
     DEF CoreInstall, Connects, Goto, host, command, history, site, from
<1>13. CASE SearchReplace
  BY <1>13, NamesAssumption
     DEF SearchReplace, Connects, Goto, host, command, history, site, from
<1>14. CASE writeCronFile
  BY <1>14, NamesAssumption DEF writeCronFile, host, command, history, site, from
<1>15. CASE Reconcile
  BY <1>15, NamesAssumption DEF Reconcile, Goto, host, command, history, site, from
<1>16. CASE StepFails
  BY <1>16, PartlyTyped, PartlyOthers, NamesAssumption
     DEF StepFails, Abandon, Outside, host, command, history, site, from, Steps
<1>17. CASE GivesUp
  BY <1>17, NamesAssumption
     DEF GivesUp, Abandon, Impossible, host, command, history, site, from
<1>18. CASE Kill
  BY <1>18, PartlyTyped, PartlyOthers, NamesAssumption
     DEF Kill, Exit, NoCommand, host, command, history, site, from
<1>19. CASE End
  BY <1>19, NamesAssumption
     DEF End, Exit, NoCommand, host, command, history, site, from
<1>20. CASE UNCHANGED vars
  BY <1>20 DEF vars, host, command, history, site, from
<1>21. QED
  BY <1>1, <1>2, <1>3, <1>4, <1>5, <1>6, <1>7, <1>8, <1>9, <1>10, <1>11, <1>12,
     <1>13, <1>14, <1>15, <1>16, <1>17, <1>18, <1>19, <1>20 DEF Next

LEMMA RecordStep == ASSUME IInv, [Next]_vars PROVE RecordInv'
<1> USE DEF IInv, CommandInv, TypeOK, RecordInv, Copying, Creating, Steps, WithDb
<1>1. ASSUME NEW kind \in Kinds, NEW n \in Names, NEW f \in Names \cup {NoName}, NEW t \in Types,
             Start(kind, n, f, t)
      PROVE  RecordInv'
  BY <1>1, NamesAssumption, KindsAssumption
     DEF Start, Admissible, host, command, history, site, from
<1>2. CASE Create
  BY <1>2, NamesAssumption, KindsAssumption
     DEF Create, host, command, history, site, from
<1>3. CASE Delete
  BY <1>3, NamesAssumption, KindsAssumption
     DEF Delete, AfterDelete, Dropping, host, command, history, site, from
<1>4. CASE DeleteFails
  BY <1>4, NamesAssumption, KindsAssumption
     DEF DeleteFails, Outside, host, command, history, site, from
<1>5. CASE dropSiteDB
  BY <1>5, NamesAssumption, KindsAssumption
     DEF dropSiteDB, AfterDrop, host, command, history, site, from
<1>6. CASE DropFails
  BY <1>6, NamesAssumption, KindsAssumption
     DEF DropFails, AfterDrop, Outside, host, command, history, site, from
<1>7. CASE CopyFiles
  BY <1>7, NamesAssumption, KindsAssumption
     DEF CopyFiles, CopiedConf, BrokenConf, host, command, history, site, from
<1>8. ASSUME NEW p \in 1 .. MaxPass, CreateDB(p) PROVE RecordInv'
  BY <1>8, NamesAssumption, KindsAssumption
     DEF CreateDB, CanCreateDB, CreateDatabase, CreateUser, host, command, history,
         site, from
<1>9. CASE Import
  BY <1>9, NamesAssumption, KindsAssumption
     DEF Import, Imported, Dumped, Goto, host, command, history, site, from
<1>10. CASE Configure
  BY <1>10, NamesAssumption, KindsAssumption
     DEF Configure, Own, Goto, host, command, history, site, from
<1>11. CASE writeWPConfigPassword
  BY <1>11, NamesAssumption, KindsAssumption
     DEF writeWPConfigPassword, AfterPassword, host, command, history, site, from
<1>12. CASE CoreInstall
  BY <1>12, NamesAssumption, KindsAssumption
     DEF CoreInstall, Connects, Goto, host, command, history, site, from
<1>13. CASE SearchReplace
  BY <1>13, NamesAssumption, KindsAssumption
     DEF SearchReplace, Connects, Goto, host, command, history, site, from
<1>14. CASE writeCronFile
  BY <1>14, NamesAssumption, KindsAssumption
     DEF writeCronFile, host, command, history, site, from
<1>15. CASE Reconcile
  BY <1>15, NamesAssumption, KindsAssumption
     DEF Reconcile, Goto, host, command, history, site, from
<1>16. CASE StepFails
  BY <1>16, NamesAssumption, KindsAssumption, PartlyTyped
     DEF StepFails, Abandon, Outside, host, command, history, site, from
<1>17. CASE GivesUp
  BY <1>17, NamesAssumption, KindsAssumption
     DEF GivesUp, Abandon, Impossible, host, command, history, site, from
<1>18. CASE Kill
  BY <1>18, NamesAssumption, KindsAssumption, PartlyTyped
     DEF Kill, Exit, NoCommand, host, command, history, site, from
<1>19. CASE End
  BY <1>19, NamesAssumption, KindsAssumption
     DEF End, Exit, NoCommand, host, command, history, site, from
<1>20. CASE UNCHANGED vars
  BY <1>20 DEF vars, host, command, history, site, from
<1>21. QED
  BY <1>1, <1>2, <1>3, <1>4, <1>5, <1>6, <1>7, <1>8, <1>9, <1>10, <1>11, <1>12,
     <1>13, <1>14, <1>15, <1>16, <1>17, <1>18, <1>19, <1>20 DEF Next

\* Only at createDB does part of a step make a database user.
LEMMA PartlyUsers ==
  ASSUME IInv, Partly, pc # "idle", NEW n \in Names, reg[n] # "wp"
  PROVE  owner'[n] = owner[n]
<1>1. pc # "createDB" => owner' = owner
  BY DEF Partly, host
<1>2. pc = "createDB" => n # site
  BY DEF IInv, RecordInv, Steps, WithDb, site
<1>3. QED
  BY <1>1, <1>2, PartlyOthers

LEMMA UserStep == ASSUME IInv, [Next]_vars PROVE UserInv'
<1> USE DEF IInv, CommandInv, TypeOK, UserInv, RecordInv, DataInv, Copying, Creating, Steps, WithDb, NoPass
<1>1. ASSUME NEW kind \in Kinds, NEW n \in Names, NEW f \in Names \cup {NoName}, NEW t \in Types,
             Start(kind, n, f, t)
      PROVE  UserInv'
  BY <1>1, NamesAssumption, KindsAssumption
     DEF Start, Admissible, host, command, history, site, from
<1>2. CASE Create
  BY <1>2, NamesAssumption, KindsAssumption
     DEF Create, host, command, history, site, from
<1>3. CASE Delete
  BY <1>3, NamesAssumption, KindsAssumption
     DEF Delete, AfterDelete, Dropping, host, command, history, site, from
<1>4. CASE DeleteFails
  BY <1>4, NamesAssumption, KindsAssumption
     DEF DeleteFails, Outside, host, command, history, site, from
<1>5. CASE dropSiteDB
  BY <1>5, NamesAssumption, KindsAssumption
     DEF dropSiteDB, AfterDrop, host, command, history, site, from
<1>6. CASE DropFails
  BY <1>6, NamesAssumption, KindsAssumption
     DEF DropFails, AfterDrop, Outside, host, command, history, site, from
<1>7. CASE CopyFiles
  BY <1>7, NamesAssumption, KindsAssumption
     DEF CopyFiles, CopiedConf, BrokenConf, host, command, history, site, from
<1>8. ASSUME NEW p \in 1 .. MaxPass, CreateDB(p) PROVE UserInv'
  BY <1>8, NamesAssumption, KindsAssumption
     DEF CreateDB, CanCreateDB, CreateDatabase, CreateUser, host, command, history,
         site, from
<1>9. CASE Import
  BY <1>9, NamesAssumption, KindsAssumption
     DEF Import, Imported, Dumped, Goto, host, command, history, site, from
<1>10. CASE Configure
  BY <1>10, NamesAssumption, KindsAssumption
     DEF Configure, Own, Goto, host, command, history, site, from
<1>11. CASE writeWPConfigPassword
  BY <1>11, NamesAssumption, KindsAssumption
     DEF writeWPConfigPassword, AfterPassword, host, command, history, site, from
<1>12. CASE CoreInstall
  BY <1>12, NamesAssumption, KindsAssumption
     DEF CoreInstall, Connects, Goto, host, command, history, site, from
<1>13. CASE SearchReplace
  BY <1>13, NamesAssumption, KindsAssumption
     DEF SearchReplace, Connects, Goto, host, command, history, site, from
<1>14. CASE writeCronFile
  BY <1>14, NamesAssumption, KindsAssumption
     DEF writeCronFile, host, command, history, site, from
<1>15. CASE Reconcile
  BY <1>15, NamesAssumption, KindsAssumption
     DEF Reconcile, Goto, host, command, history, site, from
<1>16. CASE StepFails
  <2>1. UNCHANGED <<reg, left>> /\ (pc' = "cleanup" \/ pc' = "failed") /\ pc \in Steps /\ cmd' = cmd
    BY <1>16, PartlyTyped DEF StepFails, Abandon
  <2>2. ASSUME NEW n \in Names, owner'[n] # NoPass, reg[n] # "wp" PROVE owner[n] # NoPass
    BY <1>16, <2>2, PartlyUsers DEF StepFails
  <2>3. QED
    BY <1>16, <2>1, <2>2 DEF site
<1>17. CASE GivesUp
  BY <1>17, NamesAssumption, KindsAssumption
     DEF GivesUp, Abandon, Impossible, host, command, history, site, from
<1>18. CASE Kill
  <2>1. UNCHANGED reg /\ pc' = "idle" /\ left' = left \cup {site}
    BY <1>18, PartlyTyped DEF Kill, Exit
  <2>2. ASSUME NEW n \in Names, n # site, owner'[n] # NoPass, reg[n] # "wp" PROVE n \in left
    BY <1>18, <2>2, OthersStep DEF Untouched, Next
  <2>3. QED
    BY <2>1, <2>2 DEF site
<1>19. CASE End
  BY <1>19, NamesAssumption, KindsAssumption
     DEF End, Exit, NoCommand, host, command, history, site, from
<1>20. CASE UNCHANGED vars
  BY <1>20 DEF vars, host, command, history, site, from
<1>21. QED
  BY <1>1, <1>2, <1>3, <1>4, <1>5, <1>6, <1>7, <1>8, <1>9, <1>10, <1>11, <1>12,
     <1>13, <1>14, <1>15, <1>16, <1>17, <1>18, <1>19, <1>20 DEF Next

LEMMA ProgressStep == ASSUME IInv, [Next]_vars PROVE ProgressInv'
<1> USE DEF IInv, CommandInv, TypeOK, ConfInv, DataInv, RecordInv, UserInv, ProgressInv, WorkInv, Copying, Creating, Steps, WithDb, Reaches
<1>1. ASSUME NEW kind \in Kinds, NEW n \in Names, NEW f \in Names \cup {NoName}, NEW t \in Types,
             Start(kind, n, f, t)
      PROVE  ProgressInv'
  BY <1>1, NamesAssumption, KindsAssumption
     DEF Start, Admissible, host, command, history, site, from
<1>2. CASE Create
  BY <1>2, NamesAssumption, KindsAssumption
     DEF Create, host, command, history, site, from
<1>3. CASE Delete
  BY <1>3, NamesAssumption, KindsAssumption
     DEF Delete, AfterDelete, Dropping, host, command, history, site, from
<1>4. CASE DeleteFails
  BY <1>4, NamesAssumption, KindsAssumption
     DEF DeleteFails, Outside, host, command, history, site, from
<1>5. CASE dropSiteDB
  BY <1>5, NamesAssumption, KindsAssumption
     DEF dropSiteDB, AfterDrop, host, command, history, site, from
<1>6. CASE DropFails
  BY <1>6, NamesAssumption, KindsAssumption
     DEF DropFails, AfterDrop, Outside, host, command, history, site, from
<1>7. CASE CopyFiles
  <2>1. site \in Names /\ from \in Names /\ cmd' = cmd /\ pc' \in {"createDB", "cron"}
    BY <1>7 DEF CopyFiles, command, site, from
  <2>2. pc' = "cron" => cmd.type # "wp"
    BY <1>7 DEF CopyFiles
  <2>3. from \in broken' /\ cmd.kind = "clone" => site \in broken'
    BY <1>7 DEF CopyFiles
  <2>4. CASE cmd.kind = "clone"
    <3>1. conf'[site] = conf[from]
      BY <1>7, <2>1, <2>4 DEF CopyFiles, CopiedConf, BrokenConf
    <3>2. from \notin broken => conf[from] # NoConf
      BY <1>7, <2>1, <2>4 DEF CopyFiles
    <3>3. QED
      BY <1>7, <2>1, <2>2, <2>3, <2>4, <3>1, <3>2 DEF CopyFiles, site, from
  <2>5. CASE cmd.kind = "restore" /\ cmd.type = "wp"
    <3>1. CASE site \in broken'
      BY <1>7, <2>1, <2>2, <2>5, <3>1 DEF CopyFiles, site, from
    <3>2. CASE site \notin broken'
      <4>1. \E c \in CopiedConf : conf' = [conf EXCEPT ![site] = c]
        BY <1>7, <3>2 DEF CopyFiles
      <4>2. PICK p \in {NoPass, owner[from]} :
                conf'[site] = [db |-> from, user |-> from, pass |-> p]
        BY <2>1, <2>5, <4>1 DEF CopiedConf
      <4>3. conf'[site] \in Conf
        BY <2>1, <4>2, MaxPassAssumption DEF Conf, NoPass
      <4>4. QED
        BY <1>7, <2>1, <2>2, <2>5, <4>3, NoConfAssumption DEF site, from
    <3>3. QED
      BY <3>1, <3>2
  <2>6. CASE cmd.kind = "restore" /\ cmd.type # "wp"
    BY <1>7, <2>1, <2>6 DEF CopyFiles, site, from
  <2>7. QED
    BY <1>7, <2>4, <2>5, <2>6, KindsAssumption DEF CopyFiles
<1>8. ASSUME NEW p \in 1 .. MaxPass, CreateDB(p) PROVE ProgressInv'
  BY <1>8, NamesAssumption, KindsAssumption
     DEF CreateDB, CanCreateDB, CreateDatabase, CreateUser, host, command, history,
         site, from
<1>9. CASE Import
  BY <1>9, NamesAssumption, KindsAssumption
     DEF Import, Imported, Dumped, Goto, host, command, history, site, from
<1>10. CASE Configure
  BY <1>10, NamesAssumption, KindsAssumption
     DEF Configure, Own, Goto, host, command, history, site, from
<1>11. CASE writeWPConfigPassword
  <2>1. /\ site \in Names /\ UNCHANGED <<cmd, pass, db, owner, broken>>
        /\ pc' \in {"install", "rewrite", "cron"}
    BY <1>11 DEF writeWPConfigPassword, AfterPassword, command, site
  <2>2. /\ conf'[site] = [conf[site] EXCEPT !.pass = pass]
        /\ owner[site] = pass \/ site \in stale'
    BY <1>11, <2>1 DEF writeWPConfigPassword
  <2>3. /\ conf'[site] \in Conf /\ conf'[site].db = site /\ conf'[site].user = site
        /\ conf'[site].pass = pass
    BY <1>11, <2>1, <2>2, MaxPassAssumption DEF writeWPConfigPassword, Conf
  <2>4. /\ pc' = "rewrite" => db[site] = from \/ site \in broken
        /\ pc' = "cron" => db[site] = site \/ site \in broken
    BY <1>11, <2>1, KindsAssumption DEF writeWPConfigPassword, AfterPassword
  <2>5. pc' = "cron" /\ site \notin broken => Reaches(site)'
    BY <1>11, <2>1, <2>2, <2>3, <2>4, NoConfAssumption
       DEF writeWPConfigPassword, Connects, site
  <2>6. pc' = "rewrite" /\ cmd.kind = "clone" /\ from \in broken => site \in broken
    BY <1>11 DEF writeWPConfigPassword
  <2>7. QED
    BY <2>1, <2>2, <2>3, <2>4, <2>5, <2>6, <1>11 DEF writeWPConfigPassword, site, from
<1>12. CASE CoreInstall
  BY <1>12, NamesAssumption, KindsAssumption
     DEF CoreInstall, Connects, Goto, host, command, history, site, from
<1>13. CASE SearchReplace
  BY <1>13, NamesAssumption, KindsAssumption
     DEF SearchReplace, Connects, Goto, host, command, history, site, from
<1>14. CASE writeCronFile
  BY <1>14, NamesAssumption, KindsAssumption
     DEF writeCronFile, host, command, history, site, from
<1>15. CASE Reconcile
  BY <1>15, NamesAssumption, KindsAssumption
     DEF Reconcile, Goto, host, command, history, site, from
<1>16. CASE StepFails
  BY <1>16, NamesAssumption, KindsAssumption
     DEF StepFails, Abandon, Outside, host, command, history, site, from
<1>17. CASE GivesUp
  BY <1>17, NamesAssumption, KindsAssumption
     DEF GivesUp, Abandon, Impossible, host, command, history, site, from
<1>18. CASE Kill
  BY <1>18, NamesAssumption, KindsAssumption
     DEF Kill, Exit, NoCommand, host, command, history, site, from
<1>19. CASE End
  BY <1>19, NamesAssumption, KindsAssumption
     DEF End, Exit, NoCommand, host, command, history, site, from
<1>20. CASE UNCHANGED vars
  BY <1>20 DEF vars, Connects, host, command, history, site, from
<1>21. QED
  BY <1>1, <1>2, <1>3, <1>4, <1>5, <1>6, <1>7, <1>8, <1>9, <1>10, <1>11, <1>12,
     <1>13, <1>14, <1>15, <1>16, <1>17, <1>18, <1>19, <1>20 DEF Next

\* What WorkInv says of one site.
Kept(n) ==
    n \notin broken /\ reg[n] = "wp" /\ (n = site => pc \in {"delete", "reconcile", "ok", "failed"})
        => Reaches(n) /\ n \in cron

LEMMA KeptOthers ==
  ASSUME IInv, [Next]_vars, NEW n \in Names, n # site
  PROVE  Kept(n)'
<1>1. Untouched(n)
  BY OthersStep
<1>2. Reaches(n) => Reaches(n)'
  BY <1>1 DEF Untouched, Reaches, Connects
<1>3. n \notin broken /\ reg[n] = "wp" => Reaches(n) /\ n \in cron
  BY DEF IInv, WorkInv
<1>4. QED
  BY <1>1, <1>2, <1>3 DEF Untouched, Kept

LEMMA KeptSite ==
  ASSUME IInv, [Next]_vars, NEW n \in Names, n = site
  PROVE  Kept(n)'
<1> USE DEF IInv, CommandInv, TypeOK, RecordInv, ProgressInv, WorkInv, Kept, Copying, Creating, Steps
<1>1. ASSUME NEW kind \in Kinds, NEW m \in Names, NEW f \in Names \cup {NoName}, NEW t \in Types,
             Start(kind, m, f, t)
      PROVE  Kept(n)'
  BY <1>1, NamesAssumption, KindsAssumption
     DEF Start, Admissible, host, command, history, site, from
<1>2. CASE Create
  BY <1>2, NamesAssumption, KindsAssumption
     DEF Create, host, command, history, site, from
<1>3. CASE Delete
  BY <1>3, NamesAssumption, KindsAssumption
     DEF Delete, AfterDelete, Dropping, host, command, history, site, from
<1>4. CASE DeleteFails
  BY <1>4, NamesAssumption, KindsAssumption
     DEF DeleteFails, Outside, host, command, history, site, from
<1>5. CASE dropSiteDB
  BY <1>5, NamesAssumption, KindsAssumption
     DEF dropSiteDB, AfterDrop, host, command, history, site, from
<1>6. CASE DropFails
  BY <1>6, NamesAssumption, KindsAssumption
     DEF DropFails, AfterDrop, Outside, host, command, history, site, from
<1>7. CASE CopyFiles
  BY <1>7, NamesAssumption, KindsAssumption
     DEF CopyFiles, CopiedConf, BrokenConf, host, command, history, site, from
<1>8. ASSUME NEW p \in 1 .. MaxPass, CreateDB(p) PROVE Kept(n)'
  BY <1>8, NamesAssumption, KindsAssumption
     DEF CreateDB, CanCreateDB, CreateDatabase, CreateUser, host, command, history,
         site, from
<1>9. CASE Import
  BY <1>9, NamesAssumption, KindsAssumption
     DEF Import, Imported, Dumped, Goto, host, command, history, site, from
<1>10. CASE Configure
  BY <1>10, NamesAssumption, KindsAssumption
     DEF Configure, Own, Goto, host, command, history, site, from
<1>11. CASE writeWPConfigPassword
  BY <1>11, NamesAssumption, KindsAssumption
     DEF writeWPConfigPassword, AfterPassword, host, command, history, site, from
<1>12. CASE CoreInstall
  BY <1>12, NamesAssumption, KindsAssumption
     DEF CoreInstall, Connects, Goto, host, command, history, site, from
<1>13. CASE SearchReplace
  BY <1>13, NamesAssumption, KindsAssumption
     DEF SearchReplace, Connects, Goto, host, command, history, site, from
<1>14. CASE writeCronFile
  BY <1>14, KindsAssumption
     DEF writeCronFile, command, history, Reaches, Connects, site
<1>15. CASE Reconcile
  BY <1>15 DEF Reconcile, Goto, host, command, history, Reaches, Connects, site
<1>16. CASE StepFails
  <2>1. CASE pc = "reconcile"
    <3>1. UNCHANGED host
      BY <1>16, <2>1 DEF StepFails, Partly
    <3>2. QED
      BY <1>16, <2>1, <3>1 DEF StepFails, host, Reaches, Connects, site
  <2>2. CASE pc = "register"
    BY <1>16, <2>2, PartlyTyped DEF StepFails, site
  <2>3. CASE pc \in Steps \ {"register", "reconcile"}
    BY <1>16, <2>3 DEF StepFails, Abandon, site
  <2>4. QED
    BY <1>16, <2>1, <2>2, <2>3 DEF StepFails
<1>17. CASE GivesUp
  BY <1>17, NamesAssumption, KindsAssumption
     DEF GivesUp, Abandon, Impossible, host, command, history, site, from
<1>18. CASE Kill
  BY <1>18 DEF Kill, site
<1>19. CASE End
  BY <1>19 DEF End, Exit, host, history, Reaches, Connects, site
<1>20. CASE UNCHANGED vars
  BY <1>20 DEF vars, host, command, history, Reaches, Connects, site
<1>21. QED
  BY <1>1, <1>2, <1>3, <1>4, <1>5, <1>6, <1>7, <1>8, <1>9, <1>10, <1>11, <1>12,
     <1>13, <1>14, <1>15, <1>16, <1>17, <1>18, <1>19, <1>20 DEF Next

LEMMA WorkStep == ASSUME IInv, [Next]_vars PROVE WorkInv'
<1>1. ASSUME NEW n \in Names PROVE Kept(n)'
  BY KeptOthers, KeptSite
<1>2. QED
  BY <1>1 DEF Kept, WorkInv

LEMMA InitIInv == ASSUME Init PROVE IInv
<1> USE NamesAssumption, TypesAssumption, MaxPassAssumption DEF Init, NoCommand, site, from
<1>1. TypeOK
  <2>1. fault \in BOOLEAN /\ (cmd.site = NoName) = (pc = "idle")
    OBVIOUS
  <2>2. pass \in NoPass .. MaxPass /\ owner \in [Names -> NoPass .. MaxPass]
    BY DEF NoPass
  <2>3. QED
    BY <2>1, <2>2 DEF TypeOK
<1>2. CommandInv /\ ConfInv /\ DataInv /\ RecordInv /\ ProgressInv /\ WorkInv
  BY DEF CommandInv, ConfInv, DataInv, RecordInv, ProgressInv, WorkInv, WithDb, Steps
<1>3. UserInv
  BY DEF UserInv, WithDb
<1>4. QED
  BY <1>1, <1>2, <1>3 DEF IInv

LEMMA Inductive == Spec => []IInv
<1>1. IInv /\ [Next]_vars => IInv'
  BY CommandStep, TypeStep, ConfStep, DataStep, RecordStep, UserStep, ProgressStep,
     WorkStep
     DEF IInv
<1>2. QED
  BY InitIInv, <1>1, PTL DEF Spec

-----------------------------------------------------------------------------
(* The theorems.                                                           *)

\* The registry, the databases, their users and the wp-config.php keep their types
\* through every command of app/site.go and app/backup.go.
THEOREM TypeCorrect == Spec => []TypeOK
<1>1. IInv => TypeOK
  BY DEF IInv
<1>2. QED
  BY Inductive, <1>1, PTL

\* Whatever calls of earlier commands failed and wherever gow was killed, a WordPress
\* site whose own last command was not cut off has its database, the user and the
\* password its wp-config.php names, and its cron file (installWordPress, the second
\* half of Clone and Restore).
THEOREM SitesReach == Spec => []SitesWork
<1>1. IInv => SitesWork
  <2>1. SUFFICES ASSUME IInv, pc = "idle", NEW n \in Names \ broken, reg[n] = "wp"
                 PROVE  Reaches(n) /\ n \in cron
    BY DEF SitesWork
  <2>2. n # site
    BY <2>1, NamesAssumption DEF IInv, TypeOK, site
  <2>3. QED
    BY <2>1, <2>2 DEF IInv, WorkInv
<1>2. QED
  BY Inductive, <1>1, PTL

\* No step of a command for one site changes the database, its user or the
\* wp-config.php of another: search-replace of a clone and core install run in the
\* database wp-config.php names, which is the new site's own by then (Clone,
\* installWordPress).
THEOREM Untouching == Spec => OthersUntouched
<1> DEFINE A == \A n \in Names : <<db[n], owner[n], conf[n]>>' # <<db[n], owner[n], conf[n]>> => n = site
<1>1. IInv /\ [Next]_vars => A
  BY OthersStep DEF Untouched
<1>2. IInv /\ [Next]_vars => [A]_vars
  BY <1>1
<1>3. QED
  BY Inductive, <1>2, PTL DEF Spec, OthersUntouched

\* Part of a step takes no database and no user away.
LEMMA PartlyKeeps ==
  ASSUME IInv, Partly, pc # "idle", NEW n \in Names
  PROVE  /\ db[n] # NoDb => db'[n] # NoDb
         /\ owner[n] # NoPass => owner'[n] # NoPass
<1> USE NamesAssumption DEF IInv, TypeOK, CommandInv, ConfInv, DataInv, Copying
<1>1. site \in Names
  BY DEF site
<1>2. CASE UNCHANGED <<db, owner>>
  BY <1>2
<1>3. CASE /\ db' = CreateDatabase
           /\ \E p \in 1 .. MaxPass : owner' \in {owner, CreateUser(p)}
  BY <1>1, <1>3, MaxPassAssumption DEF CreateDatabase, CreateUser, NoPass
<1>4. CASE pc = "import" /\ db' \in Imported /\ owner' = owner
  BY <1>1, <1>4 DEF Imported, Dumped, from
<1>5. CASE /\ pc \in {"install", "rewrite"} /\ owner' = owner
           /\ db' = [db EXCEPT ![conf[site].db] = site]
  BY <1>1, <1>5
<1>6. QED
  BY <1>2, <1>3, <1>4, <1>5 DEF Partly, host

\* A step that drops the database or the user of n.
Lost(n) ==
    (db[n] # NoDb /\ db'[n] = NoDb) \/ (owner[n] # NoPass /\ owner'[n] = NoPass)

LEMMA DataStays ==
  ASSUME IInv, [Next]_vars, NEW n \in Names, n = site, pc # "drop"
  PROVE  ~Lost(n)
<1> USE DEF Lost, IInv, CommandInv, TypeOK, ConfInv, DataInv, Copying, NoPass
<1>1. ASSUME NEW kind \in Kinds, NEW m \in Names, NEW f \in Names \cup {NoName}, NEW t \in Types,
             Start(kind, m, f, t)
      PROVE  ~Lost(n)
  BY <1>1, NamesAssumption DEF Start, Admissible, host, command, history, site, from
<1>2. CASE Create
  BY <1>2, NamesAssumption DEF Create, host, command, history, site, from
<1>3. CASE Delete
  BY <1>3, NamesAssumption
     DEF Delete, AfterDelete, Dropping, host, command, history, site, from
<1>4. CASE DeleteFails
  BY <1>4, NamesAssumption
     DEF DeleteFails, Outside, host, command, history, site, from
<1>5. CASE dropSiteDB
  BY <1>5, NamesAssumption
     DEF dropSiteDB, AfterDrop, host, command, history, site, from
<1>6. CASE DropFails
  BY <1>6, NamesAssumption
     DEF DropFails, AfterDrop, Outside, host, command, history, site, from
<1>7. CASE CopyFiles
  BY <1>7, NamesAssumption
     DEF CopyFiles, CopiedConf, BrokenConf, host, command, history, site, from
<1>8. ASSUME NEW p \in 1 .. MaxPass, CreateDB(p) PROVE ~Lost(n)
  BY <1>8, NamesAssumption, MaxPassAssumption
     DEF CreateDB, CanCreateDB, CreateDatabase, CreateUser, host, command, history,
         site, from
<1>9. CASE Import
  BY <1>9, NamesAssumption
     DEF Import, Imported, Dumped, Goto, host, command, history, site, from
<1>10. CASE Configure
  BY <1>10, NamesAssumption
     DEF Configure, Own, Goto, host, command, history, site, from
<1>11. CASE writeWPConfigPassword
  BY <1>11, NamesAssumption
     DEF writeWPConfigPassword, AfterPassword, host, command, history, site, from
<1>12. CASE CoreInstall
  BY <1>12, NamesAssumption
     DEF CoreInstall, Connects, Goto, host, command, history, site, from
<1>13. CASE SearchReplace
  BY <1>13, NamesAssumption
     DEF SearchReplace, Connects, Goto, host, command, history, site, from
<1>14. CASE writeCronFile
  BY <1>14, NamesAssumption DEF writeCronFile, host, command, history, site, from
<1>15. CASE Reconcile
  BY <1>15, NamesAssumption DEF Reconcile, Goto, host, command, history, site, from
<1>16. CASE StepFails
  BY <1>16, NamesAssumption, PartlyKeeps
     DEF StepFails, Abandon, Outside, host, command, history, site, from, Steps
<1>17. CASE GivesUp
  BY <1>17, NamesAssumption
     DEF GivesUp, Abandon, Impossible, host, command, history, site, from
<1>18. CASE Kill
  BY <1>18, NamesAssumption, PartlyKeeps
     DEF Kill, Exit, NoCommand, host, command, history, site, from
<1>19. CASE End
  BY <1>19, NamesAssumption
     DEF End, Exit, NoCommand, host, command, history, site, from
<1>20. CASE UNCHANGED vars
  BY <1>20 DEF vars, host, command, history, site, from
<1>21. QED
  BY <1>1, <1>2, <1>3, <1>4, <1>5, <1>6, <1>7, <1>8, <1>9, <1>10, <1>11, <1>12,
     <1>13, <1>14, <1>15, <1>16, <1>17, <1>18, <1>19, <1>20 DEF Next

\* dropSiteDB runs when Manager.Delete has saved the registry without the site, or for
\* a site that RunCreate could not finish: RunDelete that fails keeps the data.
THEOREM DataOutlives == Spec => DataOutlivesSite
<1> DEFINE A == \A n \in Names : (db[n] # NoDb /\ db'[n] = NoDb) \/ (owner[n] # NoPass /\ owner'[n] = NoPass)
                    => reg[n] = "none" \/ cmd.kind \in Creating
<1>1. ASSUME IInv, [Next]_vars, NEW n \in Names
      PROVE  (db[n] # NoDb /\ db'[n] = NoDb) \/ (owner[n] # NoPass /\ owner'[n] = NoPass)
                 => reg[n] = "none" \/ cmd.kind \in Creating
  <2>1. CASE n # site
    BY <1>1, <2>1, OthersStep DEF Untouched
  <2>2. CASE n = site /\ pc = "drop"
    BY <2>2, <1>1 DEF IInv, DataInv
  <2>3. CASE n = site /\ pc # "drop"
    BY <2>3, <1>1, DataStays DEF Lost
  <2>4. QED
    BY <2>1, <2>2, <2>3
<1>2. IInv /\ [Next]_vars => [A]_vars
  BY <1>1
<1>3. QED
  BY Inductive, <1>2, PTL DEF Spec, DataOutlivesSite

\* What a command finds stands in its way only if its name cannot be quoted, the files it
\* copied are those of a site that was cut off, or nobody looked after the user of an earlier
\* site of that name.
LEMMA Obstacles ==
  ASSUME IInv, Impossible
  PROVE  site \notin quotable \/ site \in broken \/ site \in left
<1>1. CASE pc = "createDB" /\ ~CanCreateDB
  <2>1. SUFFICES ASSUME site \in quotable, site \notin broken PROVE FALSE
    BY DEF site, from
  <2>2. cmd.kind = "clone" /\ db[from] = NoDb
    BY <1>1, <2>1 DEF CanCreateDB
  <2>3. from \in Names /\ from # site /\ reg[from] = "wp"
    BY <1>1, <2>2 DEF IInv, CommandInv, RecordInv, Copying, from
  <2>4. Reaches(from)
    <3>1. from \notin broken
      BY <1>1, <2>1, <2>2 DEF IInv, ProgressInv
    <3>2. QED
      BY <2>3, <3>1 DEF IInv, WorkInv
  <2>5. QED
    BY <2>2, <2>3, <2>4, NamesAssumption DEF Reaches
<1>2. CASE pc = "config" /\ cmd.kind \notin Creating /\ conf[site] = NoConf
  <2>1. cmd.kind \in Copying
    BY <1>2, KindsAssumption
       DEF IInv, CommandInv, Creating, Copying, Steps
  <2>2. QED
    BY <1>2, <2>1 DEF IInv, ProgressInv
<1>3. CASE pc \in {"install", "rewrite"} /\ ~Connects(conf[site])
  <2>1. /\ conf[site] # NoConf /\ conf[site].db = site /\ conf[site].user = site
        /\ conf[site].pass = pass
    BY <1>3, NoConfAssumption DEF IInv, ConfInv, ProgressInv
  <2>2. /\ db[site] # NoDb /\ owner[site] # NoPass
        /\ owner[site] = pass \/ site \in left
    BY <1>3 DEF IInv, UserInv, WithDb
  <2>3. QED
    BY <1>3, <2>1, <2>2 DEF Connects
<1>4. QED
  BY <1>1, <1>2, <1>3 DEF Impossible

\* The steps at which a command gives up.
LEMMA PcSteps ==
  ASSUME Next, pc' \in {"cleanup", "failed"}, pc \in Steps
  PROVE  StepFails \/ GivesUp
<1> USE DEF Steps, Creating
<1>1. ASSUME NEW kind \in Kinds, NEW n \in Names, NEW f \in Names \cup {NoName}, NEW t \in Types,
             Start(kind, n, f, t)
      PROVE  StepFails \/ GivesUp
  BY <1>1 DEF Start, Admissible, host, command, history, site, from
<1>2. CASE Create
  BY <1>2 DEF Create, host, command, history, site, from
<1>3. CASE Delete
  BY <1>3 DEF Delete, AfterDelete, Dropping, host, command, history, site, from
<1>4. CASE DeleteFails
  BY <1>4 DEF DeleteFails, Outside, host, command, history, site, from
<1>5. CASE dropSiteDB
  BY <1>5 DEF dropSiteDB, AfterDrop, host, command, history, site, from
<1>6. CASE DropFails
  BY <1>6 DEF DropFails, AfterDrop, Outside, host, command, history, site, from
<1>7. CASE CopyFiles
  BY <1>7 DEF CopyFiles, CopiedConf, BrokenConf, host, command, history, site, from
<1>8. ASSUME NEW p \in 1 .. MaxPass, CreateDB(p) PROVE StepFails \/ GivesUp
  BY <1>8
     DEF CreateDB, CanCreateDB, CreateDatabase, CreateUser, host, command, history,
         site, from
<1>9. CASE Import
  BY <1>9 DEF Import, Imported, Dumped, Goto, host, command, history, site, from
<1>10. CASE Configure
  BY <1>10 DEF Configure, Own, Goto, host, command, history, site, from
<1>11. CASE writeWPConfigPassword
  BY <1>11
     DEF writeWPConfigPassword, AfterPassword, host, command, history, site, from
<1>12. CASE CoreInstall
  BY <1>12 DEF CoreInstall, Connects, Goto, host, command, history, site, from
<1>13. CASE SearchReplace
  BY <1>13 DEF SearchReplace, Connects, Goto, host, command, history, site, from
<1>14. CASE writeCronFile
  BY <1>14 DEF writeCronFile, host, command, history, site, from
<1>15. CASE Reconcile
  BY <1>15 DEF Reconcile, Goto, host, command, history, site, from
<1>16. CASE StepFails
  BY <1>16 DEF StepFails, Abandon, Outside, host, command, history, site, from
<1>17. CASE GivesUp
  BY <1>17 DEF GivesUp, Abandon, Impossible, host, command, history, site, from
<1>18. CASE Kill
  BY <1>18 DEF Kill, Exit, NoCommand, host, command, history, site, from
<1>19. CASE End
  BY <1>19 DEF End, Exit, NoCommand, host, command, history, site, from
<1>20. QED
  BY <1>1, <1>2, <1>3, <1>4, <1>5, <1>6, <1>7, <1>8, <1>9, <1>10, <1>11, <1>12,
     <1>13, <1>14, <1>15, <1>16, <1>17, <1>18, <1>19 DEF Next

\* RunCreate, Clone and Restore clean up on any error, after which the same command
\* can be run again: they give up only because a call of their own failed or because
\* of one of the obstacles.
THEOREM FaultOnly == Spec => FailsOnlyByFault
<1> DEFINE A == pc' \in {"cleanup", "failed"} /\ pc \in Steps
                    => fault' \/ site \notin quotable \/ site \in broken \/ site \in left
<1>1. ASSUME IInv, Next, pc' \in {"cleanup", "failed"}, pc \in Steps
      PROVE  StepFails \/ GivesUp
  BY <1>1, PcSteps
<1>2. StepFails => fault'
  BY DEF StepFails, Outside
<1>3. IInv /\ [Next]_vars => [A]_vars
  BY <1>1, <1>2, Obstacles DEF GivesUp
<1>4. QED
  BY Inductive, <1>3, PTL DEF Spec, FailsOnlyByFault

=============================================================================
