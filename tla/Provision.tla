----------------------------- MODULE Provision -----------------------------
(***************************************************************************)
(* The databases of WordPress sites and the credentials by which the sites *)
(* reach them (app/wordpress.go, internal/dbsql, the second halves of      *)
(* site/clone.go and site/restore.go, and the drivers of app/site.go and   *)
(* app/backup.go around them): create, create --force, delete, clone and   *)
(* restore, one external call after the other.  Any call may fail, which   *)
(* starts the clean-up its driver has, and gow may be killed at any step.  *)
(* Commands hold the state lock, so that one runs at a time (StateStore);  *)
(* what Create and Delete do to the web server is SiteManager's subject:   *)
(* here they happen or fail as a whole.                                    *)
(*                                                                         *)
(* MariaDB and wp-cli are external: CREATE ... IF NOT EXISTS leaves alone  *)
(* what there is, the password of a user too; core install and             *)
(* search-replace need a connection, config create and config set none.    *)
(***************************************************************************)
EXTENDS Integers, FiniteSets

CONSTANTS
    Names,      \* domains
    Types,      \* site types in use, of "html" and "wp"
    Kinds,      \* the commands an operator runs
    MaxPass,    \* bound on the passwords told apart
    CanFail,    \* TRUE: calls may fail
    CanKill,    \* TRUE: gow may be killed between two steps
    NoDb, Bare, \* no database; one without the tables of a site
    NoConf,     \* no wp-config.php
    NoName

ASSUME NamesAssumption == NoName \notin Names /\ {NoDb, Bare} \cap Names = {} /\ NoDb # Bare
ASSUME TypesAssumption == Types \subseteq {"html", "wp"}
ASSUME KindsAssumption == Kinds \subseteq {"create", "force", "delete", "clone", "restore"}
ASSUME MaxPassAssumption == MaxPass \in Nat \ {0}

VARIABLES
    quotable,   \* domains whose database name QuoteIdent accepts: those without a hyphen
    reg,        \* the saved registry: the type of each site, or "none"
    db,         \* the database of each domain: the domain its tables speak of
    owner,      \* the password of the database user of each domain, or NoPass
    conf,       \* the wp-config.php in each domain's directory
    cron,       \* domains with a file gow-<domain> in /etc/cron.d
    pc, cmd, pass,  \* the next step of the running command, what it was asked, its password
    fault,      \* history: a call of the command failed
    broken,     \* history: sites a command was cut off in, or copied from one or its archive
    stale,      \* history: sites that were given a password their user does not have
    left        \* history: domains whose database user no command looked after

host == <<quotable, reg, db, owner, conf, cron>>
command == <<cmd, pass, fault>>
history == <<broken, stale, left>>
vars == <<host, pc, command, history>>

NoPass == 0
Conf == [db : Names, user : Names, pass : NoPass .. MaxPass]
ASSUME NoConfAssumption == NoConf \notin Conf

Creating == {"create", "force"}
NoCommand == [kind |-> "none", site |-> NoName, from |-> NoName, type |-> "none"]

site == cmd.site
from == cmd.from   \* the site that is cloned, or whose archive is restored

Init ==
    /\ quotable \in SUBSET Names
    /\ reg = [n \in Names |-> "none"] /\ db = [n \in Names |-> NoDb]
    /\ owner = [n \in Names |-> NoPass] /\ conf = [n \in Names |-> NoConf]
    /\ cron = {}
    /\ pc = "idle" /\ cmd = NoCommand /\ pass = NoPass /\ fault = FALSE
    /\ broken = {} /\ stale = {} /\ left = {}

\* DB_NAME and DB_USER of a site are the same word (DBName).
Connects(c) ==
    /\ c # NoConf /\ c.db = c.user
    /\ owner[c.user] # NoPass /\ owner[c.user] = c.pass
    /\ db[c.db] # NoDb

\* dbsql.Password returns one that nobody uses: the first of the free numbers.
Used(p) == \E n \in Names : owner[n] = p \/ (conf[n] # NoConf /\ conf[n].pass = p)
Fresh(p) == ~Used(p) /\ \A q \in 1 .. p - 1 : Used(q)

Goto(at, to) == pc = at /\ pc' = to

-----------------------------------------------------------------------------
(* A command begins and ends.                                              *)

\* RunCreate refuses a known site without --force, Clone any source but a WordPress
\* site, Clone and Restore a known destination, RunDelete an unknown site.
Admissible(kind, n, f, t) ==
    CASE kind = "create"  -> reg[n] = "none" /\ f = NoName /\ t \in Types
      [] kind = "force"   -> f = NoName /\ t \in Types
      [] kind = "delete"  -> reg[n] # "none" /\ f = NoName /\ t = reg[n]
      [] kind = "clone"   -> reg[n] = "none" /\ f \in Names /\ reg[f] = "wp" /\ t = "wp"
      [] kind = "restore" -> reg[n] = "none" /\ f \in Names /\ t \in Types

Start(kind, n, f, t) ==
    /\ pc = "idle" /\ kind \in Kinds /\ Admissible(kind, n, f, t)
    /\ cmd' = [kind |-> kind, site |-> n, from |-> f, type |-> t]
    /\ pc' = IF reg[n] # "none" THEN "delete" ELSE "register"
    /\ UNCHANGED <<host, pass, fault, history>>

Exit ==
    /\ pc' = "idle" /\ cmd' = NoCommand /\ pass' = NoPass /\ fault' = FALSE

End == pc \in {"ok", "failed"} /\ Exit /\ UNCHANGED <<host, history>>

\* A step that cannot be done.  A site that was already saved is deleted again.
Abandon ==
    pc' = CASE pc \in {"register", "reconcile"} -> "failed"
            [] pc = "cron" /\ cmd.kind \notin Creating -> "failed"
            [] OTHER -> "cleanup"

Outside == CanFail /\ fault' = TRUE

-----------------------------------------------------------------------------
(* Manager.Create and Manager.Delete.                                      *)

\* Mutant: the type is not recorded, as before the field existed.
CreateUntyped ==
    /\ pc = "register"
    /\ pc' = IF cmd.type = "wp" THEN "createDB" ELSE "ok"
    /\ reg' = [reg EXCEPT ![site] = ""]
    /\ UNCHANGED <<quotable, db, owner, conf, cron, command, history>>

Create ==
    /\ pc = "register"
    /\ pc' = IF cmd.kind \notin Creating THEN "copy"
             ELSE IF cmd.type = "wp" THEN "createDB" ELSE "ok"
    /\ reg' = [reg EXCEPT ![site] = cmd.type]
    /\ broken' = broken \ {site}
    /\ UNCHANGED <<quotable, db, owner, conf, cron, command, stale, left>>

\* The next step after the deletion of the site: what create --force deletes is
\* replaced, and no database is looked after; a failed clone or restore has none
\* dropped either.
Dropping == (cmd.kind = "delete" /\ cmd.type = "wp") \/ cmd.kind \in Creating

AfterDelete(at) ==
    IF at = "delete" /\ cmd.kind = "force" THEN "register"
    ELSE IF Dropping THEN "drop"
    ELSE IF cmd.kind = "delete" THEN "ok" ELSE "failed"

\* Mutant: RunDelete drops the database before it deletes the site.
DeleteLate ==
    /\ pc = "delete" /\ cmd.kind = "delete"
    /\ db' = [db EXCEPT ![site] = NoDb] /\ owner' = [owner EXCEPT ![site] = NoPass]
    /\ pc' = "cleanup"
    /\ UNCHANGED <<quotable, reg, conf, cron, command, history>>

Delete ==
    /\ pc \in {"delete", "cleanup"} /\ pc' = AfterDelete(pc)
    /\ reg' = [reg EXCEPT ![site] = "none"]
    /\ conf' = [conf EXCEPT ![site] = NoConf]
    /\ broken' = broken \ {site} /\ stale' = stale \ {site}
    /\ left' = IF pc' \in {"register", "failed"} THEN left \cup {site} ELSE left
    /\ UNCHANGED <<quotable, db, owner, cron, command>>

\* It fails before or after the files are gone, with the record saved as it was.
\* RunCreate goes on to the database all the same.
DeleteFails ==
    /\ pc \in {"delete", "cleanup"} /\ Outside
    /\ pc' = IF pc = "cleanup" /\ cmd.kind \in Creating THEN "drop" ELSE "failed"
    /\ conf' \in {conf, [conf EXCEPT ![site] = NoConf]}
    /\ broken' = broken \cup {site}
    /\ UNCHANGED <<quotable, reg, db, owner, cron, cmd, pass, stale, left>>

-----------------------------------------------------------------------------
(* dropSiteDB, whose errors are only warned of.                            *)

AfterDrop == pc' = IF cmd.kind = "delete" THEN "ok" ELSE "failed"

\* Mutant: the database user stays.
DropDbOnly ==
    /\ pc = "drop" /\ AfterDrop /\ site \in quotable
    /\ cron' = cron \ {site} /\ db' = [db EXCEPT ![site] = NoDb]
    /\ UNCHANGED <<quotable, reg, owner, conf, command, history>>

dropSiteDB ==
    /\ pc = "drop" /\ AfterDrop /\ site \in quotable
    /\ cron' = cron \ {site}
    /\ db' = [db EXCEPT ![site] = NoDb] /\ owner' = [owner EXCEPT ![site] = NoPass]
    /\ UNCHANGED <<quotable, reg, conf, command, history>>

\* The cron file stays, or QuoteIdent refuses, or the statements are cut off.
DropFails ==
    /\ pc = "drop" /\ AfterDrop
    /\ \/ Outside /\ UNCHANGED <<cron, db>>
       \/ site \notin quotable /\ cron' = cron \ {site} /\ UNCHANGED <<quotable, db, fault>>
       \/ Outside /\ cron' = cron \ {site} /\ db' \in {db, [db EXCEPT ![site] = NoDb]}
    /\ left' = left \cup {site}
    /\ UNCHANGED <<quotable, reg, owner, conf, cmd, pass, broken, stale>>

-----------------------------------------------------------------------------
(* The files and the database.                                             *)

\* The wp-config.php that comes with the files of another site, or with those of an
\* archive, whose password may still be the user's.
CopiedConf ==
    IF cmd.kind = "clone" THEN {conf[from]}
    ELSE IF cmd.type = "wp"
    THEN {[db |-> from, user |-> from, pass |-> p] : p \in {NoPass, owner[from]}}
    ELSE {NoConf}

\* The archive may be that of a site that was broken when it was made: no
\* wp-config.php, or one with other names in it, and a dump of anything.
BrokenConf ==
    IF cmd.kind = "restore" /\ cmd.type = "wp"
    THEN {NoConf} \cup [db : Names, user : Names, pass : {NoPass}] ELSE {}

CopyFiles ==
    /\ pc = "copy"
    /\ pc' = IF cmd.type = "wp" THEN "createDB" ELSE "cron"
    /\ \/ /\ \E c \in CopiedConf : conf' = [conf EXCEPT ![site] = c]
          /\ broken' = IF cmd.kind = "clone" /\ from \in broken THEN broken \cup {site} ELSE broken
       \/ /\ \E c \in BrokenConf : conf' = [conf EXCEPT ![site] = c]
          /\ broken' = broken \cup {site}
    /\ UNCHANGED <<quotable, reg, db, owner, cron, command, stale, left>>

\* A clone dumps its source first.
CanCreateDB ==
    /\ site \in quotable
    /\ cmd.kind = "clone" => db[from] # NoDb

CreateDatabase == [db EXCEPT ![site] = IF @ = NoDb THEN Bare ELSE @]
CreateUser(p) == [owner EXCEPT ![site] = IF @ = NoPass THEN p ELSE @]

CreateDB(p) ==
    /\ pc = "createDB" /\ Fresh(p) /\ CanCreateDB
    /\ pc' = IF cmd.kind \in Creating THEN "config" ELSE "import"
    /\ pass' = p
    /\ db' = CreateDatabase /\ owner' = CreateUser(p)
    /\ left' = IF owner[site] = NoPass THEN left \ {site} ELSE left
    /\ UNCHANGED <<quotable, reg, conf, cron, cmd, fault, broken, stale>>

\* What the dump holds goes into the database named after the new site.
Dumped ==
    IF cmd.kind = "clone" THEN {db[from]}
    ELSE IF site \in broken THEN Names \cup {Bare} ELSE {from}

Imported == {[db EXCEPT ![site] = d] : d \in Dumped}

\* Mutant: search-replace runs before wp-config.php is changed.
ImportRewriting ==
    /\ Goto("import", IF from # site THEN "rewrite" ELSE "config")
    /\ db' \in Imported
    /\ UNCHANGED <<quotable, reg, owner, conf, cron, command, history>>

Import ==
    /\ Goto("import", "config")
    /\ db' \in Imported
    /\ UNCHANGED <<quotable, reg, owner, conf, cron, command, history>>

-----------------------------------------------------------------------------
(* wp-config.php.                                                          *)

Own == [db |-> site, user |-> site, pass |-> NoPass]

\* wp config create with a placeholder, or wp config set DB_NAME and DB_USER.
Configure ==
    /\ Goto("config", "password")
    /\ IF cmd.kind \in Creating
       THEN conf' = [conf EXCEPT ![site] = Own]
       ELSE conf[site] # NoConf /\ conf' = [conf EXCEPT ![site].db = site, ![site].user = site]
    /\ UNCHANGED <<quotable, reg, db, owner, cron, command, history>>

AfterPassword ==
    IF cmd.kind \in Creating THEN "install"
    ELSE IF from # site THEN "rewrite" ELSE "cron"

\* Mutant: the line with the password is not found, and nobody notices.
KeepPassword ==
    /\ pc = "password" /\ pc' = AfterPassword
    /\ UNCHANGED <<host, command, history>>

writeWPConfigPassword ==
    /\ pc = "password" /\ pc' = AfterPassword
    /\ conf' = [conf EXCEPT ![site].pass = pass]
    /\ stale' = IF owner[site] # pass THEN stale \cup {site} ELSE stale
    /\ UNCHANGED <<quotable, reg, db, owner, cron, command, broken, left>>

-----------------------------------------------------------------------------
(* WordPress itself.                                                       *)

\* core install, with tables of its own prefix, and the look at the admin user.
CoreInstall ==
    /\ Goto("install", "cron") /\ Connects(conf[site])
    /\ db' = [db EXCEPT ![conf[site].db] = site]
    /\ UNCHANGED <<quotable, reg, owner, conf, cron, command, history>>

\* search-replace in all tables of the database wp-config.php names.
SearchReplace ==
    /\ Goto("rewrite", "cron") /\ Connects(conf[site])
    /\ db' = [db EXCEPT ![conf[site].db] = IF @ = from THEN site ELSE @]
    /\ UNCHANGED <<quotable, reg, owner, conf, cron, command, history>>

writeCronFile ==
    /\ pc = "cron" /\ pc' = IF cmd.kind \in Creating THEN "reconcile" ELSE "ok"
    /\ cron' = cron \cup {site}
    /\ UNCHANGED <<quotable, reg, db, owner, conf, command, history>>

Reconcile == Goto("reconcile", "ok") /\ UNCHANGED <<host, command, history>>

-----------------------------------------------------------------------------
(* Steps that fail.                                                        *)

\* For reasons of the call's own.  The files may be copied, the statements of
\* createDB or a half of config done, search-replace half-way, the cron file
\* written and the chown after it not done.
Partly ==
    \/ UNCHANGED host
    \/ /\ pc = "copy" /\ \E c \in CopiedConf \cup BrokenConf : conf' = [conf EXCEPT ![site] = c]
       /\ UNCHANGED <<quotable, reg, db, owner, cron>>
    \/ /\ pc = "createDB" /\ CanCreateDB /\ db' = CreateDatabase
       /\ \E p \in 1 .. MaxPass : Fresh(p) /\ owner' \in {owner, CreateUser(p)}
       /\ UNCHANGED <<quotable, reg, conf, cron>>
    \/ /\ pc = "import" /\ db' \in Imported
       /\ UNCHANGED <<quotable, reg, owner, conf, cron>>
    \/ /\ pc = "config" /\ cmd.kind \notin Creating /\ conf[site] # NoConf
       /\ conf' = [conf EXCEPT ![site].db = site]
       /\ UNCHANGED <<quotable, reg, db, owner, cron>>
    \/ /\ pc \in {"install", "rewrite"} /\ Connects(conf[site])
       /\ db' = [db EXCEPT ![conf[site].db] = site]
       /\ UNCHANGED <<quotable, reg, owner, conf, cron>>
    \/ /\ pc = "cron" /\ cron' = cron \cup {site}
       /\ UNCHANGED <<quotable, reg, db, owner, conf>>

Steps == {"register", "copy", "createDB", "import", "config", "password",
          "install", "rewrite", "cron", "reconcile"}

\* Clone and Restore are committed when the cron file is written.
StepFails ==
    /\ pc \in Steps /\ Abandon /\ Outside /\ Partly
    /\ broken' = IF pc = "cron" /\ pc' = "failed" THEN broken \cup {site} ELSE broken
    /\ UNCHANGED <<cmd, pass, stale, left>>

Kill ==
    /\ CanKill /\ pc \notin {"idle", "ok", "failed"} /\ Exit
    /\ Partly
    /\ broken' = broken \cup {site} /\ left' = left \cup {site}
    /\ UNCHANGED stale

\* Because of what the command finds.
Impossible ==
    \/ pc = "createDB" /\ ~CanCreateDB
    \/ pc = "config" /\ cmd.kind \notin Creating /\ conf[site] = NoConf
    \/ pc \in {"install", "rewrite"} /\ ~Connects(conf[site])

GivesUp == Impossible /\ Abandon /\ UNCHANGED <<host, command, history>>

Next ==
    \/ \E kind \in Kinds, n \in Names, f \in Names \cup {NoName}, t \in Types : Start(kind, n, f, t)
    \/ Create \/ Delete \/ DeleteFails \/ dropSiteDB \/ DropFails
    \/ CopyFiles \/ (\E p \in 1 .. MaxPass : CreateDB(p)) \/ Import
    \/ Configure \/ writeWPConfigPassword
    \/ CoreInstall \/ SearchReplace \/ writeCronFile \/ Reconcile
    \/ StepFails \/ GivesUp \/ Kill \/ End

Spec == Init /\ [][Next]_vars

-----------------------------------------------------------------------------
TypeOK ==
    /\ quotable \subseteq Names
    /\ reg \in [Names -> Types \cup {"none"}]
    /\ db \in [Names -> Names \cup {NoDb, Bare}]
    /\ owner \in [Names -> NoPass .. MaxPass]
    /\ conf \in [Names -> Conf \cup {NoConf}]
    /\ {cron, broken, stale, left} \subseteq SUBSET Names
    /\ pc \in Steps \cup {"idle", "delete", "cleanup", "drop", "ok", "failed"}
    /\ cmd.site \in Names \cup {NoName} /\ cmd.from \in Names \cup {NoName}
    /\ (cmd.site = NoName) = (pc = "idle")
    /\ pass \in NoPass .. MaxPass /\ fault \in BOOLEAN

\* The wp-config.php of n names its own database and, unless it is stale, connects
\* to it; that database speaks of n.
Reaches(n) ==
    /\ conf[n] # NoConf /\ conf[n].db = n /\ conf[n].user = n
    /\ n \in stale \/ Connects(conf[n])
    /\ db[n] = n

\* Whatever failed or was killed before, between commands each WordPress site reaches
\* its own database and has its cron file, which it cannot do without
\* (DISABLE_WP_CRON).  The exceptions are sites whose own last command was cut off,
\* and what was cloned or restored from one.
SitesWork ==
    pc = "idle" => \A n \in Names \ broken : reg[n] = "wp" => Reaches(n) /\ n \in cron

\* No step of a command for one site changes the database, its user or the
\* wp-config.php of another - not even a clone, which starts with the credentials
\* of its source in its own directory (Clone sets DB_NAME and DB_USER before it
\* runs search-replace).
OthersUntouched ==
    [][\A n \in Names : <<db[n], owner[n], conf[n]>>' # <<db[n], owner[n], conf[n]>> => n = site]_vars

\* RunDelete drops a database only when the site has left the saved registry: a
\* Delete that fails keeps the data for the next attempt.
DataOutlivesSite ==
    [][\A n \in Names : (db[n] # NoDb /\ db'[n] = NoDb) \/ (owner[n] # NoPass /\ owner'[n] = NoPass)
          => reg[n] = "none" \/ cmd.kind \in Creating]_vars

\* A failed create that could clean up can be repeated: a command gives up only because
\* a call of its own failed, its name cannot be quoted, the files it copied are those of a
\* site that was cut off, or an earlier command that did not look after it left a
\* database user in its way.
FailsOnlyByFault ==
    [][pc' \in {"cleanup", "failed"} /\ pc \in Steps
          => fault' \/ site \notin quotable \/ site \in broken \/ site \in left]_vars

\* create --force is an "idempotent retry" (README.md:27): for a domain whose database
\* name can be quoted it fails only because a call of its own failed.
ForceRetries == pc = "failed" /\ cmd.kind = "force" /\ site \in quotable => fault

=============================================================================
