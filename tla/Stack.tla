------------------------------- MODULE Stack -------------------------------
(***************************************************************************)
(* `gow stack' (app/stack.go, internal/stack): one command installs,       *)
(* removes, purges, serves or migrates the components it was given, one    *)
(* after the other, and stops at the first error, while site commands come *)
(* and go.  Of the stack commands only purge takes the state lock, which   *)
(* it keeps to its end; at most one stack command runs at a time.          *)
(*                                                                         *)
(* apt, dpkg, systemd and MariaDB are external: purging openlitespeed's    *)
(* dependency lsphp takes openlitespeed along (stack.go:338), the package  *)
(* mariadb-server starts its server, and a shell opens the file it         *)
(* redirects to before it runs the program.  One PHP version is in use.    *)
(***************************************************************************)
EXTENDS Integers

CONSTANTS
    Names,       \* domains
    Types,       \* site types in use, of "html", "php" and "wp"
    Ops,         \* the stack commands an operator runs
    Selections,  \* the components asked for by flags
    NoName

Components == {"ols", "lsphp", "mariadb", "redis", "wpcli", "composer", "certbot"}
Binaries == {"wpcli", "composer"}
Services == {"ols", "mariadb", "redis"}

ASSUME NamesAssumption == NoName \notin Names
ASSUME TypesAssumption == Types \subseteq {"html", "php", "wp"}
ASSUME OpsAssumption ==
    Ops \subseteq {"install", "upgrade", "remove", "purge", "start", "stop", "restart", "reload", "migrate"}
ASSUME SelectionsAssumption == Selections \subseteq SUBSET Components

VARIABLES
    reg,      \* the saved registry: the type of each site, or "none"
    lock,     \* who holds the state lock: "free", "site" or "purge"
    job,      \* the running site command
    pkgs,     \* components dpkg has on record as installed
    files,    \* components with files of theirs on disk
    server,   \* MariaDB runs
    db,       \* domains whose database is in /var/lib/mysql
    dump,     \* /tmp/gow-migration.sql: the databases it holds, or NoDump
    pc, op, chosen, todo,  \* the stack command: its step, what it was asked, what is left
    had,      \* history: what was installed when a purge began
    made,     \* history: the sites whose database was made
    lost      \* history: those whose database was made too late for the dump, or
              \* had its only dump written over

sites == <<reg, lock, job>>
host == <<pkgs, files, server, db, dump>>
command == <<pc, op, chosen, todo, had>>
vars == <<sites, host, command, made, lost>>

NoDump == {NoName}
NoJob == [kind |-> "none", site |-> NoName, type |-> "none", at |-> "none"]

Init ==
    /\ reg = [n \in Names |-> "none"] /\ lock = "free" /\ job = NoJob
    /\ pkgs = {} /\ files = {} /\ server = FALSE /\ db = {} /\ dump = NoDump
    /\ pc = "idle" /\ op = "none" /\ chosen = {} /\ todo = {} /\ had = {}
    /\ made = {} /\ lost = {}

-----------------------------------------------------------------------------
(* Site commands, as far as the stack is concerned.                        *)

\* RunCreate looks for PHP before it takes the lock.
StartCreate(n, t) ==
    /\ job = NoJob /\ reg[n] = "none"
    /\ t = "html" \/ "lsphp" \in files
    /\ job' = [kind |-> "create", site |-> n, type |-> t, at |-> "open"]
    /\ UNCHANGED <<reg, lock, host, command, made, lost>>

StartDelete(n) ==
    /\ job = NoJob /\ reg[n] # "none"
    /\ job' = [kind |-> "delete", site |-> n, type |-> reg[n], at |-> "open"]
    /\ UNCHANGED <<reg, lock, host, command, made, lost>>

OpenStore ==
    /\ job.at = "open" /\ lock = "free"
    /\ lock' = "site" /\ job' = [job EXCEPT !.at = "save"]
    /\ UNCHANGED <<reg, host, command, made, lost>>

\* Mutant: the type is not recorded, as before the field existed.
SaveSiteUntyped ==
    /\ job.at = "save"
    /\ reg' = [reg EXCEPT ![job.site] = IF job.kind = "create" THEN "" ELSE "none"]
    /\ job' = [job EXCEPT !.at = IF job.type = "wp" THEN "db" ELSE "close"]
    /\ made' = made \ {job.site}
    /\ UNCHANGED <<lock, host, command, lost>>

SaveSite ==
    /\ job.at = "save"
    /\ reg' = [reg EXCEPT ![job.site] = IF job.kind = "create" THEN job.type ELSE "none"]
    /\ job' = [job EXCEPT !.at = IF job.type = "wp" THEN "db" ELSE "close"]
    /\ made' = made \ {job.site}
    /\ UNCHANGED <<lock, host, command, lost>>

\* A database made between the dump and the stop of a migration is not in the dump.
CreateSiteDB ==
    /\ job.at = "db" /\ job.kind = "create" /\ server
    /\ job' = [job EXCEPT !.at = "close"]
    /\ db' = db \cup {job.site} /\ made' = made \cup {job.site}
    /\ lost' = IF pc = "stop" THEN lost \cup {job.site} ELSE lost \ {job.site}
    /\ UNCHANGED <<reg, lock, pkgs, files, server, dump, command>>

\* Without a server the site is deleted again.
CreateSiteDBFails ==
    /\ job.at = "db" /\ job.kind = "create"
    /\ job' = [job EXCEPT !.kind = "delete", !.at = "save"]
    /\ UNCHANGED <<reg, lock, host, command, made, lost>>

\* Its errors are only warned of.
dropSiteDB ==
    /\ job.at = "db" /\ job.kind = "delete"
    /\ job' = [job EXCEPT !.at = "close"]
    /\ \/ server /\ db' = db \ {job.site}
       \/ UNCHANGED db
    /\ UNCHANGED <<reg, lock, pkgs, files, server, dump, command, made, lost>>

\* It is done, or killed, or never gets the lock.
EndSite ==
    /\ job # NoJob /\ job' = NoJob
    /\ lock' = IF job.at = "open" THEN lock ELSE "free"
    /\ UNCHANGED <<reg, host, command, made, lost>>

SiteCommand ==
    \/ (\E n \in Names, t \in Types : StartCreate(n, t)) \/ (\E n \in Names : StartDelete(n))
    \/ OpenStore \/ SaveSite \/ CreateSiteDB \/ CreateSiteDBFails \/ dropSiteDB \/ EndSite

-----------------------------------------------------------------------------
(* The components of a command and their order.                            *)

Verify(c) == c \in (IF c \in Binaries \cup {"lsphp"} THEN files ELSE pkgs)

componentDependents(c) ==
    {n \in Names : reg[n] # "none" /\
        \/ c = "ols"
        \/ c \in {"mariadb", "lsphp"} /\ reg[n] # "html"
        \/ c = "redis" /\ reg[n] = "wp"}

\* The components in install order.
Registry ==
    [c \in Components |->
        CASE c = "ols" -> 1 [] c = "lsphp" -> 2 [] c = "mariadb" -> 3 [] c = "redis" -> 4
          [] c = "wpcli" -> 5 [] c = "composer" -> 6 [] c = "certbot" -> 7]

Reversed == op \in {"remove", "purge"}

\* Mutant: lsphp goes first, as the reversed list has it.
PrecedesReversed(c, d) ==
    IF Reversed THEN Registry[d] < Registry[c] ELSE Registry[c] < Registry[d]

\* moveOLSBeforeLSPHP, which puts those two the other way round.
Precedes(c, d) ==
    IF Reversed /\ {c, d} # {"ols", "lsphp"}
    THEN Registry[d] < Registry[c]
    ELSE Registry[c] < Registry[d]

First(c) == \A d \in todo \ {c} : Precedes(c, d)

Goto(at, to) == pc = at /\ pc' = to
Proceed(at, c) == Goto(at, "next") /\ todo' = todo \ {c}

\* The command returns; a purge closes the store.
Return ==
    /\ pc' = "idle" /\ op' = "none" /\ chosen' = {} /\ todo' = {} /\ had' = {}
    /\ lock' = IF lock = "purge" THEN "free" ELSE lock

Start(o, sel) ==
    /\ pc = "idle" /\ o \in Ops
    /\ o = "migrate" => "mariadb" \in sel
    /\ op' = o /\ chosen' = sel /\ todo' = sel
    /\ had' = IF o = "purge" THEN {c \in Components : c \in (IF c \in Binaries THEN files ELSE pkgs)}
              ELSE {}
    /\ pc' = CASE o = "purge" -> "open" [] o = "migrate" -> "dump" [] OTHER -> "next"
    /\ UNCHANGED <<sites, host, made, lost>>

Blocked == \E c \in chosen : componentDependents(c) # {}

\* Mutant: the store is closed as soon as the sites are read.
RunStackPurgeUnlocked ==
    /\ Goto("open", "next") /\ lock = "free" /\ ~Blocked
    /\ UNCHANGED <<sites, host, op, chosen, todo, had, made, lost>>

\* It is refused while sites depend on a component (End).
RunStackPurge ==
    /\ Goto("open", "next") /\ lock = "free" /\ ~Blocked
    /\ lock' = "purge"
    /\ UNCHANGED <<reg, job, host, op, chosen, todo, had, made, lost>>

CommandDone ==
    /\ Goto("next", "ok") /\ todo = {}
    /\ UNCHANGED <<sites, host, op, chosen, todo, had, made, lost>>

\* It is done, is refused, is killed, or a call fails that has had no effect.
End ==
    /\ pc # "idle" /\ Return
    /\ UNCHANGED <<reg, job, host, made, lost>>

-----------------------------------------------------------------------------
(* One component of RunStackOp.                                            *)

\* install does not ask whether lsphp is there, upgrade asks nothing.
Skips(c) ==
    CASE op \in {"remove", "purge"} -> ~Verify(c)
      [] op = "install" -> c # "lsphp" /\ Verify(c)
      [] op \in {"start", "stop", "restart", "reload"} -> c \notin Services \/ ~Verify(c)
      [] OTHER -> FALSE

\* Nothing is done but the configuring of an installed redis.
Skip(c) ==
    /\ Proceed("next", c) /\ Skips(c)
    /\ UNCHANGED <<sites, host, op, chosen, had, made, lost>>

Turn(o, c) == op = o /\ pc = "next" /\ ~Skips(c)

\* apt has nothing to do for a package on record, whether its files are there or not.
Installed(c) ==
    /\ pkgs' = IF c \in Binaries THEN pkgs ELSE pkgs \cup {c}
    /\ files' = IF c = "lsphp" /\ c \in pkgs THEN files ELSE files \cup {c}
    /\ server' = (server \/ c = "mariadb")
    /\ UNCHANGED <<db, dump>>

\* lsphp must then answer to -v.
Install(c) ==
    /\ Turn("install", c) /\ Installed(c) /\ c \in files' /\ Proceed("next", c)
    /\ UNCHANGED <<sites, op, chosen, had, made, lost>>

\* Both remove and purge of lsphp take OLS along.  Configuration stays, and data,
\* but for MariaDB's: purge sets remove_db.
Uninstalled(c) ==
    /\ pkgs' = pkgs \ (IF c = "lsphp" THEN {"ols", "lsphp"} ELSE {c})
    /\ files' = IF c \in Binaries \cup {"lsphp"} THEN files \ {c} ELSE files
    /\ server' = (server /\ c # "mariadb")
    /\ db' = IF op = "purge" /\ c = "mariadb" THEN {} ELSE db

Remove(c) ==
    /\ Turn("remove", c) /\ Proceed("next", c) /\ Uninstalled(c)
    /\ UNCHANGED <<sites, dump, op, chosen, had, made, lost>>

Purge(c) ==
    /\ Turn("purge", c) /\ pc' = "rm" /\ Uninstalled(c)
    /\ UNCHANGED <<sites, dump, op, chosen, todo, had, made, lost>>

\* rm -rf of what the package does not own.  OLS's directory has the PHP binaries
\* in it.
Emptied(c) == files' = files \ (IF c = "ols" THEN {"ols", "lsphp"} ELSE {c})

RemoveDirs(c) ==
    /\ Proceed("rm", c) /\ Emptied(c)
    /\ UNCHANGED <<sites, pkgs, server, db, dump, op, chosen, had, made, lost>>

Serving(c) == \E o \in {"start", "stop", "restart", "reload"} : Turn(o, c)

\* Only whether MariaDB runs is told apart.
Serve(c) ==
    /\ Serving(c) /\ Proceed("next", c)
    /\ server' = IF c = "mariadb" THEN op # "stop" ELSE server
    /\ UNCHANGED <<sites, pkgs, files, db, dump, op, chosen, had, made, lost>>

Upgrade(c) ==
    /\ Turn("upgrade", c) /\ Proceed("next", c)
    /\ UNCHANGED <<sites, host, op, chosen, had, made, lost>>

\* A call for component c fails, its effect done, and the command with it.
CallFails(c) ==
    /\ Return
    /\ \/ Turn("install", c) /\ Installed(c)
       \/ (Turn("remove", c) \/ Turn("purge", c)) /\ Uninstalled(c) /\ UNCHANGED dump
       \/ Serving(c) /\ c = "mariadb" /\ server' = FALSE /\ UNCHANGED <<pkgs, files, db, dump>>
       \/ pc = "rm" /\ Emptied(c) /\ UNCHANGED <<pkgs, server, db, dump>>
    /\ UNCHANGED <<reg, job, made, lost>>

StackOp ==
    \E c \in todo : First(c) /\
        \/ Skip(c) \/ Install(c) \/ Remove(c) \/ Purge(c) \/ RemoveDirs(c)
        \/ Serve(c) \/ Upgrade(c) \/ CallFails(c)

-----------------------------------------------------------------------------
(* MigrateFn of MariaDB.                                                   *)

\* The shell empties the file before mariadb-dump reads its first table.
OnlyInDump == (dump \cap made) \ db

\* Mutant: its exit status is lost in a pipe.
DumpUnchecked ==
    /\ Goto("dump", "stop")
    /\ IF server THEN dump' \in {db, {}} ELSE dump' = {}
    /\ lost' = (lost \ dump') \cup OnlyInDump
    /\ UNCHANGED <<sites, pkgs, files, server, db, op, chosen, todo, had, made>>

Dump ==
    /\ Goto("dump", "stop") /\ server
    /\ dump' = db /\ lost' = (lost \ db) \cup OnlyInDump
    /\ UNCHANGED <<sites, pkgs, files, server, db, op, chosen, todo, had, made>>

DumpFails ==
    /\ pc = "dump" /\ Return
    /\ dump' = {} /\ lost' = lost \cup OnlyInDump
    /\ UNCHANGED <<reg, job, pkgs, files, server, db, made>>

StopServer ==
    /\ Goto("stop", "apt") /\ server' = FALSE
    /\ UNCHANGED <<sites, pkgs, files, db, dump, op, chosen, todo, had, made, lost>>

\* remove_db is set, and a rm -rf follows, whose errors do not count.
OldVersionGone ==
    /\ pkgs' = pkgs \ {"mariadb"} /\ files' = files \ {"mariadb"} /\ db' = {}

PurgeOldVersion ==
    /\ Goto("apt", "repo") /\ OldVersionGone
    /\ UNCHANGED <<sites, server, dump, op, chosen, todo, had, made, lost>>

AddRepo ==
    /\ Goto("repo", "reinstall")
    /\ UNCHANGED <<sites, host, op, chosen, todo, had, made, lost>>

InstallTarget ==
    /\ Goto("reinstall", "import") /\ Installed("mariadb")
    /\ UNCHANGED <<sites, op, chosen, todo, had, made, lost>>

ImportDump ==
    /\ Goto("import", "rmdump") /\ server
    /\ db' = db \cup dump
    /\ UNCHANGED <<sites, pkgs, files, server, dump, op, chosen, todo, had, made, lost>>

RemoveDump ==
    /\ Goto("rmdump", "ok")
    /\ dump' = NoDump
    /\ UNCHANGED <<sites, pkgs, files, server, db, op, chosen, todo, had, made, lost>>

\* A call after the dump fails, its effect done; the import may have got to any table.
MigrateFails ==
    /\ Return
    /\ \/ pc = "stop" /\ server' = FALSE /\ UNCHANGED <<pkgs, files, db>>
       \/ pc = "apt" /\ OldVersionGone /\ UNCHANGED server
       \/ pc = "reinstall" /\ Installed("mariadb")
       \/ pc = "import" /\ (\E part \in SUBSET dump : db' = db \cup part)
          /\ UNCHANGED <<pkgs, files, server>>
    /\ UNCHANGED <<reg, job, dump, made, lost>>

Migrate ==
    \/ Dump \/ DumpFails \/ StopServer \/ PurgeOldVersion \/ AddRepo
    \/ InstallTarget \/ ImportDump \/ RemoveDump \/ MigrateFails

Next ==
    \/ SiteCommand
    \/ (\E o \in Ops, sel \in Selections : Start(o, sel))
    \/ RunStackPurge \/ CommandDone \/ End \/ StackOp \/ Migrate

Spec == Init /\ [][Next]_vars

-----------------------------------------------------------------------------
TypeOK ==
    /\ reg \in [Names -> Types \cup {"none"}]
    /\ lock \in {"free", "site", "purge"}
    /\ job \in [kind: {"none", "create", "delete"}, site: Names \cup {NoName},
               type: Types \cup {"none"}, at: {"none", "open", "save", "db", "close"}]
    /\ {pkgs, files, had, chosen} \subseteq SUBSET Components
    /\ pkgs \cap Binaries = {}
    /\ server \in BOOLEAN
    /\ {db, made, lost} \subseteq SUBSET Names /\ dump \in (SUBSET Names) \cup {NoDump}
    /\ todo \subseteq chosen
    /\ (pc = "idle") = (op = "none")

\* Purge takes neither package nor files from a site that depends on them, not even
\* from one whose creation is under way or waits for the lock when the operator asks
\* (RunStackPurge keeps the store open until RunStackOp returns).  What is not looked
\* at is that apt takes OLS along with lsphp.
PurgeSpares ==
    [][op = "purge" => \A c \in Components :
          c \in (pkgs \ pkgs') \cup (files \ files') /\ ~(c = "ols" /\ First("lsphp"))
              => componentDependents(c) = {}]_vars

\* A purge that reports success leaves neither package nor files of what it was
\* given and found installed (RunStackOp skips what Verify does not know, and apt
\* takes OLS along with lsphp).  lsphp is excepted: see PurgeLeavesNothing.
PurgeCleans ==
    pc = "ok" /\ op = "purge" => ((chosen \cap had) \ {"lsphp"}) \cap (pkgs \cup files) = {}

\* `gow stack purge' purges stack packages and configs (stack.go:147).
PurgeLeavesNothing ==
    pc = "ok" /\ op = "purge" => chosen \cap had \cap (pkgs \cup files) = {}

\* Wherever a migration of MariaDB fails or is killed, every database that somebody
\* counts on is still on the server or in the dump - but for those made too late for
\* the dump and those whose dump a second attempt has written over.
DataKept == made \subseteq db \cup dump \cup lost

=============================================================================
