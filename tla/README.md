# A formal model of gow

gow is a command-line program that runs a web server for many sites: it installs
a stack (OpenLiteSpeed, LSPHP, MariaDB, Redis, ...), and creates, changes, clones,
restores and deletes sites on it. These are TLA+ specifications of the parts of
it where order, failure and concurrency matter, the TLC configurations that check
them on small instances, and TLAPS proofs of what holds for instances of any size.

Run `tlc -config X.cfg M` for the pairs listed under *Runs*, and
`tlapm M.tla` for `StateStore_proofs`, `Allocator_proofs`, `HttpdConf_proofs`,
`Backups_proofs`, `SiteManager_proofs`, `Provision_proofs` and `Stack_proofs`.

## 1. The system

Every gow command is one short-lived, sequential process. There is no daemon. What
commands share is on the host: the registry file, `httpd_config.conf`, the vhost
files, the web root, the system users, the databases, and the OLS process, which
reads its configuration only when it is (re)started.

| component | state | operations | interacts with |
|---|---|---|---|
| state store (`internal/state`) | the registry `sites.json`, an flock on `sites.json.lock`, the copy in memory | Open, Add, Remove, Update, Save, Close | every site command opens it first and closes it last |
| site manager (`internal/site`) | none of its own: the store plus the host | Create, Delete, Update, EnableSSL, Offline, Online, Clone, Restore, Reconcile, Backup | store, allocator, config editor, OLS control, external programs |
| allocator (`internal/allocator`) | none, `Compute` is pure | Compute | called by Reconcile |
| config editor (`internal/ols/conf.go`, `httpd.go`, `ssl.go`) | the text of `httpd_config.conf` | register, unregister, restrain, secure a vhost; the SSL listener and its map | Reconcile, Delete, Update |
| OLS control (`internal/ols/control.go`) | - | GracefulReload | Reconcile |
| command drivers (`internal/app/site.go`, `backup.go`) | cron files | RunCreate (`--force`), RunUpdate, RunDelete, ... | manager, WordPress provisioning, DB clean-up |
| WordPress provisioning (`app/wordpress.go`, `dbsql`) | files, database, DB user, wp-config.php | installWordPress, DBCleanup | RunCreate, RunDelete |
| backups (`site/backup.go`, `app/backup.go`) | archives, schedule in the registry, one cron file | Backup, prune, schedule, unschedule, backup-cron | store, manager |
| server stack (`internal/stack`, `app/stack.go`) | packages, files and services of seven components, the migration's dump | install, upgrade, remove, purge, migrate, start/stop/restart/reload | apt, dpkg, systemd; only purge opens the store, and keeps its lock |
| templates, metrics, hardware detection, CLI | none | rendering, parsing, printing | - |

What is hard here:

* **Commands run concurrently** and are serialised by a lock with a timeout. A
  command edits a private copy of the registry and writes back the whole of it.
* **Any step may fail** (a file, a package tool, certbot, OLS itself), and each
  operation has its own, partial, rollback: Create a stack of undo functions,
  EnableSSL one that only restores the record, Update an inline one, Delete none.
* **The process may be killed** (no signal is handled), and then no rollback runs.
* **OLS may be restarted by others** (`gow stack restart`, certbot's deploy hook,
  logrotate), at a moment when the files on disk are half-way.
* **The configuration is text** and is edited by searching for text.
* **A site's database is another program's state**: four calls make it, a password is
  in two places, and a clone starts with the credentials of its source.
* **A migration of MariaDB deletes the data** it has only a dump of.
* **RAM is divided** by integer arithmetic in a loop with downgrades.

What makes each component correct: the store is a registry with serial atomic
transactions and never destroys what it cannot read; after a successful command
the server serves what the registry says, for every site; customer files are
removed only on request and are never orphaned; a failed command leaves nothing
that a later one cannot put right; the allocation stays within the RAM and is
refused only when it must be; an edit of the configuration for one site leaves the
others alone; a WordPress site that is reported as made reaches its own database and
no command touches another site's; a purge takes nothing a site depends on, and no
migration loses data.

## 2. Modules

| module | models | proofs |
|---|---|---|
| `Registry` | abstract: a set of sites, one transaction at a time on a copy, commit in one step | |
| `StateStore` | `state/lock.go`, `state/store.go` step by step; implements `Registry` | `StateStore_proofs` |
| `Allocator` | `allocator.Compute`, loop by loop | `Allocator_proofs` |
| `HttpdEntries` | abstract: a table of entries and two listeners | |
| `HttpdConf` | `ols/conf.go` and its wrappers; implements `HttpdEntries` for names no other name continues | `HttpdConf_proofs` |
| `Backups` | `site/backup.go`, `app/backup.go`: archives, retention, schedules and their cron file | `Backups_proofs` |
| `SiteManager` | `internal/site` and the drivers in `internal/app`, one step per side effect | `SiteManager_proofs` |
| `Provision` | databases, users, wp-config.php and content through create, `--force`, delete, clone and restore (`app/wordpress.go`, `dbsql`, `site/clone.go`, `site/restore.go`) | `Provision_proofs` |
| `Stack` | `app/stack.go` and `internal/stack`: packages, files, the purge's lock, the migration | `Stack_proofs` |
| `MC*` | instances for TLC | |

**StateStore.** A process goes `idle` → `flock`/`busy` (acquireFileLock's poll) →
`read` → `fresh` → `creating` (Open of a missing or empty file saves at once) or →
`open`, and with every Save → `writing` → `open`. `Close` and `Kill` end it.
`os.WriteFile` is `SaveTruncate` followed by `SaveWrite`, so the file is visibly
empty in between. A write that fails or is killed leaves one of `SaveLeaves`:
nothing (`empty`) or a prefix (`torn`). Sites keep the fields the code of this package looks at (name, type,
cache mode) and one payload. `last` and `base` are history variables; no action
reads them. `Store.mu` is left out: no command shares its store between goroutines.

**SiteManager.** `disk` is the saved registry, `mem` the copy of the running
command; `dirs`, `content`, `users`, `vconf`, `httpd` are what is on the host and
`running` is what OLS loaded last. `pc` names the next side effect, `plan` the
manager operations the driver still has to call (create --force is
delete, create, and WPInstall for WordPress), `undo` the rollback functions pushed
so far. A failing step goes to `undo`; a kill (`Crash`) goes straight to `idle`.
Abstractions, each of which makes less happen than could, and is therefore a limit
of what is shown: a Save and the other file writes are atomic and one command runs
at a time (both are StateStore's subject); certificates are not told apart;
`RemoveAll` removes all or nothing; databases, cron files and the contents of
wp-config.php are left out. Existing records always have a type.
A record's `setup` is what Update changes, PHP version and preset; a custom preset is a preset
of its own. `Compute` is any function from the presets of the PHP sites to their
shares of the RAM in MB, or `NoRoom`, of which only `ComputeAssumption` is known: the shares
fit in `Budget` together, which is Allocator's `BudgetKept`. So a site's share depends on all the
presets, downgrades and the leftover included, and a vhost file holds the share it was rendered
with. That two equal presets get the leftover in the order of the registry is left out: no command
changes that order between its Reconcile and its Save. The one worker of a maintenance page is not
among the shares.

**Allocator.** One action per iteration of each loop, with running sums as arrays
(`weight`, `used`), so that "the sum over the sites" needs no recursion and can be
proved about. `Give` is one iteration of redistributeLeftover's loop in the order
of its stable sort (`Before`); the code's `continue` is a bonus of 0. The budget
(PHPBudget, floating point), the ceiling and the floor are inputs, as the policy
file may set them to anything valid. uint64 is Nat: the largest product is budget
times worker budget, far below 2^64 for any machine.

**HttpdConf.** The file is the sequence of its virtualHost blocks plus the
listeners; `FindBlock` is the first-occurrence search with the brace check.
`Extends[n]` is the set of names that continue where `n` ends.

**Backups.** `disk` holds each site's schedule and retention, `cronFile` says whether
`/etc/cron.d/gow-backups` exists, `archives` is the backup directory. Commands hold
the state lock throughout (StateStore), so one runs at a time; `pc` is its next side
effect, and `due`, `todo`, `failed` are the run of backup-cron. Any step may fail, any
command may be killed, and a tar that is cut off may leave an archive that is not
`whole`. A domain is a number, its place among sorted archive names, and
`Extends[n]` are the domains that continue `n` with a hyphen, whose archives
ListBackups takes for those of `n`; they come after those of `n`, because a time stamp
begins with a digit (continuations that begin with one are left out). The clock moves at
any time, also between the steps of a command, and two archives of one second are one
file; it also moves before each run of backup-cron. create --force, restore and clone
replace the record by one without a schedule and leave the cron file, which then does
nothing. `trusted` is a history variable: false after a schedule that failed to write
the cron file or a delete that failed after removing it, until the next successful
schedule; in that time a saved schedule is indeed not run.

**Provision.** One command at a time (the lock is StateStore's subject) takes the
state from one call to the next: `pc` is the call, `cmd` the command with its site and,
for a clone or restore, the site it comes `from`. `reg` is the registry, `conf` what each
wp-config.php says (whose database and user, which password), `db` the domain the tables of each
database speak of, `owner` the password MariaDB has for each database user, `cron` the
WordPress cron files. The order is the code's: create saves the site before it provisions
it, and deletes it and drops its database when that fails; clone and restore copy the
files, with the other site's wp-config.php, before they make a database, and wp-cli
works on whatever that file names. `Fresh` gives a password that nobody uses. Every call
may fail, with none, some or all of its effect (`Partly`), and gow may be killed at any
step. QuoteIdent takes the `quotable` domains only, any set of them. History variables
keep apart what the code does not promise: `fault` (a call of this command failed),
`broken` (sites a command was cut off in, and clones and restores of one), `left` (database users no command looked after),
`stale` (sites that got a password which their user, found there, does not have). An archive
holds what there was when it was made: the wp-config.php and the tables of a working site, or,
for a site that was broken then, no wp-config.php or one that names any database, and any tables. Two
things are assumed of the external programs: `wp config create` does not try
the placeholder password it is given, and CREATE ... IF NOT EXISTS leaves what exists
as it is. Plugins, settings and caches are part of `CoreInstall`.

**Stack.** One stack command runs beside one site command. `todo` is the set of
components it has still to do and `First` the order (the registry's, reversed with OLS
moved before lsphp for remove and purge). For each component the action is what its
`Fn` does: `Skip`, `Install`, `Remove`, `Purge` then `RemoveDirs`, `Serve`, `Upgrade`;
`CallFails` is a call that fails after its effect, `End` one that fails before it or a
kill, and the release of purge's lock. `pkgs` is what dpkg has on record, `files`
what is on disk: Verify asks one or the other. `Dump` to `RemoveDump` are the eight calls of
MariaDB's MigrateFn. The site commands do as much as matters here: `RunCreate`'s look
for PHP before it opens the store, the lock, the record, the database. One PHP version is
in use; two stack commands at a time (dpkg's own lock excludes most of it) are left
out. `had` (what was installed when a purge began, by package or, for WP-CLI and
Composer, by file), `made` and `lost` are history variables.

## 3. Runs

| cfg | question | result |
|---|---|---|
| `MCStateStore` | 3 processes, 2 names, 2 edits per open store, kills anywhere, writes that leave a prefix: types, exclusion, no lost update, a file that does not parse is left alone, every Open returns, refinement of `Registry` | holds, 81 thousand states |
| `MCStateStoreTorn` | the same when a write may leave nothing: is an update ever lost? | **violated**, see Findings |
| `MCSiteManager` | 2 sites, html and wp, all commands but ssl and update (with or without --isolate), failures anywhere, OLS restarts between commands | holds, 6.2 million |
| `MCSiteManagerCrash` | 2 WordPress sites with certificates, kills after any step, OLS restarts at any moment | holds, 2.7 million |
| `MCSiteManagerEnds` | 2 PHP sites with presets, created, deleted and updated, RAM for no two custom ones, failures anywhere, OLS restarts at any moment: does what a success leaves served fit in the RAM, is what is saved served, does every command end? | holds, 707 thousand |
| `MCAllocator` | 3 sites, every triple of presets (two custom), 8 budgets, 3 ceilings, 2 floors | holds, 321 thousand |
| `MCBackups` | 2 sites, retention 1 or 2, archives at 4 seconds, failures and kills anywhere | holds, 6.8 million |
| `MCHttpdConf` | 3 domains, `foo.co`, `foo.com`, `bar.org`, every sequence of edits | holds, 24 thousand |
| `MCProvision` | 2 domains, quotable or not, every command, calls that fail and kills anywhere | holds, 9.9 million |
| `MCProvisionForce` | nothing fails: does create --force work? | **violated**, see Findings |
| `MCStack` | 2 sites, html and wp, seven stack commands over OLS, PHP, MariaDB and WP-CLI, calls that fail and kills anywhere | holds, 14.3 million |
| `MCStackPurge` | does a purge of everything leave nothing? | **violated** |

**Bounds.** Three processes are one more than a race needs: a third takes the lock
while the second polls. Two names and two edits are enough to add, change and
remove a record next to another one and to save in between (`MaxEdits`). Two sites
are enough for one to be half-way while the other must keep its share; sites never
interact in threes, since every loop of Reconcile treats them alike. Three sites in
the allocator allow two of them to fail while the third does not and a tie in the
sort; the budgets lie on both sides of the values at which one worker more or one
tier less is decided. In `MCSiteManagerEnds` `Tight` is Compute for a budget of 5 units, a worker of
weight 1 (standard) or 3 (custom), at least one each and the leftover for the lighter site: one
standard site may have all five, two have 3 and 2, or 2 next to a custom one's 3, and two custom ones are
refused, so that each create, update and delete changes the share of the other site or is refused. `MaxBlocks` = 3 allows the duplicate block that the prefix
search produces, with another block on either side. Two sites and three seconds after
the first (`MaxTime` = 3) allow three runs of backup-cron with a retention of two, or
backups by hand and broken ones in between, and one schedule that ends while
another stays. Permuting the two site names
changes nothing in SiteManager or Stack, which is why `SYMMETRY` is used for the runs
without liveness.
Provision's two domains are the two ends of a clone or restore, and either may have a
name that cannot be quoted; `MaxPass` = 5 is a password for each user and wp-config.php
and a fresh one. In Stack two sites are enough for one to be
served while the other is being made or waits for the lock; the flags are everything,
PHP alone, and MariaDB with WP-CLI: Redis and certbot go through the same steps as MariaDB
does, without data, Composer through those of WP-CLI, and the proofs are about all seven.

**What the properties say.** `CommittedIsServed`: when a command saves the
registry, OLS already serves every registered site as its new record says, with its
share of RAM among today's sites. `SuccessRepairs`: whatever failures came before, a command
that reports success has put every site right. `SuccessFits`: at that moment the workers of all vhosts OLS serves,
registered or not, fit in the RAM, whichever shares earlier commands left on disk and whenever OLS was
restarted; after the last site's deletion, when OLS is not told, there is nothing to say. `RootsAreRegistered`, `ContentIsRegistered`,
`ContentSurvives`: no directory is left behind by a failed command, no customer's
files are ever orphaned by a kill, and files go only on request, after the vhost
has gone. `SuccessFits` and `RootsAreRegistered` are not claimed under kills: the code
has no rollback there, a killed create leaves its directory and its vhost, and TLC finds both violated.
That the vhosts OLS serves fit in the RAM at *every* moment, `NoOvercommit`, is not claimed at
all: it is violated (finding 8).
`RetentionKept`: an archive goes only while as many newer
ones as its site's schedule keeps are there. `WholeCopyKept`: a site with a whole archive keeps
one, although broken archives count for the retention too, because only a
successful backup is followed by pruning; an archive of the current second is exempt,
which a second backup may be overwriting. `CronCoversAll`: at the end of a run every due site was
archived or failed itself. `ScheduledIsRun`: with `trusted`, the shared cron file is there while any
site is scheduled.

`SitesWork`: between commands, whatever failed before, every WordPress site that is not
`broken` has the wp-config.php of its own database, which connects (unless `stale`), tables that
speak of its domain and its cron file. `FailsOnlyByFault`, an action property: a command gives up only
if a call of its own failed, the domain cannot be quoted, the files it copied are of a
broken site or a user left behind is in its way. `OthersUntouched`: no step changes the database, the user or the
wp-config.php of another site, not even a clone that starts with its source's.
`DataOutlivesSite`: no database and no user goes while its site is saved, but for a
create that takes back its own. `PurgeSpares`, an action property: no step of a purge takes a
package or a file from a site that depends on it (but for OLS, which goes along
with PHP). `PurgeCleans`: when a purge reports success, what it found of its components
is gone, packages, binaries and files. `DataKept`: wherever a migration is cut off, every database is on
the server or in the dump; `lost` names the exceptions, a database made after the dump
and a dump that a second attempt has written over.

**Fairness.** StateStore: weak fairness of a waiting process's polling and of the
clock (`Acquire`, `DeadlinePasses`); none of the holder, so `OpenTerminates` holds
even when the holder hangs. SiteManager: weak fairness of the running command's next
step, because it is one sequential process and the programs it waits for end; none
of kills, OLS restarts or new commands. Allocator: weak fairness of the loop.
Deadlock is checked everywhere except in Allocator, where Compute returns.

## 4. Findings

1. **An interrupted Save forgets every site** (`MCStateStoreTorn`). `os.WriteFile`
   truncates the registry first; Open takes a zero-byte file for a new registry.
   README.md:27 calls operations crash-safe. Where no write leaves zero bytes,
   `NoLostUpdate` is a theorem, a torn file included.
2. **create --force fails the first time and takes the database along**
   (`MCProvisionForce`). RunCreate deletes the site but not its database user; CREATE
   USER IF NOT EXISTS keeps the old password, wp-config.php gets a new one. The same
   password mismatch meets a clone or restore for which an earlier attempt left a user
   behind (`stale`): a clone, and a restore under another name, fail at their search-replace
   (clone.go:113), which needs the database; a restore under the archive's own name needs it no more, and
   reports success on a site that cannot connect.
3. **Purging everything leaves PHP installed but broken** (`MCStackPurge`): OLS's
   directory, which goes first, holds the PHP binaries, by which lsphp's Verify goes.
   The next install does nothing and fails.

Five more come out of the models, each with the property that states it; no run is
listed for them, and this is how to see them:

4. **A failed Create leaves its vhost in `httpd_config.conf`**, although create.go:24
   says that every side effect is undone: `MCSiteManager.cfg` with
   `Kinds <- CreateAndDelete` and the invariant `FailedCreateLeavesNothing`. It is mostly
   harmless: the vhost file is gone.
5. **Two domains may share one system user**, `a-b.com` and `a.b.com`; deleting one
   deletes the user of the other: the same with `UserOf <- SharedUser`, types html and php, `CanFail = FALSE` and
   `SitesHaveTheirUser`.
6. **A domain that another one continues is registered again and again**: with
   `foo.com` in the file first, the block of `foo.co` is never found, so that every
   Reconcile appends another one and Delete removes none (`MCHttpdConf.cfg` with
   `OneBlockEach`).
7. **Retention counts the archives of another site**: those of `foo.co-op.com` begin
   like those of `foo.co` and sort after them, so that, once there are as many of them as
   `foo.co` keeps, the nightly run for `foo.co` makes an archive and removes it at
   once (`MCBackups.cfg` with `Extends <- Alike` and `RetentionKept`).
8. **After a failed command a restart of OLS can exceed the RAM**: Reconcile writes the vhost
   files one by one (manager.go:118) and a failure takes none of them back, so that files from two
   divisions of the RAM stay side by side for the next `gow stack restart` to load: `MCSiteManagerEnds.cfg`
   with the invariant `NoOvercommit` and `RestartAt = {"idle"}`, where an update fails with one site rendered.
   With the code's numbers: budget 3200 MB, ceiling 16, A heavy (384 MB a worker), B lite (64), C heavy;
   three workers each leave 704 MB, eleven more workers for B. A delete of C that fails after A has been
   rendered anew at 7 x 384 = 2688 MB leaves B at 14 x 64 = 896: 3584 together. The next
   command that succeeds puts it right, which is `SuccessFits`.

## 5. Proofs

**StateStore_proofs**, for any number of processes, names, edits:
`TypeCorrect`, `LockExcludes` (from: a process in a holding state is `holder`),
`CorruptKept`, and, assuming that a write cut short never leaves a zero-byte file (`"empty" \notin SaveLeaves`),
`UpdatesKept` and `StoreIsRegistry`. The invariant behind the last two relates the
file, the holder's position and the history: outside a write the file is absent or empty only if
nothing was ever saved, and otherwise it does not parse or holds `last`; the holder's `base` is `last`
up to the migration of old records, and its copy is a registry. `NoLostUpdate`
alone is not inductive because it does not say what is in the file. The refinement maps
the abstract registry to `last` as a set of migrated records, and the transaction to the
holder's copy once it is loaded; taking the lock, polling, truncating and releasing
are stutters. Without the assumption the theorem is false, which is finding 1.

**Allocator_proofs**, for any number of sites and any presets, budgets, ceilings
and floors: `WeightCancels` (dividing `budget * wb \div total` by `wb` gives
`budget \div total`: two truncations are one), from it `SharesEqual`, then
`TypeCorrect`, `BudgetKept`, `LimitsKept`, `LeftoverSpent`, `DowngradeNeeded` and
`RefusalJustified`. The invariant has one
part per loop: the running weights, the equal shares, the running memory sums, what
acceptance established, and what was already offered. The last two theorems compare what
the loops did with a sum over all sites, which is a recursive function of the
number of sites. Nothing here is proved by an induction rule: two such sums that differ would
differ at a least index (`WFMin` on the naturals), and one step of the recursion
refutes that. `Downgraded` says that the presets of round `pass` are those asked for,
`pass` tiers lighter, so that the rounds tried before are the ones the
properties speak of. `RoundsRunOut` is what is provable of `Terminates`: `StepsLeft` is a
natural number, at most six rounds over the sites, and every step makes it smaller.

**HttpdConf_proofs**, for any domains, any relation between their names and any bound on
the blocks: `TypeCorrect` and `FileIsTable`, the refinement of `HttpdEntries` by the
names that no other name continues (`Clear`), and `OthersKept`. The invariant adds that no such name has two blocks;
from it, the first place where the text of its header occurs is its own
block (`Found`), so that the block an edit rewrites is the entry the table's edit
changes, and an edit that finds nothing, or is for one of the other names, is a stutter of the table.
Entries are told from "no entry" (`NoEntryAssumption`). `OthersKept` is about all names, the
continued ones included, and does not rest on the table: the blocks of the other
sites are collected in a pass over the file, a recursive function of its length, and two passes that
meet the same blocks of others, after an addition, a removal or a change of the
edited site's block, have collected the same ones at every step (`Alike`, `Meets`; again a
least step at which they had not would contradict the one before). `BlocksAreUnique`
delimits finding 6, which is what happens where one name continues another.

**SiteManager_proofs**, for any domains, types, PHP versions, presets, system users and commands, any budget and any
`Compute` that satisfies `ComputeAssumption`, whichever steps fail, wherever gow is killed and whenever OLS is restarted by others:
`TypeCorrect`, `SaveServed`, `Repairs`, `ContentRegistered`, `Survives`,
`CommandsRunOut` and, without kills, `RootsBelong` and `SuccessFitting`. None of the safety properties is inductive. `PlanInv` says which operation can be at
which step and which plans there are; `MemInv` how the copy in memory differs from the
saved registry: in the record of the command's own site at most, and by what at each
step; `UndoInv` which rollbacks can be on the stack of which operation. On these
rest `ServedInv`, which follows Reconcile (the vhost files of the sites no longer in
`todo`, then `httpd_config.conf`, then OLS) and holds on to its result until the next
operation starts, `GoneInv` (while Delete works, its vhost is out of the configuration,
because Reconcile only writes registered sites, and then out of OLS), `FilesInv`, and
`RootInv` (a directory of no registered site is Create's, and its removal is on the
stack). `Survives` needs `FilesInv` too: Create's rollback removes the web root, but only
where no registered site was, and there are no customer's files.

`SuccessFitting` has to exclude that OLS serves a vhost nobody registered, whose share nobody
counted. `KnownInv`: a vhost that has an
entry in `httpd_config.conf` and a file is that of a saved site, or of the one
Create is about to save, whose file the rollback stack will remove (`Pending`); a failed
Create leaves only the entry. `StageInv`: what the operation at work has seen to, as that
Allocate has found room before anything is rendered, and that
Delete's vhost is out of `httpd_config.conf` before its record goes. `RoomInv`: once OLS has loaded what
Reconcile wrote, there was room for the sites in memory and OLS serves no other. It holds on until the report
of success, whoever restarts OLS meanwhile, since no step in between changes what is on disk
(`StaysSettled`). With `Repairs`, each has the share of one and the same
call of Compute, and `ComputeAssumption` adds them up (`RenderedFit`).

`CommandsRunOut` is what is provable of `CommandEnds`. `Ahead` numbers the steps of the
operations so that each leads to a smaller number only, `Stages` counts the operations
of a plan, with two for the filling of a new site, which may be followed by a Delete, and
`StepsLeft` puts both together with the vhosts to render and the rollbacks on the stack. Every
step of a command, whichever call fails, makes it smaller.

**Backups_proofs**, for any number of sites, retentions and seconds: `TypeCorrect`,
`ScheduleRuns`, and, where no domain continues another (`NoneAlike`), `RetentionHolds`,
`WholeCopyStays` and `CronCovers`. `ScheduledIsRun` speaks of idle moments only and is
not inductive: `CronInv` adds that during a command the file may be missing only if it
is about to be written or the scheduled site about to be deleted. `ArchiveInv` says that the
archives are finite, that no site has two of one second and that none is from the
future; from it, `Oldest` is the oldest of the site and, by counting, leaves as many newer ones as are
kept. `MadeInv` (a site about to be pruned has a whole archive as new as any)
gives `WholeCopyStays`, and `CoverInv`
(a due site that is neither to come nor failed has a whole archive of this run) gives
`CronCovers`. Finding 7 is the counterexample without the assumption.

**Provision_proofs**, for any domains, any of the five commands and any bound on the
passwords: `TypeCorrect`, `SitesReach`, `Untouching`, `DataOutlives` and `FaultOnly`.
`SitesWork` speaks of idle moments only and is not inductive. `WorkInv` extends it to the
sites no command is at work on, and to the one in work before its deletion and after its cron
file; `ProgressInv` says how far a site has come at each step (which wp-config.php is there,
whose tables are in its database, that its password is the user's or it is in `stale`),
and `UserInv` that a user without a WordPress site is one nobody looked after, which is what
makes a fresh user get the command's password. `ConfInv` (from `password` on wp-config.php
names the site's own database) gives `Untouching`, because wp-cli works in the database
that file names; `Obstacles` takes each reason to give up to one of the three.

**Stack_proofs**, for any sites, any flags and all nine commands: `TypeCorrect`,
`PurgeSparing`, `PurgeClears`, `DataStays`. The invariant has four parts beside the
types and `DataKept`. `JobInv`: the lock is the site command's from the opening of the
store on, and only sites recorded as WordPress have a database. `PurgeInv`: a purge at
work has the lock, and nobody depends on what it was given; nobody can come to, because the
registry changes under the lock only. `GoneInv`: what a purge found is there until its turn
and gone afterwards, which needs that OLS's turn comes before PHP's
(`OLSBeforeLSPHP`). `MigrateInv`: which copies there are at each step of a migration
(up to the purge of the old version everything is in the dump, after the import everything
on the server). `DataKept` alone is not inductive: it does not say when
the server may be emptied, nor that a purge finds no database there.

**Only model-checked**: the liveness properties `OpenTerminates`, `CommandEnds` and
`Terminates`, since fairness and ENABLED are outside the prover's reach; of the last two the
proofs have the bound on the steps, so that what is left to TLC is that a step is possible until
the end and is taken. `ForceRetries`, `PurgeLeavesNothing` and `NoLostUpdate` without its
assumption are false (findings 1 to 3). All other properties of the runs are theorems.

## 6. Not modelled, and why

Templates, metrics, hardware detection, the CLI and the formatting of output keep no
state; neither do cache flushes, the `gow wp` and log pass-throughs and the read-only
info, list and status commands. What apt, dpkg, systemd, MariaDB and wp-cli do is
outside of the program and modelled as the code relies on it. Half-written
configuration files would need to know what OLS does with them. Settings of WordPress
(plugins, caches, salts) are not told apart. Contents of certificates are not either.

## 7. Plan

1. SiteManager's `httpd` shown to be implemented by `HttpdConf` edits.
2. Kills in the middle of a command: what `SuccessFits` and `RootsAreRegistered` still promise
   once the next command has succeeded, stated and proved.
3. `Compute` as Allocator's final state, so that `ComputeAssumption` follows from `BudgetKept`
   instead of repeating it.
