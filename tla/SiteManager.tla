---------------------------- MODULE SiteManager ----------------------------
(***************************************************************************)
(* The site commands (internal/site, and the RunXxx functions of           *)
(* internal/app that drive it) as the host sees them: a command opens the  *)
(* registry, carries out its side effects one by one - directories, system *)
(* users, vhost files, httpd_config.conf, the OLS restart - and saves the  *)
(* registry last.  Any step may fail, which starts the rollback the code   *)
(* has for it, and the process may be killed between two steps, which      *)
(* starts none.                                                            *)
(*                                                                         *)
(* One command runs at a time and a Save is atomic: that is what           *)
(* StateStore is about.  `gow stack' commands do not take that lock and    *)
(* may restart OLS at any moment.                                          *)
(*                                                                         *)
(* How allocator.Compute divides the RAM is Allocator's subject; here it   *)
(* is an operator from the PHP sites' presets to their shares, of which    *)
(* only what Allocator establishes is assumed.  (It also depends on the    *)
(* order of the registry, which decides who gets the leftover of two equal *)
(* presets.  No command changes that order between its Reconcile and its   *)
(* Save.)                                                                  *)
(***************************************************************************)
EXTENDS Integers, Sequences, FiniteSets, Functions

CONSTANTS
    Names,      \* domain names
    UserOf,     \* UserName: the system user of a domain
    Types,      \* site types in use, of "html", "php" and "wp"
    Versions,   \* PHP versions installed
    Presets,    \* presets in use, custom ones with their numbers
    Compute(_), \* [PHP site -> preset] to [PHP site -> MB of its workers], or NoRoom
    Budget,     \* PHPBudget: the RAM for PHP workers
    NoRoom,     \* ErrInsufficientRAM
    Kinds,      \* the commands an operator runs
    CanFail,    \* TRUE: file, process and OLS operations may fail
    CanCrash,   \* TRUE: gow may be killed between two steps
    RestartAt,  \* where gow is when OLS is restarted by somebody else
    NoSite,     \* not in the registry
    NoConf,     \* no vhconf.conf on disk
    NoName      \* no domain

AllKinds == {"create", "force-create", "clone", "restore", "delete", "update",
             "isolate", "ssl", "offline", "online", "reconcile"}

\* What Update changes of a site. An HTML site has no PHP version.
Setups == [php : Versions \cup {"none"}, preset : Presets]

Site == [type : Types, setup : Setups, user : BOOLEAN, ssl : BOOLEAN, maint : BOOLEAN]

ControlPoints ==
    {"idle", "next", "ok", "failed", "undo", "done", "save",
     "alloc", "render", "logrotate", "reload",
     "add", "mkdir", "useradd", "chown", "usermod", "index", "fill",
     "remove", "unregister", "unmap", "userdel", "rmroot",
     "set-setup", "set-user", "restrained", "certbot", "force-ssl", "set-maint"}

ASSUME NamesAssumption == IsFiniteSet(Names) /\ NoName \notin Names
ASSUME TypesAssumption == Types \subseteq {"html", "php", "wp"}
ASSUME SetupAssumption == "none" \notin Versions /\ "standard" \in Presets
ASSUME KindsAssumption == Kinds \subseteq AllKinds
ASSUME FaultsAssumption ==
    CanFail \in BOOLEAN /\ CanCrash \in BOOLEAN /\ RestartAt \subseteq ControlPoints
ASSUME NullAssumption == NoSite \notin Site
ASSUME UserAssumption == DOMAIN UserOf = Names

VARIABLES
    \* On the host.
    disk,     \* the saved registry
    dirs,     \* domains whose directory exists under the web root
    content,  \* domains whose directory holds the customer's files
    users,    \* system users that exist
    vconf,    \* vhosts/<domain>/vhconf.conf
    httpd,    \* httpd_config.conf
    running,  \* what OLS loaded when it last started
    \* In the gow process.
    pc, cmd, plan, doomed,
    mem,      \* the registry in memory
    todo,     \* sites Reconcile has still to render
    undo,     \* the rollback stack
    prev      \* the site's record before the operation

host == <<disk, dirs, content, users, vconf, httpd, running>>
proc == <<pc, cmd, plan, doomed, mem, todo, undo, prev>>
vars == <<host, proc>>

Users == {UserOf[n] : n \in Names}

Registered(r) == {n \in Names : r[n] # NoSite}
Php(r) == {n \in Registered(r) : r[n].type # "html"}
Ssl(r) == {n \in Registered(r) : r[n].ssl}

\* A share of RAM for each PHP site, any of which together stay within the
\* budget (Allocator's FitsInBudget, the shares being naturals); no error without
\* any PHP site.
Demands == UNION {[S -> Presets] : S \in SUBSET Names}
ASSUME ComputeAssumption ==
    \A d \in Demands :
        /\ d = << >> => Compute(d) # NoRoom
        /\ Compute(d) # NoRoom =>
             /\ Compute(d) \in [DOMAIN d -> Nat]
             /\ \A S \in SUBSET DOMAIN d :
                  SumFunction([n \in S |-> Compute(d)[n]]) <= Budget

Demand(r) == [n \in Php(r) |-> r[n].setup.preset]
Room(r) == Compute(Demand(r)) # NoRoom

\* A maintenance page has one small PHP worker of its own, outside the shares.
Share(r, n) ==
    IF Room(r) /\ n \in Php(r) /\ ~r[n].maint THEN Compute(Demand(r))[n] ELSE 0

\* The vhost file of n, and httpd_config.conf without any site: each site of
\* vhosts has a virtualHost block and its line in the Default listener, each site
\* of vhssl a vhssl block inside; listener SSL, once there, has a certificate (not
\* told apart) and a map.  PHP "none" in a maintenance page is the default version.
Rendered == [type : Types, php : Versions \cup {"none"}, share : Nat,
             ssl : BOOLEAN, maint : BOOLEAN]
Loadable == [conf : Rendered, tls : BOOLEAN]
ASSUME ConfAssumption == NoConf \notin Rendered \cup Loadable

Render(r, n) ==
    [type |-> r[n].type, ssl |-> r[n].ssl, maint |-> r[n].maint, share |-> Share(r, n),
     php |-> IF r[n].type = "html" /\ ~r[n].maint THEN "none" ELSE r[n].setup.php]

NoListener == [on |-> FALSE, map |-> {}]
BareHttpd == [vhosts |-> {}, vhssl |-> {}, ssl |-> NoListener]

\* What OLS reads when it starts: the vhost files of the sites it is told of. It
\* answers for a site on port 443 when listener and vhost both know how.
Loaded(h, v) ==
    [n \in Names |->
        IF n \in h.vhosts /\ v[n] # NoConf
        THEN [conf |-> v[n], tls |-> h.ssl.on /\ n \in h.ssl.map \cap h.vhssl]
        ELSE NoConf]

NoSetup == [php |-> "none", preset |-> "none"]
NoRecord == [type |-> "none", setup |-> NoSetup, user |-> FALSE, ssl |-> FALSE, maint |-> FALSE]
Nothing == [n \in Names |-> NoSite]
NoCommand == [kind |-> "none", name |-> NoName, type |-> "none", setup |-> NoSetup]

Init ==
    /\ disk = Nothing
    /\ dirs = {} /\ content = {} /\ users = {}
    /\ vconf = [n \in Names |-> NoConf]
    /\ httpd = BareHttpd
    /\ running = Loaded(BareHttpd, vconf)
    /\ pc = "idle" /\ cmd = NoCommand /\ plan = <<>> /\ doomed = FALSE
    /\ mem = Nothing /\ todo = {} /\ undo = <<>> /\ prev = NoRecord

name == cmd.name

Goto(from, to) == pc = from /\ pc' = to

\* A failed step: the rollbacks pushed so far run, last first.
StepFails(at) ==
    /\ CanFail
    /\ Goto(at, "undo")
    /\ UNCHANGED <<host, cmd, plan, doomed, mem, todo, undo, prev>>

-----------------------------------------------------------------------------
(* A command: the manager operations it calls in turn.                     *)

Creating == {"create", "force-create", "clone", "restore"}

PlanOf(kind, n, t, r) ==
    IF kind \notin Creating THEN <<kind>>
    ELSE IF kind \in {"create", "force-create"} /\ t # "wp"
    THEN IF r[n] = NoSite THEN <<"create">> ELSE <<"delete", "create">>
    ELSE IF r[n] = NoSite THEN <<"create", "fill">> ELSE <<"delete", "create", "fill">>

\* update, with or without --isolate.
Updating == {"update", "isolate"}

\* What an operator may ask: RunCreate refuses a known site without --force, Clone
\* any source but a WordPress site, everything else but reconcile an unknown site.
\* RunCreate sets up an HTML site without PHP, Clone as the source is; Restore goes
\* by the archive; Update leaves the PHP version alone or sets one that is installed.
Admissible(kind, n, t, u, r) ==
    /\ kind \in {"create", "clone", "restore"} => r[n] = NoSite
    /\ kind \in {"create", "force-create"} /\ t = "html"
         => u = [php |-> "none", preset |-> "standard"]
    /\ kind \in Creating /\ t # "html" => u.php # "none"
    /\ kind = "clone" =>
         t = "wp" /\ \E src \in Registered(r) : r[src].type = "wp" /\ r[src].setup = u
    /\ kind \in {"delete", "update", "isolate", "ssl", "offline", "online"} => r[n] # NoSite
    /\ kind \in Updating => u.php \in Versions \cup {r[n].setup.php}

Start(kind, n, t, u) ==
    /\ Goto("idle", "next")
    /\ kind \in Kinds
    /\ Admissible(kind, n, t, u, disk)
    /\ IF kind \in Creating THEN t \in Types ELSE t = "none"
    /\ IF kind \in Creating \cup Updating THEN u \in Setups ELSE u = NoSetup
    /\ cmd' = [kind |-> kind, name |-> n, type |-> t, setup |-> u]
    /\ plan' = PlanOf(kind, n, t, disk)
    /\ mem' = disk
    /\ UNCHANGED <<host, doomed, todo, undo, prev>>

FirstStep(op) ==
    CASE op = "create"     -> "add"
      [] op = "delete"     -> "remove"
      [] op = "update"     -> "set-setup"
      [] op = "isolate"    -> "set-user"
      [] op = "ssl"        -> "certbot"
      [] op \in {"offline", "online"} -> "set-maint"
      [] op = "reconcile"  -> "alloc"
      [] op = "fill"       -> "fill"

NextOperation ==
    /\ pc = "next" /\ plan # <<>>
    /\ pc' = FirstStep(Head(plan))
    /\ UNCHANGED <<host, cmd, plan, doomed, mem, todo, undo, prev>>

CommandDone ==
    /\ pc = "next" /\ plan = <<>>
    /\ pc' = IF doomed THEN "failed" ELSE "ok"
    /\ UNCHANGED <<host, cmd, plan, doomed, mem, todo, undo, prev>>

\* The operation is over: the rollbacks are dropped (committed = true).
OperationDone ==
    /\ pc' = "next" /\ plan' = Tail(plan)
    /\ undo' = <<>> /\ prev' = NoRecord

\* The process is gone, and all it knew.
Exit ==
    /\ pc' = "idle" /\ cmd' = NoCommand /\ plan' = <<>> /\ doomed' = FALSE
    /\ mem' = Nothing /\ todo' = {} /\ undo' = <<>> /\ prev' = NoRecord

End == pc \in {"ok", "failed"} /\ Exit /\ UNCHANGED host

Crash == CanCrash /\ pc # "idle" /\ Exit /\ UNCHANGED host

-----------------------------------------------------------------------------
(* Reconcile.                                                              *)

AfterReconcile(op) ==
    IF op = "delete" THEN "userdel"
    ELSE IF op \in {"reconcile", "fill"} THEN "done" ELSE "save"

ReconcileDone == pc' = AfterReconcile(Head(plan))

\* No sites: the SSL listener goes, and OLS is not told.
ReconcileNothing ==
    /\ Goto("alloc", "logrotate") /\ Registered(mem) = {}
    /\ httpd' = [httpd EXCEPT !.ssl = NoListener]
    /\ UNCHANGED <<disk, dirs, content, users, vconf, running,
                   cmd, plan, doomed, mem, todo, undo, prev>>

\* Mutant: only the site of the command is rendered again.
AllocateOne ==
    /\ pc = "alloc" /\ Registered(mem) # {}
    /\ pc' = IF Room(mem) THEN "render" ELSE "undo"
    /\ todo' = IF pc' = "render" THEN Registered(mem) \cap {name} ELSE {}
    /\ UNCHANGED <<host, cmd, plan, doomed, mem, undo, prev>>

Allocate ==
    /\ pc = "alloc" /\ Registered(mem) # {}
    /\ IF Room(mem)
       THEN pc' = "render" /\ todo' = Registered(mem)
       ELSE pc' = "undo" /\ todo' = {}                     \* ErrInsufficientRAM
    /\ UNCHANGED <<host, cmd, plan, doomed, mem, undo, prev>>

\* renderAndRegisterSite: one vhost file, and the document root of a PHP site
\* or of a site in maintenance if it is missing.
RenderSite(n) ==
    /\ pc = "render" /\ n \in todo
    /\ vconf' = [vconf EXCEPT ![n] = Render(mem, n)]
    /\ dirs' = IF mem[n].type # "html" \/ mem[n].maint THEN dirs \cup {n} ELSE dirs
    /\ todo' = todo \ {n}
    /\ UNCHANGED <<disk, content, users, httpd, running,
                   pc, cmd, plan, doomed, mem, undo, prev>>

\* The edits batched on httpd_config.conf while rendering, saved in one write.
\* Vhost blocks and map lines are only ever added.
WithSites(h, r) ==
    [vhosts |-> h.vhosts \cup Registered(r),
     vhssl  |-> h.vhssl \cup Ssl(r),
     ssl    |-> IF Ssl(r) = {} THEN NoListener
                ELSE [on |-> TRUE, map |-> h.ssl.map \cup Ssl(r)]]

SaveHttpd ==
    /\ Goto("render", "logrotate") /\ todo = {}
    /\ httpd' = WithSites(httpd, mem)
    /\ UNCHANGED <<disk, dirs, content, users, vconf, running,
                   cmd, plan, doomed, mem, todo, undo, prev>>

Logrotate ==
    /\ pc = "logrotate"
    /\ IF Registered(mem) = {} THEN ReconcileDone ELSE pc' = "reload"
    /\ UNCHANGED <<host, cmd, plan, doomed, mem, todo, undo, prev>>

Reload ==
    /\ pc = "reload" /\ ReconcileDone
    /\ running' = Loaded(httpd, vconf)
    /\ UNCHANGED <<disk, dirs, content, users, vconf, httpd,
                   cmd, plan, doomed, mem, todo, undo, prev>>

ReconcileFails ==
    \E at \in {"alloc", "render", "logrotate", "reload"} :
        /\ CanFail
        /\ Goto(at, "undo")
        /\ todo' = {}
        /\ UNCHANGED <<host, cmd, plan, doomed, mem, undo, prev>>

\* Reconcile on its own: nothing to save.
ReconcileOnly ==
    /\ pc = "done" /\ OperationDone
    /\ UNCHANGED <<host, cmd, doomed, mem, todo>>

Save ==
    /\ pc = "save" /\ OperationDone
    /\ disk' = mem
    /\ UNCHANGED <<dirs, content, users, vconf, httpd, running,
                   cmd, doomed, mem, todo>>

-----------------------------------------------------------------------------
(* Create.                                                                 *)

\* Mutant: the type of the site is not recorded.
AddSiteUntyped ==
    /\ Goto("add", "mkdir")
    /\ mem' = [mem EXCEPT ![name] =
                 [type |-> "", setup |-> cmd.setup, user |-> cmd.type # "html",
                  ssl |-> FALSE, maint |-> FALSE]]
    /\ undo' = <<"mem">>
    /\ UNCHANGED <<host, cmd, plan, doomed, todo, prev>>

AddSite ==
    /\ Goto("add", "mkdir")
    /\ mem' = [mem EXCEPT ![name] =
                 [type |-> cmd.type, setup |-> cmd.setup, user |-> cmd.type # "html",
                  ssl |-> FALSE, maint |-> FALSE]]
    /\ undo' = <<"mem">>
    /\ UNCHANGED <<host, cmd, plan, doomed, todo, prev>>

\* Mutant: the rollback of the directory is forgotten.
MakeRootForGood ==
    /\ pc = "mkdir"
    /\ pc' = IF mem[name].user THEN "useradd" ELSE "index"
    /\ dirs' = dirs \cup {name}
    /\ UNCHANGED <<disk, content, users, vconf, httpd, running,
                   cmd, plan, doomed, mem, todo, undo, prev>>

MakeRoot ==
    /\ pc = "mkdir"
    /\ pc' = IF mem[name].user THEN "useradd" ELSE "index"
    /\ dirs' = dirs \cup {name}
    /\ undo' = Append(undo, "root")
    /\ UNCHANGED <<disk, content, users, vconf, httpd, running,
                   cmd, plan, doomed, mem, todo, prev>>

\* useradd unless `id' knows the user.  Create undoes only its own useradd;
\* Update's failure path deletes the user in either case.
AddUser ==
    /\ Goto("useradd", "chown")
    /\ users' = users \cup {UserOf[name]}
    /\ undo' = IF Head(plan) = "isolate" \/ UserOf[name] \notin users
               THEN Append(undo, "user") ELSE undo
    /\ UNCHANGED <<disk, dirs, content, vconf, httpd, running,
                   cmd, plan, doomed, mem, todo, prev>>

\* useradd is only run, and can only fail, when the user is missing.
AddUserFails == StepFails("useradd") /\ UserOf[name] \notin users

Chown ==
    /\ Goto("chown", "usermod")
    /\ UNCHANGED <<host, cmd, plan, doomed, mem, todo, undo, prev>>

\* usermod -aG redis.  It is the last step of Update with a rollback.
JoinRedisGroup ==
    /\ pc = "usermod"
    /\ IF Head(plan) = "isolate"
       THEN pc' = "restrained" /\ undo' = <<>>
       ELSE pc' = "index" /\ UNCHANGED undo
    /\ UNCHANGED <<host, cmd, plan, doomed, mem, todo, prev>>

\* Mutant: the vhost files of a failed Create stay.
WriteIndexForGood ==
    /\ Goto("index", "alloc")
    /\ UNCHANGED <<host, cmd, plan, doomed, mem, todo, undo, prev>>

WriteIndex ==
    /\ Goto("index", "alloc")
    /\ undo' = Append(undo, "vconf")
    /\ UNCHANGED <<host, cmd, plan, doomed, mem, todo, prev>>

\* A WordPress site has no index to write.
WriteIndexFails == StepFails("index") /\ mem[name].type # "wp"

Create == AddSite \/ MakeRoot \/ WriteIndex \/ WriteIndexFails

-----------------------------------------------------------------------------
(* WPInstall after Create, or the copying of files and database that Clone and *)
(* Restore go on with.  The failure of any of them ends in Delete.         *)

Fill(from, to) ==
    /\ Goto("fill", to) /\ from
    /\ content' = content \cup {name}
    /\ UNCHANGED <<disk, dirs, users, vconf, httpd, running,
                   cmd, plan, doomed, mem, todo, undo, prev>>

InstallWordPress == Fill(cmd.kind \in {"create", "force-create"}, "alloc")
Clone == Fill(cmd.kind = "clone", "done")
Restore == Fill(cmd.kind = "restore", "done")

\* It fails with or without files copied.
FillFails ==
    /\ CanFail
    /\ Goto("fill", "next")
    /\ plan' = <<"delete">> /\ doomed' = TRUE
    /\ content' \in {content, content \cup {name}}
    /\ UNCHANGED <<disk, dirs, users, vconf, httpd, running,
                   cmd, mem, todo, undo, prev>>

-----------------------------------------------------------------------------
(* Delete.                                                                 *)

\* Mutant: the registry is saved first.
RemoveSiteSaved ==
    /\ Goto("remove", "unregister")
    /\ prev' = mem[name]
    /\ mem' = [mem EXCEPT ![name] = NoSite]
    /\ disk' = mem'
    /\ UNCHANGED <<dirs, content, users, vconf, httpd, running,
                   cmd, plan, doomed, todo, undo>>

RemoveSite ==
    /\ Goto("remove", "unregister")
    /\ prev' = mem[name]
    /\ mem' = [mem EXCEPT ![name] = NoSite]
    /\ UNCHANGED <<host, cmd, plan, doomed, todo, undo>>

\* Mutant: the user and the files go before OLS has let go of the vhost.
UnregisterLate ==
    /\ Goto("unregister", "userdel")
    /\ httpd' = [httpd EXCEPT !.vhosts = @ \ {name}, !.vhssl = @ \ {name}]
    /\ UNCHANGED <<disk, dirs, content, users, vconf, running,
                   cmd, plan, doomed, mem, todo, undo, prev>>

Unregister ==
    /\ pc = "unregister"
    /\ pc' = IF prev.ssl THEN "unmap" ELSE "alloc"
    /\ httpd' = [httpd EXCEPT !.vhosts = @ \ {name}, !.vhssl = @ \ {name}]
    /\ UNCHANGED <<disk, dirs, content, users, vconf, running,
                   cmd, plan, doomed, mem, todo, undo, prev>>

\* An error of RemoveSSLMapEntry is ignored.
Unmap ==
    /\ Goto("unmap", "alloc")
    /\ \/ httpd' = [httpd EXCEPT !.ssl.map = @ \ {name}]
       \/ CanFail /\ UNCHANGED httpd
    /\ UNCHANGED <<disk, dirs, content, users, vconf, running,
                   cmd, plan, doomed, mem, todo, undo, prev>>

\* An error of userdel is ignored.
RemoveUser ==
    /\ Goto("userdel", "rmroot")
    /\ \/ prev.user /\ users' = users \ {UserOf[name]}
       \/ (CanFail \/ ~prev.user) /\ UNCHANGED users
    /\ UNCHANGED <<disk, dirs, content, vconf, httpd, running,
                   cmd, plan, doomed, mem, todo, undo, prev>>

RemoveRoot ==
    /\ Goto("rmroot", "save")
    /\ dirs' = dirs \ {name}
    /\ content' = content \ {name}
    /\ UNCHANGED <<disk, users, vconf, httpd, running,
                   cmd, plan, doomed, mem, todo, undo, prev>>

Delete == RemoveSite \/ Unregister \/ Unmap \/ RemoveUser \/ RemoveRoot

-----------------------------------------------------------------------------
(* Update: another PHP version or preset, and with --isolate a user.       *)

\* Mutant: the site keeps the share it has until the next Reconcile.
SetSetupOnly ==
    /\ Goto("set-setup", "save")
    /\ mem' = [mem EXCEPT ![name].setup = cmd.setup]
    /\ UNCHANGED <<host, cmd, plan, doomed, todo, undo, prev>>

SetSetup ==
    /\ Goto("set-setup", "alloc")
    /\ mem' = [mem EXCEPT ![name].setup = cmd.setup]
    /\ UNCHANGED <<host, cmd, plan, doomed, todo, undo, prev>>

\* A failure takes the user back, not the setup.
SetUser ==
    /\ Goto("set-user", "useradd")
    /\ mem' = [mem EXCEPT ![name].setup = cmd.setup, ![name].user = TRUE]
    /\ undo' = <<"flag">>
    /\ UNCHANGED <<host, cmd, plan, doomed, todo, prev>>

\* UpdateVHostRestrained rewrites a line RegisterVHost writes the same way; it
\* fails on a vhost that is not in the file.
SetRestrained ==
    /\ pc = "restrained"
    /\ pc' = IF name \in httpd.vhosts THEN "alloc" ELSE "undo"
    /\ UNCHANGED <<host, cmd, plan, doomed, mem, todo, undo, prev>>

-----------------------------------------------------------------------------
(* EnableSSL.                                                              *)

Certbot ==
    /\ Goto("certbot", "force-ssl")
    /\ prev' = mem[name]
    /\ mem' = [mem EXCEPT ![name].ssl = TRUE]
    /\ undo' = <<"ssl">>
    /\ UNCHANGED <<host, cmd, plan, doomed, todo>>

\* `wp config set FORCE_SSL_ADMIN' runs for every type and fails where there is
\* no wp-config.php; search-replace runs for WordPress.
ForceSSL ==
    /\ pc = "force-ssl"
    /\ \/ mem[name].type # "html" /\ pc' = "alloc"
       \/ mem[name].type # "wp"   /\ pc' = "undo"
    /\ UNCHANGED <<host, cmd, plan, doomed, mem, todo, undo, prev>>

(* Offline and Online.                                                     *)

SetMaintenance ==
    /\ Goto("set-maint", "alloc")
    /\ mem' = [mem EXCEPT ![name].maint = cmd.kind = "offline"]
    /\ UNCHANGED <<host, cmd, plan, doomed, todo, undo, prev>>

-----------------------------------------------------------------------------
(* Rollback.                                                               *)

Undo ==
    /\ pc = "undo" /\ undo # <<>>
    /\ LET last == undo[Len(undo)] IN
        /\ mem' = CASE last = "mem"  -> [mem EXCEPT ![name] = NoSite]
                    [] last = "flag" -> [mem EXCEPT ![name].user = FALSE]
                    [] last = "ssl"  -> [mem EXCEPT ![name].ssl = prev.ssl]
                    [] OTHER -> mem
        /\ dirs' = IF last = "root" THEN dirs \ {name} ELSE dirs
        /\ content' = IF last = "root" THEN content \ {name} ELSE content
        /\ users' = IF last = "user" THEN users \ {UserOf[name]} ELSE users
        /\ vconf' = IF last = "vconf" THEN [vconf EXCEPT ![name] = NoConf] ELSE vconf
    /\ undo' = SubSeq(undo, 1, Len(undo) - 1)
    /\ UNCHANGED <<disk, httpd, running, pc, cmd, plan, doomed, todo, prev>>

\* Mutant: the rollback's end is only noticed while something is left to undo.
UndoStuck ==
    /\ Goto("undo", "failed") /\ undo # <<>>
    /\ UNCHANGED <<host, cmd, plan, doomed, mem, todo, undo, prev>>

UndoDone ==
    /\ Goto("undo", "failed") /\ undo = <<>>
    /\ UNCHANGED <<host, cmd, plan, doomed, mem, todo, undo, prev>>

-----------------------------------------------------------------------------
\* certbot's renewal hook, `gow stack' or the administrator restarts OLS.
RestartOLS ==
    /\ pc \in RestartAt
    /\ running' = Loaded(httpd, vconf)
    /\ UNCHANGED <<disk, dirs, content, users, vconf, httpd, proc>>

Fallible == {"mkdir", "chown", "usermod", "unregister", "rmroot",
             "restrained", "certbot", "force-ssl", "save"}

Reconcile ==
    \/ ReconcileNothing \/ Allocate \/ (\E n \in Names : RenderSite(n))
    \/ SaveHttpd \/ Logrotate \/ Reload \/ ReconcileFails \/ ReconcileOnly

Step ==
    \/ NextOperation \/ CommandDone \/ End
    \/ Reconcile \/ Save
    \/ Create \/ AddUser \/ AddUserFails \/ Chown \/ JoinRedisGroup
    \/ InstallWordPress \/ Clone \/ Restore \/ FillFails
    \/ Delete
    \/ SetSetup \/ SetUser \/ SetRestrained
    \/ Certbot \/ ForceSSL \/ SetMaintenance
    \/ Undo \/ UndoDone
    \/ \E at \in Fallible : StepFails(at)

Next ==
    \/ \E kind \in AllKinds, n \in Names, t \in Types \cup {"none"}, u \in Setups \cup {NoSetup} :
         Start(kind, n, t, u)
    \/ Step
    \/ Crash
    \/ RestartOLS

Spec == Init /\ [][Next]_vars

\* A command that runs goes on: it is one sequential process, and the programs
\* it waits for end.
FairSpec == Spec /\ WF_vars(Step)

-----------------------------------------------------------------------------
Commands == [kind : AllKinds \cup {"none"}, name : Names \cup {NoName},
             type : Types \cup {"none"}, setup : Setups \cup {NoSetup}]

TypeOK ==
    /\ disk \in [Names -> Site \cup {NoSite}] /\ mem \in [Names -> Site \cup {NoSite}]
    /\ {dirs, content, todo} \subseteq SUBSET Names /\ users \subseteq Users
    /\ httpd \in [vhosts : SUBSET Names, vhssl : SUBSET Names,
                  ssl : [on : BOOLEAN, map : SUBSET Names]]
    /\ vconf \in [Names -> Rendered \cup {NoConf}]
    /\ running \in [Names -> Loadable \cup {NoConf}]
    /\ pc \in ControlPoints /\ cmd \in Commands /\ doomed \in BOOLEAN
    /\ prev \in Site \cup {NoSite, NoRecord}
    /\ undo \in Seq({"mem", "root", "user", "vconf", "flag", "ssl"}) /\ Len(undo) <= 4

Serves(ols, r, n) ==
    /\ ols[n] # NoConf
    /\ ols[n].conf = Render(r, n)
    /\ r[n].ssl => ols[n].tls

\* The registry never gets ahead of the server: when a command saves it, OLS has
\* already loaded, for every site in it and not only for the command's own, the
\* vhost that site's record calls for - its PHP version, its share of RAM among
\* today's sites, its maintenance page, its certificate (Save is the last call of
\* Create, Delete, Update, EnableSSL, Offline and Online).
CommittedIsServed ==
    [][disk' # disk => \A n \in Registered(disk') : Serves(running', disk', n)]_vars

\* Whatever earlier commands left behind by failing, the next one that reports
\* success has put it right for every registered site (Reconcile is run for all
\* of them each time).
SuccessRepairs == pc = "ok" => \A n \in Registered(disk) : Serves(running, disk, n)

\* A customer's files are removed only by a command that deletes or replaces
\* that very site, while the registry still lists it, so that a Delete cut short
\* can be repeated, and after the vhost is gone from httpd_config.conf and,
\* unless no site is left, from OLS (Delete's order of steps).
ContentSurvives ==
    [][\A n \in content \ content' :
          /\ n = cmd.name /\ cmd.kind \notin {"update", "isolate", "ssl"}
          /\ n \in Registered(disk)
          /\ n \notin httpd.vhosts
          /\ Registered(mem) # {} => running[n] = NoConf]_vars

\* No customer's files are ever orphaned: wherever gow fails or is killed, files
\* that are still there belong to a site the saved registry lists, so that a
\* later Delete finds them (Create saves before WPInstall, Clone and Restore
\* fill the directory; Delete saves after it has emptied it).
ContentIsRegistered == content \subseteq Registered(disk)

ServedPhp == {n \in Names : running[n] # NoConf /\ running[n].conf.type # "html"
                              /\ ~running[n].conf.maint}

\* The RAM is not given away twice: the workers of all PHP sites OLS serves fit
\* in the budget together.
NoOvercommit == SumFunction([n \in ServedPhp |-> running[n].conf.share]) <= Budget

\* Whenever a command reports success, what OLS now serves fits in the RAM,
\* whatever presets were changed and whichever vhost files earlier commands left
\* from another division of it by failing half-way: Reconcile renders every site,
\* and no vhost outlives its site in what OLS reads (manager.go:118, create.go's
\* rollback, delete.go:40).  Without any site left OLS is not told.
SuccessFits == pc = "ok" /\ Registered(disk) # {} => NoOvercommit

\* Between commands each directory under the web root belongs to a registered
\* site: a command that failed has taken back the one it made (Create's
\* rollback, Delete after a failed WPInstall or Clone).
RootsAreRegistered == pc = "idle" => dirs \subseteq Registered(disk)

\* A command that has begun comes to its end, by way of its rollback if need be.
CommandEnds == pc # "idle" ~> pc = "idle"

\* Every side effect of a Create that failed is undone (create.go:24): the site is
\* known to nobody.
FailedCreateLeavesNothing ==
    pc = "failed" /\ plan # <<>> /\ Head(plan) = "create"
        => /\ name \notin Registered(mem) /\ name \notin dirs
           /\ name \notin httpd.vhosts

\* Each PHP site has a system user of its own, and it exists when no command is
\* running (README.md:25).
SitesHaveTheirUser ==
    pc = "idle" =>
        \A n \in Registered(disk) : disk[n].user => UserOf[n] \in users

=============================================================================
