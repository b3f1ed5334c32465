------------------------- MODULE SiteManager_proofs -------------------------
(***************************************************************************)
(* Proofs about SiteManager for any domains, types, system users and       *)
(* commands, whichever steps fail, wherever gow is killed and whenever OLS *)
(* is restarted by somebody else.                                          *)
(***************************************************************************)
EXTENDS SiteManager, FiniteSetTheorems, SequenceTheorems, TLAPS

-----------------------------------------------------------------------------
(* The inductive invariant.                                                *)

Changing == {"update", "isolate", "ssl", "offline", "online"}
Reconciling == {"alloc", "render", "logrotate", "reload"}

\* The operation at work, and what is left of the command.
op == IF plan = <<>> THEN "none" ELSE Head(plan)

Plans ==
    {<<>>, <<"create">>, <<"create", "fill">>, <<"delete", "create">>,
     <<"delete", "create", "fill">>, <<"fill">>}
        \cup {<<kind>> : kind \in AllKinds \ Creating}

\* Which operation can be at which step.
PlanInv ==
    /\ plan \in Plans
    /\ pc = "idle" <=> cmd.name = NoName
    /\ pc # "idle" => /\ cmd.kind \in AllKinds /\ (cmd.kind \in Creating => cmd.type \in Types)
                      /\ cmd.kind \in Creating \cup Updating => cmd.setup \in Setups
    /\ pc \in {"idle", "ok"} => op = "none"
    /\ pc \in {"add", "mkdir", "index"} => op = "create"
    /\ pc \in {"useradd", "chown", "usermod"} => op \in {"create", "isolate"}
    /\ pc \in {"remove", "unregister", "unmap", "userdel", "rmroot"} => op = "delete"
    /\ pc = "set-setup" => op = "update"
    /\ pc \in {"set-user", "restrained"} => op = "isolate"
    /\ pc \in {"certbot", "force-ssl"} => op = "ssl"
    /\ pc = "set-maint" => op \in {"offline", "online"}
    /\ pc = "fill" => op = "fill"
    /\ pc = "done" => op \in {"reconcile", "fill"}
    /\ pc = "save" => op \in {"create", "delete"} \cup Changing
    /\ pc \in Reconciling => op # "none"
    /\ cmd.kind \notin Creating /\ plan # <<>> => Tail(plan) = <<>>
    /\ op \in {"create", "fill"} => cmd.kind \in Creating
    /\ op = "delete" => cmd.kind \in Creating \cup {"delete"}
    /\ op \in Changing \cup {"reconcile"} => cmd.kind = op

\* What has to be undone.
UndoInv ==
    /\ pc \in {"idle", "next"} \/ op \notin {"create", "isolate", "ssl"} => undo = <<>>
    /\ \A i \in 1 .. Len(undo) :
         /\ undo[i] \in {"mem", "root", "vconf"} => op = "create"
         /\ undo[i] = "flag" => op = "isolate" /\ mem[name] \in Site
         /\ undo[i] = "ssl" => op = "ssl" /\ prev \in Site /\ mem[name] \in Site
    /\ pc \in {"mkdir", "useradd", "chown", "usermod", "index"} => Len(undo) <= 3
    /\ pc \in {"mkdir", "useradd"} => Len(undo) <= 2
    /\ pc = "mkdir" => Len(undo) <= 1

\* How the registry in memory differs from the saved one.
MemInv ==
    /\ pc # "idle" => \A n \in Names \ {name} : mem[n] = disk[n]
    /\ pc \in {"next", "ok", "fill", "done", "add", "remove", "set-setup", "set-user", "certbot",
               "set-maint"}
         => mem = disk
    /\ op \in {"fill", "reconcile"} => mem = disk
    /\ op = "create" => disk[name] = NoSite
    /\ op \in {"delete", "fill"} \cup Changing => disk[name] # NoSite
    /\ op = "create" /\ pc \in Reconciling \cup {"mkdir", "useradd", "chown", "usermod", "index", "save"}
         => mem[name] \in Site
    /\ op \in Changing /\ pc \notin {"undo", "failed"} => mem[name] \in Site
    /\ op = "delete" /\ pc \in Reconciling \cup {"unregister", "unmap", "userdel", "rmroot", "save"}
         => mem[name] = NoSite
    /\ op = "delete" /\ pc \in Reconciling \cup {"unregister", "unmap", "userdel", "rmroot"}
         => prev \in Site

\* The vhost file of n is the one its record calls for, and httpd_config.conf knows n.
Placed(n) ==
    /\ vconf[n] = Render(mem, n) /\ n \in httpd.vhosts
    /\ mem[n].ssl => httpd.ssl.on /\ n \in httpd.ssl.map \cap httpd.vhssl

\* OLS has loaded what the registry in memory asks for.
Settled ==
    \/ pc \in {"userdel", "rmroot", "save", "done", "fill", "ok"}
    \/ pc = "next" /\ op \in {"none", "fill"}

\* How far Reconcile has come: vhost files, httpd_config.conf, OLS.
ServedInv ==
    /\ todo \subseteq Registered(mem) /\ (pc # "render" => todo = {})
    /\ pc = "render" => \A n \in Registered(mem) \ todo : vconf[n] = Render(mem, n)
    /\ pc \in {"logrotate", "reload"} => \A n \in Registered(mem) : Placed(n)
    /\ Settled => \A n \in Registered(mem) : Placed(n) /\ Serves(running, mem, n)

\* Delete: the vhost goes before the files.
GoneInv ==
    /\ op = "delete" /\ pc \in Reconciling \cup {"unmap", "userdel", "rmroot"}
         => name \notin httpd.vhosts
    /\ pc \in {"userdel", "rmroot"} /\ Registered(mem) # {} => running[name] = NoConf

FilesInv ==
    /\ ContentIsRegistered
    /\ op = "delete" /\ pc = "save" => name \notin content

RootPushed == \E i \in 1 .. Len(undo) : undo[i] = "root"

\* A directory no registered site has is one Create knows it must take back.
RootInv ==
    ~CanCrash =>
        /\ dirs \subseteq Registered(disk) \cup {name}
        /\ op # "create" => dirs \subseteq Registered(disk)
        /\ op = "create" /\ name \in dirs => RootPushed
        /\ op = "create" /\ pc \in Reconciling \cup {"useradd", "chown", "usermod", "index", "save"}
             => RootPushed
        /\ op = "delete" /\ pc = "save" => name \notin dirs
        /\ pc \in {"add", "failed"} => undo = <<>>

IInv ==
    /\ TypeOK /\ PlanInv /\ UndoInv /\ MemInv
    /\ ServedInv /\ GoneInv /\ FilesInv /\ RootInv

-----------------------------------------------------------------------------
(* The plan and the rollback stack as sequences.                           *)

LEMMA PlanFacts ==
  ASSUME plan \in Plans, plan # <<>>
  PROVE  /\ Tail(plan) \in Plans
         /\ Tail(plan) # <<>> =>
              \/ Head(plan) = "delete" /\ Head(Tail(plan)) = "create"
              \/ Head(plan) = "create" /\ Head(Tail(plan)) = "fill"
         /\ Head(plan) \in AllKinds \cup {"fill"}
         /\ Head(plan) \notin {"force-create", "clone", "restore"}
<1>1. CASE plan \in {<<"create">>, <<"fill">>}
  BY <1>1 DEF Plans, AllKinds
<1>2. CASE plan \in {<<"create", "fill">>, <<"delete", "create">>}
  <2>1. CASE plan = <<"create", "fill">>
    <3>1. Tail(plan) = <<"fill">> /\ Head(plan) = "create"
      BY <2>1
    <3>2. QED
      BY <3>1 DEF Plans, AllKinds
  <2>2. CASE plan = <<"delete", "create">>
    <3>1. Tail(plan) = <<"create">> /\ Head(plan) = "delete"
      BY <2>2
    <3>2. QED
      BY <3>1 DEF Plans, AllKinds
  <2>3. QED
    BY <1>2, <2>1, <2>2
<1>3. CASE plan = <<"delete", "create", "fill">>
  <2>1. Tail(plan) = <<"create", "fill">> /\ Head(plan) = "delete"
    BY <1>3
  <2>2. QED
    BY <2>1 DEF Plans, AllKinds
<1>4. ASSUME NEW kind \in AllKinds \ Creating, plan = <<kind>>
      PROVE  Tail(plan) = <<>> /\ Head(plan) = kind
  BY <1>4
<1>5. QED
  BY <1>1, <1>2, <1>3, <1>4 DEF Plans, AllKinds, Creating

LEMMA PlanStarts ==
  ASSUME NEW kind \in AllKinds, NEW n, NEW t, NEW r
  PROVE  /\ PlanOf(kind, n, t, r) \in Plans /\ PlanOf(kind, n, t, r) # <<>>
         /\ kind \notin Creating => /\ Head(PlanOf(kind, n, t, r)) = kind
                                   /\ Tail(PlanOf(kind, n, t, r)) = <<>>
         /\ kind \in Creating /\ r[n] # NoSite => Head(PlanOf(kind, n, t, r)) = "delete"
         /\ kind \in Creating /\ r[n] = NoSite => Head(PlanOf(kind, n, t, r)) = "create"
<1>1. kind \notin Creating => PlanOf(kind, n, t, r) = <<kind>>
  BY DEF PlanOf
<1>2. kind \notin Creating => <<kind>> \in Plans
  BY DEF Plans
<1>3. CASE kind \notin Creating
  <2>1. Head(<<kind>>) = kind /\ Tail(<<kind>>) = <<>> /\ <<kind>> # <<>>
    OBVIOUS
  <2>2. QED
    BY <1>1, <1>2, <1>3, <2>1
<1>4. CASE kind \in Creating /\ r[n] = NoSite
  <2>1. PlanOf(kind, n, t, r) \in {<<"create">>, <<"create", "fill">>}
    BY <1>4 DEF PlanOf
  <2>2. QED
    BY <1>4, <2>1 DEF Plans
<1>5. CASE kind \in Creating /\ r[n] # NoSite
  <2>1. PlanOf(kind, n, t, r) \in {<<"delete", "create">>, <<"delete", "create", "fill">>}
    BY <1>5 DEF PlanOf
  <2>2. QED
    BY <1>5, <2>1 DEF Plans
<1>6. QED
  BY <1>3, <1>4, <1>5

Undoable == {"mem", "root", "user", "vconf", "flag", "ssl"}

LEMMA Pushed ==
  ASSUME undo \in Seq(Undoable), NEW k \in Undoable
  PROVE  /\ Append(undo, k) \in Seq(Undoable) /\ Len(Append(undo, k)) = Len(undo) + 1
         /\ \A i \in 1 .. Len(undo) + 1 :
              Append(undo, k)[i] = IF i <= Len(undo) THEN undo[i] ELSE k
BY AppendProperties

LEMMA Popped ==
  ASSUME undo \in Seq(Undoable), undo # <<>>
  PROVE  /\ SubSeq(undo, 1, Len(undo) - 1) \in Seq(Undoable)
         /\ Len(SubSeq(undo, 1, Len(undo) - 1)) = Len(undo) - 1
         /\ \A i \in 1 .. Len(undo) - 1 : SubSeq(undo, 1, Len(undo) - 1)[i] = undo[i]
         /\ Len(undo) \in Nat \ {0} /\ undo[Len(undo)] \in Undoable
<1>1. Len(undo) \in Nat /\ Len(undo) # 0
  BY EmptySeq
<1>2. undo[Len(undo)] \in Undoable
  BY <1>1
<1> DEFINE k == Len(undo) - 1
<1>3. k \in Nat /\ \A i \in 1 .. k : undo[i] \in Undoable
  BY <1>1
<1> HIDE DEF k
<1>4. /\ SubSeq(undo, 1, k) \in Seq(Undoable) /\ Len(SubSeq(undo, 1, k)) = k
      /\ \A i \in 1 .. k : SubSeq(undo, 1, k)[i] = undo[i]
  BY <1>3, SubSeqProperties
<1>5. QED
  BY <1>1, <1>2, <1>4 DEF k

-----------------------------------------------------------------------------
(* The record of the site in work.                                         *)

LEMMA Flagged ==
  ASSUME NEW s \in Site, NEW b \in BOOLEAN
  PROVE  /\ [s EXCEPT !.user = b] \in Site /\ [s EXCEPT !.ssl = b] \in Site
         /\ [s EXCEPT !.maint = b] \in Site
BY DEF Site

LEMMA Recorded ==
  ASSUME mem \in [Names -> Site \cup {NoSite}], name \in Names, mem[name] \in Site,
         NEW b \in BOOLEAN, NEW r,
         r = [mem EXCEPT ![name].user = b] \/ r = [mem EXCEPT ![name].ssl = b]
           \/ r = [mem EXCEPT ![name].maint = b]
  PROVE  /\ r \in [Names -> Site \cup {NoSite}] /\ r[name] \in Site
         /\ \A n \in Names \ {name} : r[n] = mem[n]
<1>1. PICK s \in Site : r = [mem EXCEPT ![name] = s]
  BY Flagged
<1>2. QED
  BY <1>1

LEMMA SetUp ==
  ASSUME mem \in [Names -> Site \cup {NoSite}], name \in Names, mem[name] \in Site,
         NEW u \in Setups, NEW r,
         r = [mem EXCEPT ![name].setup = u] \/ r = [mem EXCEPT ![name].setup = u, ![name].user = TRUE]
  PROVE  /\ r \in [Names -> Site \cup {NoSite}] /\ r[name] \in Site
         /\ \A n \in Names \ {name} : r[n] = mem[n]
<1>1. /\ [mem[name] EXCEPT !.setup = u] \in Site
      /\ [mem[name] EXCEPT !.setup = u, !.user = TRUE] \in Site
  BY DEF Site
<1>2. PICK s \in Site : r = [mem EXCEPT ![name] = s]
  BY <1>1
<1>3. QED
  BY <1>2

LEMMA NewSite ==
  ASSUME cmd.type \in Types, cmd.setup \in Setups
  PROVE  [type |-> cmd.type, setup |-> cmd.setup, user |-> cmd.type # "html",
          ssl |-> FALSE, maint |-> FALSE] \in Site
<1> DEFINE b == cmd.type # "html"
<1>1. b \in BOOLEAN
  OBVIOUS
<1> HIDE DEF b
<1>2. [type |-> cmd.type, setup |-> cmd.setup, user |-> b, ssl |-> FALSE, maint |-> FALSE] \in Site
  BY <1>1 DEF Site
<1>3. QED
  BY <1>2 DEF b


-----------------------------------------------------------------------------
(* The steps.                                                              *)

LEMMA PlanStep == ASSUME IInv, [Next]_vars PROVE PlanInv'
<1> USE DEF IInv, TypeOK, PlanInv, Changing, Reconciling
<1>1. ASSUME NEW kind \in AllKinds, NEW n \in Names, NEW t \in Types \cup {"none"},
             NEW u \in Setups \cup {NoSetup}, Start(kind, n, t, u)
      PROVE  PlanInv'
  <2>1. /\ plan' = PlanOf(kind, n, t, disk) /\ pc = "idle" /\ pc' = "next"
        /\ cmd' = [kind |-> kind, name |-> n, type |-> t, setup |-> u]
        /\ kind \in Creating => t \in Types
    BY <1>1 DEF Start, Goto
  <2>2. plan' \in Plans /\ plan' # <<>>
    BY <2>1, PlanStarts
  <2>3. op' = IF kind \notin Creating THEN kind
              ELSE IF disk[n] # NoSite THEN "delete" ELSE "create"
    BY <2>1, <2>2, PlanStarts DEF op
  <2>4. /\ kind \notin Creating => Tail(plan') = <<>>
        /\ name' = n /\ n # NoName /\ cmd'.kind = kind /\ cmd'.type = t
    BY <2>1, PlanStarts, NamesAssumption DEF name
  <2>5. op' \in {"create", "delete"} => kind \in Creating \cup {"delete"}
    BY <2>3 DEF Creating
  <2>6. op' \in AllKinds /\ (op' \in Changing \cup {"reconcile"} => kind = op')
    BY <2>3 DEF Creating, AllKinds
  <2>7. op' = "create" => kind \in Creating
    BY <2>3 DEF Creating
  <2>8. op' # "fill"
    BY <2>3 DEF Creating, AllKinds
  <2>9. kind \in Creating \cup Updating => u \in Setups
    BY <1>1 DEF Start
  <2>10. cmd'.setup = u /\ cmd'.name # NoName
    BY <2>1, <2>4 DEF name
  <2>11. plan' \in Plans /\ (cmd'.kind \notin Creating /\ plan' # <<>> => Tail(plan') = <<>>)
    BY <2>2, <2>4
  <2>12. QED
    BY <2>1, <2>4, <2>5, <2>6, <2>7, <2>8, <2>9, <2>10, <2>11
<1>2. CASE NextOperation
  BY <1>2, NamesAssumption, PlanFacts
     DEF NextOperation, FirstStep, host, proc, op, name, AllKinds, Creating,
         Commands
<1>3. CASE CommandDone
  BY <1>3 DEF CommandDone, host, op
<1>4. CASE End
  BY <1>4 DEF End, Exit, NoCommand, Nothing, host, op, Plans
<1>5. CASE ReconcileNothing
  BY <1>5 DEF ReconcileNothing, Goto, NoListener, host, op
<1>6. CASE Allocate
  BY <1>6 DEF Allocate, host, op
<1>7. ASSUME NEW n \in Names, RenderSite(n) PROVE PlanInv'
  BY <1>7 DEF RenderSite, host, op
<1>8. CASE SaveHttpd
  BY <1>8 DEF SaveHttpd, Goto, host, op
<1>9. CASE Logrotate
  BY <1>9, NamesAssumption, PlanFacts
     DEF Logrotate, ReconcileDone, AfterReconcile, host, proc, op, name, AllKinds,
         Creating, Commands
<1>10. CASE Reload
  BY <1>10, NamesAssumption, PlanFacts
     DEF Reload, ReconcileDone, AfterReconcile, host, proc, op, name, AllKinds,
         Creating, Commands
<1>11. CASE ReconcileFails
  BY <1>11 DEF ReconcileFails, Goto, host, op
<1>12. CASE ReconcileOnly
  BY <1>12, PlanFacts DEF ReconcileOnly, OperationDone, host, op
<1>13. CASE Save
  BY <1>13, PlanFacts DEF Save, OperationDone, host, op
<1>14. CASE AddSite
  BY <1>14 DEF AddSite, Goto, host, op
<1>15. CASE MakeRoot
  BY <1>15 DEF MakeRoot, host, op
<1>16. CASE WriteIndex
  BY <1>16 DEF WriteIndex, Goto, host, op
<1>17. CASE WriteIndexFails
  BY <1>17 DEF WriteIndexFails, StepFails, Goto, host, op
<1>18. CASE AddUser
  BY <1>18 DEF AddUser, Goto, host, op
<1>19. CASE AddUserFails
  BY <1>19 DEF AddUserFails, StepFails, Goto, host, op
<1>20. CASE Chown
  BY <1>20 DEF Chown, Goto, host, op
<1>21. CASE JoinRedisGroup
  BY <1>21 DEF JoinRedisGroup, host, op
<1>22. CASE InstallWordPress
  BY <1>22 DEF InstallWordPress, Fill, Goto, host, op
<1>23. CASE Clone
  BY <1>23 DEF Clone, Fill, Goto, host, op
<1>24. CASE Restore
  BY <1>24 DEF Restore, Fill, Goto, host, op
<1>25. CASE FillFails
  BY <1>25, NamesAssumption
     DEF FillFails, Goto, host, proc, op, name, AllKinds, Creating, Commands, Plans
<1>26. CASE RemoveSite
  BY <1>26 DEF RemoveSite, Goto, host, op
<1>27. CASE Unregister
  BY <1>27 DEF Unregister, host, op
<1>28. CASE Unmap
  BY <1>28 DEF Unmap, Goto, host, op
<1>29. CASE RemoveUser
  BY <1>29 DEF RemoveUser, Goto, host, op
<1>30. CASE RemoveRoot
  BY <1>30 DEF RemoveRoot, Goto, host, op
<1>31. CASE SetUser
  BY <1>31 DEF SetUser, Goto, host, op
<1>32. CASE SetRestrained
  BY <1>32 DEF SetRestrained, host, op
<1>33. CASE Certbot
  BY <1>33 DEF Certbot, Goto, host, op
<1>34. CASE ForceSSL
  BY <1>34 DEF ForceSSL, host, op
<1>35. CASE SetMaintenance
  BY <1>35 DEF SetMaintenance, Goto, host, op
<1>35a. CASE SetSetup
  BY <1>35a DEF SetSetup, Goto, host, op
<1>36. CASE Undo
  BY <1>36 DEF Undo, host, op
<1>37. CASE UndoDone
  BY <1>37 DEF UndoDone, Goto, host, op
<1>38. ASSUME NEW at \in Fallible, StepFails(at) PROVE PlanInv'
  BY <1>38 DEF StepFails, Goto, Fallible, host, op
<1>39. CASE Crash
  BY <1>39 DEF Crash, Exit, NoCommand, Nothing, host, op, Plans
<1>40. CASE RestartOLS
  BY <1>40, NamesAssumption
     DEF RestartOLS, host, proc, op, name, AllKinds, Creating, Commands
<1>41. CASE UNCHANGED vars
  BY <1>41 DEF vars, host, proc, op, name, AllKinds, Creating, Commands
<1>42. QED
  BY <1>1, <1>2, <1>3, <1>4, <1>5, <1>6, <1>7, <1>8, <1>9, <1>10, <1>11, <1>12,
     <1>13, <1>14, <1>15, <1>16, <1>17, <1>18, <1>19, <1>20, <1>21, <1>22, <1>23,
     <1>24, <1>25, <1>26, <1>27, <1>28, <1>29, <1>30, <1>31, <1>32, <1>33, <1>34,
     <1>35, <1>35a, <1>36, <1>37, <1>38, <1>39, <1>40, <1>41
     DEF Next, Step, Reconcile, Create, Delete

LEMMA MemStep == ASSUME IInv, [Next]_vars PROVE MemInv'
<1> USE DEF IInv, TypeOK, PlanInv, UndoInv, MemInv, Changing, Reconciling
<1>1. ASSUME NEW kind \in AllKinds, NEW n \in Names, NEW t \in Types \cup {"none"},
             NEW u \in Setups \cup {NoSetup}, Start(kind, n, t, u)
      PROVE  MemInv'
  <2>1. /\ plan' = PlanOf(kind, n, t, disk) /\ pc = "idle" /\ pc' = "next" /\ mem' = disk
        /\ cmd' = [kind |-> kind, name |-> n, type |-> t, setup |-> u] /\ disk' = disk
        /\ Admissible(kind, n, t, u, disk)
    BY <1>1 DEF Start, Goto, host
  <2>2. plan' \in Plans /\ plan' # <<>>
    BY <2>1, PlanStarts
  <2>3. op' = IF kind \notin Creating THEN kind
              ELSE IF disk[n] # NoSite THEN "delete" ELSE "create"
    BY <2>1, <2>2, PlanStarts DEF op
  <2>4. name' = n
    BY <2>1 DEF name
  <2>5. QED
    BY <2>1, <2>2, <2>3, <2>4 DEF AllKinds, Creating, Admissible
<1>2. CASE NextOperation
  BY <1>2, PlanFacts DEF NextOperation, FirstStep, host, op, name
<1>3. CASE CommandDone
  BY <1>3 DEF CommandDone, host, op
<1>4. CASE End
  BY <1>4 DEF End, Exit, NoCommand, Nothing, host, op
<1>5. CASE ReconcileNothing
  BY <1>5 DEF ReconcileNothing, Goto, NoListener, host, op, name
<1>6. CASE Allocate
  BY <1>6 DEF Allocate, host, op, name
<1>7. ASSUME NEW n \in Names, RenderSite(n) PROVE MemInv'
  BY <1>7 DEF RenderSite, host, op, name
<1>8. CASE SaveHttpd
  BY <1>8 DEF SaveHttpd, Goto, host, op, name
<1>9. CASE Logrotate
  BY <1>9, PlanFacts DEF Logrotate, ReconcileDone, AfterReconcile, host, op, name
<1>10. CASE Reload
  BY <1>10, PlanFacts DEF Reload, ReconcileDone, AfterReconcile, host, op, name
<1>11. CASE ReconcileFails
  BY <1>11 DEF ReconcileFails, Goto, host, op, name
<1>12. CASE ReconcileOnly
  BY <1>12, PlanFacts DEF ReconcileOnly, OperationDone, host, op
<1>13. CASE Save
  BY <1>13, NamesAssumption, NullAssumption, PlanFacts
     DEF Save, OperationDone, host, proc, op, name, AllKinds, Creating, Commands
<1>14. CASE AddSite
  <2>1. mem' \in [Names -> Site \cup {NoSite}] /\ mem'[name] \in Site
        /\ \A n \in Names \ {name} : mem'[n] = mem[n]
    <3>1. cmd.type \in Types /\ cmd.setup \in Setups /\ name \in Names
      BY <1>14 DEF AddSite, Goto, name, Commands, Creating
    <3>2. PICK s \in Site : mem' = [mem EXCEPT ![name] = s]
      BY <1>14, <3>1, NewSite DEF AddSite
    <3>3. QED
      BY <3>1, <3>2
  <2>2. QED
    BY <1>14, <2>1 DEF AddSite, Goto, host, op, name
<1>15. CASE MakeRoot
  BY <1>15 DEF MakeRoot, host, op, name
<1>16. CASE WriteIndex
  BY <1>16 DEF WriteIndex, Goto, host, op, name
<1>17. CASE WriteIndexFails
  BY <1>17 DEF WriteIndexFails, StepFails, Goto, host, op, name
<1>18. CASE AddUser
  BY <1>18 DEF AddUser, Goto, host, op, name
<1>19. CASE AddUserFails
  BY <1>19 DEF AddUserFails, StepFails, Goto, host, op, name
<1>20. CASE Chown
  BY <1>20 DEF Chown, Goto, host, op, name
<1>21. CASE JoinRedisGroup
  BY <1>21 DEF JoinRedisGroup, host, op, name
<1>22. CASE InstallWordPress
  BY <1>22 DEF InstallWordPress, Fill, Goto, host, op, name
<1>23. CASE Clone
  BY <1>23 DEF Clone, Fill, Goto, host, op, name
<1>24. CASE Restore
  BY <1>24 DEF Restore, Fill, Goto, host, op, name
<1>25. CASE FillFails
  BY <1>25 DEF FillFails, Goto, host, op, name
<1>26. CASE RemoveSite
  BY <1>26, NamesAssumption, NullAssumption
     DEF RemoveSite, Goto, host, proc, op, name, AllKinds, Creating, Commands
<1>27. CASE Unregister
  BY <1>27 DEF Unregister, host, op, name
<1>28. CASE Unmap
  BY <1>28 DEF Unmap, Goto, host, op, name
<1>29. CASE RemoveUser
  BY <1>29 DEF RemoveUser, Goto, host, op, name
<1>30. CASE RemoveRoot
  BY <1>30 DEF RemoveRoot, Goto, host, op, name
<1>31. CASE SetUser
  <2>1. PICK u \in Setups : mem' = [mem EXCEPT ![name].setup = u, ![name].user = TRUE]
    BY <1>31 DEF SetUser, Goto, Updating
  <2>2. name \in Names /\ mem[name] \in Site
    BY <1>31 DEF SetUser, Goto, name, op, Commands
  <2>3. mem' \in [Names -> Site \cup {NoSite}] /\ mem'[name] \in Site
        /\ \A n \in Names \ {name} : mem'[n] = mem[n]
    BY <2>1, <2>2, SetUp
  <2>4. QED
    BY <1>31, <2>3 DEF SetUser, Goto, host, op, name
<1>32. CASE SetRestrained
  BY <1>32 DEF SetRestrained, host, op, name
<1>33. CASE Certbot
  <2>1. PICK b \in BOOLEAN : mem' = [mem EXCEPT ![name].ssl = b]
    BY <1>33 DEF Certbot
  <2>2. name \in Names /\ mem[name] \in Site
    BY <1>33 DEF Certbot, Goto, name, op, Commands
  <2>3. mem' \in [Names -> Site \cup {NoSite}] /\ mem'[name] \in Site
        /\ \A n \in Names \ {name} : mem'[n] = mem[n]
    BY <2>1, <2>2, Recorded
  <2>4. QED
    BY <1>33, <2>3 DEF Certbot, Goto, host, op, name
<1>34. CASE ForceSSL
  BY <1>34 DEF ForceSSL, host, op, name
<1>35. CASE SetMaintenance
  <2>1. PICK b \in BOOLEAN : mem' = [mem EXCEPT ![name].maint = b]
    BY <1>35 DEF SetMaintenance
  <2>2. name \in Names /\ mem[name] \in Site
    BY <1>35 DEF SetMaintenance, Goto, name, op, Commands
  <2>3. mem' \in [Names -> Site \cup {NoSite}] /\ mem'[name] \in Site
        /\ \A n \in Names \ {name} : mem'[n] = mem[n]
    BY <2>1, <2>2, Recorded
  <2>4. QED
    BY <1>35, <2>3 DEF SetMaintenance, Goto, host, op, name
<1>35a. CASE SetSetup
  <2>1. PICK u \in Setups : mem' = [mem EXCEPT ![name].setup = u]
    BY <1>35a DEF SetSetup, Goto, Updating
  <2>2. name \in Names /\ mem[name] \in Site
    BY <1>35a DEF SetSetup, Goto, name, op, Commands
  <2>3. mem' \in [Names -> Site \cup {NoSite}] /\ mem'[name] \in Site
        /\ \A n \in Names \ {name} : mem'[n] = mem[n]
    BY <2>1, <2>2, SetUp
  <2>4. QED
    BY <1>35a, <2>3 DEF SetSetup, Goto, host, op, name
<1>36. CASE Undo
  BY <1>36, Popped DEF Undo, host, op, name
<1>37. CASE UndoDone
  BY <1>37 DEF UndoDone, Goto, host, op, name
<1>38. ASSUME NEW at \in Fallible, StepFails(at) PROVE MemInv'
  BY <1>38 DEF StepFails, Goto, Fallible, host, op, name
<1>39. CASE Crash
  BY <1>39 DEF Crash, Exit, NoCommand, Nothing, host, op
<1>40. CASE RestartOLS
  BY <1>40, NamesAssumption, NullAssumption
     DEF RestartOLS, host, proc, op, name, AllKinds, Creating, Commands
<1>41. CASE UNCHANGED vars
  BY <1>41 DEF vars, host, proc, op, name, AllKinds, Creating, Commands
<1>42. QED
  BY <1>1, <1>2, <1>3, <1>4, <1>5, <1>6, <1>7, <1>8, <1>9, <1>10, <1>11, <1>12,
     <1>13, <1>14, <1>15, <1>16, <1>17, <1>18, <1>19, <1>20, <1>21, <1>22, <1>23,
     <1>24, <1>25, <1>26, <1>27, <1>28, <1>29, <1>30, <1>31, <1>32, <1>33, <1>34,
     <1>35, <1>35a, <1>36, <1>37, <1>38, <1>39, <1>40, <1>41
     DEF Next, Step, Reconcile, Create, Delete

LEMMA UndoStep == ASSUME IInv, [Next]_vars PROVE UndoInv'
<1> USE DEF IInv, TypeOK, PlanInv, MemInv, UndoInv, Changing, Reconciling
<1>1. ASSUME NEW kind \in AllKinds, NEW n \in Names, NEW t \in Types \cup {"none"},
             NEW u \in Setups \cup {NoSetup}, Start(kind, n, t, u)
      PROVE  UndoInv'
  BY <1>1 DEF Start, Goto
<1>2. CASE NextOperation
  BY <1>2 DEF NextOperation, FirstStep
<1>3. CASE CommandDone
  BY <1>3 DEF CommandDone
<1>4. CASE End
  BY <1>4 DEF End, Exit, NoCommand, Nothing
<1>5. CASE ReconcileNothing
  BY <1>5 DEF ReconcileNothing, Goto, NoListener, host, op, name
<1>6. CASE Allocate
  BY <1>6 DEF Allocate, host, op, name
<1>7. ASSUME NEW n \in Names, RenderSite(n) PROVE UndoInv'
  BY <1>7 DEF RenderSite, host, op, name
<1>8. CASE SaveHttpd
  BY <1>8 DEF SaveHttpd, Goto, host, op, name
<1>9. CASE Logrotate
  BY <1>9 DEF Logrotate, ReconcileDone, AfterReconcile, host, op, name
<1>10. CASE Reload
  BY <1>10 DEF Reload, ReconcileDone, AfterReconcile, host, op, name
<1>11. CASE ReconcileFails
  BY <1>11 DEF ReconcileFails, Goto, host, op, name
<1>12. CASE ReconcileOnly
  BY <1>12, PlanFacts DEF ReconcileOnly, OperationDone
<1>13. CASE Save
  BY <1>13, PlanFacts DEF Save, OperationDone
<1>14. CASE AddSite
  BY <1>14 DEF AddSite, Goto, host, op
<1>15. CASE MakeRoot
  BY <1>15 DEF MakeRoot, host, op
<1>16. CASE WriteIndex
  BY <1>16 DEF WriteIndex, Goto, host, op
<1>17. CASE WriteIndexFails
  BY <1>17 DEF WriteIndexFails, StepFails, Goto, host, op
<1>18. CASE AddUser
  BY <1>18 DEF AddUser, Goto, host, op, name
<1>19. CASE AddUserFails
  BY <1>19 DEF AddUserFails, StepFails, Goto, host, op, name
<1>20. CASE Chown
  BY <1>20 DEF Chown, Goto, host, op, name
<1>21. CASE JoinRedisGroup
  BY <1>21 DEF JoinRedisGroup, host, op
<1>22. CASE InstallWordPress
  BY <1>22 DEF InstallWordPress, Fill, Goto
<1>23. CASE Clone
  BY <1>23 DEF Clone, Fill, Goto
<1>24. CASE Restore
  BY <1>24 DEF Restore, Fill, Goto
<1>25. CASE FillFails
  BY <1>25 DEF FillFails, Goto
<1>26. CASE RemoveSite
  BY <1>26 DEF RemoveSite, Goto
<1>27. CASE Unregister
  BY <1>27 DEF Unregister
<1>28. CASE Unmap
  BY <1>28 DEF Unmap, Goto
<1>29. CASE RemoveUser
  BY <1>29 DEF RemoveUser, Goto
<1>30. CASE RemoveRoot
  BY <1>30 DEF RemoveRoot, Goto
<1>31. CASE SetUser
  <2>1. PICK u \in Setups : mem' = [mem EXCEPT ![name].setup = u, ![name].user = TRUE]
    BY <1>31 DEF SetUser, Goto, Updating
  <2>2. name \in Names /\ mem[name] \in Site
    BY <1>31 DEF SetUser, Goto, name, op, Commands
  <2>3. mem'[name] \in Site
    BY <2>1, <2>2, SetUp
  <2>4. /\ Len(undo') = 1 /\ undo'[1] = "flag" /\ \A i \in 1 .. Len(undo') : i = 1
    BY <1>31 DEF SetUser
  <2>6. QED
    BY <1>31, <2>3, <2>4 DEF SetUser, Goto, host, op, name
<1>32. CASE SetRestrained
  BY <1>32 DEF SetRestrained, host, op, name
<1>33. CASE Certbot
  <2>1. PICK b \in BOOLEAN : mem' = [mem EXCEPT ![name].ssl = b]
    BY <1>33 DEF Certbot
  <2>2. name \in Names /\ mem[name] \in Site
    BY <1>33 DEF Certbot, Goto, name, op, Commands
  <2>3. mem'[name] \in Site
    BY <2>1, <2>2, Recorded
  <2>4. /\ Len(undo') = 1 /\ undo'[1] = "ssl" /\ \A i \in 1 .. Len(undo') : i = 1
    BY <1>33 DEF Certbot
  <2>5. prev' \in Site
    BY <1>33, <2>2 DEF Certbot
  <2>6. QED
    BY <1>33, <2>3, <2>4, <2>5 DEF Certbot, Goto, host, op, name
<1>34. CASE ForceSSL
  BY <1>34 DEF ForceSSL, host, op, name
<1>35. CASE SetMaintenance
  BY <1>35 DEF SetMaintenance, Goto
<1>35a. CASE SetSetup
  BY <1>35a DEF SetSetup, Goto
<1>36. CASE Undo
  <2>1. /\ undo' \in Seq(Undoable) /\ Len(undo') = Len(undo) - 1
        /\ \A i \in 1 .. Len(undo') : i \in 1 .. Len(undo) /\ undo'[i] = undo[i]
        /\ Len(undo) \in 1 .. Len(undo)
    BY <1>36, Popped DEF Undo, Undoable
  <2>2. UNCHANGED <<pc, cmd, plan, prev>> /\ pc = "undo"
    BY <1>36 DEF Undo
  <2>3. undo[Len(undo)] = "flag" => mem'[name] \in Site
    <3>1. undo[Len(undo)] = "flag" => mem[name] \in Site /\ name \in Names
      BY <2>1, <2>2 DEF name, Commands
    <3>2. undo[Len(undo)] = "flag" => mem' = [mem EXCEPT ![name].user = FALSE]
      BY <1>36 DEF Undo
    <3>3. QED
      BY <3>1, <3>2, Recorded
  <2>4. undo[Len(undo)] = "ssl" => mem'[name] \in Site
    <3>1. undo[Len(undo)] = "ssl" => mem[name] \in Site /\ name \in Names /\ prev \in Site
      BY <2>1, <2>2 DEF name, Commands
    <3>2. undo[Len(undo)] = "ssl" => mem' = [mem EXCEPT ![name].ssl = prev.ssl]
      BY <1>36 DEF Undo
    <3>3. undo[Len(undo)] = "ssl" => prev.ssl \in BOOLEAN
      BY <3>1 DEF Site
    <3>4. QED
      BY <3>1, <3>2, <3>3, Recorded
  <2>5. undo[Len(undo)] \in {"root", "user", "vconf"} => mem' = mem
    BY <1>36 DEF Undo
  <2>6. \A i \in 1 .. Len(undo') : undo'[i] \in {"flag", "ssl"} => mem'[name] \in Site
    BY <2>1, <2>3, <2>4, <2>5 DEF Undoable
  <2>7. undo = <<>> => undo' = <<>>
    BY <1>36 DEF Undo
  <2>8. QED
    BY <1>36, <2>1, <2>2, <2>6, <2>7 DEF Undo, op, name
<1>37. CASE UndoDone
  BY <1>37 DEF UndoDone, Goto
<1>38. ASSUME NEW at \in Fallible, StepFails(at) PROVE UndoInv'
  BY <1>38 DEF StepFails, Goto, Fallible, host, op, name
<1>39. CASE Crash
  BY <1>39 DEF Crash, Exit, NoCommand, Nothing
<1>40. CASE RestartOLS
  BY <1>40, NamesAssumption, NullAssumption
     DEF RestartOLS, host, proc, op, name, AllKinds, Creating, Commands
<1>41. CASE UNCHANGED vars
  BY <1>41 DEF vars, host, proc, op, name, AllKinds, Creating, Commands
<1>42. QED
  BY <1>1, <1>2, <1>3, <1>4, <1>5, <1>6, <1>7, <1>8, <1>9, <1>10, <1>11, <1>12,
     <1>13, <1>14, <1>15, <1>16, <1>17, <1>18, <1>19, <1>20, <1>21, <1>22, <1>23,
     <1>24, <1>25, <1>26, <1>27, <1>28, <1>29, <1>30, <1>31, <1>32, <1>33, <1>34,
     <1>35, <1>35a, <1>36, <1>37, <1>38, <1>39, <1>40, <1>41
     DEF Next, Step, Reconcile, Create, Delete

-----------------------------------------------------------------------------
(* What is rendered, saved and loaded is of its type.                       *)

LEMMA RegisteredIn ==
  ASSUME NEW r PROVE Registered(r) \subseteq Names /\ Php(r) \subseteq Names /\ Ssl(r) \subseteq Names
BY DEF Registered, Php, Ssl

LEMMA Demanding ==
  ASSUME NEW r \in [Names -> Site \cup {NoSite}]
  PROVE  Demand(r) \in Demands /\ DOMAIN Demand(r) = Php(r)
<1>1. Demand(r) \in [Php(r) -> Presets]
  BY DEF Demand, Php, Registered, Site, Setups
<1>2. Php(r) \in SUBSET Names
  BY RegisteredIn
<1>3. QED
  BY <1>1, <1>2 DEF Demands

LEMMA Sharing ==
  ASSUME NEW r \in [Names -> Site \cup {NoSite}], NEW n
  PROVE  Share(r, n) \in Nat
<1>1. Room(r) => Compute(Demand(r)) \in [Php(r) -> Nat]
  BY Demanding, ComputeAssumption DEF Room
<1>2. QED
  BY <1>1 DEF Share

LEMMA Rendering ==
  ASSUME NEW r \in [Names -> Site \cup {NoSite}], NEW n \in Registered(r)
  PROVE  Render(r, n) \in Rendered
<1>1. n \in Names /\ r[n] \in Site
  BY DEF Registered
<1> DEFINE v == IF r[n].type = "html" /\ ~r[n].maint THEN "none" ELSE r[n].setup.php
<1>2. v \in Versions \cup {"none"}
  BY <1>1 DEF Site, Setups
<1>3. Share(r, n) \in Nat
  BY Sharing
<1>4. Render(r, n) = [type |-> r[n].type, ssl |-> r[n].ssl, maint |-> r[n].maint,
                      share |-> Share(r, n), php |-> v]
  BY DEF Render
<1> HIDE DEF v
<1>5. QED
  BY <1>1, <1>2, <1>3, <1>4 DEF Rendered, Site

LEMMA Extending ==
  ASSUME NEW h \in [vhosts : SUBSET Names, vhssl : SUBSET Names,
                    ssl : [on : BOOLEAN, map : SUBSET Names]],
         NEW r
  PROVE  WithSites(h, r) \in [vhosts : SUBSET Names, vhssl : SUBSET Names,
                              ssl : [on : BOOLEAN, map : SUBSET Names]]
<1>1. [on |-> TRUE, map |-> h.ssl.map \cup Ssl(r)] \in [on : BOOLEAN, map : SUBSET Names]
  BY RegisteredIn
<1>2. NoListener \in [on : BOOLEAN, map : SUBSET Names]
  BY DEF NoListener
<1>3. QED
  BY <1>1, <1>2, RegisteredIn DEF WithSites

LEMMA Loading ==
  ASSUME NEW h, NEW v \in [Names -> Rendered \cup {NoConf}]
  PROVE  Loaded(h, v) \in [Names -> Loadable \cup {NoConf}]
<1> SUFFICES ASSUME NEW n \in Names PROVE Loaded(h, v)[n] \in Loadable \cup {NoConf}
  BY DEF Loaded
<1> DEFINE b == h.ssl.on /\ n \in h.ssl.map \cap h.vhssl
<1>1. b \in BOOLEAN
  OBVIOUS
<1>2. Loaded(h, v)[n] = IF n \in h.vhosts /\ v[n] # NoConf
                        THEN [conf |-> v[n], tls |-> b] ELSE NoConf
  BY DEF Loaded
<1> HIDE DEF b
<1>3. CASE n \in h.vhosts /\ v[n] # NoConf
  BY <1>1, <1>2, <1>3 DEF Loadable
<1>4. QED
  BY <1>2, <1>3

LEMMA TypeStep == ASSUME IInv, [Next]_vars PROVE TypeOK'
<1> USE DEF IInv, TypeOK, PlanInv, MemInv, UndoInv, Changing, Reconciling, ServedInv
<1>1. ASSUME NEW kind \in AllKinds, NEW n \in Names, NEW t \in Types \cup {"none"},
             NEW u \in Setups \cup {NoSetup}, Start(kind, n, t, u)
      PROVE  TypeOK'
  <2>1. /\ cmd' = [kind |-> kind, name |-> n, type |-> t, setup |-> u] /\ pc' = "next" /\ mem' = disk
        /\ UNCHANGED <<host, doomed, todo, undo, prev>>
    BY <1>1 DEF Start, Goto
  <2>2. cmd' \in Commands
    BY <2>1 DEF Commands
  <2>3. QED
    BY <2>1, <2>2 DEF host, ControlPoints
<1>2. CASE NextOperation
  <2>1. plan \in Plans /\ plan # <<>> /\ pc' = FirstStep(Head(plan))
    BY <1>2 DEF NextOperation
  <2>2. Head(plan) \in AllKinds \cup {"fill"} /\ Head(plan) \notin {"force-create", "clone", "restore"}
    BY <2>1, PlanFacts
  <2>3. pc' \in ControlPoints
    BY <2>1, <2>2 DEF FirstStep, AllKinds, ControlPoints
  <2>4. QED
    BY <1>2, <2>3 DEF NextOperation, host, Commands
<1>3. CASE CommandDone
  BY <1>3 DEF CommandDone, host, ControlPoints
<1>4. CASE End
  <2>1. /\ pc' = "idle" /\ cmd' = NoCommand /\ doomed' = FALSE
        /\ mem' = Nothing /\ todo' = {} /\ undo' = <<>> /\ prev' = NoRecord
        /\ UNCHANGED host
    BY <1>4 DEF End, Exit
  <2>2. doomed' \in BOOLEAN
    BY <2>1
  <2>3. cmd' \in Commands
    BY <2>1 DEF Commands, NoCommand
  <2>4. mem' \in [Names -> Site \cup {NoSite}]
    BY <2>1 DEF Nothing
  <2>5. undo' \in Seq(Undoable) /\ Len(undo') <= 4
    BY <2>1
  <2>6. QED
    BY <2>1, <2>2, <2>3, <2>4, <2>5 DEF host, ControlPoints, Undoable
<1>5. CASE ReconcileNothing
  BY <1>5 DEF ReconcileNothing, Goto, NoListener, host, ControlPoints
<1>6. CASE Allocate
  BY <1>6, RegisteredIn DEF Allocate, host, ControlPoints
<1>7. ASSUME NEW n \in Names, RenderSite(n) PROVE TypeOK'
  <2>1. n \in Registered(mem)
    BY <1>7 DEF RenderSite, ServedInv
  <2>2. Render(mem, n) \in Rendered
    BY <2>1, Rendering
  <2>3. QED
    BY <1>7, <2>2 DEF RenderSite, host
<1>8. CASE SaveHttpd
  <2>1. WithSites(httpd, mem) \in [vhosts : SUBSET Names, vhssl : SUBSET Names,
                                  ssl : [on : BOOLEAN, map : SUBSET Names]]
    BY Extending
  <2>2. QED
    BY <1>8, <2>1 DEF SaveHttpd, Goto, host, ControlPoints
<1>9. CASE Logrotate
  BY <1>9 DEF Logrotate, ReconcileDone, AfterReconcile, host, ControlPoints
<1>10. CASE Reload
  <2>1. running' = Loaded(httpd, vconf)
    BY <1>10 DEF Reload
  <2>2. running' \in [Names -> Loadable \cup {NoConf}]
    BY <2>1, Loading
  <2>3. pc' \in ControlPoints
    BY <1>10 DEF Reload, ReconcileDone, AfterReconcile, ControlPoints, proc
  <2>4. QED
    BY <1>10, <2>2, <2>3 DEF Reload, proc
<1>11. CASE ReconcileFails
  BY <1>11 DEF ReconcileFails, Goto, host, ControlPoints
<1>12. CASE ReconcileOnly
  BY <1>12 DEF ReconcileOnly, OperationDone, host, ControlPoints
<1>13. CASE Save
  BY <1>13 DEF Save, OperationDone, host, ControlPoints
<1>14. CASE AddSite
  <2>1. cmd.type \in Types /\ cmd.setup \in Setups /\ name \in Names
    BY <1>14 DEF AddSite, Goto, name, Commands, Creating
  <2>2. mem' \in [Names -> Site \cup {NoSite}]
    BY <1>14, <2>1, NewSite DEF AddSite
  <2>3. undo' \in Seq(Undoable) /\ Len(undo') <= 4
    BY <1>14 DEF AddSite, Undoable
  <2>4. QED
    BY <1>14, <2>2, <2>3 DEF AddSite, Goto, host, ControlPoints, Undoable
<1>15. CASE MakeRoot
  <2>1. undo \in Seq(Undoable) /\ Len(undo) <= 3 /\ Len(undo) \in Nat
    BY <1>15 DEF MakeRoot, Goto, Undoable
  <2>2. undo' \in Seq(Undoable) /\ Len(undo') <= 4
    <3>1. undo' = Append(undo, "root") \/ undo' = undo
      BY <1>15 DEF MakeRoot
    <3>2. Append(undo, "root") \in Seq(Undoable) /\ Len(Append(undo, "root")) = Len(undo) + 1
      BY <2>1, Pushed DEF Undoable
    <3>3. Len(undo) + 1 <= 4
      BY <2>1
    <3>4. QED
      BY <2>1, <3>1, <3>2, <3>3
  <2>3. name \in Names
    BY <1>15 DEF MakeRoot, Goto, name, Commands
  <2>4. QED
    BY <1>15, <2>2, <2>3 DEF MakeRoot, Goto, host, ControlPoints, Undoable, Users
<1>16. CASE WriteIndex
  <2>1. undo \in Seq(Undoable) /\ Len(undo) <= 3 /\ Len(undo) \in Nat
    BY <1>16 DEF WriteIndex, Goto, Undoable
  <2>2. undo' \in Seq(Undoable) /\ Len(undo') <= 4
    <3>1. undo' = Append(undo, "vconf") \/ undo' = undo
      BY <1>16 DEF WriteIndex
    <3>2. Append(undo, "vconf") \in Seq(Undoable) /\ Len(Append(undo, "vconf")) = Len(undo) + 1
      BY <2>1, Pushed DEF Undoable
    <3>3. Len(undo) + 1 <= 4
      BY <2>1
    <3>4. QED
      BY <2>1, <3>1, <3>2, <3>3
  <2>3. name \in Names
    BY <1>16 DEF WriteIndex, Goto, name, Commands
  <2>4. QED
    BY <1>16, <2>2, <2>3 DEF WriteIndex, Goto, host, ControlPoints, Undoable, Users
<1>17. CASE WriteIndexFails
  BY <1>17 DEF WriteIndexFails, StepFails, Goto, host, ControlPoints
<1>18. CASE AddUser
  <2>1. undo \in Seq(Undoable) /\ Len(undo) <= 3 /\ Len(undo) \in Nat
    BY <1>18 DEF AddUser, Goto, Undoable
  <2>2. undo' \in Seq(Undoable) /\ Len(undo') <= 4
    <3>1. undo' = Append(undo, "user") \/ undo' = undo
      BY <1>18 DEF AddUser
    <3>2. Append(undo, "user") \in Seq(Undoable) /\ Len(Append(undo, "user")) = Len(undo) + 1
      BY <2>1, Pushed DEF Undoable
    <3>3. Len(undo) + 1 <= 4
      BY <2>1
    <3>4. QED
      BY <2>1, <3>1, <3>2, <3>3
  <2>3. name \in Names
    BY <1>18 DEF AddUser, Goto, name, Commands
  <2>4. QED
    BY <1>18, <2>2, <2>3 DEF AddUser, Goto, host, ControlPoints, Undoable, Users
<1>19. CASE AddUserFails
  BY <1>19 DEF AddUserFails, StepFails, Goto, host, ControlPoints
<1>20. CASE Chown
  BY <1>20 DEF Chown, Goto, host, ControlPoints
<1>21. CASE JoinRedisGroup
  <2>1. undo' \in Seq(Undoable) /\ Len(undo') <= 4
    <3>1. undo' = <<>> \/ undo' = undo
      BY <1>21 DEF JoinRedisGroup
    <3>2. Len(undo) <= 4 /\ <<>> \in Seq(Undoable) /\ Len(<<>>) <= 4
      BY DEF Undoable
    <3>3. QED
      BY <3>1, <3>2 DEF Undoable
  <2>2. QED
    BY <1>21, <2>1 DEF JoinRedisGroup, host, ControlPoints, Undoable
<1>22. CASE InstallWordPress
  BY <1>22, NamesAssumption
     DEF InstallWordPress, Fill, Goto, host, proc, op, name, AllKinds, Creating,
         Commands, ControlPoints, Undoable, Users, NoListener, NoRecord
<1>23. CASE Clone
  BY <1>23, NamesAssumption
     DEF Clone, Fill, Goto, host, proc, op, name, AllKinds, Creating, Commands,
         ControlPoints, Undoable, Users, NoListener, NoRecord
<1>24. CASE Restore
  BY <1>24, NamesAssumption
     DEF Restore, Fill, Goto, host, proc, op, name, AllKinds, Creating, Commands,
         ControlPoints, Undoable, Users, NoListener, NoRecord
<1>25. CASE FillFails
  BY <1>25, NamesAssumption
     DEF FillFails, Goto, host, proc, op, name, AllKinds, Creating, Commands,
         ControlPoints, Undoable, Users, NoListener, NoRecord
<1>26. CASE RemoveSite
  BY <1>26, NamesAssumption
     DEF RemoveSite, Goto, host, proc, op, name, AllKinds, Creating, Commands,
         ControlPoints, Undoable, Users, NoListener, NoRecord
<1>27. CASE Unregister
  BY <1>27 DEF Unregister, host, ControlPoints
<1>28. CASE Unmap
  BY <1>28 DEF Unmap, Goto, host, ControlPoints
<1>29. CASE RemoveUser
  BY <1>29 DEF RemoveUser, Goto, host, ControlPoints
<1>30. CASE RemoveRoot
  BY <1>30 DEF RemoveRoot, Goto, host, ControlPoints
<1>31. CASE SetUser
  <2>1. PICK u \in Setups : mem' = [mem EXCEPT ![name].setup = u, ![name].user = TRUE]
    BY <1>31 DEF SetUser, Goto, Updating
  <2>2. name \in Names /\ mem[name] \in Site
    BY <1>31 DEF SetUser, Goto, name, op, Commands
  <2>3. mem' \in [Names -> Site \cup {NoSite}]
    BY <2>1, <2>2, SetUp
  <2>4. undo' \in Seq(Undoable) /\ Len(undo') <= 4
    BY <1>31 DEF SetUser, Undoable
  <2>5. QED
    BY <1>31, <2>2, <2>3, <2>4 DEF SetUser, Goto, host, ControlPoints, Undoable
<1>32. CASE SetRestrained
  BY <1>32 DEF SetRestrained, host, ControlPoints
<1>33. CASE Certbot
  <2>1. PICK b \in BOOLEAN : mem' = [mem EXCEPT ![name].ssl = b]
    BY <1>33 DEF Certbot
  <2>2. name \in Names /\ mem[name] \in Site
    BY <1>33 DEF Certbot, Goto, name, op, Commands
  <2>3. mem' \in [Names -> Site \cup {NoSite}]
    BY <2>1, <2>2, Recorded
  <2>4. undo' \in Seq(Undoable) /\ Len(undo') <= 4
    BY <1>33 DEF Certbot, Undoable
  <2>5. QED
    BY <1>33, <2>2, <2>3, <2>4 DEF Certbot, Goto, host, ControlPoints, Undoable
<1>34. CASE ForceSSL
  BY <1>34 DEF ForceSSL, host, ControlPoints
<1>35. CASE SetMaintenance
  <2>1. PICK b \in BOOLEAN : mem' = [mem EXCEPT ![name].maint = b]
    BY <1>35 DEF SetMaintenance
  <2>2. name \in Names /\ mem[name] \in Site
    BY <1>35 DEF SetMaintenance, Goto, name, op, Commands
  <2>3. mem' \in [Names -> Site \cup {NoSite}]
    BY <2>1, <2>2, Recorded
  <2>4. undo' \in Seq(Undoable) /\ Len(undo') <= 4
    BY <1>35 DEF SetMaintenance, Undoable
  <2>5. QED
    BY <1>35, <2>2, <2>3, <2>4 DEF SetMaintenance, Goto, host, ControlPoints, Undoable
<1>35a. CASE SetSetup
  <2>1. PICK u \in Setups : mem' = [mem EXCEPT ![name].setup = u]
    BY <1>35a DEF SetSetup, Goto, Updating
  <2>2. name \in Names /\ mem[name] \in Site
    BY <1>35a DEF SetSetup, Goto, name, op, Commands
  <2>3. mem' \in [Names -> Site \cup {NoSite}]
    BY <2>1, <2>2, SetUp
  <2>4. undo' \in Seq(Undoable) /\ Len(undo') <= 4
    BY <1>35a DEF SetSetup, Undoable
  <2>5. QED
    BY <1>35a, <2>2, <2>3, <2>4 DEF SetSetup, Goto, host, ControlPoints, Undoable
<1>36. CASE Undo
  <2>1. /\ undo' \in Seq(Undoable) /\ Len(undo') = Len(undo) - 1 /\ Len(undo) \in Nat
        /\ undo[Len(undo)] \in Undoable /\ Len(undo) \in 1 .. Len(undo)
    BY <1>36, Popped DEF Undo, Undoable
  <2>2. name \in Names
    BY <1>36 DEF Undo, name, Commands
  <2>3. mem' \in [Names -> Site \cup {NoSite}]
    <3>1. undo[Len(undo)] = "flag" => mem[name] \in Site
      BY <2>1
    <3>2. undo[Len(undo)] = "ssl" => mem[name] \in Site /\ prev.ssl \in BOOLEAN
      BY <2>1 DEF Site
    <3>3. CASE undo[Len(undo)] = "mem"
      <4>1. mem' = [mem EXCEPT ![name] = NoSite]
        BY <1>36, <3>3 DEF Undo
      <4>2. QED
        BY <4>1, <2>2
    <3>4. CASE undo[Len(undo)] = "flag"
      <4>1. mem' = [mem EXCEPT ![name].user = FALSE]
        BY <1>36, <3>4 DEF Undo
      <4>2. QED
        BY <4>1, <2>2, <3>1, <3>4, Recorded
    <3>5. CASE undo[Len(undo)] = "ssl"
      <4>1. mem' = [mem EXCEPT ![name].ssl = prev.ssl]
        BY <1>36, <3>5 DEF Undo
      <4>2. QED
        BY <4>1, <2>2, <3>2, <3>5, Recorded
    <3>6. CASE undo[Len(undo)] \in {"root", "user", "vconf"}
      BY <1>36, <3>6 DEF Undo
    <3>7. QED
      BY <2>1, <3>3, <3>4, <3>5, <3>6 DEF Undoable
  <2>4. vconf' \in [Names -> Rendered \cup {NoConf}]
    BY <1>36 DEF Undo
  <2>5. dirs' \subseteq Names /\ content' \subseteq Names /\ users' \subseteq Users
    BY <1>36 DEF Undo
  <2>6. UNCHANGED <<disk, httpd, running, pc, cmd, doomed, todo, prev>>
    BY <1>36 DEF Undo
  <2>7. QED
    BY <2>1, <2>3, <2>4, <2>5, <2>6 DEF Undoable
<1>37. CASE UndoDone
  BY <1>37 DEF UndoDone, Goto, host, ControlPoints
<1>38. ASSUME NEW at \in Fallible, StepFails(at) PROVE TypeOK'
  BY <1>38 DEF StepFails, Goto, Fallible, host, ControlPoints
<1>39. CASE Crash
  <2>1. /\ pc' = "idle" /\ cmd' = NoCommand /\ doomed' = FALSE
        /\ mem' = Nothing /\ todo' = {} /\ undo' = <<>> /\ prev' = NoRecord
        /\ UNCHANGED host
    BY <1>39 DEF Crash, Exit
  <2>2. doomed' \in BOOLEAN
    BY <2>1
  <2>3. cmd' \in Commands
    BY <2>1 DEF Commands, NoCommand
  <2>4. mem' \in [Names -> Site \cup {NoSite}]
    BY <2>1 DEF Nothing
  <2>5. undo' \in Seq(Undoable) /\ Len(undo') <= 4
    BY <2>1
  <2>6. QED
    BY <2>1, <2>2, <2>3, <2>4, <2>5 DEF host, ControlPoints, Undoable
<1>40. CASE RestartOLS
  <2>1. running' = Loaded(httpd, vconf)
    BY <1>40 DEF RestartOLS
  <2>2. running' \in [Names -> Loadable \cup {NoConf}]
    BY <2>1, Loading
  <2>3. pc' \in ControlPoints
    BY <1>40 DEF RestartOLS, ReconcileDone, AfterReconcile, ControlPoints, proc
  <2>4. QED
    BY <1>40, <2>2, <2>3 DEF RestartOLS, proc
<1>41. CASE UNCHANGED vars
  BY <1>41
     DEF vars, host, proc, op, name, AllKinds, Creating, Commands, ControlPoints,
         Undoable, Users, NoListener, NoRecord
<1>42. QED
  BY <1>1, <1>2, <1>3, <1>4, <1>5, <1>6, <1>7, <1>8, <1>9, <1>10, <1>11, <1>12,
     <1>13, <1>14, <1>15, <1>16, <1>17, <1>18, <1>19, <1>20, <1>21, <1>22, <1>23,
     <1>24, <1>25, <1>26, <1>27, <1>28, <1>29, <1>30, <1>31, <1>32, <1>33, <1>34,
     <1>35, <1>35a, <1>36, <1>37, <1>38, <1>39, <1>40, <1>41
     DEF Next, Step, Reconcile, Create, Delete

-----------------------------------------------------------------------------
(* What is placed is served once OLS has started.                           *)

LEMMA Settles ==
  ASSUME TypeOK, NEW n \in Registered(mem), Placed(n)
  PROVE  Serves(Loaded(httpd, vconf), mem, n)
<1>1. n \in Names /\ vconf[n] # NoConf
  <2>1. Render(mem, n) \in Rendered
    BY Rendering DEF TypeOK
  <2>2. QED
    BY <2>1, ConfAssumption DEF Placed, Registered
<1> DEFINE b == httpd.ssl.on /\ n \in httpd.ssl.map \cap httpd.vhssl
<1>2. Loaded(httpd, vconf)[n] = [conf |-> vconf[n], tls |-> b]
  BY <1>1 DEF Loaded, Placed
<1>3. b \in BOOLEAN /\ (mem[n].ssl => b)
  BY DEF Placed
<1> HIDE DEF b
<1>4. [conf |-> vconf[n], tls |-> b] \in [conf : Rendered \cup {NoConf}, tls : BOOLEAN]
  BY <1>1, <1>3 DEF TypeOK
<1>5. [conf |-> vconf[n], tls |-> b] # NoConf
  BY <1>1, <1>4, ConfAssumption DEF Loadable, TypeOK
<1>6. QED
  BY <1>2, <1>3, <1>5 DEF Serves, Placed

LEMMA ServedStep == ASSUME IInv, [Next]_vars PROVE ServedInv'
<1> USE DEF IInv, PlanInv, MemInv, ServedInv, Reconciling
<1>1. ASSUME NEW kind \in AllKinds, NEW n \in Names, NEW t \in Types \cup {"none"},
             NEW u \in Setups \cup {NoSetup}, Start(kind, n, t, u)
      PROVE  ServedInv'
  <2>1. plan' = PlanOf(kind, n, t, disk) /\ pc = "idle" /\ pc' = "next" /\ todo' = todo
    BY <1>1 DEF Start, Goto
  <2>2. plan' \in Plans /\ plan' # <<>> /\ Head(plan') \notin {"none", "fill"}
    BY <2>1, PlanStarts DEF AllKinds, Creating
  <2>3. QED
    BY <2>1, <2>2 DEF Settled, op
<1>2. CASE NextOperation
  <2>1. pc = "next" /\ plan # <<>> /\ pc' = FirstStep(Head(plan)) /\ UNCHANGED <<host, mem, todo, plan>>
    BY <1>2 DEF NextOperation
  <2>2. Head(plan) \in AllKinds \cup {"fill"} /\ Head(plan) \notin {"force-create", "clone", "restore"}
    BY <2>1, PlanFacts
  <2>3. /\ pc' \notin {"next", "ok", "userdel", "rmroot", "save", "done", "render", "logrotate", "reload"}
        /\ pc' = "fill" => op = "fill"
    BY <2>1, <2>2 DEF FirstStep, AllKinds, op
  <2>4. Settled' => Settled
    BY <2>1, <2>3 DEF Settled
  <2>5. QED
    BY <2>1, <2>3, <2>4 DEF host, Placed, Serves
<1>3. CASE CommandDone
  <2>1. Settled /\ UNCHANGED <<host, mem, todo>> /\ pc' \in {"ok", "failed"} /\ todo = {}
    BY <1>3 DEF CommandDone, Settled, op
  <2>2. QED
    BY <2>1 DEF host, Placed, Serves
<1>4. CASE End
  BY <1>4 DEF End, Exit, NoCommand, Nothing, host, op, Settled
<1>5. CASE ReconcileNothing
  <2>1. pc' = "logrotate" /\ Registered(mem) = {} /\ todo = {} /\ UNCHANGED <<mem, todo>>
    BY <1>5 DEF ReconcileNothing, Goto
  <2>2. QED
    BY <2>1 DEF Settled
<1>6. CASE Allocate
  <2>1. \/ pc' = "render" /\ todo' = Registered(mem) /\ mem' = mem
        \/ pc' = "undo" /\ todo' = {} /\ mem' = mem
    BY <1>6 DEF Allocate
  <2>2. QED
    BY <2>1 DEF Settled
<1>7. ASSUME NEW n \in Names, RenderSite(n) PROVE ServedInv'
  <2>1. /\ vconf' = [vconf EXCEPT ![n] = Render(mem, n)] /\ todo' = todo \ {n}
        /\ pc = "render" /\ UNCHANGED <<pc, mem>>
    BY <1>7 DEF RenderSite
  <2>2. ASSUME NEW m \in Registered(mem) \ todo' PROVE vconf'[m] = Render(mem, m)
    <3>1. m \in Names
      BY <2>2, RegisteredIn
    <3>2. m # n => vconf[m] = Render(mem, m) /\ vconf'[m] = vconf[m]
      BY <2>1, <2>2
    <3>3. m = n => vconf'[m] = Render(mem, m)
      BY <2>1, <3>1 DEF TypeOK
    <3>4. QED
      BY <3>2, <3>3
  <2>3. QED
    BY <2>1, <2>2 DEF Settled
<1>8. CASE SaveHttpd
  <2>1. /\ pc = "render" /\ pc' = "logrotate" /\ todo = {} /\ httpd' = WithSites(httpd, mem)
        /\ UNCHANGED <<todo, mem, vconf>>
    BY <1>8 DEF SaveHttpd, Goto
  <2>2. ASSUME NEW n \in Registered(mem) PROVE Placed(n)'
    <3>1. vconf'[n] = Render(mem', n)
      BY <2>1
    <3>2. n \in httpd'.vhosts
      BY <2>1 DEF WithSites
    <3>3. mem[n].ssl => n \in Ssl(mem)
      BY DEF Ssl
    <3>4. mem'[n].ssl => httpd'.ssl.on /\ n \in httpd'.ssl.map \cap httpd'.vhssl
      BY <2>1, <3>3 DEF WithSites
    <3>5. QED
      BY <3>1, <3>2, <3>4 DEF Placed
  <2>3. QED
    BY <2>1, <2>2 DEF Settled
<1>9. CASE Logrotate
  <2>1. /\ pc = "logrotate" /\ todo = {} /\ UNCHANGED <<host, mem, todo>>
        /\ pc' = "reload" \/ (Registered(mem) = {} /\ pc' # "render")
    BY <1>9 DEF Logrotate, ReconcileDone, AfterReconcile
  <2>2. CASE pc' = "reload"
    BY <2>1, <2>2 DEF host, Placed, Settled
  <2>3. CASE Registered(mem) = {} /\ pc' # "render"
    BY <2>1, <2>3
  <2>4. QED
    BY <2>1, <2>2, <2>3
<1>10. CASE Reload
  <2>1. pc = "reload" /\ todo = {} /\ UNCHANGED <<mem, todo, vconf, httpd>>
        /\ pc' \in {"userdel", "done", "save"} /\ running' = Loaded(httpd, vconf)
    BY <1>10 DEF Reload, ReconcileDone, AfterReconcile
  <2>2. ASSUME NEW n \in Registered(mem) PROVE Placed(n)' /\ Serves(running', mem', n)
    <3>1. Placed(n)
      BY <2>1
    <3>2. Serves(running', mem, n)
      BY <2>1, <3>1, Settles
    <3>3. QED
      BY <2>1, <3>1, <3>2 DEF Placed
  <2>3. QED
    BY <2>1, <2>2
<1>11. CASE ReconcileFails
  BY <1>11 DEF ReconcileFails, Goto, host, op, Settled
<1>12. CASE ReconcileOnly
  <2>1. Settled /\ pc' = "next" /\ todo = {}
        /\ UNCHANGED <<mem, todo, vconf, httpd, running>>
    BY <1>12 DEF ReconcileOnly, OperationDone, Settled, host
  <2>2. QED
    BY <2>1 DEF Placed, Serves
<1>13. CASE Save
  <2>1. Settled /\ pc' = "next" /\ todo = {}
        /\ UNCHANGED <<mem, todo, vconf, httpd, running>>
    BY <1>13 DEF Save, OperationDone, Settled, host
  <2>2. QED
    BY <2>1 DEF Placed, Serves
<1>14. CASE AddSite
  BY <1>14 DEF AddSite, Goto, host, op, Settled
<1>15. CASE MakeRoot
  BY <1>15 DEF MakeRoot, host, op, Settled
<1>16. CASE WriteIndex
  BY <1>16 DEF WriteIndex, Goto, host, op, Settled
<1>17. CASE WriteIndexFails
  BY <1>17 DEF WriteIndexFails, StepFails, Goto, host, op, Settled
<1>18. CASE AddUser
  BY <1>18 DEF AddUser, Goto, host, op, Settled
<1>19. CASE AddUserFails
  BY <1>19 DEF AddUserFails, StepFails, Goto, host, op, Settled
<1>20. CASE Chown
  BY <1>20 DEF Chown, Goto, host, op, Settled
<1>21. CASE JoinRedisGroup
  BY <1>21 DEF JoinRedisGroup, host, op, Settled
<1>22. CASE InstallWordPress
  <2>1. Settled /\ pc' \in {"alloc", "done"} /\ todo = {}
        /\ UNCHANGED <<mem, todo, vconf, httpd, running>>
    BY <1>22 DEF InstallWordPress, Fill, Goto, Settled
  <2>2. QED
    BY <2>1 DEF Placed, Serves
<1>23. CASE Clone
  <2>1. Settled /\ pc' \in {"alloc", "done"} /\ todo = {}
        /\ UNCHANGED <<mem, todo, vconf, httpd, running>>
    BY <1>23 DEF Clone, Fill, Goto, Settled
  <2>2. QED
    BY <2>1 DEF Placed, Serves
<1>24. CASE Restore
  <2>1. Settled /\ pc' \in {"alloc", "done"} /\ todo = {}
        /\ UNCHANGED <<mem, todo, vconf, httpd, running>>
    BY <1>24 DEF Restore, Fill, Goto, Settled
  <2>2. QED
    BY <2>1 DEF Placed, Serves
<1>25. CASE FillFails
  <2>1. pc' = "next" /\ plan' = <<"delete">> /\ todo = {} /\ UNCHANGED <<mem, todo>>
    BY <1>25 DEF FillFails, Goto
  <2>2. ~Settled'
    BY <2>1 DEF Settled, op
  <2>3. QED
    BY <2>1, <2>2
<1>26. CASE RemoveSite
  BY <1>26 DEF RemoveSite, Goto, host, op, Settled
<1>27. CASE Unregister
  BY <1>27 DEF Unregister, host, op, Settled
<1>28. CASE Unmap
  BY <1>28 DEF Unmap, Goto, host, op, Settled
<1>29. CASE RemoveUser
  <2>1. Settled /\ pc' \in {"rmroot"} /\ todo = {}
        /\ UNCHANGED <<mem, todo, vconf, httpd, running>>
    BY <1>29 DEF RemoveUser, Goto, Settled
  <2>2. QED
    BY <2>1 DEF Placed, Serves
<1>30. CASE RemoveRoot
  <2>1. Settled /\ pc' \in {"save"} /\ todo = {}
        /\ UNCHANGED <<mem, todo, vconf, httpd, running>>
    BY <1>30 DEF RemoveRoot, Goto, Settled
  <2>2. QED
    BY <2>1 DEF Placed, Serves
<1>31. CASE SetUser
  BY <1>31 DEF SetUser, Goto, host, op, Settled
<1>32. CASE SetRestrained
  BY <1>32 DEF SetRestrained, host, op, Settled
<1>33. CASE Certbot
  BY <1>33 DEF Certbot, Goto, host, op, Settled
<1>34. CASE ForceSSL
  BY <1>34 DEF ForceSSL, host, op, Settled
<1>35. CASE SetMaintenance
  BY <1>35 DEF SetMaintenance, Goto, host, op, Settled
<1>35a. CASE SetSetup
  BY <1>35a DEF SetSetup, Goto, host, op, Settled
<1>36. CASE Undo
  BY <1>36 DEF Undo, host, op, Settled
<1>37. CASE UndoDone
  BY <1>37 DEF UndoDone, Goto, host, op, Settled
<1>38. ASSUME NEW at \in Fallible, StepFails(at) PROVE ServedInv'
  BY <1>38 DEF StepFails, Goto, Fallible, host, op, Settled
<1>39. CASE Crash
  BY <1>39 DEF Crash, Exit, NoCommand, Nothing, host, op, Settled
<1>40. CASE RestartOLS
  <2>1. /\ UNCHANGED <<pc, plan, mem, todo, vconf, httpd>> /\ running' = Loaded(httpd, vconf)
        /\ Settled' <=> Settled
    BY <1>40 DEF RestartOLS, proc, Settled, op
  <2>2. ASSUME NEW n \in Registered(mem), Placed(n) PROVE Placed(n)' /\ Serves(running', mem', n)
    <3>1. Serves(running', mem, n)
      BY <2>1, <2>2, Settles
    <3>2. QED
      BY <2>1, <2>2, <3>1 DEF Placed
  <2>3. QED
    BY <2>1, <2>2
<1>41. CASE UNCHANGED vars
  BY <1>41 DEF vars, host, proc, Placed, Serves, Settled, op
<1>42. QED
  BY <1>1, <1>2, <1>3, <1>4, <1>5, <1>6, <1>7, <1>8, <1>9, <1>10, <1>11, <1>12,
     <1>13, <1>14, <1>15, <1>16, <1>17, <1>18, <1>19, <1>20, <1>21, <1>22, <1>23,
     <1>24, <1>25, <1>26, <1>27, <1>28, <1>29, <1>30, <1>31, <1>32, <1>33, <1>34,
     <1>35, <1>35a, <1>36, <1>37, <1>38, <1>39, <1>40, <1>41
     DEF Next, Step, Reconcile, Create, Delete

-----------------------------------------------------------------------------
(* The vhost goes before the files, and the files before the record.        *)

LEMMA GoneStep == ASSUME IInv, [Next]_vars PROVE GoneInv'
<1> USE DEF IInv, TypeOK, PlanInv, MemInv, GoneInv, Reconciling, Changing
<1>1. ASSUME NEW kind \in AllKinds, NEW n \in Names, NEW t \in Types \cup {"none"},
             NEW u \in Setups \cup {NoSetup}, Start(kind, n, t, u)
      PROVE  GoneInv'
  <2>1. pc' = "next"
    BY <1>1 DEF Start, Goto
  <2>2. QED
    BY <2>1
<1>2. CASE NextOperation
  <2>1. /\ pc = "next" /\ plan # <<>> /\ pc' = FirstStep(Head(plan))
        /\ UNCHANGED <<host, cmd, plan, mem>>
    BY <1>2 DEF NextOperation
  <2>2. Head(plan) \in AllKinds \cup {"fill"} /\ Head(plan) \notin {"force-create", "clone", "restore"}
    BY <2>1, PlanFacts
  <2>3. pc' \notin {"unmap", "userdel", "rmroot"} /\ (pc' \in Reconciling => op # "delete")
    BY <2>1, <2>2 DEF FirstStep, AllKinds, op, Reconciling
  <2>4. op' = op
    BY <2>1 DEF op
  <2>5. QED
    BY <2>3, <2>4
<1>3. CASE CommandDone
  BY <1>3 DEF CommandDone
<1>4. CASE End
  BY <1>4 DEF End, Exit, NoCommand, Nothing
<1>5. CASE ReconcileNothing
  BY <1>5 DEF ReconcileNothing, Goto, NoListener, host, op, name
<1>6. CASE Allocate
  BY <1>6 DEF Allocate, host, op, name
<1>7. ASSUME NEW n \in Names, RenderSite(n) PROVE GoneInv'
  BY <1>7 DEF RenderSite, host, op, name
<1>8. CASE SaveHttpd
  <2>1. /\ pc = "render" /\ pc' = "logrotate" /\ httpd' = WithSites(httpd, mem)
        /\ op' = op /\ name' = name
    BY <1>8 DEF SaveHttpd, Goto, op, name
  <2>2. op = "delete" => name \notin Registered(mem)
    BY <2>1 DEF Registered
  <2>3. httpd'.vhosts = httpd.vhosts \cup Registered(mem)
    BY <2>1 DEF WithSites
  <2>4. QED
    BY <2>1, <2>2, <2>3
<1>9. CASE Logrotate
  <2>1. /\ UNCHANGED <<httpd, mem, running>> /\ name' = name /\ op' = op
        /\ pc = "logrotate"
        /\ pc' = "reload" \/ (Registered(mem) = {} /\ pc' \notin {"unmap", "rmroot"})
    BY <1>9 DEF Logrotate, ReconcileDone, AfterReconcile, name, op, host
  <2>2. QED
    BY <2>1
<1>10. CASE Reload
  <2>1. /\ running' = Loaded(httpd, vconf) /\ UNCHANGED <<httpd, mem>>
        /\ name' = name /\ op' = op
    BY <1>10 DEF Reload, name, op, proc
  <2>2. /\ pc # "idle" /\ op = "delete" /\ pc \in Reconciling \cup {"unmap", "userdel", "rmroot"}
          => running'[name] = NoConf
    BY <2>1 DEF Loaded, name, Commands
  <2>3. \/ pc' = pc
        \/ /\ pc = "reload" /\ pc' \in {"userdel", "save", "done"}
           /\ pc' = "userdel" => op = "delete"
    BY <1>10 DEF Reload, ReconcileDone, AfterReconcile, proc, op
  <2>4. QED
    BY <2>1, <2>2, <2>3
<1>11. CASE ReconcileFails
  BY <1>11 DEF ReconcileFails, Goto
<1>12. CASE ReconcileOnly
  BY <1>12 DEF ReconcileOnly, OperationDone
<1>13. CASE Save
  BY <1>13 DEF Save, OperationDone
<1>14. CASE AddSite
  BY <1>14 DEF AddSite, Goto
<1>15. CASE MakeRoot
  BY <1>15 DEF MakeRoot
<1>16. CASE WriteIndex
  BY <1>16 DEF WriteIndex, Goto, host, op
<1>17. CASE WriteIndexFails
  BY <1>17 DEF WriteIndexFails, StepFails, Goto
<1>18. CASE AddUser
  BY <1>18 DEF AddUser, Goto
<1>19. CASE AddUserFails
  BY <1>19 DEF AddUserFails, StepFails, Goto
<1>20. CASE Chown
  BY <1>20 DEF Chown, Goto
<1>21. CASE JoinRedisGroup
  BY <1>21 DEF JoinRedisGroup
<1>22. CASE InstallWordPress
  BY <1>22 DEF InstallWordPress, Fill, Goto, host, op
<1>23. CASE Clone
  BY <1>23 DEF Clone, Fill, Goto
<1>24. CASE Restore
  BY <1>24 DEF Restore, Fill, Goto
<1>25. CASE FillFails
  <2>1. pc' = "next"
    BY <1>25 DEF FillFails, Goto
  <2>2. QED
    BY <2>1
<1>26. CASE RemoveSite
  BY <1>26 DEF RemoveSite, Goto
<1>27. CASE Unregister
  <2>1. /\ httpd' = [httpd EXCEPT !.vhosts = httpd.vhosts \ {name},
                               !.vhssl = httpd.vhssl \ {name}]
        /\ pc' = IF prev.ssl THEN "unmap" ELSE "alloc"
        /\ cmd' = cmd
    BY <1>27 DEF Unregister
  <2>2. httpd'.vhosts = httpd.vhosts \ {name} /\ name' = name
    BY <2>1 DEF name
  <2>3. QED
    BY <2>1, <2>2
<1>28. CASE Unmap
  <2>1. /\ (httpd' = [httpd EXCEPT !.ssl.map = httpd.ssl.map \ {name}]) \/ (httpd' = httpd)
        /\ pc = "unmap" /\ pc' = "alloc" /\ name' = name /\ op' = op
    BY <1>28 DEF Unmap, Goto, name, op
  <2>2. httpd'.vhosts = httpd.vhosts
    BY <2>1
  <2>3. QED
    BY <2>1, <2>2
<1>29. CASE RemoveUser
  BY <1>29 DEF RemoveUser, Goto, host, op, name
<1>30. CASE RemoveRoot
  BY <1>30 DEF RemoveRoot, Goto
<1>31. CASE SetUser
  BY <1>31 DEF SetUser, Goto
<1>32. CASE SetRestrained
  BY <1>32 DEF SetRestrained, host, op
<1>33. CASE Certbot
  BY <1>33 DEF Certbot, Goto
<1>34. CASE ForceSSL
  BY <1>34 DEF ForceSSL, host, op
<1>35. CASE SetMaintenance
  BY <1>35 DEF SetMaintenance, Goto, host, op
<1>35a. CASE SetSetup
  BY <1>35a DEF SetSetup, Goto, host, op
<1>36. CASE Undo
  BY <1>36 DEF Undo
<1>37. CASE UndoDone
  BY <1>37 DEF UndoDone, Goto
<1>38. ASSUME NEW at \in Fallible, StepFails(at) PROVE GoneInv'
  BY <1>38 DEF StepFails, Goto, Fallible
<1>39. CASE Crash
  BY <1>39 DEF Crash, Exit, NoCommand, Nothing
<1>40. CASE RestartOLS
  <2>1. /\ running' = Loaded(httpd, vconf) /\ UNCHANGED <<httpd, mem>>
        /\ name' = name /\ op' = op
    BY <1>40 DEF RestartOLS, name, op, proc
  <2>2. /\ pc # "idle" /\ op = "delete" /\ pc \in Reconciling \cup {"unmap", "userdel", "rmroot"}
          => running'[name] = NoConf
    BY <2>1 DEF Loaded, name, Commands
  <2>3. \/ pc' = pc
        \/ /\ pc = "reload" /\ pc' \in {"userdel", "save", "done"}
           /\ pc' = "userdel" => op = "delete"
    BY <1>40 DEF RestartOLS, ReconcileDone, AfterReconcile, proc, op
  <2>4. QED
    BY <2>1, <2>2, <2>3
<1>41. CASE UNCHANGED vars
  BY <1>41 DEF vars, host, op, name, proc
<1>42. QED
  BY <1>1, <1>2, <1>3, <1>4, <1>5, <1>6, <1>7, <1>8, <1>9, <1>10, <1>11, <1>12,
     <1>13, <1>14, <1>15, <1>16, <1>17, <1>18, <1>19, <1>20, <1>21, <1>22, <1>23,
     <1>24, <1>25, <1>26, <1>27, <1>28, <1>29, <1>30, <1>31, <1>32, <1>33, <1>34,
     <1>35, <1>35a, <1>36, <1>37, <1>38, <1>39, <1>40, <1>41
     DEF Next, Step, Reconcile, Create, Delete

LEMMA FilesStep == ASSUME IInv, [Next]_vars PROVE FilesInv'
<1> USE DEF IInv, TypeOK, PlanInv, MemInv, FilesInv, ContentIsRegistered,
            Reconciling, Changing
<1>1. ASSUME NEW kind \in AllKinds, NEW n \in Names, NEW t \in Types \cup {"none"},
             NEW u \in Setups \cup {NoSetup}, Start(kind, n, t, u)
      PROVE  FilesInv'
  <2>1. pc' = "next" /\ UNCHANGED host
    BY <1>1 DEF Start, Goto
  <2>2. QED
    BY <2>1 DEF host
<1>2. CASE NextOperation
  <2>1. /\ pc = "next" /\ plan # <<>> /\ pc' = FirstStep(Head(plan)) /\ UNCHANGED host
    BY <1>2 DEF NextOperation
  <2>2. Head(plan) \in AllKinds \cup {"fill"} /\ Head(plan) \notin {"force-create", "clone", "restore"}
    BY <2>1, PlanFacts
  <2>3. pc' # "save"
    BY <2>1, <2>2 DEF FirstStep, AllKinds
  <2>4. QED
    BY <2>1, <2>3 DEF host
<1>3. CASE CommandDone
  BY <1>3 DEF CommandDone, host
<1>4. CASE End
  BY <1>4 DEF End, Exit, NoCommand, Nothing, host
<1>5. CASE ReconcileNothing
  BY <1>5 DEF ReconcileNothing, Goto, NoListener
<1>6. CASE Allocate
  BY <1>6 DEF Allocate, host
<1>7. ASSUME NEW n \in Names, RenderSite(n) PROVE FilesInv'
  BY <1>7 DEF RenderSite
<1>8. CASE SaveHttpd
  BY <1>8 DEF SaveHttpd, Goto
<1>9. CASE Logrotate
  <2>1. UNCHANGED <<disk, content>> /\ op' = op /\ (pc' = "save" => op # "delete")
    BY <1>9 DEF Logrotate, ReconcileDone, AfterReconcile, host, op
  <2>2. QED
    BY <2>1
<1>10. CASE Reload
  <2>1. UNCHANGED <<disk, content>> /\ op' = op /\ (pc' = "save" => op # "delete")
    BY <1>10 DEF Reload, ReconcileDone, AfterReconcile, host, op
  <2>2. QED
    BY <2>1
<1>11. CASE ReconcileFails
  BY <1>11 DEF ReconcileFails, Goto, host
<1>12. CASE ReconcileOnly
  BY <1>12 DEF ReconcileOnly, OperationDone, host
<1>13. CASE Save
  <2>1. /\ pc = "save" /\ pc' = "next" /\ disk' = mem /\ content' = content
    BY <1>13 DEF Save, OperationDone
  <2>2. op = "delete" \/ mem[name] # NoSite
    BY <2>1, NullAssumption
  <2>3. content \subseteq Registered(mem)
    BY <2>1, <2>2 DEF Registered
  <2>4. QED
    BY <2>1, <2>3
<1>14. CASE AddSite
  BY <1>14 DEF AddSite, Goto, host
<1>15. CASE MakeRoot
  BY <1>15 DEF MakeRoot
<1>16. CASE WriteIndex
  BY <1>16 DEF WriteIndex, Goto, host
<1>17. CASE WriteIndexFails
  BY <1>17 DEF WriteIndexFails, StepFails, Goto, host
<1>18. CASE AddUser
  BY <1>18 DEF AddUser, Goto
<1>19. CASE AddUserFails
  BY <1>19 DEF AddUserFails, StepFails, Goto, host
<1>20. CASE Chown
  BY <1>20 DEF Chown, Goto, host
<1>21. CASE JoinRedisGroup
  BY <1>21 DEF JoinRedisGroup, host
<1>22. CASE InstallWordPress
  <2>1. content' = content \cup {name} /\ disk' = disk /\ pc = "fill" /\ pc' \in {"alloc", "done"}
    BY <1>22 DEF InstallWordPress, Fill, Goto
  <2>2. name \in Names /\ disk[name] # NoSite
    BY <2>1 DEF name, Commands
  <2>3. QED
    BY <2>1, <2>2 DEF Registered
<1>23. CASE Clone
  <2>1. content' = content \cup {name} /\ disk' = disk /\ pc = "fill" /\ pc' \in {"alloc", "done"}
    BY <1>23 DEF Clone, Fill, Goto
  <2>2. name \in Names /\ disk[name] # NoSite
    BY <2>1 DEF name, Commands
  <2>3. QED
    BY <2>1, <2>2 DEF Registered
<1>24. CASE Restore
  <2>1. content' = content \cup {name} /\ disk' = disk /\ pc = "fill" /\ pc' \in {"alloc", "done"}
    BY <1>24 DEF Restore, Fill, Goto
  <2>2. name \in Names /\ disk[name] # NoSite
    BY <2>1 DEF name, Commands
  <2>3. QED
    BY <2>1, <2>2 DEF Registered
<1>25. CASE FillFails
  <2>1. /\ content' \in {content, content \cup {name}} /\ disk' = disk
        /\ pc = "fill" /\ pc' = "next"
    BY <1>25 DEF FillFails, Goto
  <2>2. name \in Names /\ disk[name] # NoSite
    BY <2>1 DEF name, Commands
  <2>3. QED
    BY <2>1, <2>2 DEF Registered
<1>26. CASE RemoveSite
  BY <1>26 DEF RemoveSite, Goto, host
<1>27. CASE Unregister
  BY <1>27 DEF Unregister
<1>28. CASE Unmap
  BY <1>28 DEF Unmap, Goto
<1>29. CASE RemoveUser
  BY <1>29 DEF RemoveUser, Goto
<1>30. CASE RemoveRoot
  BY <1>30 DEF RemoveRoot, Goto, host, op, name
<1>31. CASE SetUser
  BY <1>31 DEF SetUser, Goto, host
<1>32. CASE SetRestrained
  BY <1>32 DEF SetRestrained, host
<1>33. CASE Certbot
  BY <1>33 DEF Certbot, Goto, host
<1>34. CASE ForceSSL
  BY <1>34 DEF ForceSSL, host
<1>35. CASE SetMaintenance
  BY <1>35 DEF SetMaintenance, Goto, host
<1>35a. CASE SetSetup
  BY <1>35a DEF SetSetup, Goto, host
<1>36. CASE Undo
  <2>1. content' \subseteq content /\ disk' = disk /\ pc' = "undo"
    BY <1>36 DEF Undo
  <2>2. QED
    BY <2>1
<1>37. CASE UndoDone
  BY <1>37 DEF UndoDone, Goto, host
<1>38. ASSUME NEW at \in Fallible, StepFails(at) PROVE FilesInv'
  BY <1>38 DEF StepFails, Goto, Fallible, host
<1>39. CASE Crash
  BY <1>39 DEF Crash, Exit, NoCommand, Nothing, host
<1>40. CASE RestartOLS
  BY <1>40 DEF RestartOLS, host, op, name, proc
<1>41. CASE UNCHANGED vars
  BY <1>41 DEF vars, host, op, name, proc
<1>42. QED
  BY <1>1, <1>2, <1>3, <1>4, <1>5, <1>6, <1>7, <1>8, <1>9, <1>10, <1>11, <1>12,
     <1>13, <1>14, <1>15, <1>16, <1>17, <1>18, <1>19, <1>20, <1>21, <1>22, <1>23,
     <1>24, <1>25, <1>26, <1>27, <1>28, <1>29, <1>30, <1>31, <1>32, <1>33, <1>34,
     <1>35, <1>35a, <1>36, <1>37, <1>38, <1>39, <1>40, <1>41
     DEF Next, Step, Reconcile, Create, Delete

-----------------------------------------------------------------------------
(* The directories that no registered site has.                             *)

LEMMA RootStep == ASSUME IInv, [Next]_vars PROVE RootInv'
<1> USE DEF IInv, TypeOK, PlanInv, UndoInv, MemInv, RootInv, Reconciling, Changing
<1>1. ASSUME NEW kind \in AllKinds, NEW n \in Names, NEW t \in Types \cup {"none"},
             NEW u \in Setups \cup {NoSetup}, Start(kind, n, t, u)
      PROVE  RootInv'
  <2>1. /\ plan' = PlanOf(kind, n, t, disk) /\ pc = "idle" /\ pc' = "next"
        /\ cmd' = [kind |-> kind, name |-> n, type |-> t, setup |-> u] /\ UNCHANGED <<dirs, disk, undo>>
    BY <1>1 DEF Start, Goto, host
  <2>2. plan' # <<>> /\ name' = n /\ n \in Names
    BY <2>1, PlanStarts DEF name
  <2>3. op' = "create" => disk[n] = NoSite
    BY <2>1, <2>2, PlanStarts DEF op, AllKinds, Creating
  <2>4. ~CanCrash => dirs \subseteq Registered(disk)
    BY <2>1 DEF op
  <2>5. op' = "create" /\ ~CanCrash => n \notin dirs
    BY <2>2, <2>3, <2>4 DEF Registered
  <2>6. QED
    BY <2>1, <2>2, <2>4, <2>5
<1>2. CASE NextOperation
  <2>1. /\ pc = "next" /\ plan # <<>> /\ pc' = FirstStep(Head(plan)) /\ undo = <<>>
        /\ UNCHANGED <<dirs, disk, undo, plan, cmd>>
    BY <1>2 DEF NextOperation, host
  <2>2. Head(plan) \in AllKinds \cup {"fill"} /\ Head(plan) \notin {"force-create", "clone", "restore"}
    BY <2>1, PlanFacts
  <2>3. pc' \notin {"save", "failed"} /\ (op = "create" => pc' = "add")
    BY <2>1, <2>2 DEF FirstStep, AllKinds, op
  <2>4. op' = op /\ name' = name /\ (RootPushed' <=> RootPushed)
    BY <2>1 DEF op, name, RootPushed
  <2>5. QED
    BY <2>1, <2>3, <2>4
<1>3. CASE CommandDone
  <2>1. op = "none" /\ undo = <<>> /\ UNCHANGED <<dirs, disk, undo, plan, cmd>>
    BY <1>3 DEF CommandDone, host, op
  <2>2. op' = op /\ name' = name
    BY <2>1 DEF op, name
  <2>3. QED
    BY <2>1, <2>2
<1>4. CASE End
  <2>1. op' = "none" /\ pc' = "idle" /\ UNCHANGED <<dirs, disk>> /\ pc \in {"ok", "failed"}
    BY <1>4 DEF End, Exit, op, host
  <2>2. pc = "failed" => undo = <<>> \/ CanCrash
    BY <2>1
  <2>3. op = "create" => CanCrash \/ ~RootPushed
    BY <2>1, <2>2 DEF RootPushed
  <2>4. ~CanCrash => dirs \subseteq Registered(disk)
    BY <2>3
  <2>5. QED
    BY <2>1, <2>4
<1>5. CASE ReconcileNothing
  BY <1>5 DEF ReconcileNothing, Goto, NoListener, host, op, name, RootPushed
<1>6. CASE Allocate
  BY <1>6 DEF Allocate, host, op, name, RootPushed
<1>7. ASSUME NEW n \in Names, RenderSite(n) PROVE RootInv'
  <2>1. /\ dirs' \subseteq dirs \cup {n} /\ dirs \subseteq dirs' /\ pc = "render" /\ n \in Registered(mem)
        /\ UNCHANGED <<disk, pc, plan, cmd, undo>>
    BY <1>7 DEF RenderSite, ServedInv
  <2>2. op' = op /\ name' = name /\ (RootPushed' <=> RootPushed) /\ op # "none"
    BY <2>1 DEF op, name, RootPushed
  <2>3. n # name => n \in Registered(disk)
    BY <2>1 DEF Registered
  <2>4. op # "create" => n \in Registered(disk)
    <3>1. op \in {"delete", "fill", "reconcile"} \cup Changing \/ op = "create"
      BY <2>2, PlanFacts DEF op, AllKinds, Changing
    <3>2. n \in Names
      BY <2>1, RegisteredIn
    <3>3. op \in {"delete", "fill"} \cup Changing => n \in Registered(disk)
      BY <2>3, <3>2 DEF Registered
    <3>4. op = "reconcile" => n \in Registered(disk)
      BY <2>1
    <3>5. QED
      BY <3>1, <3>3, <3>4
  <2>5. op = "create" /\ ~CanCrash => RootPushed
    BY <2>1
  <2>6. QED
    BY <2>1, <2>2, <2>3, <2>4, <2>5
<1>8. CASE SaveHttpd
  BY <1>8 DEF SaveHttpd, Goto, host, op, name, RootPushed
<1>9. CASE Logrotate
  <2>1. /\ UNCHANGED <<disk, dirs, undo>> /\ op' = op /\ name' = name /\ pc \in Reconciling
        /\ pc' \notin {"add", "failed"} /\ (pc' = "save" => op # "delete")
    BY <1>9 DEF Logrotate, ReconcileDone, AfterReconcile, host, op, name, Reconciling
  <2>2. RootPushed' <=> RootPushed
    BY <2>1 DEF RootPushed
  <2>3. QED
    BY <2>1, <2>2
<1>10. CASE Reload
  <2>1. /\ UNCHANGED <<disk, dirs, undo>> /\ op' = op /\ name' = name /\ pc \in Reconciling
        /\ pc' \notin {"add", "failed"} /\ (pc' = "save" => op # "delete")
    BY <1>10 DEF Reload, ReconcileDone, AfterReconcile, host, op, name, Reconciling
  <2>2. RootPushed' <=> RootPushed
    BY <2>1 DEF RootPushed
  <2>3. QED
    BY <2>1, <2>2
<1>11. CASE ReconcileFails
  BY <1>11 DEF ReconcileFails, Goto, host, op, name, RootPushed
<1>12. CASE ReconcileOnly
  <2>1. /\ pc = "done" /\ pc' = "next" /\ disk' = disk /\ dirs' = dirs
        /\ plan # <<>> /\ plan' = Tail(plan) /\ UNCHANGED cmd
    BY <1>12 DEF ReconcileOnly, OperationDone, host, op
  <2>2. op' # "create" /\ op # "create" /\ name' = name
    BY <2>1, PlanFacts DEF op, name
  <2>3. QED
    BY <2>1, <2>2
<1>13. CASE Save
  <2>1. /\ pc = "save" /\ pc' = "next" /\ disk' = mem /\ dirs' = dirs /\ undo' = <<>>
        /\ plan # <<>> /\ plan' = Tail(plan) /\ UNCHANGED cmd
    BY <1>13 DEF Save, OperationDone, op
  <2>2. op = "delete" \/ mem[name] # NoSite
    BY <2>1, NullAssumption
  <2>3. op \in {"create", "delete"} \cup Changing /\ name \in Names /\ name' = name
    BY <2>1 DEF name, Commands
  <2>4. ~CanCrash => dirs \subseteq Registered(mem)
    <3>1. ~CanCrash => dirs \subseteq Registered(disk) \cup {name} /\ (op = "delete" => name \notin dirs)
      BY <2>1
    <3>2. \A m \in Names \ {name} : m \in Registered(disk) => m \in Registered(mem)
      BY <2>1 DEF Registered
    <3>3. op # "delete" => name \in Registered(mem)
      BY <2>2, <2>3 DEF Registered
    <3>4. dirs \subseteq Names
      OBVIOUS
    <3>5. QED
      BY <3>1, <3>2, <3>3, <3>4
  <2>5. op' = "create" => op = "delete"
    BY <2>1, PlanFacts DEF op
  <2>6. op' = "create" /\ ~CanCrash => name \notin dirs
    BY <2>1, <2>5
  <2>7. QED
    BY <2>1, <2>3, <2>4, <2>6
<1>14. CASE AddSite
  <2>1. op = "create" /\ (undo = <<>> \/ CanCrash)
    BY <1>14 DEF AddSite, Goto
  <2>2. op' = op /\ name' = name /\ UNCHANGED <<dirs, disk>> /\ pc' = "mkdir"
    BY <1>14 DEF AddSite, Goto, op, name, host
  <2>3. undo = <<>> => ~RootPushed
    BY DEF RootPushed
  <2>4. QED
    BY <2>1, <2>2, <2>3
<1>15. CASE MakeRoot
  <2>1. /\ dirs' = dirs \cup {name} /\ undo' = Append(undo, "root") /\ op = "create"
        /\ pc' \in {"useradd", "index"} /\ UNCHANGED <<disk, plan, cmd>>
    BY <1>15 DEF MakeRoot
  <2>2. op' = op /\ name' = name
    BY <2>1 DEF op, name
  <2>3. RootPushed'
    <3>1. undo \in Seq(Undoable) /\ Len(undo) \in Nat
      BY DEF Undoable
    <3>2. Len(undo') = Len(undo) + 1 /\ undo'[Len(undo) + 1] = "root"
      BY <2>1, <3>1, Pushed DEF Undoable
    <3>3. Len(undo) + 1 \in 1 .. Len(undo')
      BY <3>1, <3>2
    <3>4. QED
      BY <3>2, <3>3 DEF RootPushed
  <2>4. QED
    BY <2>1, <2>2, <2>3
<1>16. CASE WriteIndex
  <2>1. /\ undo' = undo \/ undo' = Append(undo, "vconf")
        /\ UNCHANGED <<dirs, disk, plan, cmd>> /\ pc' \notin {"add", "failed"}
        /\ op = "create" => pc \in {"useradd", "usermod", "index"}
        /\ op = "delete" => pc' # "save"
    BY <1>16 DEF WriteIndex, Goto, host, op
  <2>2. op' = op /\ name' = name
    BY <2>1 DEF op, name
  <2>3. RootPushed => RootPushed'
    <3>1. undo \in Seq(Undoable)
      BY DEF Undoable
    <3>2. undo' = Append(undo, "vconf") => \A i \in 1 .. Len(undo) : i \in 1 .. Len(undo') /\ undo'[i] = undo[i]
      BY <3>1, Pushed DEF Undoable
    <3>3. QED
      BY <2>1, <3>2 DEF RootPushed
  <2>4. QED
    BY <2>1, <2>2, <2>3
<1>17. CASE WriteIndexFails
  BY <1>17 DEF WriteIndexFails, StepFails, Goto, host, op, name, RootPushed
<1>18. CASE AddUser
  <2>1. /\ undo' = undo \/ undo' = Append(undo, "user")
        /\ UNCHANGED <<dirs, disk, plan, cmd>> /\ pc' \notin {"add", "failed"}
        /\ op = "create" => pc \in {"useradd", "usermod", "index"}
        /\ op = "delete" => pc' # "save"
    BY <1>18 DEF AddUser, Goto, host, op
  <2>2. op' = op /\ name' = name
    BY <2>1 DEF op, name
  <2>3. RootPushed => RootPushed'
    <3>1. undo \in Seq(Undoable)
      BY DEF Undoable
    <3>2. undo' = Append(undo, "user") => \A i \in 1 .. Len(undo) : i \in 1 .. Len(undo') /\ undo'[i] = undo[i]
      BY <3>1, Pushed DEF Undoable
    <3>3. QED
      BY <2>1, <3>2 DEF RootPushed
  <2>4. QED
    BY <2>1, <2>2, <2>3
<1>19. CASE AddUserFails
  BY <1>19 DEF AddUserFails, StepFails, Goto, host, op, name, RootPushed
<1>20. CASE Chown
  BY <1>20 DEF Chown, Goto, host, op, name, RootPushed
<1>21. CASE JoinRedisGroup
  <2>1. /\ UNCHANGED <<disk, dirs, plan, cmd>> /\ (op = "create" => undo' = undo)
        /\ pc = "usermod" /\ op \in {"create", "isolate"} /\ pc' \notin {"add", "failed"}
    BY <1>21 DEF JoinRedisGroup, host, op
  <2>2. op' = op /\ name' = name
    BY <2>1 DEF op, name
  <2>3. op = "create" => (RootPushed' <=> RootPushed)
    BY <2>1 DEF RootPushed
  <2>4. QED
    BY <2>1, <2>2, <2>3
<1>22. CASE InstallWordPress
  BY <1>22 DEF InstallWordPress, Fill, Goto, host, op
<1>23. CASE Clone
  BY <1>23 DEF Clone, Fill, Goto, host, op
<1>24. CASE Restore
  BY <1>24 DEF Restore, Fill, Goto, host, op
<1>25. CASE FillFails
  <2>1. /\ UNCHANGED <<disk, dirs, cmd>> /\ pc' = "next" /\ plan' = <<"delete">> /\ op = "fill"
    BY <1>25 DEF FillFails, Goto
  <2>2. op' = "delete" /\ name' = name
    BY <2>1 DEF op, name
  <2>3. QED
    BY <2>1, <2>2
<1>26. CASE RemoveSite
  BY <1>26 DEF RemoveSite, Goto, host, op
<1>27. CASE Unregister
  BY <1>27 DEF Unregister, host, op
<1>28. CASE Unmap
  BY <1>28 DEF Unmap, Goto, host, op
<1>29. CASE RemoveUser
  BY <1>29 DEF RemoveUser, Goto, host, op
<1>30. CASE RemoveRoot
  <2>1. op = "delete" /\ dirs' = dirs \ {name} /\ pc' = "save"
        /\ UNCHANGED <<disk, plan, cmd>>
    BY <1>30 DEF RemoveRoot, Goto
  <2>2. op' = op /\ name' = name
    BY <2>1 DEF op, name
  <2>3. QED
    BY <2>1, <2>2
<1>31. CASE SetUser
  <2>1. /\ UNCHANGED <<disk, dirs>> /\ op' = op /\ name' = name /\ op = "isolate" /\ pc' \notin {"add", "failed"}
    BY <1>31 DEF SetUser, Goto, host, op, name
  <2>2. QED
    BY <2>1
<1>32. CASE SetRestrained
  BY <1>32 DEF SetRestrained, host, op
<1>33. CASE Certbot
  <2>1. /\ UNCHANGED <<disk, dirs>> /\ op' = op /\ name' = name /\ op = "ssl" /\ pc' \notin {"add", "failed"}
    BY <1>33 DEF Certbot, Goto, host, op, name
  <2>2. QED
    BY <2>1
<1>34. CASE ForceSSL
  BY <1>34 DEF ForceSSL, host, op
<1>35. CASE SetMaintenance
  BY <1>35 DEF SetMaintenance, Goto, host, op
<1>35a. CASE SetSetup
  BY <1>35a DEF SetSetup, Goto, host, op
<1>36. CASE Undo
  <2>1. /\ undo' = SubSeq(undo, 1, Len(undo) - 1) /\ undo # <<>> /\ pc = "undo"
        /\ dirs' = IF undo[Len(undo)] = "root" THEN dirs \ {name} ELSE dirs
        /\ UNCHANGED <<disk, pc, plan, cmd>>
    BY <1>36 DEF Undo
  <2>2. op' = op /\ name' = name
    BY <2>1 DEF op, name
  <2>3. /\ Len(undo) \in Nat \ {0} /\ Len(undo') = Len(undo) - 1
        /\ \A i \in 1 .. Len(undo) - 1 : undo'[i] = undo[i]
    BY <2>1, Popped DEF Undoable
  <2>4. RootPushed /\ undo[Len(undo)] # "root" => RootPushed'
    <3>1. \A i \in 1 .. Len(undo) : i # Len(undo) => i \in 1 .. Len(undo') /\ undo'[i] = undo[i]
      BY <2>3
    <3>2. QED
      BY <3>1 DEF RootPushed
  <2>5. QED
    BY <2>1, <2>2, <2>4
<1>37. CASE UndoDone
  BY <1>37 DEF UndoDone, Goto, host, op, name, RootPushed
<1>38. ASSUME NEW at \in Fallible, StepFails(at) PROVE RootInv'
  BY <1>38 DEF StepFails, Goto, Fallible, host, op, name, RootPushed
<1>39. CASE Crash
  BY <1>39 DEF Crash
<1>40. CASE RestartOLS
  BY <1>40 DEF RestartOLS, host, op, name, RootPushed, proc
<1>41. CASE UNCHANGED vars
  BY <1>41 DEF vars, host, op, name, proc, RootPushed
<1>42. QED
  BY <1>1, <1>2, <1>3, <1>4, <1>5, <1>6, <1>7, <1>8, <1>9, <1>10, <1>11, <1>12,
     <1>13, <1>14, <1>15, <1>16, <1>17, <1>18, <1>19, <1>20, <1>21, <1>22, <1>23,
     <1>24, <1>25, <1>26, <1>27, <1>28, <1>29, <1>30, <1>31, <1>32, <1>33, <1>34,
     <1>35, <1>35a, <1>36, <1>37, <1>38, <1>39, <1>40, <1>41
     DEF Next, Step, Reconcile, Create, Delete

-----------------------------------------------------------------------------
LEMMA InitIInv == Init => IInv
<1> SUFFICES ASSUME Init PROVE IInv
  OBVIOUS
<1> USE DEF Init
<1>1. TypeOK
  <2>1. /\ Nothing \in [Names -> Site \cup {NoSite}]
        /\ vconf \in [Names -> Rendered \cup {NoConf}]
    BY DEF Nothing
  <2>2. running \in [Names -> Loadable \cup {NoConf}]
    BY <2>1, Loading
  <2>3. /\ httpd \in [vhosts : SUBSET Names, vhssl : SUBSET Names,
                      ssl : [on : BOOLEAN, map : SUBSET Names]]
    <3>1. NoListener \in [on : BOOLEAN, map : SUBSET Names]
      BY DEF NoListener
    <3>2. QED
      BY <3>1 DEF BareHttpd
  <2>4. doomed \in BOOLEAN
    OBVIOUS
  <2>5. undo \in Seq({"mem", "root", "user", "vconf", "flag", "ssl"}) /\ Len(undo) <= 4
    OBVIOUS
  <2>6. pc \in ControlPoints /\ cmd \in Commands
    BY DEF ControlPoints, Commands, NoCommand
  <2>7. QED
    BY <2>1, <2>2, <2>3, <2>4, <2>5, <2>6 DEF TypeOK
<1>2. plan = <<>> /\ pc = "idle" /\ undo = <<>> /\ cmd.name = NoName /\ cmd.kind = "none"
  BY DEF NoCommand
<1>3. PlanInv /\ UndoInv
  BY <1>2 DEF PlanInv, UndoInv, Plans, op, Creating, Changing, Reconciling
<1>4. MemInv
  BY <1>2 DEF MemInv, op, Changing, Reconciling
<1>5. ServedInv /\ GoneInv /\ FilesInv /\ RootInv
  BY <1>2
     DEF ServedInv, Settled, GoneInv, FilesInv, ContentIsRegistered, RootInv, op,
         Reconciling
<1>6. QED
  BY <1>1, <1>3, <1>4, <1>5 DEF IInv

LEMMA Inductive == IInv /\ [Next]_vars => IInv'
BY TypeStep, PlanStep, UndoStep, MemStep, ServedStep, GoneStep, FilesStep, RootStep
   DEF IInv

LEMMA Always == Spec => []IInv
BY InitIInv, Inductive, PTL DEF Spec

-----------------------------------------------------------------------------
(* Each variable keeps its type: the rollback stack never holds more than    *)
(* the four entries Create pushes (create.go:24), and every vhost file is    *)
(* one that the templates can have rendered.                                 *)
THEOREM TypeCorrect == Spec => []TypeOK
<1>1. IInv => TypeOK
  BY DEF IInv
<1>2. QED
  BY <1>1, Always, PTL

(* A command that reports success leaves OLS serving what the saved registry *)
(* says of every site, whatever commands that failed, were killed or were    *)
(* refused before it left on disk (Manager.Reconcile renders all of them).   *)
THEOREM Repairs == Spec => []SuccessRepairs
<1>1. IInv => SuccessRepairs
  BY DEF IInv, ServedInv, MemInv, Settled, SuccessRepairs
<1>2. QED
  BY <1>1, Always, PTL

(* Files of a customer that are on disk belong to a site of the saved        *)
(* registry, wherever gow failed or was killed: Create saves before the      *)
(* files come, Delete after they have gone.                                  *)
THEOREM ContentRegistered == Spec => []ContentIsRegistered
<1>1. IInv => ContentIsRegistered
  BY DEF IInv, FilesInv
<1>2. QED
  BY <1>1, Always, PTL

(* Unless gow is killed, every directory under the web root belongs, when no *)
(* command runs, to a site of the saved registry: Create's rollback takes    *)
(* back the one it made (create.go:24) and Delete removes its site's before  *)
(* the record goes.                                                          *)
THEOREM RootsBelong ==
  ASSUME ~CanCrash PROVE Spec => []RootsAreRegistered
<1>1. IInv => RootsAreRegistered
  BY DEF IInv, PlanInv, RootInv, RootsAreRegistered
<1>2. QED
  BY <1>1, Always, PTL

LEMMA OnlySave == ASSUME [Next]_vars PROVE disk' = disk \/ Save
<1>1. ASSUME NEW kind \in AllKinds, NEW n \in Names, NEW t \in Types \cup {"none"},
             NEW u \in Setups \cup {NoSetup}, Start(kind, n, t, u)
      PROVE  disk' = disk \/ Save
  BY <1>1 DEF Start, Goto, host
<1>2. CASE NextOperation
  BY <1>2 DEF NextOperation, FirstStep, host
<1>3. CASE CommandDone
  BY <1>3 DEF CommandDone, host
<1>4. CASE End
  BY <1>4 DEF End, Exit, NoCommand, Nothing, host
<1>5. CASE ReconcileNothing
  BY <1>5 DEF ReconcileNothing, Goto, NoListener
<1>6. CASE Allocate
  BY <1>6 DEF Allocate, host
<1>7. ASSUME NEW n \in Names, RenderSite(n) PROVE disk' = disk \/ Save
  BY <1>7 DEF RenderSite
<1>8. CASE SaveHttpd
  BY <1>8 DEF SaveHttpd, Goto
<1>9. CASE Logrotate
  BY <1>9 DEF Logrotate, ReconcileDone, AfterReconcile, host
<1>10. CASE Reload
  BY <1>10 DEF Reload, ReconcileDone, AfterReconcile
<1>11. CASE ReconcileFails
  BY <1>11 DEF ReconcileFails, Goto, host
<1>12. CASE ReconcileOnly
  BY <1>12 DEF ReconcileOnly, OperationDone, host
<1>13. CASE Save
  BY <1>13 DEF Save, OperationDone
<1>14. CASE AddSite
  BY <1>14 DEF AddSite, Goto, host
<1>15. CASE MakeRoot
  BY <1>15 DEF MakeRoot
<1>16. CASE WriteIndex
  BY <1>16 DEF WriteIndex, Goto, host
<1>17. CASE WriteIndexFails
  BY <1>17 DEF WriteIndexFails, StepFails, Goto, host
<1>18. CASE AddUser
  BY <1>18 DEF AddUser, Goto
<1>19. CASE AddUserFails
  BY <1>19 DEF AddUserFails, StepFails, Goto, host
<1>20. CASE Chown
  BY <1>20 DEF Chown, Goto, host
<1>21. CASE JoinRedisGroup
  BY <1>21 DEF JoinRedisGroup, host
<1>22. CASE InstallWordPress
  BY <1>22 DEF InstallWordPress, Fill, Goto
<1>23. CASE Clone
  BY <1>23 DEF Clone, Fill, Goto
<1>24. CASE Restore
  BY <1>24 DEF Restore, Fill, Goto
<1>25. CASE FillFails
  BY <1>25 DEF FillFails, Goto
<1>26. CASE RemoveSite
  BY <1>26 DEF RemoveSite, Goto, host
<1>27. CASE Unregister
  BY <1>27 DEF Unregister
<1>28. CASE Unmap
  BY <1>28 DEF Unmap, Goto
<1>29. CASE RemoveUser
  BY <1>29 DEF RemoveUser, Goto
<1>30. CASE RemoveRoot
  BY <1>30 DEF RemoveRoot, Goto
<1>31. CASE SetUser
  BY <1>31 DEF SetUser, Goto, host
<1>32. CASE SetRestrained
  BY <1>32 DEF SetRestrained, host
<1>33. CASE Certbot
  BY <1>33 DEF Certbot, Goto, host
<1>34. CASE ForceSSL
  BY <1>34 DEF ForceSSL, host
<1>35. CASE SetMaintenance
  BY <1>35 DEF SetMaintenance, Goto, host
<1>35a. CASE SetSetup
  BY <1>35a DEF SetSetup, Goto, host
<1>36. CASE Undo
  BY <1>36 DEF Undo
<1>37. CASE UndoDone
  BY <1>37 DEF UndoDone, Goto, host
<1>38. ASSUME NEW at \in Fallible, StepFails(at) PROVE disk' = disk \/ Save
  BY <1>38 DEF StepFails, Goto, Fallible, host
<1>39. CASE Crash
  BY <1>39 DEF Crash, Exit, NoCommand, Nothing, host
<1>40. CASE RestartOLS
  BY <1>40 DEF RestartOLS
<1>41. CASE UNCHANGED vars
  BY <1>41 DEF vars, host
<1>42. QED
  BY <1>1, <1>2, <1>3, <1>4, <1>5, <1>6, <1>7, <1>8, <1>9, <1>10, <1>11, <1>12,
     <1>13, <1>14, <1>15, <1>16, <1>17, <1>18, <1>19, <1>20, <1>21, <1>22, <1>23,
     <1>24, <1>25, <1>26, <1>27, <1>28, <1>29, <1>30, <1>31, <1>32, <1>33, <1>34,
     <1>35, <1>35a, <1>36, <1>37, <1>38, <1>39, <1>40, <1>41
     DEF Next, Step, Reconcile, Create, Delete

LEMMA OnlyRemoveRoot == ASSUME IInv, [Next]_vars PROVE content \subseteq content' \/ RemoveRoot
<1> USE DEF IInv, TypeOK, UndoInv, MemInv
<1>1. ASSUME NEW kind \in AllKinds, NEW n \in Names, NEW t \in Types \cup {"none"},
             NEW u \in Setups \cup {NoSetup}, Start(kind, n, t, u)
      PROVE  content \subseteq content' \/ RemoveRoot
  BY <1>1 DEF Start, Goto, host
<1>2. CASE NextOperation
  BY <1>2 DEF NextOperation, FirstStep, host
<1>3. CASE CommandDone
  BY <1>3 DEF CommandDone, host
<1>4. CASE End
  BY <1>4 DEF End, Exit, NoCommand, Nothing, host
<1>5. CASE ReconcileNothing
  BY <1>5 DEF ReconcileNothing, Goto, NoListener
<1>6. CASE Allocate
  BY <1>6 DEF Allocate, host
<1>7. ASSUME NEW n \in Names, RenderSite(n) PROVE content \subseteq content' \/ RemoveRoot
  BY <1>7 DEF RenderSite
<1>8. CASE SaveHttpd
  BY <1>8 DEF SaveHttpd, Goto
<1>9. CASE Logrotate
  BY <1>9 DEF Logrotate, ReconcileDone, AfterReconcile, host
<1>10. CASE Reload
  BY <1>10 DEF Reload, ReconcileDone, AfterReconcile
<1>11. CASE ReconcileFails
  BY <1>11 DEF ReconcileFails, Goto, host
<1>12. CASE ReconcileOnly
  BY <1>12 DEF ReconcileOnly, OperationDone, host
<1>13. CASE Save
  BY <1>13 DEF Save, OperationDone
<1>14. CASE AddSite
  BY <1>14 DEF AddSite, Goto, host
<1>15. CASE MakeRoot
  BY <1>15 DEF MakeRoot
<1>16. CASE WriteIndex
  BY <1>16 DEF WriteIndex, Goto, host
<1>17. CASE WriteIndexFails
  BY <1>17 DEF WriteIndexFails, StepFails, Goto, host
<1>18. CASE AddUser
  BY <1>18 DEF AddUser, Goto
<1>19. CASE AddUserFails
  BY <1>19 DEF AddUserFails, StepFails, Goto, host
<1>20. CASE Chown
  BY <1>20 DEF Chown, Goto, host
<1>21. CASE JoinRedisGroup
  BY <1>21 DEF JoinRedisGroup, host
<1>22. CASE InstallWordPress
  BY <1>22 DEF InstallWordPress, Fill, Goto
<1>23. CASE Clone
  BY <1>23 DEF Clone, Fill, Goto
<1>24. CASE Restore
  BY <1>24 DEF Restore, Fill, Goto
<1>25. CASE FillFails
  BY <1>25 DEF FillFails, Goto
<1>26. CASE RemoveSite
  BY <1>26 DEF RemoveSite, Goto, host
<1>27. CASE Unregister
  BY <1>27 DEF Unregister
<1>28. CASE Unmap
  BY <1>28 DEF Unmap, Goto
<1>29. CASE RemoveUser
  BY <1>29 DEF RemoveUser, Goto
<1>30. CASE RemoveRoot
  BY <1>30 DEF RemoveRoot, Goto
<1>31. CASE SetUser
  BY <1>31 DEF SetUser, Goto, host
<1>32. CASE SetRestrained
  BY <1>32 DEF SetRestrained, host
<1>33. CASE Certbot
  BY <1>33 DEF Certbot, Goto, host
<1>34. CASE ForceSSL
  BY <1>34 DEF ForceSSL, host
<1>35. CASE SetMaintenance
  BY <1>35 DEF SetMaintenance, Goto, host
<1>35a. CASE SetSetup
  BY <1>35a DEF SetSetup, Goto, host
<1>36. CASE Undo
  <2>1. \/ content' = content
        \/ content' = content \ {name} /\ undo # <<>> /\ undo[Len(undo)] = "root"
    BY <1>36 DEF Undo
  <2>2. undo # <<>> => Len(undo) \in 1 .. Len(undo)
    BY Popped DEF Undoable
  <2>3. undo # <<>> /\ undo[Len(undo)] = "root" => disk[name] = NoSite
    BY <2>2
  <2>4. disk[name] = NoSite => name \notin content
    BY DEF FilesInv, ContentIsRegistered, Registered
  <2>5. QED
    BY <2>1, <2>3, <2>4
<1>37. CASE UndoDone
  BY <1>37 DEF UndoDone, Goto, host
<1>38. ASSUME NEW at \in Fallible, StepFails(at) PROVE content \subseteq content' \/ RemoveRoot
  BY <1>38 DEF StepFails, Goto, Fallible, host
<1>39. CASE Crash
  BY <1>39 DEF Crash, Exit, NoCommand, Nothing, host
<1>40. CASE RestartOLS
  BY <1>40 DEF RestartOLS
<1>41. CASE UNCHANGED vars
  BY <1>41 DEF vars, host
<1>42. QED
  BY <1>1, <1>2, <1>3, <1>4, <1>5, <1>6, <1>7, <1>8, <1>9, <1>10, <1>11, <1>12,
     <1>13, <1>14, <1>15, <1>16, <1>17, <1>18, <1>19, <1>20, <1>21, <1>22, <1>23,
     <1>24, <1>25, <1>26, <1>27, <1>28, <1>29, <1>30, <1>31, <1>32, <1>33, <1>34,
     <1>35, <1>35a, <1>36, <1>37, <1>38, <1>39, <1>40, <1>41
     DEF Next, Step, Reconcile, Create, Delete

(* The registry is saved only when OLS has loaded what it says of every site *)
(* in it: Save, the last call of each operation, is the only writer, and     *)
(* Reconcile has placed and loaded all of them before it.                    *)
THEOREM SaveServed == Spec => CommittedIsServed
<1>1. IInv /\ [Next]_vars
        => (disk' # disk => \A n \in Registered(disk') : Serves(running', disk', n))
  <2> SUFFICES ASSUME IInv, [Next]_vars, disk' # disk, NEW n \in Registered(disk')
               PROVE  Serves(running', disk', n)
    OBVIOUS
  <2>1. Save
    BY OnlySave
  <2>2. pc = "save" /\ disk' = mem /\ running' = running
    BY <2>1 DEF Save
  <2>3. Serves(running, mem, n)
    BY <2>2 DEF IInv, ServedInv, Settled
  <2>4. QED
    BY <2>2, <2>3
<1>2. QED
  BY <1>1, Always, PTL DEF Spec, CommittedIsServed

(* A customer's files go only in a Delete of their own site, which the saved *)
(* registry still lists then, after the vhost has left httpd_config.conf and *)
(* OLS.  In particular Create's rollback, which removes the web root, never  *)
(* meets files of a customer.                                                *)
THEOREM Survives == Spec => ContentSurvives
<1>1. IInv /\ [Next]_vars =>
        \A n \in content \ content' :
          /\ n = cmd.name /\ cmd.kind \notin {"update", "isolate", "ssl"}
          /\ n \in Registered(disk)
          /\ n \notin httpd.vhosts
          /\ Registered(mem) # {} => running[n] = NoConf
  <2> SUFFICES ASSUME IInv, [Next]_vars, NEW n \in content \ content'
               PROVE  /\ n = cmd.name /\ cmd.kind \notin {"update", "isolate", "ssl"}
                      /\ n \in Registered(disk)
                      /\ n \notin httpd.vhosts
                      /\ Registered(mem) # {} => running[n] = NoConf
    OBVIOUS
  <2>1. RemoveRoot
    BY OnlyRemoveRoot
  <2>2. pc = "rmroot" /\ n = name
    BY <2>1 DEF RemoveRoot, Goto
  <2>3. op = "delete" /\ cmd.kind \in Creating \cup {"delete"}
    BY <2>2 DEF IInv, PlanInv
  <2>4. cmd.kind \notin {"update", "isolate", "ssl"}
    BY <2>3 DEF Creating
  <2>5. n \in Registered(disk)
    BY DEF IInv, FilesInv, ContentIsRegistered
  <2>6. n \notin httpd.vhosts /\ (Registered(mem) # {} => running[n] = NoConf)
    BY <2>2, <2>3 DEF IInv, GoneInv
  <2>7. QED
    BY <2>2, <2>4, <2>5, <2>6 DEF name
<1>2. QED
  BY <1>1, Always, PTL DEF Spec, ContentSurvives

-----------------------------------------------------------------------------
(* What OLS serves when a command has succeeded fits in the RAM.            *)

VconfPushed == \E i \in 1 .. Len(undo) : undo[i] = "vconf"

\* A site Create has not saved yet, whose vhost file its rollback would remove.
Pending(n) ==
    /\ op = "create" /\ n = name /\ VconfPushed
    /\ pc \in {"render", "logrotate", "reload", "save", "undo"}

\* A vhost httpd_config.conf knows and that has a file is that of a saved site.
KnownInv == \A n \in httpd.vhosts : vconf[n] # NoConf => n \in Registered(disk) \/ Pending(n)

\* What the operation at work has seen to.
StageInv ==
    /\ pc \in {"render", "logrotate", "reload"} /\ Registered(mem) # {} => Room(mem)
    /\ op = "create" /\ pc \in Reconciling \cup {"save"} => VconfPushed
    /\ op = "delete" /\ pc = "save" => name \notin httpd.vhosts

\* Once OLS has loaded what Reconcile wrote it serves no other site, and there was
\* room for the sites.
RoomInv ==
    Settled /\ Registered(mem) # {}
        => Room(mem) /\ \A n \in Names : running[n] # NoConf => n \in Registered(mem)

RamInv == KnownInv /\ StageInv /\ RoomInv

\* A step that changes neither what OLS would load nor the saved registry.
Keeps == UNCHANGED <<vconf, disk>> /\ httpd'.vhosts = httpd.vhosts

\* No step of Reconcile, no Save and nothing after it finds a saved site missing
\* in memory while httpd_config.conf knows it.
LEMMA StillThere ==
  ASSUME IInv, StageInv, pc \in Reconciling \cup {"save"} \/ Settled,
         NEW k \in Registered(disk), k \in httpd.vhosts
  PROVE  k \in Registered(mem)
<1>1. k \in Names /\ disk[k] # NoSite
  BY DEF Registered
<1>2. CASE mem = disk
  BY <1>1, <1>2 DEF Registered
<1>3. CASE k # name
  <2>1. mem[k] = disk[k]
    BY <1>1, <1>3 DEF IInv, MemInv, PlanInv, Reconciling, Settled
  <2>2. QED
    BY <1>1, <2>1 DEF Registered
<1>4. CASE k = name /\ mem # disk
  <2>1. pc \in Reconciling \cup {"save", "userdel", "rmroot"}
    BY <1>4 DEF Settled, IInv, MemInv
  <2>2. op \in {"create", "delete", "fill", "reconcile"} \cup Changing
    <3>1. plan \in Plans /\ plan # <<>>
      BY <2>1 DEF IInv, PlanInv, Reconciling, op, Changing
    <3>2. QED
      BY <3>1, PlanFacts DEF op, AllKinds, Changing
  <2>3. op # "create"
    BY <1>1, <1>4 DEF IInv, MemInv
  <2>4. op # "delete"
    BY <1>4, <2>1 DEF IInv, GoneInv, StageInv, Reconciling
  <2>5. op \notin {"fill", "reconcile"}
    BY <1>4 DEF IInv, MemInv
  <2>6. mem[name] \in Site
    BY <2>1, <2>2, <2>3, <2>4, <2>5 DEF IInv, MemInv, Reconciling
  <2>7. QED
    BY <1>1, <1>4, <2>6, NullAssumption DEF Registered
<1>5. QED
  BY <1>2, <1>3, <1>4

\* From Reconcile on, the vhosts with a file are the sites in memory.
LEMMA PlacedIsRegistered ==
  ASSUME IInv, KnownInv, StageInv, pc \in Reconciling \cup {"save"} \/ Settled,
         NEW k \in httpd.vhosts, vconf[k] # NoConf
  PROVE  k \in Registered(mem)
<1>1. CASE k \in Registered(disk)
  BY <1>1, StillThere
<1>2. CASE Pending(k)
  <2>1. pc \in Reconciling \cup {"save"} /\ op = "create"
    BY <1>2 DEF Pending, Settled, Reconciling
  <2>2. mem[name] \in Site /\ name \in Names
    BY <2>1 DEF IInv, MemInv, PlanInv, TypeOK, Commands, name, Reconciling
  <2>3. QED
    BY <1>2, <2>2, NullAssumption DEF Pending, Registered
<1>3. QED
  BY <1>1, <1>2 DEF KnownInv

LEMMA Moves == ASSUME IInv, [Next]_vars PROVE Keeps \/ (\E k \in Names : RenderSite(k)) \/ SaveHttpd \/ Unregister \/ Save \/ Undo
<1> USE DEF IInv, TypeOK, Keeps
<1>1. ASSUME NEW kind \in AllKinds, NEW n \in Names, NEW t \in Types \cup {"none"},
             NEW u \in Setups \cup {NoSetup}, Start(kind, n, t, u)
      PROVE  Keeps \/ (\E k \in Names : RenderSite(k)) \/ SaveHttpd \/ Unregister \/ Save \/ Undo
  BY <1>1 DEF Start, Goto, host
<1>2. CASE NextOperation
  BY <1>2 DEF NextOperation, FirstStep, host
<1>3. CASE CommandDone
  BY <1>3 DEF CommandDone, host
<1>4. CASE End
  BY <1>4 DEF End, Exit, NoCommand, Nothing, host
<1>5. CASE ReconcileNothing
  BY <1>5 DEF ReconcileNothing, Goto, NoListener
<1>6. CASE Allocate
  BY <1>6 DEF Allocate, host
<1>7. ASSUME NEW n \in Names, RenderSite(n) PROVE Keeps \/ (\E k \in Names : RenderSite(k)) \/ SaveHttpd \/ Unregister \/ Save \/ Undo
  BY <1>7 DEF RenderSite
<1>8. CASE SaveHttpd
  BY <1>8 DEF SaveHttpd, Goto
<1>9. CASE Logrotate
  BY <1>9 DEF Logrotate, ReconcileDone, AfterReconcile, host
<1>10. CASE Reload
  BY <1>10 DEF Reload, ReconcileDone, AfterReconcile
<1>11. CASE ReconcileFails
  BY <1>11 DEF ReconcileFails, Goto, host
<1>12. CASE ReconcileOnly
  BY <1>12 DEF ReconcileOnly, OperationDone, host
<1>13. CASE Save
  BY <1>13 DEF Save, OperationDone
<1>14. CASE AddSite
  BY <1>14 DEF AddSite, Goto, host
<1>15. CASE MakeRoot
  BY <1>15 DEF MakeRoot
<1>16. CASE WriteIndex
  BY <1>16 DEF WriteIndex, Goto, host
<1>17. CASE WriteIndexFails
  BY <1>17 DEF WriteIndexFails, StepFails, Goto, host
<1>18. CASE AddUser
  BY <1>18 DEF AddUser, Goto
<1>19. CASE AddUserFails
  BY <1>19 DEF AddUserFails, StepFails, Goto, host
<1>20. CASE Chown
  BY <1>20 DEF Chown, Goto, host
<1>21. CASE JoinRedisGroup
  BY <1>21 DEF JoinRedisGroup, host
<1>22. CASE InstallWordPress
  BY <1>22 DEF InstallWordPress, Fill, Goto
<1>23. CASE Clone
  BY <1>23 DEF Clone, Fill, Goto
<1>24. CASE Restore
  BY <1>24 DEF Restore, Fill, Goto
<1>25. CASE FillFails
  BY <1>25 DEF FillFails, Goto
<1>26. CASE RemoveSite
  BY <1>26 DEF RemoveSite, Goto, host
<1>27. CASE Unregister
  BY <1>27 DEF Unregister
<1>28. CASE Unmap
  <2>1. (httpd' = [httpd EXCEPT !.ssl.map = httpd.ssl.map \ {name}]) \/ (httpd' = httpd)
    BY <1>28 DEF Unmap
  <2>2. httpd'.vhosts = httpd.vhosts
    BY <2>1 DEF TypeOK
  <2>3. QED
    BY <1>28, <2>2 DEF Unmap
<1>29. CASE RemoveUser
  BY <1>29 DEF RemoveUser, Goto
<1>30. CASE RemoveRoot
  BY <1>30 DEF RemoveRoot, Goto
<1>31. CASE SetUser
  BY <1>31 DEF SetUser, Goto, host
<1>32. CASE SetRestrained
  BY <1>32 DEF SetRestrained, host
<1>33. CASE Certbot
  BY <1>33 DEF Certbot, Goto, host
<1>34. CASE ForceSSL
  BY <1>34 DEF ForceSSL, host
<1>35. CASE SetMaintenance
  BY <1>35 DEF SetMaintenance, Goto, host
<1>35a. CASE SetSetup
  BY <1>35a DEF SetSetup, Goto, host
<1>36. CASE Undo
  BY <1>36 DEF Undo
<1>37. CASE UndoDone
  BY <1>37 DEF UndoDone, Goto, host
<1>38. ASSUME NEW at \in Fallible, StepFails(at) PROVE Keeps \/ (\E k \in Names : RenderSite(k)) \/ SaveHttpd \/ Unregister \/ Save \/ Undo
  BY <1>38 DEF StepFails, Goto, Fallible, host
<1>39. CASE Crash
  BY <1>39 DEF Crash, Exit, NoCommand, Nothing, host
<1>40. CASE RestartOLS
  BY <1>40 DEF RestartOLS
<1>41. CASE UNCHANGED vars
  BY <1>41 DEF vars, host, proc, Fill
<1>42. QED
  BY <1>1, <1>2, <1>3, <1>4, <1>5, <1>6, <1>7, <1>8, <1>9, <1>10, <1>11, <1>12,
     <1>13, <1>14, <1>15, <1>16, <1>17, <1>18, <1>19, <1>20, <1>21, <1>22, <1>23,
     <1>24, <1>25, <1>26, <1>27, <1>28, <1>29, <1>30, <1>31, <1>32, <1>33, <1>34,
     <1>35, <1>35a, <1>36, <1>37, <1>38, <1>39, <1>40, <1>41
     DEF Next, Step, Reconcile, Create, Delete

LEMMA PendingStep == ASSUME ~CanCrash, IInv, NEW k, Pending(k), [Next]_vars PROVE Pending(k)' \/ Save \/ (Undo /\ undo[Len(undo)] = "vconf")
<1> USE DEF IInv, PlanInv, Pending
<1>1. ASSUME NEW kind \in AllKinds, NEW n \in Names, NEW t \in Types \cup {"none"},
             NEW u \in Setups \cup {NoSetup}, Start(kind, n, t, u)
      PROVE  Pending(k)' \/ Save \/ (Undo /\ undo[Len(undo)] = "vconf")
  BY <1>1 DEF Start, Goto
<1>2. CASE NextOperation
  BY <1>2 DEF NextOperation, FirstStep
<1>3. CASE CommandDone
  BY <1>3 DEF CommandDone
<1>4. CASE End
  BY <1>4 DEF End, Exit, NoCommand, Nothing
<1>5. CASE ReconcileNothing
  BY <1>5 DEF ReconcileNothing, Goto, NoListener
<1>6. CASE Allocate
  BY <1>6 DEF Allocate
<1>7. ASSUME NEW n \in Names, RenderSite(n) PROVE Pending(k)' \/ Save \/ (Undo /\ undo[Len(undo)] = "vconf")
  BY <1>7 DEF RenderSite, host, op, name, VconfPushed
<1>8. CASE SaveHttpd
  BY <1>8 DEF SaveHttpd, Goto, host, op, name, VconfPushed
<1>9. CASE Logrotate
  BY <1>9 DEF Logrotate, ReconcileDone, AfterReconcile, host, op, name, VconfPushed
<1>10. CASE Reload
  BY <1>10 DEF Reload, ReconcileDone, AfterReconcile, host, op, name, VconfPushed
<1>11. CASE ReconcileFails
  BY <1>11 DEF ReconcileFails, Goto, host, op, name, VconfPushed
<1>12. CASE ReconcileOnly
  BY <1>12 DEF ReconcileOnly, OperationDone
<1>13. CASE Save
  BY <1>13 DEF Save, OperationDone
<1>14. CASE AddSite
  BY <1>14 DEF AddSite, Goto
<1>15. CASE MakeRoot
  BY <1>15 DEF MakeRoot
<1>16. CASE WriteIndex
  BY <1>16 DEF WriteIndex, Goto
<1>17. CASE WriteIndexFails
  BY <1>17 DEF WriteIndexFails, StepFails, Goto
<1>18. CASE AddUser
  BY <1>18 DEF AddUser, Goto
<1>19. CASE AddUserFails
  BY <1>19 DEF AddUserFails, StepFails, Goto
<1>20. CASE Chown
  BY <1>20 DEF Chown, Goto
<1>21. CASE JoinRedisGroup
  BY <1>21 DEF JoinRedisGroup
<1>22. CASE InstallWordPress
  BY <1>22 DEF InstallWordPress, Fill, Goto
<1>23. CASE Clone
  BY <1>23 DEF Clone, Fill, Goto
<1>24. CASE Restore
  BY <1>24 DEF Restore, Fill, Goto
<1>25. CASE FillFails
  BY <1>25 DEF FillFails, Goto
<1>26. CASE RemoveSite
  BY <1>26 DEF RemoveSite, Goto
<1>27. CASE Unregister
  BY <1>27 DEF Unregister
<1>28. CASE Unmap
  BY <1>28 DEF Unmap, Goto
<1>29. CASE RemoveUser
  BY <1>29 DEF RemoveUser, Goto
<1>30. CASE RemoveRoot
  BY <1>30 DEF RemoveRoot, Goto
<1>31. CASE SetUser
  BY <1>31 DEF SetUser, Goto
<1>32. CASE SetRestrained
  BY <1>32 DEF SetRestrained
<1>33. CASE Certbot
  BY <1>33 DEF Certbot, Goto
<1>34. CASE ForceSSL
  BY <1>34 DEF ForceSSL
<1>35. CASE SetMaintenance
  BY <1>35 DEF SetMaintenance, Goto
<1>35a. CASE SetSetup
  BY <1>35a DEF SetSetup, Goto
<1>36. CASE Undo
  <2>1. /\ undo' = SubSeq(undo, 1, Len(undo) - 1) /\ undo # <<>> /\ pc = "undo"
        /\ UNCHANGED <<pc, plan, cmd>>
    BY <1>36 DEF Undo
  <2>2. op' = op /\ name' = name
    BY <2>1 DEF op, name
  <2>3. /\ Len(undo) \in Nat \ {0} /\ Len(undo') = Len(undo) - 1
        /\ \A i \in 1 .. Len(undo) - 1 : undo'[i] = undo[i]
    BY <2>1, Popped DEF Undoable, TypeOK
  <2>4. VconfPushed /\ undo[Len(undo)] # "vconf" => VconfPushed'
    <3>1. \A i \in 1 .. Len(undo) : i # Len(undo) => i \in 1 .. Len(undo') /\ undo'[i] = undo[i]
      BY <2>3
    <3>2. QED
      BY <3>1 DEF VconfPushed
  <2>5. QED
    BY <1>36, <2>1, <2>2, <2>4
<1>37. CASE UndoDone
  BY <1>37 DEF UndoDone, Goto, host, op, name, VconfPushed
<1>38. ASSUME NEW at \in Fallible, StepFails(at) PROVE Pending(k)' \/ Save \/ (Undo /\ undo[Len(undo)] = "vconf")
  BY <1>38 DEF StepFails, Goto, Fallible, host, op, name, VconfPushed
<1>39. CASE Crash
  BY <1>39 DEF Crash, Exit, NoCommand, Nothing
<1>40. CASE RestartOLS
  BY <1>40 DEF RestartOLS, host, op, name, VconfPushed, Creating, Commands, proc
<1>41. CASE UNCHANGED vars
  BY <1>41 DEF vars, host, op, name, VconfPushed, Creating, Commands, proc
<1>42. QED
  BY <1>1, <1>2, <1>3, <1>4, <1>5, <1>6, <1>7, <1>8, <1>9, <1>10, <1>11, <1>12,
     <1>13, <1>14, <1>15, <1>16, <1>17, <1>18, <1>19, <1>20, <1>21, <1>22, <1>23,
     <1>24, <1>25, <1>26, <1>27, <1>28, <1>29, <1>30, <1>31, <1>32, <1>33, <1>34,
     <1>35, <1>35a, <1>36, <1>37, <1>38, <1>39, <1>40, <1>41
     DEF Next, Step, Reconcile, Create, Delete

LEMMA StageStep == ASSUME ~CanCrash, IInv, StageInv, [Next]_vars PROVE StageInv'
<1> USE DEF IInv, TypeOK, PlanInv, UndoInv, MemInv, GoneInv, StageInv,
            Reconciling, Changing
<1>0. mem' = mem => Room(mem)' = Room(mem) /\ Registered(mem)' = Registered(mem)
  BY DEF Room, Demand, Php, Registered
<1>1. ASSUME NEW kind \in AllKinds, NEW n \in Names, NEW t \in Types \cup {"none"},
             NEW u \in Setups \cup {NoSetup}, Start(kind, n, t, u)
      PROVE  StageInv'
  <2>1. mem' = disk /\ disk' = disk /\ pc' = "next"
    BY <1>1 DEF Start, Goto, host
  <2>2. QED
    BY <2>1
<1>2. CASE NextOperation
  <2>1. /\ pc = "next" /\ plan # <<>> /\ pc' = FirstStep(Head(plan)) /\ UNCHANGED <<disk, mem, plan, cmd>>
    BY <1>2 DEF NextOperation, host
  <2>2. Head(plan) \in AllKinds \cup {"fill"} /\ Head(plan) \notin {"force-create", "clone", "restore"}
    BY <2>1, PlanFacts
  <2>3. pc' \notin {"save", "render", "logrotate", "reload"} /\ (op = "create" => pc' = "add")
    BY <2>1, <2>2 DEF FirstStep, AllKinds, op
  <2>4. op' = op /\ name' = name
    BY <2>1 DEF op, name
  <2>5. QED
    BY <2>1, <2>3, <2>4
<1>3. CASE CommandDone
  BY <1>3 DEF CommandDone, host
<1>4. CASE End
  BY <1>4 DEF End, Exit, NoCommand, Nothing, host, op
<1>5. CASE ReconcileNothing
  BY <1>0, <1>5 DEF ReconcileNothing, Goto, NoListener, host, op, name, VconfPushed
<1>6. CASE Allocate
  BY <1>0, <1>6 DEF Allocate, host, op, name, VconfPushed
<1>7. ASSUME NEW n \in Names, RenderSite(n) PROVE StageInv'
  BY <1>0, <1>7 DEF RenderSite, host, op, name, VconfPushed
<1>8. CASE SaveHttpd
  BY <1>0, <1>8 DEF SaveHttpd, Goto, host, op, name, VconfPushed
<1>9. CASE Logrotate
  <2>1. /\ op' = op /\ name' = name /\ pc = "logrotate"
        /\ UNCHANGED <<disk, mem, undo, httpd>>
        /\ pc' \notin {"render", "logrotate"} /\ (pc' = "save" => op # "delete")
    BY <1>9 DEF Logrotate, ReconcileDone, AfterReconcile, host, op, name, Reconciling
  <2>2. VconfPushed' <=> VconfPushed
    BY <2>1 DEF VconfPushed
  <2>3. QED
    BY <1>0, <2>1, <2>2
<1>10. CASE Reload
  <2>1. /\ op' = op /\ name' = name /\ pc = "reload"
        /\ UNCHANGED <<disk, mem, undo, httpd>>
        /\ pc' \notin {"render", "logrotate", "reload"} /\ (pc' = "save" => op # "delete")
    BY <1>10 DEF Reload, ReconcileDone, AfterReconcile, host, op, name, Reconciling
  <2>2. VconfPushed' <=> VconfPushed
    BY <2>1 DEF VconfPushed
  <2>3. QED
    BY <1>0, <2>1, <2>2
<1>11. CASE ReconcileFails
  BY <1>0, <1>11 DEF ReconcileFails, Goto, host, op, name
<1>12. CASE ReconcileOnly
  <2>1. pc' = "next" /\ plan' = Tail(plan) /\ mem' = mem /\ disk' = disk
    BY <1>12 DEF ReconcileOnly, OperationDone, host
  <2>2. mem = disk
    BY <1>12 DEF ReconcileOnly
  <2>3. QED
    BY <2>1, <2>2
<1>13. CASE Save
  <2>1. pc' = "next" /\ disk' = mem /\ mem' = mem
    BY <1>13 DEF Save, OperationDone
  <2>2. QED
    BY <2>1
<1>14. CASE AddSite
  BY <1>14 DEF AddSite, Goto, host, op
<1>15. CASE MakeRoot
  BY <1>15 DEF MakeRoot, host, op
<1>16. CASE WriteIndex
  <2>1. /\ undo' = Append(undo, "vconf") /\ pc' = "alloc" /\ op' = op /\ name' = name /\ UNCHANGED <<disk, mem>>
    BY <1>16 DEF WriteIndex, Goto, op, name, host
  <2>2. VconfPushed'
    <3>1. undo \in Seq(Undoable) /\ Len(undo) \in Nat
      BY DEF Undoable
    <3>2. Len(undo') = Len(undo) + 1 /\ undo'[Len(undo) + 1] = "vconf"
      BY <2>1, <3>1, Pushed DEF Undoable
    <3>3. Len(undo) + 1 \in 1 .. Len(undo')
      BY <3>1, <3>2
    <3>4. QED
      BY <3>2, <3>3 DEF VconfPushed
  <2>3. QED
    BY <2>1, <2>2
<1>17. CASE WriteIndexFails
  BY <1>17 DEF WriteIndexFails, StepFails, Goto, host, op
<1>18. CASE AddUser
  BY <1>18 DEF AddUser, Goto, host, op, name
<1>19. CASE AddUserFails
  BY <1>19 DEF AddUserFails, StepFails, Goto, host, op, name
<1>20. CASE Chown
  BY <1>20 DEF Chown, Goto, host, op, name
<1>21. CASE JoinRedisGroup
  BY <1>21 DEF JoinRedisGroup, host, op, name
<1>22. CASE InstallWordPress
  BY <1>22 DEF InstallWordPress, Fill, Goto, host, op
<1>23. CASE Clone
  BY <1>23 DEF Clone, Fill, Goto
<1>24. CASE Restore
  BY <1>24 DEF Restore, Fill, Goto
<1>25. CASE FillFails
  <2>1. pc' = "next" /\ plan' = <<"delete">>
    BY <1>25 DEF FillFails, Goto
  <2>2. op' = "delete"
    BY <2>1 DEF op
  <2>3. QED
    BY <2>1, <2>2
<1>26. CASE RemoveSite
  BY <1>26 DEF RemoveSite, Goto, host, op
<1>27. CASE Unregister
  BY <1>27 DEF Unregister, host, op
<1>28. CASE Unmap
  BY <1>28 DEF Unmap, Goto, host, op
<1>29. CASE RemoveUser
  BY <1>29 DEF RemoveUser, Goto, host, op
<1>30. CASE RemoveRoot
  BY <1>30 DEF RemoveRoot, Goto, host, op, name
<1>31. CASE SetUser
  <2>1. op \in Changing /\ op' = op /\ pc' \notin {"render", "logrotate", "reload", "save"}
    BY <1>31 DEF SetUser, Goto, op
  <2>2. QED
    BY <2>1
<1>32. CASE SetRestrained
  BY <1>32 DEF SetRestrained, host, op, name
<1>33. CASE Certbot
  <2>1. op \in Changing /\ op' = op /\ pc' \notin {"render", "logrotate", "reload", "save"}
    BY <1>33 DEF Certbot, Goto, op
  <2>2. QED
    BY <2>1
<1>34. CASE ForceSSL
  BY <1>34 DEF ForceSSL, host, op, name
<1>35. CASE SetMaintenance
  <2>1. op \in Changing /\ op' = op /\ pc' \notin {"render", "logrotate", "reload", "save"}
    BY <1>35 DEF SetMaintenance, Goto, op
  <2>2. QED
    BY <2>1
<1>35a. CASE SetSetup
  <2>1. op \in Changing /\ op' = op /\ pc' \notin {"render", "logrotate", "reload", "save"}
    BY <1>35a DEF SetSetup, Goto, op
  <2>2. QED
    BY <2>1
<1>36. CASE Undo
  <2>1. pc' = "undo"
    BY <1>36 DEF Undo
  <2>2. QED
    BY <2>1
<1>37. CASE UndoDone
  BY <1>37 DEF UndoDone, Goto, host, op, name
<1>38. ASSUME NEW at \in Fallible, StepFails(at) PROVE StageInv'
  BY <1>38 DEF StepFails, Goto, Fallible, host, op, name
<1>39. CASE Crash
  BY <1>39 DEF Crash, Exit, NoCommand, Nothing
<1>40. CASE RestartOLS
  BY <1>0, <1>40, NamesAssumption, NullAssumption
     DEF RestartOLS, host, op, name, VconfPushed, Creating, Commands, proc
<1>41. CASE UNCHANGED vars
  BY <1>0, <1>41 DEF vars, host, op, name, VconfPushed, Creating, Commands, proc
<1>42. QED
  BY <1>1, <1>2, <1>3, <1>4, <1>5, <1>6, <1>7, <1>8, <1>9, <1>10, <1>11, <1>12,
     <1>13, <1>14, <1>15, <1>16, <1>17, <1>18, <1>19, <1>20, <1>21, <1>22, <1>23,
     <1>24, <1>25, <1>26, <1>27, <1>28, <1>29, <1>30, <1>31, <1>32, <1>33, <1>34,
     <1>35, <1>35a, <1>36, <1>37, <1>38, <1>39, <1>40, <1>41
     DEF Next, Step, Reconcile, Create, Delete

\* What RenderSite, SaveHttpd, Unregister and Undo do to the vhosts.
LEMMA HostFacts ==
  ASSUME IInv
  PROVE  /\ \A n \in Names : RenderSite(n) =>
              /\ pc = "render" /\ n \in Registered(mem)
              /\ UNCHANGED <<disk, httpd, pc, plan, cmd, mem, undo>>
              /\ vconf'[n] = Render(mem, n) /\ Render(mem, n) # NoConf
              /\ \A k \in Names \ {n} : vconf'[k] = vconf[k]
         /\ SaveHttpd => /\ pc = "render" /\ httpd'.vhosts = httpd.vhosts \cup Registered(mem)
                         /\ \A k \in Registered(mem) : vconf[k] = Render(mem, k)
                         /\ UNCHANGED <<disk, vconf, mem>>
         /\ Unregister => httpd'.vhosts = httpd.vhosts \ {name} /\ UNCHANGED <<disk, vconf>>
         /\ Undo => /\ UNCHANGED <<disk, httpd>>
                    /\ \A k \in Names : vconf'[k] # NoConf => vconf'[k] = vconf[k]
                    /\ \A k \in Registered(disk) : vconf'[k] = vconf[k]
                    /\ undo # <<>> /\ undo[Len(undo)] = "vconf" => vconf'[name] = NoConf
<1> USE DEF IInv
<1>1. ASSUME NEW n \in Names, RenderSite(n)
      PROVE  /\ pc = "render" /\ n \in Registered(mem)
             /\ UNCHANGED <<disk, httpd, pc, plan, cmd, mem, undo>>
             /\ vconf'[n] = Render(mem, n) /\ Render(mem, n) # NoConf
             /\ \A k \in Names \ {n} : vconf'[k] = vconf[k]
  <2>1. /\ pc = "render" /\ n \in todo /\ vconf' = [vconf EXCEPT ![n] = Render(mem, n)]
        /\ UNCHANGED <<disk, httpd, pc, plan, cmd, mem, undo>>
    BY <1>1 DEF RenderSite
  <2>2. n \in Registered(mem)
    BY <2>1 DEF ServedInv
  <2>3. Render(mem, n) # NoConf
    BY <2>2, Rendering, ConfAssumption DEF TypeOK
  <2>4. QED
    BY <2>1, <2>2, <2>3 DEF TypeOK
<1>2. ASSUME SaveHttpd
      PROVE  /\ pc = "render" /\ httpd'.vhosts = httpd.vhosts \cup Registered(mem)
             /\ \A k \in Registered(mem) : vconf[k] = Render(mem, k)
             /\ UNCHANGED <<disk, vconf, mem>>
  <2>1. /\ pc = "render" /\ todo = {} /\ httpd' = WithSites(httpd, mem)
        /\ UNCHANGED <<disk, vconf, mem>>
    BY <1>2 DEF SaveHttpd, Goto
  <2>2. QED
    BY <2>1 DEF ServedInv, WithSites
<1>3. ASSUME Unregister
      PROVE  httpd'.vhosts = httpd.vhosts \ {name} /\ UNCHANGED <<disk, vconf>>
  BY <1>3 DEF Unregister, TypeOK
<1>4. ASSUME Undo
      PROVE  /\ UNCHANGED <<disk, httpd>>
             /\ \A k \in Names : vconf'[k] # NoConf => vconf'[k] = vconf[k]
             /\ \A k \in Registered(disk) : vconf'[k] = vconf[k]
             /\ undo # <<>> /\ undo[Len(undo)] = "vconf" => vconf'[name] = NoConf
  <2>1. /\ UNCHANGED <<disk, httpd>> /\ undo # <<>> /\ pc = "undo"
        /\ vconf' = IF undo[Len(undo)] = "vconf" THEN [vconf EXCEPT ![name] = NoConf] ELSE vconf
    BY <1>4 DEF Undo
  <2>2. name \in Names
    BY <2>1 DEF TypeOK, PlanInv, Commands, name
  <2>3. undo[Len(undo)] = "vconf" => name \notin Registered(disk)
    <3>1. Len(undo) \in 1 .. Len(undo)
      BY <2>1, Popped DEF Undoable, TypeOK
    <3>2. QED
      BY <3>1 DEF UndoInv, MemInv, Registered
  <2>4. \A k \in Registered(disk) : k \in Names
    BY RegisteredIn
  <2>5. QED
    BY <2>1, <2>2, <2>3, <2>4 DEF TypeOK
<1>5. QED
  BY <1>1, <1>2, <1>3, <1>4

LEMMA KnownStep == ASSUME ~CanCrash, IInv, RamInv, [Next]_vars PROVE KnownInv'
<1>0. TypeOK /\ KnownInv /\ StageInv /\ \A r : Registered(r) \subseteq Names
  BY RegisteredIn DEF IInv, RamInv
<1> DEFINE Fine(k) == k \in Registered(disk)' \/ Pending(k)'
\* A vhost that was Pending still is, unless it is saved or its file is gone.
<1>1. ASSUME NEW k \in httpd.vhosts, vconf[k] # NoConf, disk' = disk, ~Save,
             ~(Undo /\ undo[Len(undo)] = "vconf")
      PROVE  Fine(k)
  <2>1. CASE Pending(k)
    BY <1>1, <2>1, PendingStep
  <2>2. CASE ~Pending(k)
    BY <1>0, <1>1, <2>2 DEF KnownInv, Registered
  <2>3. QED
    BY <2>1, <2>2
\* A site in memory that is rendered is saved already or is the one Create adds.
<1>2. ASSUME NEW k \in Registered(mem), pc = "render", UNCHANGED <<disk, plan, cmd, undo>>,
             pc' \in {"render", "logrotate"}
      PROVE  Fine(k)
  <2>1. k \in Names /\ mem[k] # NoSite
    BY <1>2 DEF Registered
  <2>2. CASE disk[k] # NoSite
    BY <1>2, <2>1, <2>2 DEF Registered
  <2>3. CASE disk[k] = NoSite
    <3>1. k = name
      BY <1>2, <2>1, <2>3 DEF IInv, MemInv
    <3>2. op \in {"create", "delete", "fill", "reconcile"} \cup Changing
      <4>1. plan \in Plans /\ plan # <<>>
        BY <1>2 DEF IInv, PlanInv, Reconciling, op, Changing
      <4>2. QED
        BY <4>1, PlanFacts DEF op, AllKinds, Changing
    <3>3. op = "create"
      BY <1>2, <2>1, <2>3, <3>1, <3>2 DEF IInv, MemInv, Reconciling
    <3>4. VconfPushed
      BY <1>0, <1>2, <3>3 DEF StageInv, Reconciling
    <3>5. Pending(k)'
      BY <1>2, <3>1, <3>3, <3>4 DEF Pending, op, name, VconfPushed
    <3>6. QED
      BY <3>5
  <2>4. QED
    BY <2>2, <2>3
<1>3. CASE Keeps /\ ~Undo /\ ~Save
  BY <1>1, <1>3 DEF Keeps, KnownInv
<1>4. ASSUME NEW n \in Names, RenderSite(n) PROVE KnownInv'
  <2>1. /\ pc = "render" /\ n \in Registered(mem)
        /\ UNCHANGED <<disk, httpd, pc, plan, cmd, mem, undo>>
        /\ \A k \in Names \ {n} : vconf'[k] = vconf[k]
    BY <1>4, HostFacts
  <2>2. ~Undo /\ ~Save
    BY <2>1 DEF Undo, Save
  <2>3. Fine(n)
    BY <1>2, <2>1
  <2>4. ASSUME NEW k \in httpd.vhosts, vconf'[k] # NoConf, k # n PROVE Fine(k)
    <3>1. vconf'[k] = vconf[k]
      BY <1>0, <2>1, <2>4 DEF TypeOK
    <3>2. QED
      BY <1>1, <2>1, <2>2, <2>4, <3>1
  <2>5. QED
    BY <2>1, <2>3, <2>4 DEF KnownInv
<1>5. CASE SaveHttpd
  <2>1. /\ pc = "render" /\ httpd'.vhosts = httpd.vhosts \cup Registered(mem)
        /\ UNCHANGED <<disk, vconf>>
    BY <1>5, HostFacts
  <2>2. ~Undo /\ ~Save /\ pc' = "logrotate" /\ UNCHANGED <<plan, cmd, undo>>
    BY <1>5 DEF SaveHttpd, Goto, Undo, Save
  <2>3. \A k \in Registered(mem) : Fine(k)
    BY <1>2, <2>1, <2>2
  <2>4. QED
    BY <1>1, <2>1, <2>2, <2>3 DEF KnownInv
<1>6. CASE Unregister
  <2>1. httpd'.vhosts = httpd.vhosts \ {name} /\ UNCHANGED <<disk, vconf>> /\ ~Undo /\ ~Save
    BY <1>6, HostFacts DEF Unregister, Undo, Save
  <2>2. QED
    BY <1>1, <2>1 DEF KnownInv
<1>7. CASE Save
  <2>1. pc = "save" /\ disk' = mem /\ UNCHANGED <<vconf, httpd>>
    BY <1>7 DEF Save
  <2>2. \A k \in httpd.vhosts : vconf[k] # NoConf => k \in Registered(mem)
    BY <1>0, <2>1, PlacedIsRegistered
  <2>3. Registered(disk)' = Registered(mem)
    BY <2>1 DEF Registered
  <2>4. QED
    BY <2>1, <2>2, <2>3 DEF KnownInv
<1>8. CASE Undo
  <2>1. /\ UNCHANGED <<disk, httpd>> /\ ~Save
        /\ \A k \in Names : vconf'[k] # NoConf => vconf'[k] = vconf[k]
        /\ undo # <<>> /\ undo[Len(undo)] = "vconf" => vconf'[name] = NoConf
    BY <1>8, HostFacts DEF Undo, Save
  <2>2. undo # <<>>
    BY <1>8 DEF Undo
  <2>3. ASSUME NEW k \in httpd.vhosts, vconf'[k] # NoConf PROVE Fine(k)
    <3>1. k \in Names /\ vconf'[k] = vconf[k]
      BY <1>0, <2>1, <2>3 DEF TypeOK
    <3>2. CASE undo[Len(undo)] # "vconf"
      BY <1>1, <2>1, <2>3, <3>1, <3>2
    <3>3. CASE undo[Len(undo)] = "vconf"
      <4>1. k # name
        BY <2>1, <2>2, <2>3, <3>3
      <4>2. ~Pending(k)
        BY <4>1 DEF Pending
      <4>3. QED
        BY <1>0, <2>1, <2>3, <3>1, <4>2 DEF KnownInv, Registered
    <3>4. QED
      BY <3>2, <3>3
  <2>4. QED
    BY <2>1, <2>3 DEF KnownInv
<1>9. QED
  BY <1>3, <1>4, <1>5, <1>6, <1>7, <1>8, Moves

\* A step at most restarts OLS while all is settled.
Rests ==
    Settled /\ mem' = mem /\ (running' = running \/ running' = Loaded(httpd, vconf))

\* With any site left it is the restart of Reconcile that settles things.
LEMMA StaysSettled ==
  ASSUME IInv, [Next]_vars, Settled', Registered(mem') # {}
  PROVE  Reload \/ Rests
<1> USE DEF IInv, PlanInv, Rests
<1>0. /\ pc' \in {"userdel", "rmroot", "save", "done", "fill", "ok"} \/ (pc' = "next" /\ op' \in {"none", "fill"})
      /\ plan' = plan => op' = op
      /\ plan \in Plans
  BY DEF Settled, op
<1>1. ASSUME NEW kind \in AllKinds, NEW n \in Names, NEW t \in Types \cup {"none"},
             NEW u \in Setups \cup {NoSetup}, Start(kind, n, t, u)
      PROVE  Reload \/ Rests
  <2>1. plan' = PlanOf(kind, n, t, disk) /\ pc' = "next"
    BY <1>1 DEF Start, Goto
  <2>2. op' \notin {"none", "fill"}
    BY <2>1, PlanStarts DEF op, AllKinds, Creating
  <2>3. QED
    BY <1>0, <2>1, <2>2
<1>2. CASE NextOperation
  <2>1. pc = "next" /\ plan # <<>> /\ pc' = FirstStep(Head(plan)) /\ UNCHANGED <<mem, running, plan>>
    BY <1>2 DEF NextOperation, host
  <2>2. Head(plan) \in AllKinds \cup {"fill"} /\ Head(plan) \notin {"force-create", "clone", "restore"}
    BY <1>0, <2>1, PlanFacts
  <2>3. Head(plan) # "fill" => pc' \notin {"userdel", "rmroot", "save", "done", "fill", "ok", "next"}
    BY <2>1, <2>2 DEF FirstStep, AllKinds
  <2>4. op = Head(plan)
    BY <2>1 DEF op
  <2>5. QED
    BY <1>0, <2>1, <2>3, <2>4 DEF Settled
<1>3. CASE CommandDone
  BY <1>0, <1>3 DEF CommandDone, host, Settled, op
<1>4. CASE End
  BY <1>0, <1>4 DEF End, Exit, NoCommand, Nothing, host
<1>5. CASE ReconcileNothing
  BY <1>0, <1>5 DEF ReconcileNothing, Goto, NoListener
<1>6. CASE Allocate
  BY <1>0, <1>6 DEF Allocate, host
<1>7. ASSUME NEW n \in Names, RenderSite(n) PROVE Reload \/ Rests
  BY <1>0, <1>7 DEF RenderSite
<1>8. CASE SaveHttpd
  BY <1>0, <1>8 DEF SaveHttpd, Goto
<1>9. CASE Logrotate
  BY <1>0, <1>9 DEF Logrotate, ReconcileDone, AfterReconcile, host
<1>10. CASE Reload
  BY <1>0, <1>10 DEF Reload, ReconcileDone, AfterReconcile
<1>11. CASE ReconcileFails
  BY <1>0, <1>11 DEF ReconcileFails, Goto, host
<1>12. CASE ReconcileOnly
  BY <1>0, <1>12 DEF ReconcileOnly, OperationDone, host, Settled, op
<1>13. CASE Save
  BY <1>0, <1>13 DEF Save, OperationDone, Settled, op
<1>14. CASE AddSite
  BY <1>0, <1>14 DEF AddSite, Goto, host
<1>15. CASE MakeRoot
  BY <1>0, <1>15 DEF MakeRoot
<1>16. CASE WriteIndex
  BY <1>0, <1>16 DEF WriteIndex, Goto, host
<1>17. CASE WriteIndexFails
  BY <1>0, <1>17 DEF WriteIndexFails, StepFails, Goto, host
<1>18. CASE AddUser
  BY <1>0, <1>18 DEF AddUser, Goto
<1>19. CASE AddUserFails
  BY <1>0, <1>19 DEF AddUserFails, StepFails, Goto, host
<1>20. CASE Chown
  BY <1>0, <1>20 DEF Chown, Goto, host
<1>21. CASE JoinRedisGroup
  BY <1>0, <1>21 DEF JoinRedisGroup, host
<1>22. CASE InstallWordPress
  BY <1>0, <1>22 DEF InstallWordPress, Fill, Goto, Settled, op
<1>23. CASE Clone
  BY <1>0, <1>23 DEF Clone, Fill, Goto, Settled, op
<1>24. CASE Restore
  BY <1>0, <1>24 DEF Restore, Fill, Goto, Settled, op
<1>25. CASE FillFails
  <2>1. pc' = "next" /\ plan' = <<"delete">>
    BY <1>25 DEF FillFails, Goto
  <2>2. op' = "delete"
    BY <2>1 DEF op
  <2>3. QED
    BY <1>0, <2>1, <2>2
<1>26. CASE RemoveSite
  BY <1>0, <1>26 DEF RemoveSite, Goto, host
<1>27. CASE Unregister
  BY <1>0, <1>27 DEF Unregister
<1>28. CASE Unmap
  BY <1>0, <1>28 DEF Unmap, Goto
<1>29. CASE RemoveUser
  BY <1>0, <1>29 DEF RemoveUser, Goto, Settled, op
<1>30. CASE RemoveRoot
  BY <1>0, <1>30 DEF RemoveRoot, Goto, Settled, op
<1>31. CASE SetUser
  BY <1>0, <1>31 DEF SetUser, Goto, host
<1>32. CASE SetRestrained
  BY <1>0, <1>32 DEF SetRestrained, host
<1>33. CASE Certbot
  BY <1>0, <1>33 DEF Certbot, Goto, host
<1>34. CASE ForceSSL
  BY <1>0, <1>34 DEF ForceSSL, host
<1>35. CASE SetMaintenance
  BY <1>0, <1>35 DEF SetMaintenance, Goto, host
<1>35a. CASE SetSetup
  BY <1>0, <1>35a DEF SetSetup, Goto, host
<1>36. CASE Undo
  BY <1>0, <1>36 DEF Undo
<1>37. CASE UndoDone
  BY <1>0, <1>37 DEF UndoDone, Goto, host
<1>38. ASSUME NEW at \in Fallible, StepFails(at) PROVE Reload \/ Rests
  BY <1>0, <1>38 DEF StepFails, Goto, Fallible, host
<1>39. CASE Crash
  BY <1>0, <1>39 DEF Crash, Exit, NoCommand, Nothing, host
<1>40. CASE RestartOLS
  BY <1>0, <1>40 DEF RestartOLS, proc, Settled, op
<1>41. CASE UNCHANGED vars
  BY <1>0, <1>41 DEF vars, host, proc, Settled, op
<1>42. QED
  BY <1>1, <1>2, <1>3, <1>4, <1>5, <1>6, <1>7, <1>8, <1>9, <1>10, <1>11, <1>12,
     <1>13, <1>14, <1>15, <1>16, <1>17, <1>18, <1>19, <1>20, <1>21, <1>22, <1>23,
     <1>24, <1>25, <1>26, <1>27, <1>28, <1>29, <1>30, <1>31, <1>32, <1>33, <1>34,
     <1>35, <1>35a, <1>36, <1>37, <1>38, <1>39, <1>40, <1>41
     DEF Next, Step, Reconcile, Create, Delete

LEMMA RoomStep == ASSUME ~CanCrash, IInv, RamInv, [Next]_vars PROVE RoomInv'
<1> SUFFICES ASSUME Settled', Registered(mem') # {}
             PROVE  Room(mem') /\ \A n \in Names : running'[n] # NoConf => n \in Registered(mem')
  BY DEF RoomInv, Registered, Room, Demand, Php
<1>0. TypeOK /\ KnownInv /\ StageInv /\ RoomInv
  BY DEF IInv, RamInv
\* What OLS loads now is what is placed now.
<1>1. ASSUME running' = Loaded(httpd, vconf), mem' = mem,
             pc \in Reconciling \cup {"save"} \/ Settled
      PROVE  \A n \in Names : running'[n] # NoConf => n \in Registered(mem')
  <2>1. SUFFICES ASSUME NEW n \in Names, running'[n] # NoConf PROVE n \in Registered(mem)
    BY <1>1
  <2>2. n \in httpd.vhosts /\ vconf[n] # NoConf
    BY <1>1, <2>1 DEF Loaded
  <2>3. QED
    BY <1>0, <1>1, <2>2, PlacedIsRegistered
<1>2. CASE Reload
  <2>1. pc = "reload" /\ running' = Loaded(httpd, vconf) /\ mem' = mem
    BY <1>2 DEF Reload
  <2>2. Room(mem)
    BY <1>0, <2>1 DEF StageInv
  <2>3. QED
    BY <1>1, <2>1, <2>2 DEF Reconciling
<1>3. CASE ~Reload
  <2>1. /\ Settled /\ mem' = mem
        /\ running' = running \/ running' = Loaded(httpd, vconf)
    BY <1>3, StaysSettled DEF Rests
  <2>2. QED
    BY <1>0, <1>1, <2>1 DEF RoomInv
<1>4. QED
  BY <1>2, <1>3

LEMMA InitRam == Init => RamInv
<1> SUFFICES ASSUME Init PROVE RamInv
  OBVIOUS
<1>1. /\ httpd.vhosts = {} /\ op = "none" /\ pc = "idle"
  BY DEF Init, BareHttpd, op
<1>2. QED
  BY <1>1 DEF RamInv, KnownInv, StageInv, RoomInv, Settled, Reconciling

LEMMA RamAlways == ASSUME ~CanCrash PROVE Spec => []RamInv
<1>1. IInv /\ RamInv /\ [Next]_vars => RamInv'
  BY KnownStep, StageStep, RoomStep DEF RamInv
<1>2. QED
  BY <1>1, InitRam, Always, PTL DEF Spec

\* The shares that were rendered together fit together.
LEMMA RenderedFit ==
  ASSUME NEW r \in [Names -> Site \cup {NoSite}], Room(r),
         NEW S \in SUBSET Php(r), \A n \in S : ~r[n].maint
  PROVE  SumFunction([n \in S |-> Share(r, n)]) <= Budget
<1>1. Demand(r) \in Demands /\ DOMAIN Demand(r) = Php(r)
  BY Demanding
<1>2. SumFunction([n \in S |-> Compute(Demand(r))[n]]) <= Budget
  <2>1. Compute(Demand(r)) # NoRoom
    BY DEF Room
  <2>2. \A T \in SUBSET DOMAIN Demand(r) :
          SumFunction([n \in T |-> Compute(Demand(r))[n]]) <= Budget
    <3> DEFINE Fit(d) == \A T \in SUBSET DOMAIN d : SumFunction([n \in T |-> Compute(d)[n]]) <= Budget
    <3>1. \A d \in Demands : Compute(d) # NoRoom => Fit(d)
      BY ComputeAssumption, Zenon
    <3> HIDE DEF Fit
    <3>2. Fit(Demand(r))
      BY <1>1, <2>1, <3>1, Zenon
    <3>3. QED
      BY <3>2, Zenon DEF Fit
  <2>3. S \in SUBSET DOMAIN Demand(r)
    BY <1>1
  <2>4. QED
    BY <2>2, <2>3, Zenon
<1>3. \A n \in S : Share(r, n) = Compute(Demand(r))[n]
  BY DEF Share
<1>4. [n \in S |-> Share(r, n)] = [n \in S |-> Compute(Demand(r))[n]]
  BY <1>3
<1>5. QED
  BY <1>2, <1>4, Zenon

\* The RAM is not given away twice by a command that succeeds, wherever earlier
\* ones failed and whenever OLS is restarted by somebody else, as long as gow is
\* not killed: Reconcile renders the vhost of every site from one division of the
\* RAM, and OLS serves no vhost of a site that is gone or was never saved.
THEOREM SuccessFitting == ASSUME ~CanCrash PROVE Spec => []SuccessFits
<1>1. IInv /\ RamInv => SuccessFits
  <2> SUFFICES ASSUME IInv, RamInv, pc = "ok", Registered(disk) # {} PROVE NoOvercommit
    BY DEF SuccessFits
  <2>1. Settled /\ mem = disk /\ mem \in [Names -> Site \cup {NoSite}]
    BY DEF Settled, IInv, MemInv, TypeOK
  <2>2. Room(mem) /\ \A n \in Names : running[n] # NoConf => n \in Registered(mem)
    BY <2>1 DEF RamInv, RoomInv
  <2>3. \A n \in Registered(mem) : running[n] # NoConf /\ running[n].conf = Render(mem, n)
    BY <2>1 DEF IInv, ServedInv, Serves
  <2>4. \A n \in ServedPhp : /\ n \in Php(mem) /\ ~mem[n].maint
                             /\ running[n].conf.share = Share(mem, n)
    <3> SUFFICES ASSUME NEW n \in ServedPhp
                 PROVE  /\ n \in Php(mem) /\ ~mem[n].maint
                        /\ running[n].conf.share = Share(mem, n)
      OBVIOUS
    <3>1. n \in Names /\ running[n] # NoConf
      BY DEF ServedPhp
    <3>2. n \in Registered(mem) /\ running[n].conf = Render(mem, n)
      BY <2>2, <2>3, <3>1
    <3>3. Render(mem, n).type # "html" /\ ~Render(mem, n).maint
      BY <3>2 DEF ServedPhp
    <3>4. QED
      BY <3>2, <3>3 DEF Php, Render
  <2>5. SumFunction([n \in ServedPhp |-> Share(mem, n)]) <= Budget
    BY <2>1, <2>2, <2>4, RenderedFit
  <2>6. [n \in ServedPhp |-> running[n].conf.share] = [n \in ServedPhp |-> Share(mem, n)]
    BY <2>4
  <2>7. QED
    BY <2>5, <2>6, Zenon DEF NoOvercommit
<1>2. QED
  BY <1>1, RamAlways, Always, PTL

-----------------------------------------------------------------------------
(* Every command comes to an end.                                          *)

\* More steps than any operation takes, once each site is rendered.
Most == Cardinality(Names) + 14

\* Where each step is on the way to the end of its operation: the next one is always
\* further down.  The files of a new site are two operations' worth, since what fails there
\* is followed by a Delete.
Ahead(at) ==
    CASE at \in {"save", "done"} -> 1
      [] at = "rmroot" -> 2
      [] at = "userdel" -> 3
      [] at = "reload" -> 4
      [] at = "logrotate" -> 5
      [] at = "render" -> 6
      [] at = "alloc" -> Most - 7
      [] at \in {"unmap", "index", "restrained", "force-ssl", "set-maint", "set-setup"} -> Most - 6
      [] at \in {"unregister", "usermod", "certbot"} -> Most - 5
      [] at \in {"chown", "remove"} -> Most - 4
      [] at = "useradd" -> Most - 3
      [] at \in {"mkdir", "set-user"} -> Most - 2
      [] at = "add" -> Most - 1
      [] at = "fill" -> Most + 1

Stages(p) == Len(p) + (IF p # <<>> /\ p[Len(p)] = "fill" THEN 1 ELSE 0)

Working == ControlPoints \ {"idle", "next", "ok", "failed", "undo"}

\* The steps that a plan can still take.
Queued(p) == Stages(p) * Most + 7

ToRender(at, t) == IF at = "render" THEN Cardinality(t) ELSE 0

\* How many more steps a command at this point, with p its plan, u its rollback stack and t
\* the sites to render, can take.
Left(at, p, u, t) ==
    CASE at = "idle" -> 0
      [] at \in {"ok", "failed"} -> 1
      [] at = "undo" -> Len(u) + 2
      [] at = "next" -> Queued(p)
      [] at \in Working -> Queued(Tail(p)) + Ahead(at) + ToRender(at, t)

StepsLeft == Left(pc, plan, undo, todo)

LEMMA MostIs == Cardinality(Names) \in Nat /\ Most \in Nat /\ Most = Cardinality(Names) + 14
BY NamesAssumption, FS_CardinalityType DEF Most

LEMMA TodoCount ==
  ASSUME NEW s \in SUBSET Names
  PROVE  IsFiniteSet(s) /\ Cardinality(s) \in 0 .. Cardinality(Names)
<1>1. IsFiniteSet(s) /\ Cardinality(s) <= Cardinality(Names)
  BY NamesAssumption, FS_Subset
<1>2. Cardinality(s) \in Nat
  BY <1>1, FS_CardinalityType
<1>3. QED
  BY <1>1, <1>2, MostIs

LEMMA AheadIs ==
  /\ Ahead("save") = 1 /\ Ahead("done") = 1 /\ Ahead("rmroot") = 2 /\ Ahead("userdel") = 3
  /\ Ahead("reload") = 4 /\ Ahead("logrotate") = 5 /\ Ahead("render") = 6
  /\ Ahead("alloc") = Most - 7
  /\ Ahead("unmap") = Most - 6 /\ Ahead("index") = Most - 6 /\ Ahead("restrained") = Most - 6
  /\ Ahead("force-ssl") = Most - 6 /\ Ahead("set-maint") = Most - 6
  /\ Ahead("set-setup") = Most - 6
  /\ Ahead("unregister") = Most - 5 /\ Ahead("usermod") = Most - 5 /\ Ahead("certbot") = Most - 5
  /\ Ahead("chown") = Most - 4 /\ Ahead("remove") = Most - 4 /\ Ahead("useradd") = Most - 3
  /\ Ahead("mkdir") = Most - 2 /\ Ahead("set-user") = Most - 2 /\ Ahead("add") = Most - 1
  /\ Ahead("fill") = Most + 1
BY DEF Ahead

LEMMA AheadBounds ==
  ASSUME NEW at \in Working
  PROVE  /\ Ahead(at) \in 1 .. Most + 1
         /\ at # "fill" => Ahead(at) < Most
BY AheadIs, MostIs DEF Working, ControlPoints

\* Each operation of a plan is one stage, the filling of a new site two.
LEMMA StagesAre ==
  ASSUME NEW p \in Plans, p # <<>>
  PROVE  /\ Stages(p) = Stages(Tail(p)) + (IF Head(p) = "fill" THEN 2 ELSE 1)
         /\ Stages(Tail(p)) \in 0 .. 3 /\ Stages(p) \in 1 .. 4
<1> DEFINE h == Head(p)
           s == Stages(p)
           r == Stages(Tail(p))
           Result == s = r + (IF h = "fill" THEN 2 ELSE 1) /\ r \in 0 .. 3 /\ s \in 1 .. 4
<1>1. Stages(<<>>) = 0
  BY DEF Stages
<1>2. Stages(<<"create">>) = 1 /\ Stages(<<"fill">>) = 2 /\ Stages(<<"create", "fill">>) = 3
  <2>1. <<"create">> # <<>> /\ <<"fill">> # <<>> /\ <<"create", "fill">> # <<>>
    OBVIOUS
  <2>2. QED
    BY <2>1 DEF Stages
<1>3. ASSUME p = <<"create">> PROVE Result
  <2>1. Tail(p) = <<>> /\ h = "create" /\ Len(p) = 1 /\ p[1] = "create"
    BY <1>3
  <2>2. s = 1
    BY <2>1 DEF Stages
  <2>3. r = 0
    <3>1. Tail(p) = <<>>
      BY <2>1
    <3>2. QED
      BY <1>1, <1>2, <3>1
  <2> HIDE DEF h, s, r
  <2>4. s = r + (IF h = "fill" THEN 2 ELSE 1) /\ r \in 0 .. 3 /\ s \in 1 .. 4
    BY <2>1, <2>2, <2>3
  <2>5. QED
    BY <2>4 DEF Result
<1>4. ASSUME p = <<"fill">> PROVE Result
  <2>1. Tail(p) = <<>> /\ h = "fill" /\ Len(p) = 1 /\ p[1] = "fill"
    BY <1>4
  <2>2. s = 2
    BY <2>1 DEF Stages
  <2>3. r = 0
    <3>1. Tail(p) = <<>>
      BY <2>1
    <3>2. QED
      BY <1>1, <1>2, <3>1
  <2> HIDE DEF h, s, r
  <2>4. s = r + (IF h = "fill" THEN 2 ELSE 1) /\ r \in 0 .. 3 /\ s \in 1 .. 4
    BY <2>1, <2>2, <2>3
  <2>5. QED
    BY <2>4 DEF Result
<1>5. ASSUME p = <<"create", "fill">> PROVE Result
  <2>1. Tail(p) = <<"fill">> /\ h = "create" /\ Len(p) = 2 /\ p[2] = "fill"
    BY <1>5
  <2>2. s = 3
    BY <2>1 DEF Stages
  <2>3. r = 2
    <3>1. Tail(p) = <<"fill">>
      BY <2>1
    <3>2. QED
      BY <1>1, <1>2, <3>1
  <2> HIDE DEF h, s, r
  <2>4. s = r + (IF h = "fill" THEN 2 ELSE 1) /\ r \in 0 .. 3 /\ s \in 1 .. 4
    BY <2>1, <2>2, <2>3
  <2>5. QED
    BY <2>4 DEF Result
<1>6. ASSUME p = <<"delete", "create">> PROVE Result
  <2>1. Tail(p) = <<"create">> /\ h = "delete" /\ Len(p) = 2 /\ p[2] = "create"
    BY <1>6
  <2>2. s = 2
    BY <2>1 DEF Stages
  <2>3. r = 1
    <3>1. Tail(p) = <<"create">>
      BY <2>1
    <3>2. QED
      BY <1>1, <1>2, <3>1
  <2> HIDE DEF h, s, r
  <2>4. s = r + (IF h = "fill" THEN 2 ELSE 1) /\ r \in 0 .. 3 /\ s \in 1 .. 4
    BY <2>1, <2>2, <2>3
  <2>5. QED
    BY <2>4 DEF Result
<1>7. ASSUME p = <<"delete", "create", "fill">> PROVE Result
  <2>1. Tail(p) = <<"create", "fill">> /\ h = "delete" /\ Len(p) = 3 /\ p[3] = "fill"
    BY <1>7
  <2>2. s = 4
    BY <2>1 DEF Stages
  <2>3. r = 3
    <3>1. Tail(p) = <<"create", "fill">>
      BY <2>1
    <3>2. QED
      BY <1>1, <1>2, <3>1
  <2> HIDE DEF h, s, r
  <2>4. s = r + (IF h = "fill" THEN 2 ELSE 1) /\ r \in 0 .. 3 /\ s \in 1 .. 4
    BY <2>1, <2>2, <2>3
  <2>5. QED
    BY <2>4 DEF Result
<1>8. ASSUME NEW kind \in AllKinds \ Creating, p = <<kind>> PROVE Result
  <2>1. kind # "fill"
    BY DEF AllKinds
  <2>2. Tail(p) = <<>> /\ h = kind /\ Len(p) = 1 /\ p[1] = kind
    BY <1>8
  <2>3. s = 1
    BY <2>1, <2>2 DEF Stages
  <2>4. r = 0
    <3>1. Tail(p) = <<>>
      BY <2>2
    <3>2. QED
      BY <1>1, <1>2, <3>1
  <2> HIDE DEF h, s, r
  <2>5. s = r + (IF h = "fill" THEN 2 ELSE 1) /\ r \in 0 .. 3 /\ s \in 1 .. 4
    BY <2>1, <2>2, <2>3, <2>4
  <2>6. QED
    BY <2>5 DEF Result
<1> HIDE DEF h, s, r
<1>9. Result
  <2>1. \/ p \in {<<"create">>, <<"create", "fill">>, <<"delete", "create">>,
                 <<"delete", "create", "fill">>, <<"fill">>}
        \/ p \in {<<kind>> : kind \in AllKinds \ Creating}
    BY DEF Plans
  <2> HIDE DEF Result
  <2>2. QED
    BY <1>3, <1>4, <1>5, <1>6, <1>7, <1>8, <2>1
<1>10. QED
  BY <1>9 DEF h, s, r

LEMMA StagesTimes ==
  ASSUME NEW a \in 0 .. 3, NEW m \in Nat
  PROVE  /\ a * m \in 0 .. 3 * m
         /\ (a + 1) * m = a * m + m /\ (a + 2) * m = a * m + m + m
<1>1. a = 0 \/ a = 1 \/ a = 2 \/ a = 3
  OBVIOUS
<1>2. QED
  BY <1>1

LEMMA LeftIs ==
  ASSUME NEW at, NEW p, NEW u, NEW t
  PROVE  /\ at = "idle" => Left(at, p, u, t) = 0
         /\ at \in {"ok", "failed"} => Left(at, p, u, t) = 1
         /\ at = "undo" => Left(at, p, u, t) = Len(u) + 2
         /\ at = "next" => Left(at, p, u, t) = Queued(p)
         /\ at \in Working => Left(at, p, u, t) = Queued(Tail(p)) + Ahead(at) + ToRender(at, t)
<1> DEFINE c == Queued(Tail(p)) + Ahead(at) + ToRender(at, t)
           q == Queued(p)
           g == Len(u) + 2
           l == Left(at, p, u, t)
<1>1. l = CASE at = "idle" -> 0
            [] at \in {"ok", "failed"} -> 1
            [] at = "undo" -> g
            [] at = "next" -> q
            [] at \in Working -> c
  BY DEF Left
<1> HIDE DEF c, q, g, l
<1>2. /\ at = "idle" => l = 0
      /\ at \in {"ok", "failed"} => l = 1
      /\ at = "undo" => l = g
      /\ at = "next" => l = q
      /\ at \in Working => l = c
  BY <1>1 DEF Working
<1>3. QED
  BY <1>2 DEF c, q, g, l

LEMMA QueuedIs ==
  ASSUME NEW p \in Plans, p # <<>>
  PROVE  /\ Queued(Tail(p)) \in 7 .. 3 * Most + 7
         /\ Head(p) = "fill" => Queued(p) = Queued(Tail(p)) + Most + Most
         /\ Head(p) # "fill" => Queued(p) = Queued(Tail(p)) + Most
<1> DEFINE a == Stages(Tail(p))
           h == Head(p)
           b == Queued(Tail(p))
           d == Queued(p)
           e == Stages(p)
<1>1. a \in 0 .. 3 /\ e = a + (IF h = "fill" THEN 2 ELSE 1)
  BY StagesAre
<1>2. d = e * Most + 7
  BY DEF Queued
<1>3. b = a * Most + 7
  BY DEF Queued
<1> HIDE DEF a, b, d, e, h
<1>4. a * Most \in 0 .. 3 * Most /\ (a + 1) * Most = a * Most + Most
      /\ (a + 2) * Most = a * Most + Most + Most
  BY <1>1, MostIs, StagesTimes
<1>5. b \in 7 .. 3 * Most + 7
  BY <1>3, <1>4, MostIs
<1>6. ASSUME h = "fill" PROVE d = b + Most + Most
  <2>1. e * Most = a * Most + Most + Most
    <3>1. e = a + 2
      BY <1>1, <1>6
    <3>2. QED
      BY <1>4, <3>1
  <2> DEFINE m == a * Most
             n == e * Most
  <2>2. m \in 0 .. 3 * Most /\ d = n + 7 /\ b = m + 7
    BY <1>2, <1>3, <1>4
  <2>3. n = m + Most + Most
    BY <2>1
  <2> HIDE DEF m, n
  <2>4. QED
    BY <2>2, <2>3, MostIs
<1>7. ASSUME h # "fill" PROVE d = b + Most
  <2>1. e * Most = a * Most + Most
    <3>1. e = a + 1
      BY <1>1, <1>7
    <3>2. QED
      BY <1>4, <3>1
  <2> DEFINE m == a * Most
             n == e * Most
  <2>2. m \in 0 .. 3 * Most /\ d = n + 7 /\ b = m + 7
    BY <1>2, <1>3, <1>4
  <2>3. n = m + Most
    BY <2>1
  <2> HIDE DEF m, n
  <2>4. QED
    BY <2>2, <2>3, MostIs
<1>8. b \in 7 .. 3 * Most + 7 /\ (h = "fill" => d = b + Most + Most) /\ (h # "fill" => d = b + Most)
  BY <1>5, <1>6, <1>7
<1>9. QED
  BY <1>8 DEF b, d, h

LEMMA WorkingLeft ==
  ASSUME NEW at \in Working, NEW p \in Plans, p # <<>>, NEW u, NEW t \in SUBSET Names
  PROVE  /\ Left(at, p, u, t) = Queued(Tail(p)) + Ahead(at) + ToRender(at, t)
         /\ Queued(Tail(p)) \in 7 .. 3 * Most + 7
         /\ ToRender(at, t) \in 0 .. Cardinality(Names)
         /\ at # "render" => ToRender(at, t) = 0
         /\ Ahead(at) \in 1 .. Most + 1
<1>1. Left(at, p, u, t) = Queued(Tail(p)) + Ahead(at) + ToRender(at, t)
  BY LeftIs
<1>2. ToRender(at, t) \in 0 .. Cardinality(Names) /\ (at # "render" => ToRender(at, t) = 0)
  BY TodoCount, MostIs DEF ToRender
<1>3. QED
  BY <1>1, <1>2, AheadBounds, QueuedIs

\* From one step of an operation to a later one, other than into the rendering.
LEMMA Onward ==
  ASSUME NEW a \in Working, NEW b \in Working, Ahead(b) < Ahead(a), b # "render",
         NEW p \in Plans, p # <<>>, NEW u, NEW v, NEW s \in SUBSET Names, NEW t \in SUBSET Names
  PROVE  Left(b, p, v, t) < Left(a, p, u, s)
<1>1. /\ Left(a, p, u, s) = Queued(Tail(p)) + Ahead(a) + ToRender(a, s)
      /\ Queued(Tail(p)) \in 7 .. 3 * Most + 7
      /\ ToRender(a, s) \in 0 .. Cardinality(Names) /\ Ahead(a) \in 1 .. Most + 1
  BY WorkingLeft
<1>2. /\ Left(b, p, v, t) = Queued(Tail(p)) + Ahead(b) + ToRender(b, t)
      /\ ToRender(b, t) = 0 /\ Ahead(b) \in 1 .. Most + 1
  BY WorkingLeft
<1>3. QED
  BY <1>1, <1>2, MostIs

\* Into the rendering, with its sites.
LEMMA IntoRendering ==
  ASSUME NEW p \in Plans, p # <<>>, NEW u, NEW v, NEW s \in SUBSET Names, NEW t \in SUBSET Names
  PROVE  Left("render", p, v, t) < Left("alloc", p, u, s)
<1>1. "alloc" \in Working /\ "render" \in Working
  BY DEF Working, ControlPoints
<1>2. /\ Left("alloc", p, u, s) = Queued(Tail(p)) + Ahead("alloc") + ToRender("alloc", s)
      /\ Queued(Tail(p)) \in 7 .. 3 * Most + 7 /\ ToRender("alloc", s) = 0
  BY <1>1, WorkingLeft
<1>3. /\ Left("render", p, v, t) = Queued(Tail(p)) + Ahead("render") + ToRender("render", t)
      /\ ToRender("render", t) \in 0 .. Cardinality(Names)
  BY <1>1, WorkingLeft
<1>4. Ahead("alloc") = Most - 7 /\ Ahead("render") = 6
  BY AheadIs
<1> DEFINE r == Queued(Tail(p))
           x == Left("render", p, v, t)
           y == Left("alloc", p, u, s)
           e == ToRender("render", t)
           k == Cardinality(Names)
<1>5. /\ r \in 7 .. 3 * Most + 7 /\ e \in 0 .. k /\ k \in Nat /\ Most = k + 14
      /\ y = r + (Most - 7) + 0 /\ x = r + 6 + e
  BY <1>2, <1>3, <1>4, MostIs
<1> HIDE DEF r, x, y, e, k
<1>6. x < y
  BY <1>5
<1>7. QED
  BY <1>6 DEF x, y

\* One site rendered.
LEMMA OneRendered ==
  ASSUME NEW p \in Plans, p # <<>>, NEW u, NEW v, NEW t \in SUBSET Names, NEW n \in t
  PROVE  Left("render", p, v, t \ {n}) < Left("render", p, u, t)
<1>1. "render" \in Working /\ t \ {n} \in SUBSET Names
  BY DEF Working, ControlPoints
<1>2. /\ Left("render", p, u, t) = Queued(Tail(p)) + Ahead("render") + ToRender("render", t)
      /\ Queued(Tail(p)) \in 7 .. 3 * Most + 7
      /\ ToRender("render", t) \in 0 .. Cardinality(Names)
  BY <1>1, WorkingLeft
<1>3. Left("render", p, v, t \ {n}) = Queued(Tail(p)) + Ahead("render") + ToRender("render", t \ {n})
  BY <1>1, WorkingLeft
<1>4. ToRender("render", t \ {n}) = ToRender("render", t) - 1
  BY TodoCount, FS_RemoveElement DEF ToRender
<1> DEFINE r == Queued(Tail(p))
           x == Left("render", p, v, t \ {n})
           y == Left("render", p, u, t)
           e == ToRender("render", t)
           k == Cardinality(Names)
<1>5. /\ r \in 7 .. 3 * Most + 7 /\ e \in 0 .. k /\ k \in Nat /\ Most = k + 14
      /\ y = r + 6 + e /\ x = r + 6 + (e - 1)
  BY <1>2, <1>3, <1>4, AheadIs, MostIs
<1> HIDE DEF r, x, y, e, k
<1>6. x < y
  BY <1>5
<1>7. QED
  BY <1>6 DEF x, y

\* Any step of an operation may be the last.
LEMMA GivenUp ==
  ASSUME NEW a \in Working, NEW p \in Plans, p # <<>>, NEW u, NEW s \in SUBSET Names,
         NEW q, NEW v, Len(v) \in Nat, Len(v) <= 4, NEW t
  PROVE  Left("undo", q, v, t) < Left(a, p, u, s)
<1>1. /\ Left(a, p, u, s) = Queued(Tail(p)) + Ahead(a) + ToRender(a, s)
      /\ Queued(Tail(p)) \in 7 .. 3 * Most + 7
      /\ ToRender(a, s) \in 0 .. Cardinality(Names) /\ Ahead(a) \in 1 .. Most + 1
  BY WorkingLeft
<1>2. Left("undo", q, v, t) = Len(v) + 2
  BY LeftIs
<1>3. QED
  BY <1>1, <1>2, MostIs

LEMMA OperationOver ==
  ASSUME NEW a \in Working, NEW p \in Plans, p # <<>>, NEW u, NEW v, NEW s \in SUBSET Names, NEW t
  PROVE  Left("next", Tail(p), v, t) < Left(a, p, u, s)
<1> DEFINE q == Tail(p)
<1>1. /\ Left(a, p, u, s) = Queued(q) + Ahead(a) + ToRender(a, s)
      /\ Queued(q) \in 7 .. 3 * Most + 7
      /\ ToRender(a, s) \in 0 .. Cardinality(Names) /\ Ahead(a) \in 1 .. Most + 1
  BY WorkingLeft
<1> HIDE DEF q
<1>2. Left("next", q, v, t) = Queued(q)
  BY LeftIs
<1>3. Left("next", q, v, t) < Left(a, p, u, s)
  BY <1>1, <1>2, MostIs
<1>4. QED
  BY <1>3 DEF q

LEMMA OperationStarts ==
  ASSUME NEW p \in Plans, p # <<>>, NEW u, NEW v, NEW s, NEW t \in SUBSET Names,
         NEW b \in Working, b # "render", b = "fill" => Head(p) = "fill"
  PROVE  Left(b, p, v, t) < Left("next", p, u, s)
<1> DEFINE r == Queued(Tail(p))
           h == Head(p)
<1>1. /\ Left(b, p, v, t) = r + Ahead(b) + ToRender(b, t)
      /\ r \in 7 .. 3 * Most + 7 /\ ToRender(b, t) = 0 /\ Ahead(b) \in 1 .. Most + 1
  BY WorkingLeft
<1>2. Left("next", p, u, s) = Queued(p)
  BY LeftIs
<1>3. (h = "fill" => Queued(p) = r + Most + Most) /\ (h # "fill" => Queued(p) = r + Most)
  BY QueuedIs
<1>4. (b # "fill" => Ahead(b) < Most) /\ (b = "fill" => h = "fill")
  BY AheadBounds
<1> HIDE DEF r, h
<1>5. QED
  BY <1>1, <1>2, <1>3, <1>4, MostIs

LEMMA ShortPlans == Queued(<<>>) = 7 /\ Queued(<<"delete">>) = Most + 7
<1>1. Stages(<<>>) = 0
  BY DEF Stages
<1>2. Stages(<<"delete">>) = 1
  <2>1. <<"delete">> # <<>>
    OBVIOUS
  <2>2. QED
    BY <2>1 DEF Stages
<1> DEFINE e == Stages(<<>>)
           d == Stages(<<"delete">>)
<1>3. Queued(<<>>) = e * Most + 7 /\ Queued(<<"delete">>) = d * Most + 7
  BY DEF Queued
<1>4. e = 0 /\ d = 1
  BY <1>1, <1>2
<1> HIDE DEF e, d
<1>5. e * Most + 7 = 7 /\ d * Most + 7 = Most + 7
  BY <1>4, MostIs
<1>6. QED
  BY <1>3, <1>5

\* Filling a new site gives up by way of a Delete, which is less work.
LEMMA FillingLeft ==
  ASSUME NEW p \in Plans, p # <<>>, NEW u, NEW v, NEW s \in SUBSET Names, NEW t,
         NEW d, d = <<"delete">>
  PROVE  Left("next", d, v, t) < Left("fill", p, u, s)
<1>1. "fill" \in Working
  BY DEF Working, ControlPoints
<1>2. /\ Left("fill", p, u, s) = Queued(Tail(p)) + Ahead("fill") + ToRender("fill", s)
      /\ Queued(Tail(p)) \in 7 .. 3 * Most + 7 /\ ToRender("fill", s) = 0
  BY <1>1, WorkingLeft
<1>3. Queued(d) = Most + 7
  BY ShortPlans
<1>4. Left("next", d, v, t) = Queued(d)
  BY LeftIs
<1>5. Ahead("fill") = Most + 1
  BY AheadIs
<1> DEFINE r == Queued(Tail(p))
           x == Left("next", d, v, t)
           y == Left("fill", p, u, s)
<1>6. r \in 7 .. 3 * Most + 7 /\ Most \in Nat /\ y = r + (Most + 1) + 0 /\ x = Most + 7
  BY <1>2, <1>3, <1>4, <1>5, MostIs
<1> HIDE DEF r, x, y
<1>7. x < y
  BY <1>6
<1>8. QED
  BY <1>7 DEF x, y

LEMMA StepsBound ==
  ASSUME TypeOK, PlanInv
  PROVE  StepsLeft \in 0 .. 4 * Most + 7 /\ (pc # "idle" => StepsLeft > 0)
<1>1. /\ pc \in ControlPoints /\ plan \in Plans /\ todo \in SUBSET Names
      /\ Len(undo) \in Nat /\ Len(undo) <= 4
  <2>1. pc \in ControlPoints /\ plan \in Plans /\ todo \in SUBSET Names
    BY DEF TypeOK, PlanInv
  <2>2. Len(undo) \in Nat /\ Len(undo) <= 4
    BY DEF TypeOK
  <2>3. QED
    BY <2>1, <2>2
<1>2. CASE pc \in Working
  <2> DEFINE r == Queued(Tail(plan))
             c == ToRender(pc, todo)
             h == Ahead(pc)
  <2>1. plan # <<>>
    BY <1>2 DEF PlanInv, Working, ControlPoints, Reconciling, op, Changing
  <2>2. /\ StepsLeft = r + h + c /\ r \in 7 .. 3 * Most + 7
        /\ c \in 0 .. Cardinality(Names) /\ h \in 1 .. Most + 1
        /\ pc # "render" => c = 0
    BY <1>1, <1>2, <2>1, WorkingLeft DEF StepsLeft
  <2>3. (pc = "render" => h = 6) /\ (pc # "fill" => h < Most) /\ (pc = "fill" => h = Most + 1)
    BY <1>2, AheadIs, AheadBounds
  <2>4. ASSUME pc = "fill" PROVE r = 7
    <3>1. Head(plan) = "fill"
      BY <1>1, <2>1, <2>4 DEF PlanInv, op
    <3>2. Tail(plan) = <<>>
      BY <1>1, <2>1, <3>1, PlanFacts
    <3>3. QED
      BY <3>2, ShortPlans
  <2> HIDE DEF r, c, h
  <2>5. QED
    BY <1>2, <2>2, <2>3, <2>4, MostIs
<1>3. CASE pc = "next" /\ plan # <<>>
  <2> DEFINE q == Queued(plan)
             r == Queued(Tail(plan))
             h == Head(plan)
  <2>1. StepsLeft = q
    BY <1>3, LeftIs DEF StepsLeft
  <2>2. /\ r \in 7 .. 3 * Most + 7 /\ (h = "fill" => q = r + Most + Most)
        /\ (h # "fill" => q = r + Most)
    BY <1>1, <1>3, QueuedIs
  <2>3. ASSUME h = "fill" PROVE r = 7
    <3>1. Tail(plan) = <<>>
      BY <1>1, <1>3, <2>3, PlanFacts
    <3>2. QED
      BY <3>1, ShortPlans
  <2> HIDE DEF q, r, h
  <2>4. QED
    BY <2>1, <2>2, <2>3, MostIs
<1>4. CASE pc = "next" /\ plan = <<>>
  <2>1. StepsLeft = 7
    BY <1>4, ShortPlans, LeftIs DEF StepsLeft
  <2>2. QED
    BY <2>1, MostIs
<1>5. CASE pc = "undo"
  <2>1. StepsLeft = Len(undo) + 2
    BY <1>5, LeftIs DEF StepsLeft
  <2>2. QED
    BY <1>1, <2>1, MostIs
<1>6. CASE pc \in {"idle", "ok", "failed"}
  <2>1. (StepsLeft = 0 /\ pc = "idle") \/ StepsLeft = 1
    BY <1>6, LeftIs DEF StepsLeft
  <2>2. QED
    BY <2>1, MostIs
<1>7. QED
  BY <1>1, <1>2, <1>3, <1>4, <1>5, <1>6 DEF Working

\* Where the rest of an operation leads.
LEMMA StepsShrink ==
  ASSUME IInv, [Next]_vars, Step \/ Crash
  PROVE  StepsLeft' < StepsLeft
<1>1. TypeOK /\ PlanInv /\ TypeOK' /\ PlanInv'
  BY TypeStep, PlanStep DEF IInv
<1>2. /\ pc \in ControlPoints /\ plan \in Plans /\ todo \in SUBSET Names /\ todo' \in SUBSET Names
      /\ Len(undo) \in Nat /\ Len(undo) <= 4 /\ Len(undo') \in Nat /\ Len(undo') <= 4
  <2>1. pc \in ControlPoints /\ plan \in Plans /\ todo \in SUBSET Names /\ todo' \in SUBSET Names
    BY <1>1 DEF TypeOK, PlanInv
  <2>2. Len(undo) \in Nat /\ Len(undo) <= 4
    BY <1>1 DEF TypeOK
  <2>3. Len(undo') \in Nat /\ Len(undo') <= 4
    BY <1>1 DEF TypeOK
  <2>4. QED
    BY <2>1, <2>2, <2>3
<1>3. pc \in Working => plan # <<>>
  BY <1>1 DEF PlanInv, Working, ControlPoints, Reconciling, op, Changing
<1>4. StepsLeft = Left(pc, plan, undo, todo) /\ StepsLeft' = Left(pc', plan', undo', todo')
  BY DEF StepsLeft, Left, Queued, ToRender, Stages, Ahead, Working
<1>5. ASSUME pc \in Working, pc' \in Working, plan' = plan, Ahead(pc') < Ahead(pc), pc' # "render"
      PROVE  StepsLeft' < StepsLeft
  BY <1>2, <1>3, <1>4, <1>5, Onward
<1>6. ASSUME pc \in Working, pc' = "undo" PROVE StepsLeft' < StepsLeft
  BY <1>2, <1>3, <1>4, <1>6, GivenUp
<1>7. ASSUME pc \in Working, pc' = "next", plan' = Tail(plan) PROVE StepsLeft' < StepsLeft
  BY <1>2, <1>3, <1>4, <1>7, OperationOver
<1>8. CASE ReconcileNothing
  <2>1. pc = "alloc" /\ pc' = "logrotate" /\ plan' = plan
    BY <1>8 DEF ReconcileNothing, Goto, host
  <2>2. pc \in Working /\ pc' \in Working /\ Ahead(pc') < Ahead(pc) /\ pc' # "render"
    BY <2>1, AheadIs, MostIs DEF Working, ControlPoints
  <2>3. QED
    BY <1>5, <2>1, <2>2
<1>9. CASE SaveHttpd
  <2>1. pc = "render" /\ pc' = "logrotate" /\ plan' = plan
    BY <1>9 DEF SaveHttpd, Goto, host
  <2>2. pc \in Working /\ pc' \in Working /\ Ahead(pc') < Ahead(pc) /\ pc' # "render"
    BY <2>1, AheadIs, MostIs DEF Working, ControlPoints
  <2>3. QED
    BY <1>5, <2>1, <2>2
<1>10. CASE Logrotate
  <2>1. pc = "logrotate" /\ pc' \in {"userdel", "done", "save", "reload"} /\ plan' = plan
    BY <1>10 DEF Logrotate, ReconcileDone, AfterReconcile, host
  <2>2. pc \in Working /\ pc' \in Working /\ Ahead(pc') < Ahead(pc) /\ pc' # "render"
    BY <2>1, AheadIs, MostIs DEF Working, ControlPoints
  <2>3. QED
    BY <1>5, <2>1, <2>2
<1>11. CASE Reload
  <2>1. pc = "reload" /\ pc' \in {"userdel", "done", "save"} /\ plan' = plan
    BY <1>11 DEF Reload, ReconcileDone, AfterReconcile, host
  <2>2. pc \in Working /\ pc' \in Working /\ Ahead(pc') < Ahead(pc) /\ pc' # "render"
    BY <2>1, AheadIs, MostIs DEF Working, ControlPoints
  <2>3. QED
    BY <1>5, <2>1, <2>2
<1>12. CASE AddSite
  <2>1. pc = "add" /\ pc' = "mkdir" /\ plan' = plan
    BY <1>12 DEF AddSite, Goto, host
  <2>2. pc \in Working /\ pc' \in Working /\ Ahead(pc') < Ahead(pc) /\ pc' # "render"
    BY <2>1, AheadIs, MostIs DEF Working, ControlPoints
  <2>3. QED
    BY <1>5, <2>1, <2>2
<1>13. CASE MakeRoot
  <2>1. pc = "mkdir" /\ pc' \in {"useradd", "index"} /\ plan' = plan
    BY <1>13 DEF MakeRoot, host
  <2>2. pc \in Working /\ pc' \in Working /\ Ahead(pc') < Ahead(pc) /\ pc' # "render"
    BY <2>1, AheadIs, MostIs DEF Working, ControlPoints
  <2>3. QED
    BY <1>5, <2>1, <2>2
<1>14. CASE WriteIndex
  <2>1. pc = "index" /\ pc' = "alloc" /\ plan' = plan
    BY <1>14 DEF WriteIndex, Goto, host
  <2>2. pc \in Working /\ pc' \in Working /\ Ahead(pc') < Ahead(pc) /\ pc' # "render"
    BY <2>1, AheadIs, MostIs DEF Working, ControlPoints
  <2>3. QED
    BY <1>5, <2>1, <2>2
<1>15. CASE AddUser
  <2>1. pc = "useradd" /\ pc' = "chown" /\ plan' = plan
    BY <1>15 DEF AddUser, Goto, host
  <2>2. pc \in Working /\ pc' \in Working /\ Ahead(pc') < Ahead(pc) /\ pc' # "render"
    BY <2>1, AheadIs, MostIs DEF Working, ControlPoints
  <2>3. QED
    BY <1>5, <2>1, <2>2
<1>16. CASE Chown
  <2>1. pc = "chown" /\ pc' = "usermod" /\ plan' = plan
    BY <1>16 DEF Chown, Goto, host
  <2>2. pc \in Working /\ pc' \in Working /\ Ahead(pc') < Ahead(pc) /\ pc' # "render"
    BY <2>1, AheadIs, MostIs DEF Working, ControlPoints
  <2>3. QED
    BY <1>5, <2>1, <2>2
<1>17. CASE JoinRedisGroup
  <2>1. pc = "usermod" /\ pc' \in {"restrained", "index"} /\ plan' = plan
    BY <1>17 DEF JoinRedisGroup, host
  <2>2. pc \in Working /\ pc' \in Working /\ Ahead(pc') < Ahead(pc) /\ pc' # "render"
    BY <2>1, AheadIs, MostIs DEF Working, ControlPoints
  <2>3. QED
    BY <1>5, <2>1, <2>2
<1>18. CASE InstallWordPress
  <2>1. pc = "fill" /\ pc' = "alloc" /\ plan' = plan
    BY <1>18 DEF InstallWordPress, Fill, Goto, host
  <2>2. pc \in Working /\ pc' \in Working /\ Ahead(pc') < Ahead(pc) /\ pc' # "render"
    BY <2>1, AheadIs, MostIs DEF Working, ControlPoints
  <2>3. QED
    BY <1>5, <2>1, <2>2
<1>19. CASE Clone
  <2>1. pc = "fill" /\ pc' = "done" /\ plan' = plan
    BY <1>19 DEF Clone, Fill, Goto, host
  <2>2. pc \in Working /\ pc' \in Working /\ Ahead(pc') < Ahead(pc) /\ pc' # "render"
    BY <2>1, AheadIs, MostIs DEF Working, ControlPoints
  <2>3. QED
    BY <1>5, <2>1, <2>2
<1>20. CASE Restore
  <2>1. pc = "fill" /\ pc' = "done" /\ plan' = plan
    BY <1>20 DEF Restore, Fill, Goto, host
  <2>2. pc \in Working /\ pc' \in Working /\ Ahead(pc') < Ahead(pc) /\ pc' # "render"
    BY <2>1, AheadIs, MostIs DEF Working, ControlPoints
  <2>3. QED
    BY <1>5, <2>1, <2>2
<1>21. CASE RemoveSite
  <2>1. pc = "remove" /\ pc' = "unregister" /\ plan' = plan
    BY <1>21 DEF RemoveSite, Goto, host
  <2>2. pc \in Working /\ pc' \in Working /\ Ahead(pc') < Ahead(pc) /\ pc' # "render"
    BY <2>1, AheadIs, MostIs DEF Working, ControlPoints
  <2>3. QED
    BY <1>5, <2>1, <2>2
<1>22. CASE Unregister
  <2>1. pc = "unregister" /\ pc' \in {"unmap", "alloc"} /\ plan' = plan
    BY <1>22 DEF Unregister, host
  <2>2. pc \in Working /\ pc' \in Working /\ Ahead(pc') < Ahead(pc) /\ pc' # "render"
    BY <2>1, AheadIs, MostIs DEF Working, ControlPoints
  <2>3. QED
    BY <1>5, <2>1, <2>2
<1>23. CASE Unmap
  <2>1. pc = "unmap" /\ pc' = "alloc" /\ plan' = plan
    BY <1>23 DEF Unmap, Goto, host
  <2>2. pc \in Working /\ pc' \in Working /\ Ahead(pc') < Ahead(pc) /\ pc' # "render"
    BY <2>1, AheadIs, MostIs DEF Working, ControlPoints
  <2>3. QED
    BY <1>5, <2>1, <2>2
<1>24. CASE RemoveUser
  <2>1. pc = "userdel" /\ pc' = "rmroot" /\ plan' = plan
    BY <1>24 DEF RemoveUser, Goto, host
  <2>2. pc \in Working /\ pc' \in Working /\ Ahead(pc') < Ahead(pc) /\ pc' # "render"
    BY <2>1, AheadIs, MostIs DEF Working, ControlPoints
  <2>3. QED
    BY <1>5, <2>1, <2>2
<1>25. CASE RemoveRoot
  <2>1. pc = "rmroot" /\ pc' = "save" /\ plan' = plan
    BY <1>25 DEF RemoveRoot, Goto, host
  <2>2. pc \in Working /\ pc' \in Working /\ Ahead(pc') < Ahead(pc) /\ pc' # "render"
    BY <2>1, AheadIs, MostIs DEF Working, ControlPoints
  <2>3. QED
    BY <1>5, <2>1, <2>2
<1>26. CASE SetUser
  <2>1. pc = "set-user" /\ pc' = "useradd" /\ plan' = plan
    BY <1>26 DEF SetUser, Goto, host
  <2>2. pc \in Working /\ pc' \in Working /\ Ahead(pc') < Ahead(pc) /\ pc' # "render"
    BY <2>1, AheadIs, MostIs DEF Working, ControlPoints
  <2>3. QED
    BY <1>5, <2>1, <2>2
<1>27. CASE Certbot
  <2>1. pc = "certbot" /\ pc' = "force-ssl" /\ plan' = plan
    BY <1>27 DEF Certbot, Goto, host
  <2>2. pc \in Working /\ pc' \in Working /\ Ahead(pc') < Ahead(pc) /\ pc' # "render"
    BY <2>1, AheadIs, MostIs DEF Working, ControlPoints
  <2>3. QED
    BY <1>5, <2>1, <2>2
<1>28. CASE SetMaintenance
  <2>1. pc = "set-maint" /\ pc' = "alloc" /\ plan' = plan
    BY <1>28 DEF SetMaintenance, Goto, host
  <2>2. pc \in Working /\ pc' \in Working /\ Ahead(pc') < Ahead(pc) /\ pc' # "render"
    BY <2>1, AheadIs, MostIs DEF Working, ControlPoints
  <2>3. QED
    BY <1>5, <2>1, <2>2
<1>28a. CASE SetSetup
  <2>1. pc = "set-setup" /\ pc' = "alloc" /\ plan' = plan
    BY <1>28a DEF SetSetup, Goto, host
  <2>2. pc \in Working /\ pc' \in Working /\ Ahead(pc') < Ahead(pc) /\ pc' # "render"
    BY <2>1, AheadIs, MostIs DEF Working, ControlPoints
  <2>3. QED
    BY <1>5, <2>1, <2>2
<1>29. CASE SetRestrained
  <2>1. pc = "restrained" /\ pc' \in {"alloc", "undo"} /\ plan' = plan
    BY <1>29 DEF SetRestrained
  <2>2. pc \in Working /\ (pc' = "alloc" => pc' \in Working /\ Ahead(pc') < Ahead(pc))
    BY <2>1, AheadIs, MostIs DEF Working, ControlPoints
  <2>3. QED
    BY <1>5, <1>6, <2>1, <2>2
<1>30. CASE ForceSSL
  <2>1. pc = "force-ssl" /\ pc' \in {"alloc", "undo"} /\ plan' = plan
    BY <1>30 DEF ForceSSL
  <2>2. pc \in Working /\ (pc' = "alloc" => pc' \in Working /\ Ahead(pc') < Ahead(pc))
    BY <2>1, AheadIs, MostIs DEF Working, ControlPoints
  <2>3. QED
    BY <1>5, <1>6, <2>1, <2>2
<1>31. CASE ReconcileFails
  <2>1. pc \in Working /\ pc' = "undo"
    BY <1>31 DEF ReconcileFails, Goto, Working, ControlPoints
  <2>2. QED
    BY <1>6, <2>1
<1>32. CASE WriteIndexFails
  <2>1. pc \in Working /\ pc' = "undo"
    BY <1>32 DEF WriteIndexFails, StepFails, Goto, Working, ControlPoints
  <2>2. QED
    BY <1>6, <2>1
<1>33. CASE AddUserFails
  <2>1. pc \in Working /\ pc' = "undo"
    BY <1>33 DEF AddUserFails, StepFails, Goto, Working, ControlPoints
  <2>2. QED
    BY <1>6, <2>1
<1>34. ASSUME NEW at \in Fallible, StepFails(at) PROVE StepsLeft' < StepsLeft
  <2>1. pc \in Working /\ pc' = "undo"
    BY <1>34 DEF StepFails, Goto, Fallible, Working, ControlPoints
  <2>2. QED
    BY <1>6, <2>1
<1>35. CASE ReconcileOnly
  <2>1. pc \in Working /\ pc' = "next" /\ plan' = Tail(plan)
    BY <1>35 DEF ReconcileOnly, OperationDone, Working, ControlPoints
  <2>2. QED
    BY <1>7, <2>1
<1>36. CASE Save
  <2>1. pc \in Working /\ pc' = "next" /\ plan' = Tail(plan)
    BY <1>36 DEF Save, OperationDone, Working, ControlPoints
  <2>2. QED
    BY <1>7, <2>1
<1>37. CASE Allocate
  <2>1. pc = "alloc" /\ pc' \in {"render", "undo"} /\ plan' = plan /\ pc \in Working
    BY <1>37 DEF Allocate, Working, ControlPoints
  <2>2. CASE pc' = "undo"
    BY <1>6, <2>1, <2>2
  <2>3. CASE pc' = "render"
    BY <1>2, <1>3, <1>4, <2>1, <2>3, IntoRendering
  <2>4. QED
    BY <2>1, <2>2, <2>3
<1>38. ASSUME NEW n \in Names, RenderSite(n) PROVE StepsLeft' < StepsLeft
  <2>1. /\ pc = "render" /\ pc' = "render" /\ plan' = plan /\ undo' = undo
        /\ n \in todo /\ todo' = todo \ {n} /\ pc \in Working
    BY <1>38 DEF RenderSite, Working, ControlPoints
  <2>2. QED
    BY <1>2, <1>3, <1>4, <2>1, OneRendered
<1>39. CASE NextOperation
  <2>1. pc = "next" /\ plan # <<>> /\ plan' = plan /\ pc' = FirstStep(Head(plan))
    BY <1>39 DEF NextOperation
  <2>2. Head(plan) \in AllKinds \cup {"fill"} /\ Head(plan) \notin {"force-create", "clone", "restore"}
    BY <1>2, <2>1, PlanFacts
  <2>3. pc' \in Working /\ pc' # "render" /\ (pc' = "fill" => Head(plan) = "fill")
    <3> DEFINE h == Head(plan)
    <3> HIDE DEF h
    <3>1. pc' = FirstStep(h) /\ h \in AllKinds \cup {"fill"} /\ h \notin {"force-create", "clone", "restore"}
      BY <2>1, <2>2 DEF h
    <3>2. pc' \in Working /\ pc' # "render" /\ (pc' = "fill" => h = "fill")
      BY <3>1 DEF FirstStep, AllKinds, Working, ControlPoints
    <3>3. QED
      BY <3>2 DEF h
  <2>4. QED
    BY <1>2, <1>4, <2>1, <2>3, OperationStarts
<1>40. CASE CommandDone
  <2>1. pc = "next" /\ plan = <<>> /\ pc' \in {"ok", "failed"}
    BY <1>40 DEF CommandDone
  <2>2. StepsLeft = 7 /\ StepsLeft' = 1
    BY <1>4, <2>1, ShortPlans, LeftIs
  <2>3. QED
    BY <2>2
<1>41. CASE FillFails
  <2>1. pc = "fill" /\ pc' = "next" /\ plan' = <<"delete">> /\ pc \in Working
    BY <1>41 DEF FillFails, Goto, Working, ControlPoints
  <2>2. QED
    BY <1>2, <1>3, <1>4, <2>1, FillingLeft
<1>42. CASE Undo
  <2>1. pc = "undo" /\ pc' = "undo" /\ undo # <<>> /\ undo' = SubSeq(undo, 1, Len(undo) - 1)
    BY <1>42 DEF Undo
  <2>2. Len(undo') = Len(undo) - 1
    <3>1. undo \in Seq(Undoable)
      BY <1>1 DEF TypeOK, Undoable
    <3>2. QED
      BY <2>1, <3>1, Popped
  <2>3. StepsLeft = Len(undo) + 2 /\ StepsLeft' = Len(undo') + 2
    BY <1>4, <2>1, LeftIs
  <2>4. QED
    BY <1>2, <2>2, <2>3
<1>43. CASE UndoDone
  <2>1. pc = "undo" /\ pc' = "failed"
    BY <1>43 DEF UndoDone, Goto
  <2>2. StepsLeft = Len(undo) + 2 /\ StepsLeft' = 1
    BY <1>4, <2>1, LeftIs
  <2>3. QED
    BY <1>2, <2>2
<1>44. CASE End
  <2>1. pc \in {"ok", "failed"} /\ pc' = "idle"
    BY <1>44 DEF End, Exit
  <2>2. StepsLeft = 1 /\ StepsLeft' = 0
    BY <1>4, <2>1, LeftIs
  <2>3. QED
    BY <2>2
<1>45. CASE Crash
  <2>1. pc # "idle" /\ pc' = "idle"
    BY <1>45 DEF Crash, Exit
  <2>2. StepsLeft > 0 /\ StepsLeft \in Nat
    BY <1>1, <2>1, StepsBound
  <2>3. StepsLeft' = 0
    BY <1>4, <2>1, LeftIs
  <2>4. QED
    BY <2>2, <2>3
<1>46. QED
    BY <1>8, <1>9, <1>10, <1>11, <1>12, <1>13, <1>14, <1>15, <1>16, <1>17, <1>18, <1>19,
     <1>20, <1>21, <1>22, <1>23, <1>24, <1>25, <1>26, <1>27, <1>28, <1>28a, <1>29, <1>30, <1>31,
     <1>32, <1>33, <1>34, <1>35, <1>36, <1>37, <1>38, <1>39, <1>40, <1>41, <1>42, <1>43,
     <1>44, <1>45
     DEF Step, Reconcile, Create, Delete

\* Whatever fails and wherever, a command takes so many steps at most: each step, of a
\* rollback or of the Delete after a failed WPInstall too, leaves fewer of them. Nothing an
\* operation does leads back to where it or an earlier one was, so that the state lock
\* is given back as long as the programs gow waits for end.
THEOREM CommandsRunOut ==
  Spec => /\ [](StepsLeft \in 0 .. 4 * Most + 7 /\ (pc # "idle" => StepsLeft > 0))
          /\ [][Step \/ Crash => StepsLeft' < StepsLeft]_vars
<1>1. IInv => StepsLeft \in 0 .. 4 * Most + 7 /\ (pc # "idle" => StepsLeft > 0)
  BY StepsBound DEF IInv
<1>2. IInv /\ [Next]_vars => [Step \/ Crash => StepsLeft' < StepsLeft]_vars
  BY StepsShrink
<1>3. QED
  BY Always, <1>1, <1>2, PTL DEF Spec

=============================================================================
