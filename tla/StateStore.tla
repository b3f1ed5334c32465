----------------------------- MODULE StateStore -----------------------------
(***************************************************************************)
(* The site registry: a JSON file guarded by an flock on a sidecar file    *)
(* (internal/state).  Every gow command is a process that opens the store, *)
(* edits its in-memory copy, saves it zero or more times and closes.  The  *)
(* processes interleave freely and may be killed at any step; the kernel   *)
(* drops a dead process's flock.                                           *)
(*                                                                         *)
(* os.WriteFile truncates the registry before it writes it, so a Save is   *)
(* two steps and the file is empty in between.                             *)
(***************************************************************************)
EXTENDS Integers, Sequences

CONSTANTS
    Procs,        \* gow invocations that may run at the same time
    NoProc,       \* value of holder when nobody has the flock
    Names,        \* domain names
    Data,         \* the fields of a Site this module does not look at
    Edits,        \* site records that commands write
    InitialRegs,  \* registries the file may hold at the start
    Patient,      \* processes whose lock timeout is not zero
    MaxEdits,     \* bound on the edits one open store makes
    SaveLeaves    \* what a Save cut short by a kill or a write error may leave

Types == {"", "html", "php", "wp"}          \* "" is a record older than the field
CacheModes == {"", "lscache", "none"}
Site == [name : Names, type : Types, cache : CacheModes, data : Data]

ASSUME ProcsAssumption == NoProc \notin Procs /\ Patient \subseteq Procs
ASSUME EditsAssumption == Edits \subseteq Site
ASSUME BoundAssumption == MaxEdits \in Nat /\ SaveLeaves \subseteq {"empty", "torn"}

NamesDistinct(s) == \A i, j \in DOMAIN s : s[i].name = s[j].name => i = j
Registry == {s \in Seq(Site) : NamesDistinct(s)}

ASSUME InitialAssumption == InitialRegs \subseteq Registry

\* What the registry file holds: absent, zero bytes, a prefix of a JSON
\* document, or a whole document.
File == [kind : {"missing", "empty", "torn", "whole"}, sites : Registry]
NoContent(k) == [kind |-> k, sites |-> <<>>]
Whole(s) == [kind |-> "whole", sites |-> s]

VARIABLES
    pc,       \* where each process is in acquireFileLock / Open / Save / Close
    late,     \* late[p]: p's lock deadline is over (or its timeout is zero)
    holder,   \* the process whose flock the kernel granted
    file,     \* the registry file
    mem,      \* mem[p]: Store.sites of process p
    edits,    \* edits[p]: number of edits made since Open (bound only)
    last,     \* history: the registry most recently written to its last byte
    base      \* history: base[p] is the registry p loaded, or saved since

vars == <<pc, late, holder, file, mem, edits, last, base>>

Waiting == {"flock", "busy"}
Holding == {"read", "fresh", "creating", "open", "writing"}
Locations == {"idle"} \cup Waiting \cup Holding

-----------------------------------------------------------------------------
(* The record migration Open applies: wp sites saved before CacheMode      *)
(* existed get "lscache".                                                  *)

siteIsWP(s) == s.type \in {"", "wp"}

Migrate(s) == IF s.cache = "" /\ siteIsWP(s) THEN [s EXCEPT !.cache = "lscache"] ELSE s

MigrateAll(reg) == [i \in DOMAIN reg |-> Migrate(reg[i])]

Has(reg, n) == \E i \in DOMAIN reg : reg[i].name = n

\* Mutant: append(sites[:i]) for append(sites[:i], sites[i+1:]...).
WithoutTail(reg, i) == SubSeq(reg, 1, i - 1)

Without(reg, i) == [k \in 1 .. Len(reg) - 1 |-> IF k < i THEN reg[k] ELSE reg[k + 1]]

-----------------------------------------------------------------------------
Init ==
    /\ pc = [p \in Procs |-> "idle"]
    /\ late = [p \in Procs |-> FALSE]
    /\ holder = NoProc
    /\ mem = [p \in Procs |-> <<>>]
    /\ edits = [p \in Procs |-> 0]
    /\ base = [p \in Procs |-> <<>>]
    /\ \/ file \in {NoContent("missing"), NoContent("empty")} /\ last = <<>>
       \/ \E reg \in InitialRegs : file = Whole(reg) /\ last = reg

Goto(p, from, to) == pc[p] = from /\ pc' = [pc EXCEPT ![p] = to]

\* Everything a process takes with it when it ends: its flock and its memory.
Exit(p) ==
    /\ holder' = IF holder = p THEN NoProc ELSE holder
    /\ mem' = [mem EXCEPT ![p] = <<>>]
    /\ base' = [base EXCEPT ![p] = <<>>]
    /\ edits' = [edits EXCEPT ![p] = 0]

-----------------------------------------------------------------------------
(* acquireFileLock.                                                        *)

StartLock(p) ==
    /\ Goto(p, "idle", "flock")
    /\ late' = [late EXCEPT ![p] = p \notin Patient]
    /\ UNCHANGED <<holder, file, mem, edits, last, base>>

\* Mutant: a lock that is granted whoever holds it (LOCK_SH for LOCK_EX).
FlockShared(p) ==
    /\ Goto(p, "flock", "read")
    /\ holder' = p
    /\ UNCHANGED <<late, file, mem, edits, last, base>>

FlockGranted(p) ==
    /\ Goto(p, "flock", "read")
    /\ holder = NoProc
    /\ holder' = p
    /\ UNCHANGED <<late, file, mem, edits, last, base>>

FlockBusy(p) ==
    /\ Goto(p, "flock", "busy")
    /\ holder # NoProc
    /\ UNCHANGED <<late, holder, file, mem, edits, last, base>>

\* flock fails with an error other than EWOULDBLOCK.
FlockError(p) ==
    /\ Goto(p, "flock", "idle")
    /\ UNCHANGED <<late, holder, file, mem, edits, last, base>>

GiveUp(p) ==
    /\ Goto(p, "busy", "idle")
    /\ late[p]
    /\ UNCHANGED <<late, holder, file, mem, edits, last, base>>

\* Mutant: the loop sleeps again without looking at the deadline.
SleepRegardless(p) ==
    /\ Goto(p, "busy", "flock")
    /\ UNCHANGED <<late, holder, file, mem, edits, last, base>>

SleepAndRetry(p) ==
    /\ Goto(p, "busy", "flock")
    /\ ~late[p]
    /\ UNCHANGED <<late, holder, file, mem, edits, last, base>>

\* The clock passes p's deadline.
DeadlinePasses(p) ==
    /\ pc[p] \in Waiting
    /\ ~late[p]
    /\ late' = [late EXCEPT ![p] = TRUE]
    /\ UNCHANGED <<pc, holder, file, mem, edits, last, base>>

-----------------------------------------------------------------------------
(* OpenWithTimeout once the lock is held.                                  *)

\* A missing and a zero-byte file both become an empty registry, saved at once.
ReadNothing(p) ==
    /\ Goto(p, "read", "fresh")
    /\ file.kind \in {"missing", "empty"}
    /\ mem' = [mem EXCEPT ![p] = <<>>]
    /\ base' = [base EXCEPT ![p] = <<>>]
    /\ UNCHANGED <<late, holder, file, edits, last>>

ReadRegistry(p) ==
    /\ Goto(p, "read", "open")
    /\ file.kind = "whole"
    /\ mem' = [mem EXCEPT ![p] = MigrateAll(file.sites)]
    /\ base' = [base EXCEPT ![p] = MigrateAll(file.sites)]
    /\ UNCHANGED <<late, holder, file, edits, last>>

\* Mutant: a registry that does not parse is taken for a new one.
ReadTornAsFresh(p) ==
    /\ Goto(p, "read", "fresh")
    /\ file.kind = "torn"
    /\ mem' = [mem EXCEPT ![p] = <<>>]
    /\ base' = [base EXCEPT ![p] = <<>>]
    /\ UNCHANGED <<late, holder, file, edits, last>>

\* A parse error: the deferred Close releases the lock, nothing is written.
ReadTorn(p) ==
    /\ Goto(p, "read", "idle")
    /\ file.kind = "torn"
    /\ Exit(p)
    /\ UNCHANGED <<late, file, last>>

ReadError(p) ==
    /\ Goto(p, "read", "idle")
    /\ Exit(p)
    /\ UNCHANGED <<late, file, last>>

-----------------------------------------------------------------------------
(* The in-memory edits.  Add of a known name, Remove and Update of an      *)
(* unknown one return an error and change nothing.                         *)

Edit(p, reg) ==
    /\ pc[p] = "open"
    /\ edits[p] < MaxEdits
    /\ mem' = [mem EXCEPT ![p] = reg]
    /\ edits' = [edits EXCEPT ![p] = @ + 1]
    /\ UNCHANGED <<pc, late, holder, file, last, base>>

\* Mutant: Add does not look for the name.
AddBlindly(p) ==
    \E s \in Edits : Edit(p, Append(mem[p], s))

Add(p) ==
    \E s \in Edits : ~Has(mem[p], s.name) /\ Edit(p, Append(mem[p], s))

Remove(p) ==
    \E i \in DOMAIN mem[p] : Edit(p, Without(mem[p], i))

\* No caller's fn changes the name.
Update(p) ==
    \E i \in DOMAIN mem[p], s \in Edits :
        s.name = mem[p][i].name /\ Edit(p, [mem[p] EXCEPT ![i] = s])

-----------------------------------------------------------------------------
(* Save = os.WriteFile: open with O_TRUNC, then write.                     *)

SaveTruncate(p) ==
    /\ \/ Goto(p, "fresh", "creating")
       \/ Goto(p, "open", "writing")
    /\ file' = NoContent("empty")
    /\ UNCHANGED <<late, holder, mem, edits, last, base>>

SaveWrite(p) ==
    /\ \/ Goto(p, "creating", "open")
       \/ Goto(p, "writing", "open")
    /\ file' = Whole(mem[p])
    /\ last' = mem[p]
    /\ base' = [base EXCEPT ![p] = mem[p]]
    /\ UNCHANGED <<late, holder, mem, edits>>

\* An interrupted write leaves nothing, or a prefix.
CutShort == file' \in {NoContent(k) : k \in SaveLeaves}

\* The write fails.  Open closes the store; a command gets the error back.
SaveError(p) ==
    /\ \/ Goto(p, "creating", "idle") /\ Exit(p)
       \/ Goto(p, "writing", "open") /\ UNCHANGED <<holder, mem, edits, base>>
    /\ CutShort
    /\ UNCHANGED <<late, last>>

\* Mutant: the command releases the lock while it still uses the store.
ReleaseEarly(p) ==
    /\ pc[p] = "open"
    /\ holder = p
    /\ holder' = NoProc
    /\ UNCHANGED <<pc, late, file, mem, edits, last, base>>

Close(p) ==
    /\ Goto(p, "open", "idle")
    /\ Exit(p)
    /\ UNCHANGED <<late, file, last>>

-----------------------------------------------------------------------------
(* The process is killed.  The kernel releases its flock.                  *)

Kill(p) ==
    /\ pc[p] \notin {"idle", "creating", "writing"}
    /\ pc' = [pc EXCEPT ![p] = "idle"]
    /\ Exit(p)
    /\ UNCHANGED <<late, file, last>>

KillInSave(p) ==
    /\ \/ Goto(p, "creating", "idle")
       \/ Goto(p, "writing", "idle")
    /\ Exit(p)
    /\ CutShort
    /\ UNCHANGED <<late, last>>

-----------------------------------------------------------------------------
Acquire(p) ==
    \/ FlockGranted(p) \/ FlockBusy(p) \/ FlockError(p)
    \/ GiveUp(p) \/ SleepAndRetry(p)

Load(p) == ReadNothing(p) \/ ReadRegistry(p) \/ ReadTorn(p) \/ ReadError(p)

Use(p) == Add(p) \/ Remove(p) \/ Update(p) \/ Close(p)

Save(p) == SaveTruncate(p) \/ SaveWrite(p) \/ SaveError(p)

Next ==
    \E p \in Procs :
        \/ StartLock(p) \/ Acquire(p) \/ DeadlinePasses(p)
        \/ Load(p) \/ Use(p) \/ Save(p)
        \/ Kill(p) \/ KillInSave(p)

Spec == Init /\ [][Next]_vars

\* A process that polls for the lock keeps running and wall-clock time passes.
\* Nothing is assumed of the holder: it may keep the lock forever.
FairSpec ==
    /\ Spec
    /\ \A p \in Procs : WF_vars(Acquire(p)) /\ WF_vars(DeadlinePasses(p))

-----------------------------------------------------------------------------
(* Properties.                                                             *)

\* Types; a registry, in memory or on disk, never lists a name twice.
TypeOK ==
    /\ pc \in [Procs -> Locations]
    /\ late \in [Procs -> BOOLEAN]
    /\ holder \in Procs \cup {NoProc}
    /\ file \in File
    /\ mem \in [Procs -> Registry]
    /\ edits \in [Procs -> 0 .. MaxEdits]
    /\ last \in Registry
    /\ base \in [Procs -> Registry]

\* Two gow processes are never both between a granted flock and its release:
\* no two commands load, edit or save the registry at the same time
\* (lock.go: "Held for the lifetime of a gow command").
MutualExclusion ==
    \A p, q \in Procs : pc[p] \in Holding /\ pc[q] \in Holding => p = q

\* Whoever has read the registry read the last one anybody saved, so what it
\* saves can only replace what it has seen: no command's update is lost, to a
\* concurrent command or to an interrupted one.
NoLostUpdate ==
    \A p \in Procs :
        pc[p] \in Holding \ {"read"} => MigrateAll(base[p]) = MigrateAll(last)

\* A registry that does not parse is left for the operator: no command that finds
\* it writes over it, whichever way commands fail and are retried (Open returns the
\* parse error before any Save). The command whose own Save was cut short still has
\* the sites in memory and may save again.
NeverOverwriteCorrupt ==
    [][file.kind = "torn" /\ (\A p \in Procs : pc[p] \notin {"open", "writing"})
         => file' = file]_vars

\* A command that asks for the lock gets it or reports that it is busy, even if
\* the holder never lets go and others keep taking the lock.
OpenTerminates ==
    \A p \in Procs : pc[p] \in Waiting ~> pc[p] \notin Waiting

\* Seen from outside, the flock, the file and the in-memory copies are one
\* registry with serial, atomic transactions.
AsSet(r) == {Migrate(r[i]) : i \in DOMAIN r}

OpenCopy ==
    IF holder # NoProc /\ pc[holder] \in {"open", "writing"}
    THEN [open |-> TRUE, sites |-> AsSet(mem[holder])]
    ELSE [open |-> FALSE, sites |-> {}]

Abstract == INSTANCE Registry WITH reg <- AsSet(last), work <- OpenCopy

ImplementsRegistry == Abstract!Spec

=============================================================================
