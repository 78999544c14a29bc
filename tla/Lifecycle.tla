------------------------------ MODULE Lifecycle ------------------------------
(***************************************************************************)
(* Daemons and control commands: who runs, who may touch the rules, and    *)
(* what `nfqttl start`, `stop`, `restart` and `configure` tell the user    *)
(* (src/ctl.rs, src/main.rs, run and the locks of src/daemon.rs).          *)
(*                                                                         *)
(* A daemon holds daemon.flock while it lives; its process id is in        *)
(* lock/pid.  A command holds control.flock.  The marker `paused` is on    *)
(* disk and survives a reboot.  What the supervisor does while it runs is  *)
(* one variable here: whether rules of ours are in the tables.             *)
(***************************************************************************)
EXTENDS Naturals, FiniteSets

CONSTANTS
    Procs,    \* process ids a daemon can get; a free one can be reused
    Nobody,
    Faults,   \* what goes wrong
    Budget    \* bound: commands, faults, boots by the root manager

FaultKinds == {"timeout", "cleanup", "blind", "boot", "error", "kill", "reboot"}

ASSUME LifecycleAssumption ==
    /\ Nobody \notin Procs
    /\ Faults \subseteq FaultKinds
    /\ Budget \in Nat

VARIABLES
    \* files and locks
    paused,   \* the marker file
    pidfile,  \* lock/pid; a file being written or left by the dead is no pid
    lock,     \* who holds daemon.flock
    conf,     \* the version of config.conf
    \* the daemons
    pc,       \* where each process is, "none" when it does not exist
    term,     \* the processes that received SIGTERM: STOP
    loaded,   \* the version of the configuration each daemon works with
    rules,    \* whether rules of ours are in the tables
    missed,   \* observation: stop's last cleanup was a success that saw nothing
    \* the command that holds control.flock
    op, cpc,
    target,   \* the daemon stop waits for
    said,     \* what the last command told the user
    budget

files == <<paused, pidfile, lock, conf>>
tables == <<rules, missed>>
daemons == <<pc, term, loaded, tables>>
command == <<op, cpc, target, said>>
vars == <<files, daemons, command, budget>>

Spend == budget > 0 /\ budget' = budget - 1
Free == UNCHANGED budget
Fault(kind) == kind \in Faults /\ Spend
\* A cleanup that reports success: the rules are gone, or it did not see them,
\* as no iptables was usable, ip6tables was missing, or -C failed and was taken
\* for the absence of a jump.
Cleaned == rules' = FALSE /\ Free
Blind == rules' \in {rules, FALSE} /\ Fault("blind")
To(p, next) == pc' = [pc EXCEPT ![p] = next]

\* owned_pid of the process lock/pid names.
Running == pidfile # Nobody /\ pc[pidfile] # "none"

-----------------------------------------------------------------------------
(* A daemon: run, acquire_lock, run_inner, release_lock                     *)

\* The process ends; the kernel gives its flock back.
Gone(p) ==
    /\ To(p, "none") /\ term' = term \ {p}
    /\ lock' = IF lock = p THEN Nobody ELSE lock
    /\ UNCHANGED <<paused, pidfile, conf, loaded, tables, command>>
\* Mutant: the second daemon releases what it never had.
DuplicateReleases(p) ==
    /\ pc[p] = "begin" /\ lock # Nobody
    /\ pidfile' = Nobody /\ To(p, "none") /\ term' = term \ {p}
    /\ UNCHANGED <<paused, lock, conf, loaded, tables, command, budget>>
\* Before run has installed its handler a SIGTERM kills; a second daemon sees
\* the lock held and exits without an error.
Struck(p) == pc[p] = "begin" /\ p \in term /\ Gone(p) /\ Free
Duplicate(p) == pc[p] = "begin" /\ lock # Nobody /\ Gone(p) /\ Free
\* Mutant: the lock is not exclusive.
AcquireShared(p) ==
    /\ pc[p] = "begin"
    /\ lock' = p /\ To(p, "locked")
    /\ UNCHANGED <<paused, pidfile, conf, term, loaded, tables, command, budget>>
AcquireLock(p) ==
    /\ pc[p] = "begin" /\ lock = Nobody
    /\ lock' = p /\ To(p, "locked")
    /\ UNCHANGED <<paused, pidfile, conf, term, loaded, tables, command, budget>>
WritePid(p) ==
    /\ pc[p] = "locked"
    /\ pidfile' = p /\ To(p, "check")
    /\ UNCHANGED <<paused, lock, conf, term, loaded, tables, command, budget>>
\* Mutant: the marker is left to the loop.
CheckNothing(p) ==
    /\ pc[p] = "check" /\ To(p, "boot")
    /\ UNCHANGED <<files, term, loaded, tables, command, budget>>
CheckPaused(p) ==
    /\ pc[p] = "check"
    /\ To(p, IF paused THEN "release" ELSE "boot")
    /\ UNCHANGED <<files, term, loaded, tables, command, budget>>
\* boot_wait looks at STOP only; then validate, the initial cleanup and load.
\* Without any iptables it fails.
Boot(p) ==
    /\ pc[p] = "boot"
    /\ \/ p \in term /\ To(p, "release") /\ UNCHANGED <<loaded, rules>> /\ Free
       \/ /\ p \notin term /\ To(p, "run") /\ (Cleaned \/ Blind)
          /\ loaded' = [loaded EXCEPT ![p] = conf]
       \/ /\ p \notin term /\ To(p, "release") /\ Fault("boot")
          /\ rules' \in {rules, FALSE} /\ UNCHANGED loaded
    /\ UNCHANGED <<files, term, missed, command>>
Install(p) ==
    /\ pc[p] = "run" /\ rules' = TRUE
    /\ UNCHANGED <<files, pc, term, loaded, missed, command, budget>>
Leave(p) ==
    /\ pc[p] = "run" /\ (p \in term \/ paused)
    /\ To(p, "leave")
    /\ UNCHANGED <<files, term, loaded, tables, command, budget>>
Cleanup(p) ==
    /\ pc[p] = "leave"
    /\ To(p, "release")
    /\ \/ Cleaned \/ Blind
       \/ rules' \in {rules, FALSE} /\ Fault("cleanup")
    /\ UNCHANGED <<files, term, loaded, missed, command>>
\* release_lock removes the pid; the flock goes with the process.
Release(p) ==
    /\ pc[p] = "release"
    /\ pidfile' = Nobody /\ To(p, "held")
    /\ UNCHANGED <<paused, lock, conf, term, loaded, tables, command, budget>>
Return(p) == pc[p] = "held" /\ Gone(p) /\ Free
Kill(p) == pc[p] # "none" /\ Gone(p) /\ Fault("kill")

-----------------------------------------------------------------------------
(* Commands, one at a time: control_lock                                    *)

CGoto(next) == cpc' = next /\ UNCHANGED <<op, target, said>>
Tell(what) == cpc' = "idle" /\ said' = what /\ UNCHANGED <<op, target>>

Fail == Tell("failed") /\ Fault("error")

\* toggle is start or stop; restart validates, stops and starts.
Begin ==
    /\ cpc = "idle" /\ Spend
    /\ \/ op' \in {"stop", "restart"} /\ cpc' = "pause"
       \/ op' = "start" /\ cpc' = "lookup"
       \/ op' = "configure" /\ cpc' = "running"
    /\ said' = "busy"
    /\ UNCHANGED <<files, daemons, target>>
\* configure stops a daemon that runs, and only then; it is decided once.
FindRunning ==
    /\ cpc = "running"
    /\ \/ Running /\ op' = "reconfigure" /\ cpc' = "pause"
       \/ ~Running /\ cpc' = "rename" /\ UNCHANGED op
    /\ UNCHANGED <<target, said, files, daemons, budget>>

\* stop
Pause ==
    /\ cpc = "pause"
    /\ \/ paused' = TRUE /\ CGoto("read") /\ Free
       \/ UNCHANGED paused /\ Fail
    /\ UNCHANGED <<pidfile, lock, conf, daemons>>
\* Mutant: the pid is not checked with owned_pid.
ReadAnyPid ==
    /\ cpc = "read"
    /\ cpc' = "wait" /\ target' = pidfile /\ term' = term \cup {pidfile}
    /\ UNCHANGED <<op, said, files, pc, loaded, tables, budget>>
\* Mutant: the signal is sent, the end is not awaited.
ReadAndGo ==
    /\ cpc = "read" /\ CGoto("cleanup")
    /\ term' = IF Running THEN term \cup {pidfile} ELSE term
    /\ UNCHANGED <<files, pc, loaded, tables, budget>>
ReadPid ==
    /\ cpc = "read"
    /\ \/ /\ Running /\ cpc' = "wait" /\ target' = pidfile
          /\ term' = term \cup {pidfile}
       \/ ~Running /\ cpc' = "cleanup" /\ UNCHANGED <<target, term>>
    /\ UNCHANGED <<op, said, files, pc, loaded, tables, budget>>
Wait ==
    /\ cpc = "wait"
    /\ \/ pc[target] = "none" /\ CGoto("cleanup") /\ Free
       \/ pc[target] # "none" /\ Tell("failed") /\ Fault("timeout")
    /\ UNCHANGED <<files, daemons>>
\* fw.cleanup unless Firewall::select finds no iptables, stop_orphans, the SQM
\* and offload journals.
StopCleanup ==
    /\ cpc = "cleanup"
    /\ \/ /\ (Cleaned /\ missed' = FALSE) \/ (Blind /\ missed' = TRUE)
          /\ \/ op = "stop" /\ Tell("stopped")
             \/ op = "restart" /\ CGoto("lookup")
             \/ op = "reconfigure" /\ CGoto("rename")
       \/ rules' \in {rules, FALSE} /\ Tell("failed") /\ Fault("cleanup") /\ UNCHANGED missed
    /\ UNCHANGED <<files, pc, term, loaded>>

\* configure: the new file replaces the old one; start if one was running.
Rename ==
    /\ cpc = "rename"
    /\ \/ conf' = conf + 1 /\ op = "configure" /\ Tell("saved") /\ Free
       \/ conf' = conf + 1 /\ op = "reconfigure" /\ CGoto("lookup") /\ Free
       \/ UNCHANGED conf /\ Fail
    /\ UNCHANGED <<paused, pidfile, lock, daemons>>

\* start; it fails when the module is disabled.
Lookup ==
    /\ cpc = "lookup"
    /\ \/ Running /\ Tell("running") /\ Free
       \/ ~Running /\ CGoto("lift") /\ Free
       \/ Fail
    /\ UNCHANGED <<files, daemons>>
Lift ==
    /\ cpc = "lift"
    /\ paused' = FALSE /\ CGoto("spawn")
    /\ UNCHANGED <<pidfile, lock, conf, daemons, budget>>
Create(p) == pc[p] = "none" /\ To(p, "begin")
Spawn ==
    /\ cpc = "spawn"
    /\ \/ /\ \E p \in Procs : Create(p)
          /\ Tell(IF op = "reconfigure" THEN "restarted" ELSE "requested") /\ Free
       \/ UNCHANGED pc /\ Fail
    /\ UNCHANGED <<files, term, loaded, tables>>

-----------------------------------------------------------------------------
(* The root manager, the kernel, the user                                   *)

\* service.sh at boot: a daemon, without a command.
Service ==
    /\ Spend /\ \E p \in Procs : Create(p)
    /\ UNCHANGED <<files, term, loaded, tables, command>>
KillCommand ==
    /\ cpc # "idle" /\ Tell("failed") /\ Fault("kill")
    /\ UNCHANGED <<files, daemons>>
\* Files on disk stay; processes, locks and tables do not.
Reboot ==
    /\ Fault("reboot")
    /\ pc' = [p \in Procs |-> "none"] /\ term' = {} /\ lock' = Nobody /\ rules' = FALSE
    /\ cpc' = "idle" /\ said' = IF cpc = "idle" THEN said ELSE "failed"
    /\ UNCHANGED <<paused, pidfile, conf, loaded, missed, op, target>>

-----------------------------------------------------------------------------
Init ==
    /\ paused \in BOOLEAN /\ pidfile = Nobody /\ lock = Nobody /\ conf = 0
    /\ pc = [p \in Procs |-> "none"] /\ term = {}
    /\ loaded = [p \in Procs |-> 0] /\ rules = FALSE /\ missed = FALSE
    /\ op = "stop" /\ cpc = "idle" /\ target = Nobody /\ said = "nothing"
    /\ budget = Budget

Daemon(p) == \/ Struck(p) \/ Duplicate(p) \/ AcquireLock(p) \/ WritePid(p)
             \/ CheckPaused(p) \/ Boot(p) \/ Install(p) \/ Leave(p) \/ Cleanup(p)
             \/ Release(p) \/ Return(p)
Command == \/ FindRunning \/ Pause \/ ReadPid \/ Wait \/ StopCleanup \/ Rename
           \/ Lookup \/ Lift \/ Spawn
Next == \/ \E p \in Procs : Daemon(p) \/ Kill(p)
        \/ Command \/ Begin \/ Service \/ KillCommand \/ Reboot

Spec == Init /\ [][Next]_vars

-----------------------------------------------------------------------------
(* Properties                                                               *)

Where == {"none", "begin", "locked", "check", "boot", "run", "leave", "release", "held"}
Step == {"idle", "running", "pause", "read", "wait", "cleanup", "rename", "lookup",
         "lift", "spawn"}
Answers == {"nothing", "busy", "stopped", "running", "requested", "saved", "restarted",
            "failed"}

\* Every variable has its type; stop signals and waits for real processes only,
\* and only the commands that stop clean up.
FlagsOK == paused \in BOOLEAN /\ rules \in BOOLEAN /\ missed \in BOOLEAN
DataOK ==
    /\ pidfile \in Procs \cup {Nobody} /\ lock \in Procs \cup {Nobody}
    /\ conf \in Nat /\ loaded \in [Procs -> Nat]
    /\ pc \in [Procs -> Where] /\ term \subseteq Procs
    /\ op \in {"start", "stop", "restart", "configure", "reconfigure"}
    /\ cpc \in Step /\ target \in Procs \cup {Nobody} /\ said \in Answers
    /\ cpc = "wait" => target \in Procs
    /\ cpc \in {"pause", "read", "wait", "cleanup"} => op \in {"stop", "restart", "reconfigure"}
    /\ cpc = "running" => op = "configure"
    /\ cpc = "rename" => op \in {"configure", "reconfigure"}
    /\ budget \in 0 .. Budget
TypeOK == FlagsOK /\ DataOK

Working == {"boot", "run", "leave"}

\* From its look at the marker until it removes the pid file, a daemon is the
\* process lock/pid names and the holder of daemon.flock: what stop and start
\* read is never the trace of another daemon (a part of Exclusive).
PidNamesHolder ==
    \A p \in Procs : pc[p] \in Working \cup {"check", "release"} => pidfile = p /\ lock = p

\* At most one daemon or command changes the tables (README_RU.md: two
\* supervisors never work at once), and a daemon that does is the one that
\* lock/pid names to start and stop: stop has waited for the daemon, or the
\* daemon that lock/pid did not name yet will see the marker.
Exclusive ==
    /\ PidNamesHolder
    /\ \A p \in Procs : pc[p] \in Working =>
           /\ cpc # "cleanup"
           /\ \A q \in Procs : pc[q] \in Working => q = p

\* "Stopped" is lasting: the marker is there, no daemon works or will install
\* rules, whichever daemons were starting, ending, killed or rebooted, and no
\* rule is there but those that stop's own cleanup could not see: it reports
\* success without a usable iptables (ctl.rs:164), and where ip6tables is
\* missing or -C fails (firewall.rs:119-121, 172-175).
StopHolds ==
    said = "stopped" =>
        /\ paused /\ \A p \in Procs : pc[p] \notin Working
        /\ rules => missed

\* After configure restarted the daemon none works with the replaced file.
ConfigInForce ==
    said = "restarted" => \A p \in Procs : pc[p] = "run" => loaded[p] = conf

\* README_RU.md, stop and start: start lifts the pause.  It does not when the
\* daemon it finds running is on its way out.
StartLifts == said \in {"running", "requested"} => ~paused
=============================================================================
