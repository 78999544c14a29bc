-------------------------- MODULE LifecycleProofs --------------------------
(***************************************************************************)
(* The safety of Lifecycle for any number of processes, commands, kills and *)
(* reboots.  The argument is the order of four steps: stop writes the       *)
(* marker and then reads lock/pid; a daemon writes lock/pid and then reads  *)
(* the marker.  A daemon stop does not find has still to read the marker.   *)
(***************************************************************************)
EXTENDS Lifecycle, TLAPS

USE LifecycleAssumption DEF LifecycleAssumption

LEMMA BudgetNext ==
    ASSUME budget \in 0 .. Budget, Free \/ \E kind \in FaultKinds : Fault(kind)
    PROVE  budget' \in 0 .. Budget
BY DEF Free, Fault, Spend

LEMMA DaemonData == ASSUME DataOK, NEW p \in Procs, Daemon(p) PROVE DataOK'
<1> USE DEF DataOK, Where, Step, Answers, files, daemons, command, tables
<1>1. CASE Struck(p)
  BY <1>1 DEF Struck, Gone, To, Free
<1>2. CASE Duplicate(p)
  BY <1>2 DEF Duplicate, Gone, To, Free
<1>3. CASE AcquireLock(p)
  BY <1>3 DEF AcquireLock, To
<1>4. CASE WritePid(p)
  BY <1>4 DEF WritePid, To
<1>5. CASE CheckPaused(p)
  BY <1>5 DEF CheckPaused, To
<1>6. CASE Boot(p)
  <2>1. budget' \in 0 .. Budget
    BY <1>6, BudgetNext DEF Boot, Cleaned, Blind, FaultKinds
  <2>2. /\ To(p, "release") \/ To(p, "run")
        /\ loaded' = loaded \/ loaded' = [loaded EXCEPT ![p] = conf]
    BY ONLY <1>6 DEF Boot
  <2>3. pc' \in [Procs -> Where]
    BY <2>2 DEF To
  <2>4. loaded' \in [Procs -> Nat]
    BY <2>2
  <2>5. UNCHANGED <<files, term, command>>
    BY ONLY <1>6 DEF Boot
  <2> QED
    BY <2>1, <2>3, <2>4, <2>5
<1>7. CASE Install(p)
  BY <1>7 DEF Install
<1>8. CASE Leave(p)
  BY <1>8 DEF Leave, To
<1>9. CASE Cleanup(p)
  <2>1. budget' \in 0 .. Budget
    BY <1>9, BudgetNext DEF Cleanup, Cleaned, Blind, FaultKinds
  <2> QED
    BY <1>9, <2>1 DEF Cleanup, To
<1>10. CASE Release(p)
  BY <1>10 DEF Release, To
<1>11. CASE Return(p)
  BY <1>11 DEF Return, Gone, To, Free
<1> QED
  BY <1>1, <1>2, <1>3, <1>4, <1>5, <1>6, <1>7, <1>8, <1>9, <1>10, <1>11 DEF Daemon

LEMMA CommandData == ASSUME DataOK, Command PROVE DataOK'
<1> USE DEF DataOK, Where, Step, Answers, files, daemons, command, tables
<1>1. CASE FindRunning
  BY <1>1 DEF FindRunning, Free
<1>2. CASE Pause
  <2>1. budget' \in 0 .. Budget
    BY <1>2, BudgetNext DEF Pause, Fail, FaultKinds
  <2> QED
    BY <1>2, <2>1 DEF Pause, CGoto, Fail, Tell
<1>3. CASE ReadPid
  BY <1>3 DEF ReadPid, Running
<1>4. CASE Wait
  <2>1. budget' \in 0 .. Budget
    BY <1>4, BudgetNext DEF Wait, FaultKinds
  <2> QED
    BY <1>4, <2>1 DEF Wait, CGoto, Tell
<1>5. CASE StopCleanup
  <2>1. budget' \in 0 .. Budget
    BY <1>5, BudgetNext DEF StopCleanup, Cleaned, Blind, FaultKinds
  <2> QED
    BY <1>5, <2>1 DEF StopCleanup, CGoto, Tell
<1>6. CASE Rename
  <2>1. budget' \in 0 .. Budget
    BY <1>6, BudgetNext DEF Rename, Fail, FaultKinds
  <2> QED
    BY <1>6, <2>1 DEF Rename, CGoto, Fail, Tell
<1>7. CASE Lookup
  <2>1. budget' \in 0 .. Budget
    BY <1>7, BudgetNext DEF Lookup, Fail, FaultKinds
  <2> QED
    BY <1>7, <2>1 DEF Lookup, CGoto, Fail, Tell
<1>8. CASE Lift
  BY <1>8 DEF Lift, CGoto
<1>9. CASE Spawn
  <2>1. budget' \in 0 .. Budget
    BY <1>9, BudgetNext DEF Spawn, Fail, FaultKinds
  <2> QED
    BY <1>9, <2>1 DEF Spawn, Create, To, Fail, Tell
<1> QED
  BY <1>1, <1>2, <1>3, <1>4, <1>5, <1>6, <1>7, <1>8, <1>9 DEF Command

\* The Boolean variables change in few actions; every other leaves them alone.
LEMMA FlagsNext == FlagsOK /\ [Next]_vars => FlagsOK'
<1> SUFFICES ASSUME FlagsOK, [Next]_vars PROVE FlagsOK'
  OBVIOUS
<1> USE DEF FlagsOK, files, daemons, command, tables
<1>1. ASSUME NEW p \in Procs, Daemon(p) PROVE FlagsOK'
  BY <1>1 DEF Daemon, Struck, Duplicate, AcquireLock, WritePid, CheckPaused, Boot, Install,
              Leave, Cleanup, Release, Return, Gone, Cleaned, Blind
<1>2. ASSUME NEW p \in Procs, Kill(p) PROVE FlagsOK'
  BY <1>2 DEF Kill, Gone
<1>3. CASE Command
  BY <1>3 DEF Command, FindRunning, Pause, ReadPid, Wait, StopCleanup, Rename, Lookup, Lift,
              Spawn, Cleaned, Blind
<1>4. CASE Begin \/ Service \/ KillCommand \/ Reboot \/ UNCHANGED vars
  BY <1>4 DEF Begin, Service, KillCommand, Reboot, vars
<1> QED
  BY <1>1, <1>2, <1>3, <1>4 DEF Next

\* Type correctness of Lifecycle (run, the commands): stop waits for real
\* processes, and only the commands that stop clean up.
THEOREM TypeCorrect == Spec => []TypeOK
<1>1. Init => TypeOK
  <2>1. Init => FlagsOK
    BY Zenon DEF Init, FlagsOK
  <2>2. Init => DataOK
    BY DEF Init, DataOK, Where, Step, Answers
  <2> QED
    BY <2>1, <2>2 DEF TypeOK
<1>2. DataOK /\ [Next]_vars => DataOK'
  <2> SUFFICES ASSUME DataOK, [Next]_vars PROVE DataOK'
    OBVIOUS
  <2>1. ASSUME NEW p \in Procs, Daemon(p) PROVE DataOK'
    BY <2>1, DaemonData
  <2>2. CASE Command
    BY <2>2, CommandData
  <2> USE DEF DataOK, Where, Step, Answers, files, daemons, command, tables
  <2>3. ASSUME NEW p \in Procs, Kill(p) PROVE DataOK'
    BY <2>3 DEF Kill, Gone, To, Fault, Spend
  <2>4. CASE Begin
    BY <2>4 DEF Begin, Spend
  <2>5. CASE Service
    BY <2>5 DEF Service, Create, To, Spend
  <2>6. CASE KillCommand
    BY <2>6 DEF KillCommand, Tell, Fault, Spend
  <2>7. CASE Reboot
    BY <2>7 DEF Reboot, Fault, Spend
  <2>8. CASE UNCHANGED vars
    BY <2>8 DEF vars
  <2> QED
    BY <2>1, <2>2, <2>3, <2>4, <2>5, <2>6, <2>7, <2>8 DEF Next
<1> QED
  BY <1>1, <1>2, FlagsNext, PTL DEF Spec, TypeOK

-----------------------------------------------------------------------------
(* The inductive invariant                                                  *)

Holding == Working \cup {"locked", "check", "release", "held"}
NoneWorking == \A p \in Procs : pc[p] \notin Working
Fresh == \A p \in Procs : pc[p] = "run" => loaded[p] = conf

\* Whoever passed AcquireLock holds daemon.flock until the process ends.
LockInv == \A p \in Procs : pc[p] \in Holding => lock = p
\* From the marker to the cleanup: it is there, the only daemon that may work
\* is the one stop waits for, and after the wait none works.
StopInv == /\ cpc \in {"read", "wait", "cleanup"} => paused
           /\ cpc = "wait" => \A p \in Procs : pc[p] \in Working => p = target
           /\ cpc = "cleanup" => NoneWorking
\* A configure that stopped a daemon replaces the file while none works.
ReplaceInv == op = "reconfigure" =>
                 /\ cpc \in {"rename", "lookup", "lift"} => paused /\ NoneWorking
                 /\ cpc = "spawn" => Fresh
BusyInv == cpc # "idle" => said = "busy"
DaemonInv == LockInv /\ PidNamesHolder
ReportInv == StopHolds /\ ConfigInForce /\ BusyInv
Inv == DaemonInv /\ StopInv /\ ReplaceInv /\ ReportInv

\* The flock is exclusive, and lock/pid names its holder while it works.
LEMMA DaemonNext == TypeOK /\ DaemonInv /\ [Next]_vars => DaemonInv'
<1> SUFFICES ASSUME TypeOK, DaemonInv, [Next]_vars PROVE DaemonInv'
  OBVIOUS
<1> USE DEF DaemonInv, LockInv, PidNamesHolder, Working, Holding, files, daemons, command, tables
<1>0. /\ pc \in [Procs -> Where] /\ Nobody \notin Procs
  BY DEF TypeOK, DataOK
<1>1. ASSUME NEW p \in Procs, Daemon(p) PROVE DaemonInv'
  <2>1. CASE Struck(p)
    BY <1>0, <2>1 DEF Struck, To, Gone
  <2>2. CASE Duplicate(p)
    BY <1>0, <2>2 DEF Duplicate, To, Gone
  <2>3. CASE AcquireLock(p)
    BY <1>0, <2>3 DEF AcquireLock, To
  <2>4. CASE WritePid(p)
    BY <1>0, <2>4 DEF WritePid, To
  <2>5. CASE CheckPaused(p)
    BY <1>0, <2>5 DEF CheckPaused, To
  <2>6. CASE Boot(p)
    BY <1>0, <2>6 DEF Boot, To
  <2>7. CASE Install(p)
    BY <1>0, <2>7 DEF Install, To
  <2>8. CASE Leave(p)
    BY <1>0, <2>8 DEF Leave, To
  <2>9. CASE Cleanup(p)
    BY <1>0, <2>9 DEF Cleanup, To
  <2>10. CASE Release(p)
    BY <1>0, <2>10 DEF Release, To
  <2>11. CASE Return(p)
    BY <1>0, <2>11 DEF Return, To, Gone
  <2> QED
    BY <1>1, <2>1, <2>2, <2>3, <2>4, <2>5, <2>6, <2>7, <2>8, <2>9, <2>10, <2>11 DEF Daemon
<1>2. ASSUME NEW p \in Procs, Kill(p) PROVE DaemonInv'
  BY <1>0, <1>2 DEF Kill, Gone, To
<1>3. CASE Command
  <2>1. CASE FindRunning
    BY <1>0, <2>1 DEF FindRunning
  <2>2. CASE Pause
    BY <1>0, <2>2 DEF Pause
  <2>3. CASE ReadPid
    BY <1>0, <2>3 DEF ReadPid
  <2>4. CASE Wait
    BY <1>0, <2>4 DEF Wait
  <2>5. CASE StopCleanup
    BY <1>0, <2>5 DEF StopCleanup
  <2>6. CASE Rename
    BY <1>0, <2>6 DEF Rename
  <2>7. CASE Lookup
    BY <1>0, <2>7 DEF Lookup
  <2>8. CASE Lift
    BY <1>0, <2>8 DEF Lift
  <2>9. CASE Spawn
    BY <1>0, <2>9 DEF Spawn, Create, To
  <2> QED
    BY <1>3, <2>1, <2>2, <2>3, <2>4, <2>5, <2>6, <2>7, <2>8, <2>9 DEF Command
<1>4. CASE Begin
  BY <1>4 DEF Begin
<1>5. CASE Service
  BY <1>0, <1>5 DEF Service, Create, To
<1>6. CASE KillCommand
  BY <1>6 DEF KillCommand
<1>7. CASE Reboot
  BY <1>0, <1>7 DEF Reboot
<1>8. CASE UNCHANGED vars
  BY <1>8 DEF vars
<1> QED
  BY <1>1, <1>2, <1>3, <1>4, <1>5, <1>6, <1>7, <1>8 DEF Next

CommandInv == StopInv /\ ReplaceInv /\ ReportInv

\* A daemon starts to work only past the marker, and works with the file it
\* has just read.
LEMMA CommandInvDaemon ==
    ASSUME TypeOK, DaemonInv, CommandInv, NEW p \in Procs, Daemon(p)
    PROVE  CommandInv'
<1> USE DEF CommandInv, StopInv, ReplaceInv, ReportInv, StopHolds, ConfigInForce, BusyInv,
            NoneWorking, Fresh, Working, files, daemons, command, tables
<1>0. pc \in [Procs -> Where] /\ loaded \in [Procs -> Nat]
  BY DEF TypeOK, DataOK
<1>1. CASE Struck(p)
  BY <1>0, <1>1 DEF Struck, To, Gone
<1>2. CASE Duplicate(p)
  BY <1>0, <1>2 DEF Duplicate, To, Gone
<1>3. CASE AcquireLock(p)
  BY <1>0, <1>3 DEF AcquireLock, To
<1>4. CASE WritePid(p)
  BY <1>0, <1>4 DEF WritePid, To
<1>5. CASE CheckPaused(p)
  BY <1>0, <1>5 DEF CheckPaused, To
<1>6. CASE Boot(p)
  BY <1>0, <1>6 DEF Boot, Cleaned, Blind, To
<1>7. CASE Install(p)
  BY <1>0, <1>7 DEF Install, To
<1>8. CASE Leave(p)
  BY <1>0, <1>8 DEF Leave, To
<1>9. CASE Cleanup(p)
  BY <1>0, <1>9 DEF Cleanup, Cleaned, Blind, To
<1>10. CASE Release(p)
  BY <1>0, <1>10 DEF Release, To
<1>11. CASE Return(p)
  BY <1>0, <1>11 DEF Return, To, Gone
<1> QED
  BY <1>1, <1>2, <1>3, <1>4, <1>5, <1>6, <1>7, <1>8, <1>9, <1>10, <1>11 DEF Daemon

\* A command reads lock/pid after it wrote the marker, cleans up after it
\* waited, and lifts the marker last.
LEMMA CommandInvCommand ==
    ASSUME TypeOK, DaemonInv, CommandInv, Command
    PROVE  CommandInv'
<1> USE DEF CommandInv, StopInv, ReplaceInv, ReportInv, StopHolds, ConfigInForce, BusyInv,
            NoneWorking, Fresh, Working, files, daemons, command, tables
<1>0. pc \in [Procs -> Where]
  BY DEF TypeOK, DataOK
<1>1. CASE FindRunning
  BY <1>0, <1>1 DEF FindRunning, TypeOK, DataOK
<1>2. CASE Pause
  BY <1>0, <1>2 DEF Pause, CGoto, Fail, Tell
<1>3. CASE ReadPid
  BY <1>0, <1>3 DEF ReadPid, Running, DaemonInv, PidNamesHolder
<1>4. CASE Wait
  BY <1>0, <1>4 DEF Wait, CGoto, Tell
<1>5. CASE StopCleanup
  BY <1>0, <1>5 DEF StopCleanup, Cleaned, CGoto, Tell
<1>6. CASE Rename
  BY <1>0, <1>6 DEF Rename, CGoto, Fail, Tell
<1>7. CASE Lookup
  BY <1>0, <1>7 DEF Lookup, CGoto, Fail, Tell
<1>8. CASE Lift
  BY <1>0, <1>8 DEF Lift, CGoto
<1>9. CASE Spawn
  BY <1>0, <1>9 DEF Spawn, Create, To, Fail, Tell
<1> QED
  BY <1>1, <1>2, <1>3, <1>4, <1>5, <1>6, <1>7, <1>8, <1>9 DEF Command

LEMMA InvNext == TypeOK /\ Inv /\ [Next]_vars => Inv'
<1> SUFFICES ASSUME TypeOK, DaemonInv, CommandInv, [Next]_vars PROVE CommandInv'
  BY DaemonNext DEF Inv, CommandInv
<1>1. ASSUME NEW p \in Procs, Daemon(p) PROVE CommandInv'
  BY <1>1, CommandInvDaemon
<1>2. CASE Command
  BY <1>2, CommandInvCommand
<1> USE DEF CommandInv, StopInv, ReplaceInv, ReportInv, StopHolds, ConfigInForce, BusyInv,
            NoneWorking, Fresh, Working, files, daemons, command, tables
<1>0. pc \in [Procs -> Where]
  BY DEF TypeOK, DataOK
<1>3. ASSUME NEW p \in Procs, Kill(p) PROVE CommandInv'
  BY <1>0, <1>3 DEF Kill, Gone, To
<1>4. CASE Begin
  BY <1>4 DEF Begin
<1>5. CASE Service
  BY <1>0, <1>5 DEF Service, Create, To
<1>6. CASE KillCommand
  BY <1>6 DEF KillCommand, Tell
<1>7. CASE Reboot
  BY <1>0, <1>7 DEF Reboot
<1>8. CASE UNCHANGED vars
  BY <1>8 DEF vars
<1> QED
  BY <1>1, <1>2, <1>3, <1>4, <1>5, <1>6, <1>7, <1>8 DEF Next

LEMMA InitInv == Init => Inv
BY DEF Init, Inv, DaemonInv, LockInv, PidNamesHolder, StopInv, ReplaceInv, ReportInv,
       StopHolds, ConfigInForce, BusyInv, NoneWorking, Fresh, Working, Holding

LEMMA Invariance == Spec => []Inv
BY InitInv, InvNext, TypeCorrect, PTL DEF Spec

\* The pid file never names another daemon than the working holder of
\* daemon.flock (acquire_lock, release_lock), for every interleaving.
THEOREM PidFileTrue == Spec => []PidNamesHolder
BY Invariance, PTL DEF Inv, DaemonInv

\* Daemons and the cleanup of stop never change the tables at the same time
\* (acquire_lock; stop waits, run_inner looks at the marker).
THEOREM TablesExclusive == Spec => []Exclusive
<1>1. Inv => Exclusive
  BY DEF Inv, DaemonInv, PidNamesHolder, StopInv, NoneWorking, Exclusive, Working
<1> QED
  BY <1>1, Invariance, PTL

\* "Stopped" is true and lasting (stop): no daemon is at work, the marker keeps
\* every later one from working, and no rules are there but those that stop's
\* own cleanup could not see, for any number of processes.
THEOREM StopLasting == Spec => []StopHolds
BY Invariance, PTL DEF Inv, ReportInv

\* After configure restarted the service no daemon works with the old file.
THEOREM ConfigReplaced == Spec => []ConfigInForce
BY Invariance, PTL DEF Inv, ReportInv
=============================================================================
