----------------------------- MODULE Supervisor -----------------------------
(***************************************************************************)
(* The daemon's supervisor: the loop that keeps the rules of both address  *)
(* families and the NFQUEUE workers in line with the links, and recover(), *)
(* which tears everything down and retries with fewer workers              *)
(* (src/daemon.rs: Workers, run_inner, recover).                           *)
(*                                                                         *)
(* Install and cleanup of a family are single steps here, with the results *)
(* RuleTable states; Firewall implements it where nobody else changes the  *)
(* table meanwhile and -C can be trusted.  Time is not modelled: a timer   *)
(* that may have elapsed is a choice, and the cooldown between retries is  *)
(* left out.  A scan or a check that is not due yet is a change of the     *)
(* links or of the rules that has not happened yet.                        *)
(***************************************************************************)
EXTENDS Integers

CONSTANTS
    Sigs,         \* link signatures with both a downstream and an upstream
    NoLinks,
    Workers,      \* WORKERS of the configuration
    Capacities,   \* how many workers a phone may be able to start at once
    Nfqueue,      \* the effective backend: nfqueue, or kernel TTL
    Filter6,      \* IPv6 mode normalize or block, or one of the pass modes
    MaxFailures,  \* c.max_failures
    FailureCap,   \* where failures saturates (255 in the code)
    Faults,       \* what goes wrong
    Budget        \* bound: faults, deaths, disturbances, link changes, stops

FaultKinds == {"cleanup", "install", "spawn", "slow", "die", "hang", "netd", "crash"}

ASSUME SupervisorAssumption ==
    /\ NoLinks \notin Sigs
    /\ Workers \in Nat \ {0} /\ Capacities \subseteq Nat \ {0}
    /\ Nfqueue \in BOOLEAN /\ Filter6 \in BOOLEAN
    /\ MaxFailures \in Nat \ {0}
    /\ FailureCap \in Nat /\ FailureCap >= MaxFailures
    /\ Faults \subseteq FaultKinds
    /\ Budget \in Nat

Queue == 0 .. (Workers - 1)
Family == {4, 6}
Absent == [kind |-> "absent"]
Broken == [kind |-> "broken"]
Foreign == [kind |-> "foreign"]  \* whatever netd left
Rules(s, n) == [kind |-> "complete", sig |-> s, workers |-> n]

VARIABLES
    \* the kernel and the other processes
    links,     \* what net::discover would find
    rules,     \* the rules of each family in the mangle table
    capacity,  \* how many workers the phone can start at once
    stale,     \* queues still owned by a worker of a daemon that died
    \* the daemon
    child,     \* the worker process of each queue, as the daemon's child
    count,     \* active_workers
    failures,
    active,    \* which families have a chain: active4, active6
    sig, last, first,
    cleaned,   \* the result of the last cleanup of an end of tethering or of the exit
    pc,
    phase,     \* the phase file
    stop,      \* SIGTERM received, or paused
    budget

vars == <<links, capacity, rules, stale, child, count, failures, active, sig, last, first,
          cleaned, pc, phase, stop, budget>>

Spend == budget > 0 /\ budget' = budget - 1
Fault(kind) == kind \in Faults /\ Spend

NoChild == [q \in Queue |-> "none"]
Neither == [f \in Family |-> FALSE]
Started == {q \in Queue : child[q] # "none"}
\* Workers::healthy: as many children as wanted, none exited, each the owner
\* of its queue.
Healthy == /\ Started = 0 .. (count - 1)
           /\ \A q \in Started : child[q] \in {"ready", "hung"}
\* Mutant: install4 is given the configured number of workers.
WantedConfigured(s) == Rules(s, IF Nfqueue THEN Workers ELSE 0)
Wanted4(s) == Rules(s, IF Nfqueue THEN count ELSE 0)
Wanted6(s) == Rules(s, 0)
RulesOk(s) == /\ active[4] /\ rules[4] = Wanted4(s)
              /\ Filter6 => active[6] /\ rules[6] = Wanted6(s)

\* Firewall::cleanup: both families, or it stops at the first that fails; what
\* a failed one leaves is what was there or nothing.
CleanupTo(ok) ==
    \/ ok /\ rules' = [f \in Family |-> Absent] /\ UNCHANGED budget
    \/ ~ok /\ \E r \in {rules[4], Absent} : rules' = [rules EXCEPT ![4] = r]
       /\ Fault("cleanup")
    \/ ~ok /\ \E r \in {rules[6], Absent} : rules' = [f \in Family |-> IF f = 4 THEN Absent ELSE r]
       /\ Fault("cleanup")

\* install4, install6: a failed one leaves the table in any state.
InstallTo(f, wanted, ok) ==
    \/ ok /\ rules' = [rules EXCEPT ![f] = wanted] /\ UNCHANGED budget
    \/ ~ok /\ \E r \in {rules[f], wanted, Broken, Absent} : rules' = [rules EXCEPT ![f] = r]
       /\ Fault("install")

-----------------------------------------------------------------------------
(* run_inner                                                                *)

Start ==
    /\ pc = "down" /\ ~stop
    /\ pc' = "boot" /\ phase' = "boot-wait"
    /\ UNCHANGED <<links, cleaned, capacity, rules, stale, child, count, failures, active, sig, last, first,
                   stop, budget>>
Boot ==
    /\ pc = "boot"
    /\ count' = IF Nfqueue THEN Workers ELSE 1
    /\ failures' = 0 /\ active' = Neither /\ child' = NoChild /\ first' = TRUE
    /\ \/ stop /\ pc' = "down" /\ phase' = "stopped" /\ UNCHANGED <<rules, budget>>
       \/ ~stop /\ CleanupTo(TRUE) /\ pc' = "loop" /\ UNCHANGED phase
       \/ ~stop /\ CleanupTo(FALSE) /\ pc' = "down" /\ phase' = "error"
    /\ UNCHANGED <<links, cleaned, capacity, stale, sig, last, stop>>

Leave ==
    /\ pc = "loop" /\ stop
    /\ pc' = "exit"
    /\ UNCHANGED <<links, cleaned, capacity, rules, stale, child, count, failures, active, sig, last, first,
                   phase, stop, budget>>
Due == first \/ links # last \/ (links # NoLinks /\ ~RulesOk(links))
Intact ==
    /\ pc = "loop" /\ ~stop /\ ~Due
    /\ sig' = links /\ pc' = "watch"
    /\ UNCHANGED <<links, cleaned, capacity, rules, stale, child, count, failures, active, last, first,
                   phase, stop, budget>>
\* No tethering any more.  With a chain in place the rules go first, then the
\* workers, then the phase; a failed cleanup is not tried again, as both chains
\* are forgotten.
Idle ==
    /\ pc = "loop" /\ ~stop /\ Due /\ links = NoLinks /\ active = Neither
    /\ sig' = links /\ last' = links /\ first' = FALSE /\ pc' = "settled" /\ phase' = "idle"
    /\ UNCHANGED <<links, cleaned, capacity, rules, stale, child, count, failures, active, stop,
                   budget>>
IdleUnhook ==
    /\ pc = "loop" /\ ~stop /\ Due /\ links = NoLinks /\ active # Neither
    /\ \E ok \in BOOLEAN : CleanupTo(ok) /\ cleaned' = ok /\ first' = ~ok
    /\ sig' = links /\ pc' = "idleStop"
    /\ UNCHANGED <<links, capacity, stale, child, count, failures, active, last, phase, stop>>
IdleStop ==
    /\ pc = "idleStop"
    /\ child' = NoChild /\ active' = Neither /\ pc' = "idleDone"
    /\ UNCHANGED <<links, cleaned, capacity, rules, stale, count, failures, sig, last, first,
                   phase, stop, budget>>
IdleDone ==
    /\ pc = "idleDone"
    /\ last' = sig /\ phase' = "idle" /\ pc' = "settled"
    /\ UNCHANGED <<links, cleaned, capacity, rules, stale, child, count, failures, active, sig,
                   first, stop, budget>>
Activate ==
    /\ pc = "loop" /\ ~stop /\ Due /\ links # NoLinks
    /\ sig' = links /\ first' = FALSE /\ phase' = "installing"
    /\ pc' = IF Nfqueue /\ ~Healthy THEN "start" ELSE "install4"
    /\ UNCHANGED <<links, cleaned, capacity, rules, stale, child, count, failures, active, last, stop, budget>>

\* Workers::start stops the workers it has, refuses a queue that is owned by
\* somebody else, spawns one worker per queue and waits until all are ready.
\* Mutant: the queues' owners are not asked for.
StartUnchecked ==
    /\ pc = "start"
    /\ \/ /\ count <= capacity
          /\ child' = [q \in Queue |-> IF q < count THEN "spawned" ELSE "none"]
          /\ pc' = "await" /\ UNCHANGED budget
       \/ count > capacity /\ child' = NoChild /\ pc' = "recover" /\ UNCHANGED budget
       \/ child' = NoChild /\ pc' = "recover" /\ Fault("spawn")
    /\ UNCHANGED <<links, cleaned, capacity, rules, stale, count, failures, active, sig, last, first, phase, stop>>
StartWorkers ==
    /\ pc = "start"
    /\ \/ /\ stale \cap (0 .. (count - 1)) = {} /\ count <= capacity
          /\ child' = [q \in Queue |-> IF q < count THEN "spawned" ELSE "none"]
          /\ pc' = "await" /\ UNCHANGED budget
       \/ /\ stale \cap (0 .. (count - 1)) # {} \/ count > capacity
          /\ child' = NoChild /\ pc' = "recover" /\ UNCHANGED budget
       \/ child' = NoChild /\ pc' = "recover" /\ Fault("spawn")
    /\ UNCHANGED <<links, cleaned, capacity, rules, stale, count, failures, active, sig, last, first, phase, stop>>
AwaitWorkers ==
    /\ pc = "await"
    /\ \/ stop /\ child' = NoChild /\ pc' = "recover" /\ UNCHANGED budget
       \/ ~stop /\ Healthy /\ pc' = "install4" /\ UNCHANGED <<child, budget>>
       \/ /\ ~stop /\ \E q \in Started : child[q] = "exited"
          /\ pc' = "recover" /\ UNCHANGED <<child, budget>>
       \/ ~stop /\ ~Healthy /\ pc' = "recover" /\ Fault("slow") /\ UNCHANGED child
    /\ UNCHANGED <<links, cleaned, capacity, rules, stale, count, failures, active, sig, last, first, phase, stop>>

Install4 ==
    /\ pc = "install4"
    /\ \E ok \in BOOLEAN :
         /\ InstallTo(4, Wanted4(sig), ok)
         /\ active' = [active EXCEPT ![4] = ok \/ @]
         /\ pc' = IF ok THEN "install6" ELSE "recover"
    /\ UNCHANGED <<links, cleaned, capacity, stale, child, count, failures, sig, last, first, phase, stop>>
Install6 ==
    /\ pc = "install6"
    /\ \E ok \in BOOLEAN :
         /\ IF Filter6 THEN InstallTo(6, Wanted6(sig), ok) ELSE ok /\ InstallTo(6, Absent, ok)
         /\ active' = [active EXCEPT ![6] = Filter6 /\ (ok \/ @)]
         /\ IF ok THEN pc' = "settled" /\ phase' = "active" /\ last' = sig
                  ELSE pc' = "recover" /\ UNCHANGED <<phase, last>>
    /\ UNCHANGED <<links, cleaned, capacity, stale, child, count, failures, sig, first, stop>>

\* The watchdog, then the end of the iteration: 60 s after the last change it
\* forgives the failures.
Sick == ~Healthy \/ \E q \in Started : child[q] = "hung"
\* Mutant: the watchdog has a loop of its own that does not look at STOP.
WatchOn ==
    /\ pc \in {"watch", "settled"}
    /\ \/ Nfqueue /\ active[4] /\ Sick /\ pc' = "recover"
       \/ ~(Nfqueue /\ active[4] /\ Sick) /\ pc' = IF links = last THEN "watch" ELSE "loop"
    /\ UNCHANGED <<links, cleaned, capacity, rules, stale, child, count, failures, active, sig, last, first,
                   phase, stop, budget>>
Watch ==
    /\ pc \in {"watch", "settled"}
    /\ \/ /\ Nfqueue /\ active[4] /\ Sick
          /\ pc' = "recover" /\ UNCHANGED failures
       \/ /\ ~(Nfqueue /\ active[4] /\ Sick)
          /\ pc' = "loop" /\ failures' \in {failures, IF pc = "watch" THEN 0 ELSE failures}
    /\ UNCHANGED <<links, cleaned, capacity, rules, stale, child, count, active, sig, last, first, phase, stop,
                   budget>>

-----------------------------------------------------------------------------
(* recover                                                                  *)

\* Mutant: the phase is left as it was.
UnhookQuietly ==
    /\ pc = "recover"
    /\ \E ok \in BOOLEAN : CleanupTo(ok)
    /\ active' = Neither /\ pc' = "degrade"
    /\ UNCHANGED <<links, cleaned, capacity, stale, child, count, failures, sig, last, first, phase, stop>>
Unhook ==
    /\ pc = "recover"
    /\ \E ok \in BOOLEAN : CleanupTo(ok)
    /\ active' = Neither /\ phase' = "recovering" /\ pc' = "degrade"
    /\ UNCHANGED <<links, cleaned, capacity, stale, child, count, failures, sig, last, first, stop>>
\* Mutant: the number of workers is never lowered.
DegradeNever ==
    /\ pc = "degrade"
    /\ failures' = IF failures < FailureCap THEN failures + 1 ELSE failures
    /\ child' = NoChild /\ first' = TRUE /\ pc' = "loop"
    /\ UNCHANGED <<links, cleaned, capacity, rules, stale, count, active, sig, last, phase, stop, budget>>
\* Mutant: failures is not saturated.
DegradeOverflow ==
    /\ pc = "degrade"
    /\ LET f == failures + 1
       IN IF f >= MaxFailures /\ count > 1
          THEN count' = (count + 1) \div 2 /\ failures' = 0
          ELSE failures' = f /\ UNCHANGED count
    /\ child' = NoChild /\ first' = TRUE /\ pc' = "loop"
    /\ UNCHANGED <<links, cleaned, capacity, rules, stale, active, sig, last, phase, stop, budget>>
Degrade ==
    /\ pc = "degrade"
    /\ LET f == IF failures < FailureCap THEN failures + 1 ELSE failures
       IN IF f >= MaxFailures /\ count > 1
          THEN count' = (count + 1) \div 2 /\ failures' = 0
          ELSE failures' = f /\ UNCHANGED count
    /\ child' = NoChild /\ first' = TRUE /\ pc' = "loop"
    /\ UNCHANGED <<links, cleaned, capacity, rules, stale, active, sig, last, phase, stop, budget>>

\* The end of run_inner, in the same order.
Exit ==
    /\ pc = "exit"
    /\ \E ok \in BOOLEAN : CleanupTo(ok) /\ cleaned' = ok
    /\ pc' = "exitStop"
    /\ UNCHANGED <<links, capacity, stale, child, count, failures, active, sig, last, first,
                   phase, stop>>
ExitStop ==
    /\ pc = "exitStop"
    /\ child' = NoChild /\ pc' = "exitDone"
    /\ UNCHANGED <<links, cleaned, capacity, rules, stale, count, failures, active, sig, last,
                   first, phase, stop, budget>>
ExitDone ==
    /\ pc = "exitDone"
    /\ phase' = IF cleaned THEN "stopped" ELSE "error"
    /\ pc' = "down"
    /\ UNCHANGED <<links, cleaned, capacity, rules, stale, child, count, failures, active, sig,
                   last, first, stop, budget>>

-----------------------------------------------------------------------------
(* The workers and the environment                                          *)

Become(q, from, to) == child[q] \in from /\ child' = [child EXCEPT ![q] = to]
WorkerReady(q) ==
    /\ Become(q, {"spawned"}, "ready")
    /\ UNCHANGED <<links, cleaned, capacity, rules, stale, count, failures, active, sig, last, first, pc,
                   phase, stop, budget>>
WorkerFails(q) ==
    /\ \/ Become(q, {"spawned", "ready", "hung"}, "exited") /\ Fault("die")
       \/ Become(q, {"ready"}, "hung") /\ Fault("hang")
    /\ UNCHANGED <<links, cleaned, capacity, rules, stale, count, failures, active, sig, last, first, pc,
                   phase, stop>>
\* A worker gets SIGTERM when its parent dies, and exits some time later.
StaleExits(q) ==
    /\ q \in stale /\ stale' = stale \ {q}
    /\ UNCHANGED <<links, cleaned, capacity, rules, child, count, failures, active, sig, last, first, pc,
                   phase, stop, budget>>

\* What a daemon that dies within a cleanup or an install leaves of a family.
LeftOf(f) ==
    {rules[f]}
    \cup (IF pc \in {"boot", "loop", "recover", "exit"} THEN {Absent} ELSE {})
    \cup (IF pc = "install4" /\ f = 4 THEN {Absent, Broken, Wanted4(sig)} ELSE {})
    \cup (IF pc = "install6" /\ f = 6 /\ Filter6 THEN {Absent, Broken, Wanted6(sig)} ELSE {})
Crash ==
    /\ pc # "down" /\ Fault("crash")
    /\ \E r4 \in LeftOf(4), r6 \in LeftOf(6) : rules' = [rules EXCEPT ![4] = r4, ![6] = r6]
    /\ pc' = "down" /\ child' = NoChild
    /\ stale' = stale \cup {q \in Queue : child[q] \in {"spawned", "ready", "hung"}}
    /\ UNCHANGED <<links, cleaned, capacity, count, failures, active, sig, last, first, phase, stop>>
LinkChange ==
    /\ Spend
    /\ links' \in (Sigs \cup {NoLinks}) \ {links}
    /\ UNCHANGED <<cleaned, capacity, rules, stale, child, count, failures, active, sig, last, first,
                   pc, phase, stop>>
Netd ==
    /\ Fault("netd")
    /\ \E f \in Family : rules[f] # Absent /\ rules' = [rules EXCEPT ![f] = Foreign]
    /\ UNCHANGED <<links, cleaned, capacity, stale, child, count, failures, active, sig, last, first, pc,
                   phase, stop>>
\* `nfqttl stop` sets paused and sends SIGTERM; once the daemon is down,
\* `nfqttl start` lifts the pause.
Request ==
    /\ \/ ~stop /\ stop' = TRUE /\ Spend
       \/ stop /\ pc = "down" /\ stop' = FALSE /\ UNCHANGED budget
    /\ UNCHANGED <<links, cleaned, capacity, rules, stale, child, count, failures, active, sig, last, first,
                   pc, phase>>

-----------------------------------------------------------------------------
Init ==
    /\ links \in Sigs \cup {NoLinks} /\ capacity \in Capacities
    /\ rules = [f \in Family |-> Absent] /\ stale = {}
    /\ child = NoChild /\ count = Workers /\ failures = 0 /\ active = Neither
    /\ sig = NoLinks /\ last = NoLinks /\ first = TRUE
    /\ cleaned = TRUE
    /\ pc = "down" /\ phase = "stopped" /\ stop = FALSE /\ budget = Budget

Daemon == \/ Boot \/ Leave \/ Intact
          \/ Idle \/ IdleUnhook \/ IdleStop \/ IdleDone
          \/ Activate \/ StartWorkers \/ AwaitWorkers \/ Install4 \/ Install6
          \/ Watch \/ Unhook \/ Degrade
          \/ Exit \/ ExitStop \/ ExitDone
Environment == \/ Start \/ Crash \/ LinkChange \/ Netd \/ Request
               \/ \E q \in Queue : WorkerFails(q)
Next == \/ Daemon \/ Environment
        \/ \E q \in Queue : WorkerReady(q) \/ StaleExits(q)

Spec == Init /\ [][Next]_vars
\* The daemon runs, a spawned worker binds its queue, an orphan exits.
FairSpec == /\ Spec /\ WF_vars(Daemon)
            /\ \A q \in Queue : WF_vars(WorkerReady(q)) /\ WF_vars(StaleExits(q))
-----------------------------------------------------------------------------
(* Properties                                                               *)

Phase == {"boot-wait", "idle", "installing", "active", "recovering", "stopped", "error"}
Control == {"down", "boot", "loop", "start", "await", "install4", "install6", "watch",
            "settled", "recover", "degrade", "idleStop", "idleDone", "exit", "exitStop", "exitDone"}
\* Between the cleanup of an end of tethering or of the exit and the write of
\* the phase.
Withdrawing == {"idleStop", "idleDone", "exitStop", "exitDone"}
RuleState == {Absent, Broken, Foreign} \cup [kind : {"complete"}, sig : Sigs, workers : 0 .. Workers]

\* Every variable has its type.
WorldOK == /\ links \in Sigs \cup {NoLinks} /\ capacity \in Capacities
           /\ rules \in [Family -> RuleState]
           /\ stale \subseteq Queue /\ stop \in BOOLEAN /\ budget \in 0 .. Budget
           /\ child \in [Queue -> {"none", "spawned", "ready", "hung", "exited"}]
LoopOK == /\ count \in 1 .. Workers /\ failures \in 0 .. FailureCap
          /\ active \in [Family -> BOOLEAN] /\ sig \in Sigs \cup {NoLinks}
          /\ last \in Sigs \cup {NoLinks} /\ first \in BOOLEAN /\ cleaned \in BOOLEAN
          /\ pc \in Control /\ phase \in Phase
TypeOK == WorldOK /\ LoopOK

\* While the phase file says active, a complete rule set steers packets to
\* exactly the queues the daemon has started a worker for, whatever failed,
\* died or was degraded before (install4 never publishes a worker count that
\* Workers::start did not start, recover takes back "active" first, the workers
\* are stopped after the rules are gone); only where the cleanup at the end of
\* tethering or of the daemon failed do rules outlive their workers.  And a
\* queue that a worker of a dead daemon still owns is never given to a worker
\* of the new one (Workers::start asks queue_owner before it spawns).
Steered ==
    pc # "down" /\ phase = "active" /\ Nfqueue /\ rules[4].kind = "complete"
        => \/ Started = 0 .. (rules[4].workers - 1)
           \/ pc \in Withdrawing /\ ~cleaned
OneOwner == \A q \in stale : child[q] = "none"
SteersToOwnWorkers == Steered /\ OneOwner

\* The phase file says active only while the rules of both families are those
\* of the links last acted on, or somebody else has changed them since: no
\* failed or half-done activation of the daemon is reported as active.  It says
\* so a little longer where the daemon takes the rules away itself: from that
\* cleanup until the phase is written, after the workers have stopped
\* (daemon.rs:481-489, 643-647).
PhaseTruth ==
    pc \notin {"down"} \cup Withdrawing /\ phase = "active" =>
        /\ last # NoLinks
        /\ active[4] /\ rules[4] \in {Wanted4(last), Foreign}
        /\ Filter6 => active[6] /\ rules[6] \in {Wanted6(last), Foreign}

\* SIGTERM ends the daemon from wherever it is.
StopEnds == stop ~> (pc = "down" \/ ~stop)

\* Once faults and changes cease, a running daemon gets both families' rules
\* and every worker right and keeps them so, even when it was configured with
\* more workers than the phone can start: recover() lowers their number and
\* goes on (README_RU.md, retries and degradation).
Served == \/ links = NoLinks
          \/ phase = "active" /\ RulesOk(links) /\ (Nfqueue => Healthy /\ ~Sick)
SelfHeals == <>[](pc = "down" \/ Served)
=============================================================================
