------------------------------ MODULE Firewall ------------------------------
(***************************************************************************)
(* One address family of the mangle table, one xtables command at a time,  *)
(* under the part of the daemon's loop that decides which operation runs.  *)
(*                                                                         *)
(* FORWARD jumps to a hook chain, the hook chain jumps to one of two       *)
(* payload chains, and the payload chain holds the rule of each            *)
(* downstream/upstream pair.  A rule set is rebuilt in the payload chain   *)
(* that is not in use and published by replacing the hook's first entry.   *)
(*                                                                         *)
(* netd and iptables-restore change the table between any two commands.  A *)
(* command can fail without effect (lock timeout) or be killed by the      *)
(* eight-second deadline after its effect: both are reported as failures.  *)
(***************************************************************************)
EXTENDS Integers, Sequences, FiniteSets

CONSTANTS
    Sigs,           \* link signatures, each asking for a rule set of its own
    NoLinks,        \* the signature of "no tethering": not links.active()
    NRules,         \* rules of one rule set, one per downstream/upstream pair
    DelLimit,       \* iterations of del_jump's loop (16 in the code)
    Worlds,         \* the conditions a behaviour may be under, see world
    Budget,         \* bound: faults, disturbances, link changes, stops, crashes
    MaxJumps        \* bound: jumps in FORWARD, entries in the hook chain

Commands == {"N", "F", "X", "A", "I", "R", "D", "C", "S"}
DisturbanceKinds == {"flushForward", "prepend", "dupJump", "dupEntry",
                     "flushHook", "flushPayload", "newTable"}

ASSUME FirewallAssumption ==
    /\ NoLinks \notin Sigs
    /\ NRules \in Nat \ {0}
    /\ DelLimit \in Nat /\ DelLimit > 1
    /\ Worlds \subseteq [faulty : SUBSET Commands, disturbances : SUBSET DisturbanceKinds]
    /\ Budget \in Nat
    /\ MaxJumps \in Nat \ {0}

Payload == {"A", "B"}
Chain == Payload \cup {"hook"}
None == "none"
Other(c) == IF c = "A" THEN "B" ELSE "A"
Rule == Sigs \X (1 .. NRules)
RuleSet(s) == {s} \X (1 .. NRules)

VARIABLES
    \* the mangle table
    chains,   \* the user-defined chains that exist
    jumps,    \* how many rules of FORWARD jump to the hook chain
    top,      \* whether the first rule of FORWARD is such a jump
    legacy,   \* how many rules of FORWARD jump to a chain of an older version
    hook,     \* the payload chains the hook chain jumps to, in order
    payload,  \* the rules of each payload chain
    \* the daemon
    pc,       \* the command it is about to run
    ctx,      \* what a cleanup or a del_jump returns to
    k,        \* the counter of the loop it is in
    sig,      \* the links found by the last scan
    last,     \* the links the rules were last brought in line with
    first,    \* the next iteration acts whatever it finds
    active,   \* the payload chain the daemon believes is published
    new,      \* the payload chain install is building
    \* the environment
    links,    \* the links a scan would find now
    budget,   \* how many more times the environment acts
    world     \* which commands can fail for no fault of the table, and what
              \* others do to it: never changes

table == <<chains, jumps, top, legacy, hook, payload>>
control == <<pc, ctx, k>>
daemon == <<sig, last, first, active, new>>
env == <<links, budget, world>>
vars == <<table, control, daemon, env>>

Down == {"stopped", "error", "dead"}
Probe == {"okForward", "okHook", "okPayload"}
Build == {"newChain", "clear", "fill"}
Publish == {"newHook", "swap", "flushHook", "addEntry", "list", "trim", "place",
            "insert", "retire"}
Unhook == {"check", "delete"}
Erase == {"flush", "erase"}
Contexts == {"boot", "idle", "recover", "exit", "activate"}

-----------------------------------------------------------------------------
(* How a command ends.  The caller sees only its exit status: ok and bad    *)
(* are what it does next.                                                   *)

Faulty == world.faulty
Disturbances == world.disturbances
Spend == budget > 0 /\ budget' = budget - 1
Free == budget' = budget

Command(kind, can, effect, ok, bad) ==
    /\ \/ can /\ effect /\ ok /\ Free
       \/ ~can /\ UNCHANGED table /\ bad /\ Free
       \/ kind \in Faulty /\ UNCHANGED table /\ bad /\ Spend
       \/ kind \in Faulty /\ can /\ effect /\ bad /\ Spend
    /\ UNCHANGED <<links, world>>

\* A command that only reads; a failed read is taken for "no".
Query(kind, holds, yes, no) ==
    /\ UNCHANGED table
    /\ \/ holds /\ yes /\ Free
       \/ ~holds /\ no /\ Free
       \/ kind \in Faulty /\ no /\ Spend
    /\ UNCHANGED <<links, world>>

Goto(next) == pc' = next /\ UNCHANGED <<ctx, k>>

-----------------------------------------------------------------------------
(* The commands' effects on the table                                       *)

Range(s) == {s[i] : i \in DOMAIN s}
Jumped(c) == IF c = "hook" THEN jumps > 0 ELSE c \in Range(hook)
IsEmpty(c) == IF c = "hook" THEN hook = <<>> ELSE payload[c] = {}

CreateChain(c) == /\ chains' = chains \cup {c}
                  /\ UNCHANGED <<jumps, top, legacy, hook, payload>>
FlushChain(c) ==
    /\ IF c = "hook" THEN hook' = <<>> /\ UNCHANGED payload
                     ELSE payload' = [payload EXCEPT ![c] = {}] /\ UNCHANGED hook
    /\ UNCHANGED <<chains, jumps, top, legacy>>
DropChain(c) == /\ chains' = chains \ {c}
                /\ UNCHANGED <<jumps, top, legacy, hook, payload>>
AddRule(c, r) == /\ payload' = [payload EXCEPT ![c] = @ \cup {r}]
                 /\ UNCHANGED <<chains, jumps, top, legacy, hook>>
SetHook(h) == hook' = h /\ UNCHANGED <<chains, jumps, top, legacy, payload>>
DeleteJump == /\ jumps' = jumps - 1
              /\ top' \in BOOLEAN /\ (top' => top /\ jumps > 1)
              /\ UNCHANGED <<chains, legacy, hook, payload>>
DeleteLegacy == /\ legacy' = legacy - 1
                /\ top' \in BOOLEAN /\ (top => top') /\ (top' => jumps > 0)
                /\ UNCHANGED <<chains, jumps, hook, payload>>
InsertJump == /\ jumps' = jumps + 1
              /\ top' = TRUE
              /\ UNCHANGED <<chains, legacy, hook, payload>>

HookOk == top /\ jumps = 1

-----------------------------------------------------------------------------
(* Cleanup: unhook the current and the older versions' chains, then flush   *)
(* and erase the chains, in the order of cleanup4 and cleanup6.             *)

Clean(why) == pc' = "check" /\ ctx' = why /\ k' = 0

\* daemon.rs: what each caller of cleanup does with its result.
CleanupDone(ok) ==
    /\ UNCHANGED <<sig, new, ctx, k>>
    /\ \/ ctx = "boot" /\ pc' = (IF ok THEN "loop" ELSE "error")
                       /\ UNCHANGED <<first, active, last>>
       \/ ctx = "idle" /\ pc' = "loop" /\ first' = ~ok /\ active' = None /\ last' = sig
       \/ ctx = "recover" /\ pc' = "loop" /\ first' = TRUE /\ active' = None
                          /\ UNCHANGED last
       \/ ctx = "exit" /\ pc' = (IF ok THEN "stopped" ELSE "error")
                       /\ UNCHANGED <<first, active, last>>

Recover == Clean("recover") /\ UNCHANGED daemon

\* del_jump: a failed check is taken for "no such jump", a failed delete and
\* the DelLimit-th delete give up.
DelJumpTrue(target) ==
    \/ ctx = "activate" /\ pc' = "insert" /\ UNCHANGED <<ctx, k, daemon>>
    \/ /\ ctx # "activate"
       /\ IF target = "hook" THEN pc' = "checkLegacy" /\ k' = 0
                             ELSE pc' = "flush" /\ k' = 1
       /\ UNCHANGED <<ctx, daemon>>
\* Mutant: cleanup4 drops the result of del_jump.
DelJumpIgnored == IF ctx = "activate" THEN Recover ELSE CleanupDone(TRUE)
DelJumpFalse == IF ctx = "activate" THEN Recover ELSE CleanupDone(FALSE)

CheckJump ==
    /\ pc = "check"
    /\ Query("C", jumps > 0, Goto("delete") /\ UNCHANGED daemon, DelJumpTrue("hook"))
CheckLegacy ==
    /\ pc = "checkLegacy"
    /\ Query("C", legacy > 0, Goto("deleteLegacy") /\ UNCHANGED daemon,
             DelJumpTrue("legacy"))
Deleted(next) == IF k + 1 < DelLimit
                 THEN pc' = next /\ k' = k + 1 /\ UNCHANGED <<ctx, daemon>>
                 ELSE DelJumpFalse
DeleteHookJump ==
    /\ pc = "delete"
    /\ Command("D", jumps > 0, DeleteJump, Deleted("check"), DelJumpFalse)
DeleteLegacyJump ==
    /\ pc = "deleteLegacy"
    /\ Command("D", legacy > 0, DeleteLegacy, Deleted("checkLegacy"), DelJumpFalse)

Order == <<"hook", "A", "B">>
FlushNext == /\ IF k < 3 THEN pc' = "flush" /\ k' = k + 1 ELSE pc' = "erase" /\ k' = 1
             /\ UNCHANGED <<ctx, daemon>>
EraseNext == IF k < 3 THEN pc' = "erase" /\ k' = k + 1 /\ UNCHANGED <<ctx, daemon>>
                      ELSE CleanupDone(TRUE)
CleanupFlush ==
    /\ pc = "flush"
    /\ Command("F", Order[k] \in chains, FlushChain(Order[k]), FlushNext, FlushNext)
CleanupErase ==
    /\ pc = "erase"
    /\ Command("X", Order[k] \in chains /\ IsEmpty(Order[k]) /\ ~Jumped(Order[k]),
               DropChain(Order[k]), EraseNext, EraseNext)

-----------------------------------------------------------------------------
(* Install: build the rule set in the unused payload chain, publish it.     *)

\* Mutant: the payload chain in use is rebuilt in place.
BuildInPlace == /\ pc' = "newChain" /\ new' = (IF active = None THEN "A" ELSE active)
                /\ UNCHANGED <<ctx, k, last, active>>
BeginInstall == /\ pc' = "newChain" /\ new' = Other(active)
                /\ UNCHANGED <<ctx, k, last, active>>
InstallDone == /\ pc' = "loop" /\ active' = new /\ last' = sig
               /\ UNCHANGED <<ctx, k, sig, first, new>>
Step(next) == Goto(next) /\ UNCHANGED daemon

NewChain ==
    /\ pc = "newChain"
    /\ Command("N", new \notin chains, CreateChain(new), Step("clear"), Step("clear"))
FillFirst == pc' = "fill" /\ k' = 1 /\ UNCHANGED <<ctx, daemon>>
Clear ==
    /\ pc = "clear"
    /\ Command("F", new \in chains, FlushChain(new), FillFirst, Recover)
FillNext == /\ IF k < NRules THEN pc' = "fill" /\ k' = k + 1
                            ELSE pc' = "newHook" /\ k' = k
            /\ UNCHANGED <<ctx, daemon>>
Fill ==
    /\ pc = "fill"
    /\ Command("A", new \in chains, AddRule(new, <<sig, k>>), FillNext, Recover)

\* activate
\* Mutant: the hook is always recreated, never replaced.
NewHookFlushed ==
    /\ pc = "newHook"
    /\ Command("N", "hook" \notin chains, CreateChain("hook"), Step("flushHook"),
               Step("flushHook"))
NewHook ==
    /\ pc = "newHook"
    /\ LET next == IF active = None THEN "flushHook" ELSE "swap"
       IN Command("N", "hook" \notin chains, CreateChain("hook"), Step(next), Step(next))
\* Mutant: a replacement that failed is taken for done.
SwapAssumed ==
    /\ pc = "swap"
    /\ Command("R", "hook" \in chains /\ hook # <<>> /\ new \in chains,
               SetHook([hook EXCEPT ![1] = new]), Step("list"), Step("list"))
Swap ==
    /\ pc = "swap"
    /\ Command("R", "hook" \in chains /\ hook # <<>> /\ new \in chains,
               SetHook([hook EXCEPT ![1] = new]), Step("list"), Step("flushHook"))
FlushHook ==
    /\ pc = "flushHook"
    /\ Command("F", "hook" \in chains, FlushChain("hook"), Step("addEntry"), Recover)
AddEntry ==
    /\ pc = "addEntry"
    /\ Command("A", "hook" \in chains /\ new \in chains, SetHook(Append(hook, new)),
               Step("list"), Recover)
\* Entries after the first are left by a partial recreation of the table.
List ==
    /\ pc = "list"
    /\ Query("S", Len(hook) > 1,
             pc' = "trim" /\ k' = Len(hook) - 1 /\ UNCHANGED <<ctx, daemon>>, Step("place"))
\* Mutant: the loop over the extra entries runs below the first.
TrimPastFirst == /\ IF k >= 0 THEN pc' = "trim" /\ k' = k - 1 ELSE pc' = "place" /\ k' = k
                 /\ UNCHANGED <<ctx, daemon>>
TrimNext == /\ IF k > 1 THEN pc' = "trim" /\ k' = k - 1 ELSE pc' = "place" /\ k' = k
            /\ UNCHANGED <<ctx, daemon>>
Trim ==
    /\ pc = "trim"
    /\ Command("D", Len(hook) > 1, SetHook(<<hook[1]>> \o SubSeq(hook, 3, Len(hook))),
               TrimNext, Recover)
Published == IF active = None THEN InstallDone ELSE Step("retire")
Place ==
    /\ pc = "place"
    /\ Query("S", HookOk, Published, Clean("activate") /\ UNCHANGED daemon)
Insert ==
    /\ pc = "insert"
    /\ Command("I", "hook" \in chains, InsertJump, Published, Recover)
Retire ==
    /\ pc = "retire"
    /\ Command("F", active \in chains, FlushChain(active), InstallDone, InstallDone)

-----------------------------------------------------------------------------
(* The daemon's loop                                                        *)

Loop ==
    /\ pc = "loop"
    /\ sig' = links
    /\ UNCHANGED <<table, env>>
    /\ \/ /\ first \/ links # last
          /\ first' = FALSE
          /\ \/ links # NoLinks /\ BeginInstall
             \/ links = NoLinks /\ active # None /\ Clean("idle")
                /\ UNCHANGED <<last, active, new>>
             \/ links = NoLinks /\ active = None /\ last' = links
                /\ UNCHANGED <<control, active, new>>
       \/ /\ ~first /\ links = last
          /\ pc' = (IF links = NoLinks THEN "loop" ELSE "okForward")
          /\ UNCHANGED <<ctx, k, first, last, active, new>>

\* rules_ok
Repair == BeginInstall /\ UNCHANGED <<sig, first>>
\* Mutant: rules_ok asks for a jump, not for the only one and the first rule.
OkForwardAnywhere ==
    /\ pc = "okForward"
    /\ Query("S", active # None /\ jumps > 0, Step("okHook"), Repair)
OkForward ==
    /\ pc = "okForward"
    /\ Query("S", active # None /\ HookOk, Step("okHook"), Repair)
OkHook ==
    /\ pc = "okHook"
    /\ Query("S", hook = <<active>>, Step("okPayload"), Repair)
OkPayload ==
    /\ pc = "okPayload"
    /\ Query("S", payload[active] = RuleSet(sig), Step("loop"), Repair)

\* STOP, paused, disable and remove are seen at the top of the loop.
Stop ==
    /\ pc = "loop"
    /\ Clean("exit") /\ Spend
    /\ UNCHANGED <<table, daemon, links, world>>
Start ==
    /\ pc \in Down
    /\ Clean("boot")
    /\ first' = TRUE /\ active' = None
    /\ UNCHANGED <<table, sig, last, new, env>>

-----------------------------------------------------------------------------
(* The environment                                                          *)

Crash ==
    /\ pc \notin Down
    /\ pc' = "dead" /\ Spend
    /\ UNCHANGED <<table, ctx, k, daemon, links, world>>
LinkChange ==
    /\ Spend
    /\ \E s \in (Sigs \cup {NoLinks}) \ {links} : links' = s
    /\ UNCHANGED <<table, control, daemon, world>>

FlushForward == /\ jumps' = 0 /\ top' = FALSE /\ legacy' = 0
                /\ UNCHANGED <<chains, hook, payload>>
Prepend == top' = FALSE /\ UNCHANGED <<chains, jumps, legacy, hook, payload>>
DupJump == /\ jumps \in 1 .. (MaxJumps - 1) /\ jumps' = jumps + 1
           /\ UNCHANGED <<chains, top, legacy, hook, payload>>
DupEntry == Len(hook) \in 1 .. (MaxJumps - 1) /\ SetHook(Append(hook, hook[1]))
NewTable == /\ chains' = {} /\ jumps' = 0 /\ top' = FALSE /\ legacy' = 0
            /\ hook' = <<>> /\ payload' = [c \in Payload |-> {}]
Netd ==
    /\ \/ "flushForward" \in Disturbances /\ FlushForward
       \/ "prepend" \in Disturbances /\ Prepend
       \/ "dupJump" \in Disturbances /\ DupJump
       \/ "dupEntry" \in Disturbances /\ DupEntry
       \/ "flushHook" \in Disturbances /\ FlushChain("hook")
       \/ "flushPayload" \in Disturbances /\ \E c \in Payload : FlushChain(c)
       \/ "newTable" \in Disturbances /\ NewTable
    /\ Spend
    /\ UNCHANGED <<control, daemon, links, world>>

-----------------------------------------------------------------------------
Init ==
    /\ chains = {} /\ jumps = 0 /\ top = FALSE
    /\ legacy \in 0 .. 1
    /\ hook = <<>> /\ payload = [c \in Payload |-> {}]
    /\ pc = "dead" /\ ctx = "boot" /\ k = 0
    /\ links \in Sigs \cup {NoLinks} /\ sig = NoLinks /\ last = NoLinks
    /\ first = TRUE /\ active = None /\ new = "A"
    /\ budget = Budget /\ world \in Worlds

Cleanup == \/ CheckJump \/ CheckLegacy \/ DeleteHookJump \/ DeleteLegacyJump
           \/ CleanupFlush \/ CleanupErase
Install == \/ NewChain \/ Clear \/ Fill
           \/ NewHook \/ Swap \/ FlushHook \/ AddEntry \/ List \/ Trim
           \/ Place \/ Insert \/ Retire
RulesOk == OkForward \/ OkHook \/ OkPayload
Daemon == Loop \/ RulesOk \/ Install \/ Cleanup
Environment == Start \/ Stop \/ Crash \/ LinkChange \/ Netd
Next == Daemon \/ Environment

Spec == Init /\ [][Next]_vars
\* The daemon's process is scheduled as long as it lives.
FairSpec == Spec /\ WF_vars(Daemon)

-----------------------------------------------------------------------------
(* Properties                                                               *)

TableOK ==
    /\ chains \in SUBSET Chain
    /\ jumps \in Nat /\ top \in BOOLEAN /\ legacy \in Nat
    /\ top => jumps > 0
    /\ hook \in Seq(Payload)
    /\ payload \in [Payload -> SUBSET Rule]
ControlOK ==
    /\ pc \in Down \cup Probe \cup Build \cup Publish \cup Unhook \cup Erase
              \cup {"loop", "checkLegacy", "deleteLegacy"}
    /\ ctx \in Contexts
    /\ k \in Nat
DaemonOK ==
    /\ sig \in Sigs \cup {NoLinks} /\ last \in Sigs \cup {NoLinks}
    /\ first \in BOOLEAN
    /\ active \in Payload \cup {None}
    /\ new \in Payload
EnvOK == links \in Sigs \cup {NoLinks} /\ budget \in Nat /\ world \in Worlds
TypeOK == TableOK /\ ControlOK /\ DaemonOK /\ EnvOK

\* What forwarded packets meet: the rules reachable from FORWARD.
Effective == IF jumps > 0 THEN UNION {payload[c] : c \in Range(hook)} ELSE {}
Covered == \E s \in Sigs : RuleSet(s) \subseteq Effective

\* -C and -D report what the table holds; netd neither copies our jump nor
\* empties a payload chain on its own.
Reliable == /\ Faulty \cap {"C", "D"} = {}
            /\ Disturbances \cap {"dupJump", "flushPayload"} = {}
\* Nobody else changes the table; -R and -S do as they are told.
Swappable == Disturbances = {} /\ Faulty \cap {"R", "S"} = {}

\* Forwarded packets meet either no rule of ours or a complete rule set: a set
\* under construction, or flushed for reuse, is never the one in force
\* (install4/install6 build in the other payload chain, activate publishes it).
NoPartialTraffic == Reliable => Effective = {} \/ Covered

\* Where nobody interferes, between the decision to replace a rule set and the
\* end of install, or the failure that makes the daemon recover, a set in force
\* stays in force, whatever commands but -R and -S fail or are killed after
\* their effect, in this install or before it: publishing is one replacement of
\* the hook's entry and the old chain is flushed only after it (install4
\* 432-436, activate).
SeamlessSwap == Swappable /\ pc \in Build \cup Publish /\ active # None => Covered

\* Where -C can be relied on, a daemon that reports a clean end (phase "stopped")
\* leaves no jump in FORWARD, neither its own nor an older version's (run_inner
\* 643-652, cleanup4).
CleanStop == "C" \notin Faulty /\ pc = "stopped" => jumps = 0 /\ legacy = 0

\* What Supervisor takes for granted (RuleTable): where nobody else changes the
\* table and -C can be relied on, an install that returns Ok has put exactly
\* the rule set of its links in force, one that fails no other, and a cleanup
\* leaves nothing, or what it found if it fails; whatever other commands failed,
\* or took effect and were reported as failed, in this or an earlier operation
\* (install4, activate, cleanup4, recover).  Other behaviours are mapped to no
\* change at all.
Alone == Disturbances = {} /\ "C" \notin Faulty
InOperation ==
    CASE pc = "stopped" -> <<"stopped">>
      [] pc \in {"error", "dead"} -> <<"failed">>
      [] pc \in Probe \cup {"loop"} -> <<"idle">>
      [] pc \in Build \cup Publish \/ (pc \in Unhook /\ ctx = "activate") -> <<"install", sig>>
      [] OTHER -> <<"cleanup", ctx>>
InTable == [hooked |-> jumps > 0,
            rules |-> IF HookOk /\ Len(hook) = 1 THEN payload[hook[1]] ELSE {}]
AsTable == INSTANCE RuleTable
    WITH Wanted <- [s \in Sigs |-> RuleSet(s)],
         rules <- IF Alone THEN InTable ELSE [hooked |-> FALSE, rules |-> {}],
         doing <- IF Alone THEN InOperation ELSE <<"failed">>
ImplementsTable == AsTable!Spec

\* A payload chain under construction is not the published one: "rule
\* replacement without flushing the currently active payload" (DEV.md).
InactiveBuild == pc \in {"clear", "fill"} /\ jumps > 0 /\ hook # <<>> => hook[1] # new

InForce == /\ HookOk /\ hook = <<active>> /\ payload[active] = RuleSet(links)

\* Once faults, netd and the links leave it alone, a running daemon brings the
\* table to exactly the rule set of its links and leaves it so, whatever state
\* the table was left in (rules_ok, install, recover).
SelfHeal == <>[](pc \in Down \/ links = NoLinks \/ InForce)

\* Once tethering has ended, a running daemon unhooks its rules: the cleanup
\* that fails is logged as "cleanup failed; retrying" (daemon.rs 480-488).
IdleUnhooks ==
    (pc \notin Down /\ links = NoLinks) ~> (jumps = 0 \/ pc \in Down \/ links # NoLinks)
=============================================================================
