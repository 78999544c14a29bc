--------------------------- MODULE FirewallProofs ---------------------------
(***************************************************************************)
(* Proofs about Firewall: its types, and that forwarded packets never meet *)
(* a partial rule set as long as -C and -D report what the table holds and *)
(* nobody copies our jump or empties a payload chain behind the daemon;    *)
(* that install and cleanup are operations with a result (RuleTable); and  *)
(* that the daemon leaves alone what it has installed.                     *)
(***************************************************************************)
EXTENDS Firewall, TLAPS

\* The counters stay where the code's loops keep them.
Counters == /\ pc \in Probe \cup Build => sig \in Sigs
            /\ pc = "fill" => k \in 1 .. NRules
            /\ pc \in Erase => k \in 1 .. 3
Rest == ControlOK /\ DaemonOK /\ EnvOK /\ Counters
Typed == TableOK /\ Rest

\* Every step leaves the environment's variables in their types.
Env == links' = links /\ world' = world /\ budget' \in Nat

USE FirewallAssumption
    DEF ControlOK, DaemonOK, EnvOK, Counters, Down, Probe, Build, Publish, Unhook,
        Erase, Contexts, Env

-----------------------------------------------------------------------------
(* The effects of the commands keep the table in its type.                  *)

LEMMA EmptyHook == <<>> \in Seq(Payload)
OBVIOUS
LEMMA SameTyped == TableOK /\ UNCHANGED table => TableOK'
BY DEF TableOK, table
LEMMA CreateTyped == ASSUME TableOK, NEW c \in Chain, CreateChain(c) PROVE TableOK'
BY DEF TableOK, CreateChain
LEMMA FlushTyped == ASSUME TableOK, NEW c \in Chain, FlushChain(c) PROVE TableOK'
BY EmptyHook DEF TableOK, FlushChain, Chain
LEMMA DropTyped == ASSUME TableOK, NEW c \in Chain, DropChain(c) PROVE TableOK'
BY DEF TableOK, DropChain
LEMMA AddTyped ==
    ASSUME TableOK, NEW c \in Payload, NEW r \in Rule, AddRule(c, r) PROVE TableOK'
BY DEF TableOK, AddRule
LEMMA HookTyped == ASSUME TableOK, NEW h \in Seq(Payload), SetHook(h) PROVE TableOK'
BY DEF TableOK, SetHook
LEMMA DeleteTyped == ASSUME TableOK, jumps > 0, DeleteJump PROVE TableOK'
BY DEF TableOK, DeleteJump
LEMMA LegacyTyped == ASSUME TableOK, legacy > 0, DeleteLegacy PROVE TableOK'
BY DEF TableOK, DeleteLegacy
LEMMA InsertTyped == ASSUME TableOK, InsertJump PROVE TableOK'
BY DEF TableOK, InsertJump
LEMMA NetdTyped == ASSUME TableOK, FlushForward \/ Prepend \/ DupJump \/ NewTable
                   PROVE TableOK'
<1>1. CASE FlushForward BY <1>1 DEF TableOK, FlushForward
<1>2. CASE Prepend BY <1>2 DEF TableOK, Prepend
<1>3. CASE DupJump BY <1>3 DEF TableOK, DupJump
<1>4. CASE NewTable BY <1>4, EmptyHook DEF TableOK, NewTable
<1>5. QED BY <1>1, <1>2, <1>3, <1>4

\* What -R, -D and -A do to the hook chain's entries.
LEMMA ReplaceHead ==
    ASSUME TableOK, new \in Payload, hook # <<>>
    PROVE /\ [hook EXCEPT ![1] = new] \in Seq(Payload)
          /\ [hook EXCEPT ![1] = new] # <<>>
          /\ [hook EXCEPT ![1] = new][1] = new
BY DEF TableOK
LEMMA RemoveSecond ==
    ASSUME TableOK, Len(hook) > 1
    PROVE /\ <<hook[1]>> \o SubSeq(hook, 3, Len(hook)) \in Seq(Payload)
          /\ <<hook[1]>> \o SubSeq(hook, 3, Len(hook)) # <<>>
          /\ (<<hook[1]>> \o SubSeq(hook, 3, Len(hook)))[1] = hook[1]
          /\ hook # <<>>
BY DEF TableOK
LEMMA AppendEntry ==
    ASSUME TableOK, NEW c \in Payload
    PROVE /\ Append(hook, c) \in Seq(Payload)
          /\ Append(hook, c) # <<>>
          /\ hook = <<>> => Append(hook, c)[1] = c
          /\ hook # <<>> => Append(hook, c)[1] = hook[1]
<1>1. hook \in Seq(Payload) BY DEF TableOK
<1>2. hook # <<>> => Len(hook) >= 1 BY <1>1
<1>3. QED BY <1>1, <1>2

LEMMA OnlyEntry ==
    ASSUME NEW c \in Payload, NEW d \in Payload
    PROVE  Len(<<c>>) = 1 /\ <<c>>[1] = c /\ [<<c>> EXCEPT ![1] = d] = <<d>>
OBVIOUS

-----------------------------------------------------------------------------
(* What a command's caller does next keeps the daemon in its type.          *)

LEMMA CleanupDoneTyped ==
    ASSUME Rest, NEW ok \in BOOLEAN, CleanupDone(ok), Env PROVE Rest'
BY DEF Rest, CleanupDone, None
LEMMA RecoverTyped == ASSUME Rest, Recover, Env PROVE Rest'
BY DEF Rest, Recover, Clean, daemon
LEMMA DelJumpTrueTyped ==
    ASSUME Rest, NEW t \in {"hook", "legacy"}, DelJumpTrue(t), Env PROVE Rest'
BY DEF Rest, DelJumpTrue, daemon
LEMMA DelJumpFalseTyped == ASSUME Rest, DelJumpFalse, Env PROVE Rest'
BY CleanupDoneTyped, RecoverTyped DEF DelJumpFalse
LEMMA DeletedTyped ==
    ASSUME Rest, NEW t \in Unhook \cup {"checkLegacy"}, Deleted(t), Env PROVE Rest'
BY DelJumpFalseTyped DEF Rest, Deleted, daemon
LEMMA StepTyped ==
    ASSUME Rest,
           NEW t \in Publish \cup Unhook \cup {"clear", "okHook", "okPayload", "loop",
                                               "checkLegacy", "deleteLegacy"},
           t \in {"clear", "okHook", "okPayload"} => pc \in Probe \cup Build,
           Step(t), Env
    PROVE  Rest'
BY DEF Rest, Step, Goto, daemon
LEMMA PublishedTyped == ASSUME Rest, Published, Env PROVE Rest'
BY StepTyped DEF Rest, Published, InstallDone, Payload
LEMMA BeginInstallTyped ==
    ASSUME Rest, BeginInstall, sig' \in Sigs, first' \in BOOLEAN, Env
    PROVE  Rest'
BY DEF Rest, BeginInstall, Other, Payload

-----------------------------------------------------------------------------
(* Every command and every step of the environment keeps the types.         *)

LEMMA CleanupTyped == Typed /\ Cleanup => Typed'
<1> SUFFICES ASSUME Typed, Cleanup PROVE Typed' OBVIOUS
<1> USE DEF Query, Command, Free, Spend, Rest, Typed
<1>1. CASE CheckJump
  <2>1. UNCHANGED table /\ Env /\ (Step("delete") \/ DelJumpTrue("hook"))
    BY <1>1 DEF CheckJump, Step
  <2>2. QED BY <2>1, SameTyped, StepTyped, DelJumpTrueTyped
<1>2. CASE CheckLegacy
  <2>1. UNCHANGED table /\ Env /\ (Step("deleteLegacy") \/ DelJumpTrue("legacy"))
    BY <1>2 DEF CheckLegacy, Step
  <2>2. QED BY <2>1, SameTyped, StepTyped, DelJumpTrueTyped
<1>3. CASE DeleteHookJump
  <2>1. /\ UNCHANGED table \/ (jumps > 0 /\ DeleteJump)
        /\ Env /\ (Deleted("check") \/ DelJumpFalse)
    BY <1>3 DEF DeleteHookJump
  <2>2. QED BY <2>1, SameTyped, DeleteTyped, DeletedTyped, DelJumpFalseTyped
<1>4. CASE DeleteLegacyJump
  <2>1. /\ UNCHANGED table \/ (legacy > 0 /\ DeleteLegacy)
        /\ Env /\ (Deleted("checkLegacy") \/ DelJumpFalse)
    BY <1>4 DEF DeleteLegacyJump
  <2>2. QED BY <2>1, SameTyped, LegacyTyped, DeletedTyped, DelJumpFalseTyped
<1>5. CASE CleanupFlush
  <2>1. Order[k] \in Chain
    BY <1>5 DEF CleanupFlush, Order, Chain, Payload
  <2>2. (UNCHANGED table \/ FlushChain(Order[k])) /\ Env /\ FlushNext
    BY <1>5 DEF CleanupFlush
  <2>3. Rest'
    BY <1>5, <2>2 DEF CleanupFlush, FlushNext, daemon
  <2>4. QED BY <2>1, <2>2, <2>3, SameTyped, FlushTyped
<1>6. CASE CleanupErase
  <2>1. Order[k] \in Chain
    BY <1>6 DEF CleanupErase, Order, Chain, Payload
  <2>2. (UNCHANGED table \/ DropChain(Order[k])) /\ Env /\ EraseNext
    BY <1>6 DEF CleanupErase
  <2>3. Rest'
    <3>1. CASE k < 3 BY <1>6, <2>2, <3>1 DEF CleanupErase, EraseNext, daemon
    <3>2. CASE ~(k < 3) BY <2>2, <3>2, CleanupDoneTyped DEF EraseNext
    <3>3. QED BY <3>1, <3>2
  <2>4. QED BY <2>1, <2>2, <2>3, SameTyped, DropTyped
<1>7. QED
  BY <1>1, <1>2, <1>3, <1>4, <1>5, <1>6 DEF Cleanup

LEMMA InstallTyped == Typed /\ Install => Typed'
<1> SUFFICES ASSUME Typed, Install PROVE Typed' OBVIOUS
<1> USE DEF Query, Command, Free, Spend, Rest, Typed
<1> new \in Payload /\ new \in Chain /\ "hook" \in Chain
  BY DEF Chain
<1>1. CASE NewChain
  <2>1. (UNCHANGED table \/ CreateChain(new)) /\ Env /\ Step("clear")
    BY <1>1 DEF NewChain
  <2>2. QED BY <1>1, <2>1, SameTyped, CreateTyped, StepTyped DEF NewChain
<1>2. CASE Clear
  <2>1. (UNCHANGED table \/ FlushChain(new)) /\ Env /\ (FillFirst \/ Recover)
    BY <1>2 DEF Clear
  <2>2. FillFirst => Rest'
    BY <1>2, <2>1 DEF Clear, FillFirst, daemon
  <2>3. QED BY <2>1, <2>2, SameTyped, FlushTyped, RecoverTyped
<1>3. CASE Fill
  <2>1. /\ UNCHANGED table \/ AddRule(new, <<sig, k>>)
        /\ Env /\ (FillNext \/ Recover)
    BY <1>3 DEF Fill
  <2>2. <<sig, k>> \in Rule
    BY <1>3 DEF Fill, Rule
  <2>3. FillNext => Rest'
    BY <1>3, <2>1 DEF Fill, FillNext, daemon
  <2>4. QED BY <2>1, <2>2, <2>3, SameTyped, AddTyped, RecoverTyped
<1>4. CASE NewHook
  <2>1. /\ UNCHANGED table \/ CreateChain("hook")
        /\ Env /\ (Step("flushHook") \/ Step("swap"))
    BY <1>4 DEF NewHook
  <2>2. QED BY <2>1, SameTyped, CreateTyped, StepTyped
<1>5. CASE Swap
  <2>1. /\ UNCHANGED table \/ (hook # <<>> /\ SetHook([hook EXCEPT ![1] = new]))
        /\ Env /\ (Step("list") \/ Step("flushHook"))
    BY <1>5 DEF Swap
  <2>2. QED BY <2>1, SameTyped, ReplaceHead, HookTyped, StepTyped
<1>6. CASE FlushHook
  <2>1. /\ UNCHANGED table \/ FlushChain("hook")
        /\ Env /\ (Step("addEntry") \/ Recover)
    BY <1>6 DEF FlushHook
  <2>2. QED BY <2>1, SameTyped, FlushTyped, StepTyped, RecoverTyped
<1>7. CASE AddEntry
  <2>1. /\ UNCHANGED table \/ SetHook(Append(hook, new))
        /\ Env /\ (Step("list") \/ Recover)
    BY <1>7 DEF AddEntry
  <2>2. QED BY <2>1, SameTyped, AppendEntry, HookTyped, StepTyped, RecoverTyped
<1>8. CASE List
  <2>1. /\ UNCHANGED table /\ Env
        /\ \/ Step("place")
           \/ Len(hook) > 1 /\ pc' = "trim" /\ k' = Len(hook) - 1 /\ UNCHANGED <<ctx, daemon>>
    BY <1>8 DEF List
  <2>2. Len(hook) \in Nat
    BY DEF TableOK
  <2>3. CASE Step("place")
    BY <2>1, <2>3, SameTyped, StepTyped
  <2>4. CASE Len(hook) > 1 /\ pc' = "trim" /\ k' = Len(hook) - 1 /\ UNCHANGED <<ctx, daemon>>
    <3>1. Rest' BY <2>1, <2>2, <2>4 DEF daemon
    <3>2. QED BY <2>1, <3>1, SameTyped
  <2>5. QED BY <2>1, <2>3, <2>4
<1>9. CASE Trim
  <2>1. /\ \/ UNCHANGED table
           \/ Len(hook) > 1 /\ SetHook(<<hook[1]>> \o SubSeq(hook, 3, Len(hook)))
        /\ Env /\ (TrimNext \/ Recover)
    BY <1>9 DEF Trim
  <2>2. TrimNext => Rest'
    BY <2>1 DEF TrimNext, daemon
  <2>3. QED BY <2>1, <2>2, SameTyped, RemoveSecond, HookTyped, RecoverTyped
<1>10. CASE Place
  <2>1. /\ UNCHANGED table /\ Env
        /\ Published \/ (Clean("activate") /\ UNCHANGED daemon)
    BY <1>10 DEF Place
  <2>2. Clean("activate") /\ UNCHANGED daemon => Rest'
    BY <2>1 DEF Clean, daemon
  <2>3. QED BY <2>1, <2>2, SameTyped, PublishedTyped
<1>11. CASE Insert
  <2>1. (UNCHANGED table \/ InsertJump) /\ Env /\ (Published \/ Recover)
    BY <1>11 DEF Insert
  <2>2. QED BY <2>1, SameTyped, InsertTyped, PublishedTyped, RecoverTyped
<1>12. CASE Retire
  <2>1. /\ UNCHANGED table \/ (active \in chains /\ FlushChain(active))
        /\ Env /\ InstallDone
    BY <1>12 DEF Retire
  <2>2. active \in chains => active \in Chain
    BY DEF TableOK
  <2>3. Rest'
    BY <2>1 DEF InstallDone
  <2>4. QED BY <2>1, <2>2, <2>3, SameTyped, FlushTyped
<1>13. QED
  BY <1>1, <1>2, <1>3, <1>4, <1>5, <1>6, <1>7, <1>8, <1>9, <1>10, <1>11, <1>12 DEF Install

LEMMA LoopTyped == Typed /\ (Loop \/ RulesOk) => Typed'
<1> SUFFICES ASSUME Typed, Loop \/ RulesOk PROVE Typed' OBVIOUS
<1> USE DEF Query, Free, Spend, Rest, Typed
<1>1. CASE Loop
  <2>1. TableOK' BY <1>1, SameTyped DEF Loop
  <2>2. Env BY <1>1 DEF Loop, env
  <2>3. CASE links # NoLinks /\ BeginInstall /\ first' = FALSE
    BY <1>1, <2>1, <2>2, <2>3, BeginInstallTyped DEF Loop
  <2>4. CASE Clean("idle") /\ first' = FALSE /\ UNCHANGED <<last, active, new>>
    BY <1>1, <2>1, <2>2, <2>4 DEF Loop, Clean
  <2>5. CASE links = NoLinks /\ last' = links /\ first' = FALSE
             /\ UNCHANGED <<control, active, new>>
    BY <1>1, <2>1, <2>2, <2>5 DEF Loop, control
  <2>6. CASE /\ pc' = (IF links = NoLinks THEN "loop" ELSE "okForward")
             /\ UNCHANGED <<ctx, k, first, last, active, new>>
    BY <1>1, <2>1, <2>2, <2>6 DEF Loop
  <2>7. QED BY <1>1, <2>3, <2>4, <2>5, <2>6 DEF Loop
<1>2. CASE RulesOk
  <2>1. /\ UNCHANGED table /\ Env /\ pc \in Probe
        /\ Step("okHook") \/ Step("okPayload") \/ Step("loop") \/ Repair
    BY <1>2 DEF RulesOk, OkForward, OkHook, OkPayload
  <2>2. Repair => Rest'
    BY <2>1, BeginInstallTyped DEF Repair
  <2>3. QED BY <2>1, <2>2, SameTyped, StepTyped
<1>3. QED BY <1>1, <1>2

LEMMA EnvironmentTyped == Typed /\ Environment => Typed'
<1> SUFFICES ASSUME Typed, Environment PROVE Typed' OBVIOUS
<1> USE DEF Spend, Rest, Typed
<1>1. CASE Stop
  BY <1>1, SameTyped DEF Stop, Clean, daemon
<1>2. CASE Start
  BY <1>2, SameTyped DEF Start, Clean, env
<1>3. CASE Crash
  BY <1>3, SameTyped DEF Crash, daemon
<1>4. CASE LinkChange
  BY <1>4, SameTyped DEF LinkChange, daemon, control
<1>5. CASE Netd
  <2>1. Rest'
    BY <1>5 DEF Netd, control, daemon
  <2>2. \/ FlushForward \/ Prepend \/ DupJump \/ NewTable
        \/ hook # <<>> /\ SetHook(Append(hook, hook[1]))
        \/ \E c \in Chain : FlushChain(c)
    BY <1>5 DEF Netd, DupEntry, Chain
  <2>3. hook # <<>> => hook[1] \in Payload
    BY DEF TableOK
  <2>4. TableOK'
    BY <2>2, <2>3, NetdTyped, AppendEntry, HookTyped, FlushTyped
  <2>5. QED BY <2>1, <2>4
<1>6. QED BY <1>1, <1>2, <1>3, <1>4, <1>5 DEF Environment

LEMMA TypedInit == Init => Typed
<1> SUFFICES ASSUME Init PROVE Typed OBVIOUS
<1>1. TableOK
  <2>1. payload \in [Payload -> SUBSET Rule] /\ legacy \in Nat BY DEF Init
  <2>2. QED BY <2>1, EmptyHook DEF Init, TableOK
<1>2. Rest BY DEF Init, Rest, None, Payload
<1>3. QED BY <1>1, <1>2 DEF Typed

LEMMA TypedNext == Typed /\ [Next]_vars => Typed'
<1> SUFFICES ASSUME Typed, [Next]_vars PROVE Typed' OBVIOUS
<1>1. CASE UNCHANGED vars
  BY <1>1, SameTyped DEF vars, Typed, Rest, table, control, daemon, env
<1>2. CASE Next
  BY <1>2, CleanupTyped, InstallTyped, LoopTyped, EnvironmentTyped DEF Next, Daemon
<1>3. QED BY <1>1, <1>2

\* Every variable keeps its type, for every number of rules and links, every
\* set of faults and disturbances and every limit of del_jump.
THEOREM TypeCorrect == Spec => []TypeOK
<1>1. Typed => TypeOK
  BY DEF Typed, Rest, TypeOK
<1>2. QED
  BY <1>1, TypedInit, TypedNext, PTL DEF Spec

LEMMA WorldFixed == [Next]_vars => world' = world
BY DEF vars, env, Next, Daemon, Environment, Loop, RulesOk, OkForward, OkHook, OkPayload,
       Install, NewChain, Clear, Fill, NewHook, Swap, FlushHook, AddEntry, List, Trim, Place,
       Insert, Retire, Cleanup, CheckJump, CheckLegacy, DeleteHookJump, DeleteLegacyJump,
       CleanupFlush, CleanupErase, Start, Stop, Crash, LinkChange, Netd, Command, Query

-----------------------------------------------------------------------------
(* NoPartialTraffic is not inductive: it says nothing of the chain under    *)
(* construction or of what the daemon remembers.  The invariant below ties  *)
(* active and new to the hook chain's first entry at every command.         *)

Complete(c) == \E s \in Sigs : payload[c] = RuleSet(s)
Publishing == pc \in Publish \/ (pc \in Unhook /\ ctx = "activate")
Entered == pc \in {"list", "trim", "place", "insert", "retire"}
           \/ (pc \in Unhook /\ ctx = "activate")
Settled == pc \in Probe \cup Build \cup {"loop", "newHook", "swap"}

\* FORWARD never jumps twice to the hook chain, and not at all once del_jump
\* has said so or while the daemon has no chain of its own.
Unhooked ==
    /\ jumps <= 1
    /\ pc \in Erase \cup {"insert", "checkLegacy", "deleteLegacy"} => jumps = 0
    /\ pc \in Erase \cup {"checkLegacy", "deleteLegacy"} => ctx # "activate"
    /\ (pc = "loop" \/ pc \in Probe \/ pc \in Build \/ Publishing) /\ active = None
       => jumps = 0
\* The chain under construction is not the daemon's chain; it holds the rules
\* added so far and is complete before it is published.
Spare ==
    /\ pc \in Build \/ Publishing => new # active
    /\ pc = "fill" /\ new \in chains => payload[new] = {sig} \X (1 .. k - 1)
    /\ Publishing /\ new \in chains => Complete(new)
\* The hook chain's first entry.
Entry ==
    /\ Settled /\ jumps > 0 /\ hook # <<>> => hook[1] = active
    /\ Entered /\ hook # <<>> => hook[1] = new /\ Complete(new)
    /\ pc = "addEntry" => hook = <<>>
    /\ jumps > 0 /\ hook # <<>> => Complete(hook[1])
Safe == Unhooked /\ Spare /\ Entry
IInv == Typed /\ Safe

LEMMA CleanupSafe == Reliable /\ IInv /\ Cleanup => Safe'
<1> SUFFICES ASSUME Reliable, IInv, Cleanup PROVE Safe' OBVIOUS
<1> USE DEF Query, Command, Free, Spend, Rest, Typed, IInv, Safe, Unhooked, Spare, Entry,
        Settled, Entered, Publishing, Complete, Reliable, table, daemon, DelJumpTrue,
        DelJumpFalse, Deleted, Recover, Clean, CleanupDone, Goto, None, TableOK
<1>1. CASE CheckJump
  BY <1>1 DEF CheckJump
<1>2. CASE CheckLegacy
  BY <1>2 DEF CheckLegacy
<1>3. CASE DeleteHookJump
  BY <1>3 DEF DeleteHookJump, DeleteJump
<1>4. CASE DeleteLegacyJump
  BY <1>4 DEF DeleteLegacyJump, DeleteLegacy
<1>5. CASE CleanupFlush
  BY <1>5 DEF CleanupFlush, FlushChain, FlushNext
<1>6. CASE CleanupErase
  BY <1>6 DEF CleanupErase, DropChain, EraseNext
<1>7. QED
  BY <1>1, <1>2, <1>3, <1>4, <1>5, <1>6 DEF Cleanup

LEMMA InstallSafe == Reliable /\ IInv /\ Install => Safe'
<1> SUFFICES ASSUME Reliable, IInv, Install PROVE Safe' OBVIOUS
<1> USE DEF Query, Command, Free, Spend, Rest, Typed, IInv, Safe, Unhooked, Spare, Entry,
        Settled, Entered, Publishing, Complete, table, daemon, Step, Recover, Clean,
        Goto, None, TableOK, Published, InstallDone, Payload, Chain
<1>1. CASE NewChain
  BY <1>1 DEF NewChain, CreateChain
<1>2. CASE Clear
  BY <1>2 DEF Clear, FlushChain, FillFirst
<1>3. CASE Fill
  BY <1>3 DEF Fill, FillNext, AddRule, RuleSet
<1>4. CASE NewHook
  BY <1>4 DEF NewHook, CreateChain
<1>5. CASE Swap
  BY <1>5, ReplaceHead DEF Swap, SetHook
<1>6. CASE FlushHook
  BY <1>6 DEF FlushHook, FlushChain
<1>7. CASE AddEntry
  BY <1>7, AppendEntry DEF AddEntry, SetHook
<1>8. CASE List
  BY <1>8 DEF List
<1>9. CASE Trim
  BY <1>9, RemoveSecond DEF Trim, TrimNext, SetHook
<1>10. CASE Place
  BY <1>10 DEF Place, HookOk
<1>11. CASE Insert
  BY <1>11 DEF Insert, InsertJump
<1>12. CASE Retire
  BY <1>12 DEF Retire, FlushChain
<1>13. QED
  BY <1>1, <1>2, <1>3, <1>4, <1>5, <1>6, <1>7, <1>8, <1>9, <1>10, <1>11, <1>12 DEF Install

LEMMA LoopSafe == IInv /\ (Loop \/ RulesOk) => Safe'
<1> SUFFICES ASSUME IInv, Loop \/ RulesOk PROVE Safe' OBVIOUS
<1> USE DEF Query, Free, Spend, Rest, Typed, IInv, Safe, Unhooked, Spare, Entry, Settled,
        Entered, Publishing, Complete, table, daemon, env, control, BeginInstall, Clean,
        Goto, None, Payload, Other
<1>1. CASE Loop
  BY <1>1 DEF Loop
<1>2. CASE OkForward
  BY <1>2 DEF OkForward, Step, Repair
<1>3. CASE OkHook
  BY <1>3 DEF OkHook, Step, Repair
<1>4. CASE OkPayload
  BY <1>4 DEF OkPayload, Step, Repair
<1>5. QED BY <1>1, <1>2, <1>3, <1>4 DEF RulesOk

LEMMA EnvironmentSafe == Reliable /\ IInv /\ Environment => Safe'
<1> SUFFICES ASSUME Reliable, IInv, Environment PROVE Safe' OBVIOUS
<1> USE DEF Spend, Rest, Typed, IInv, Safe, Unhooked, Spare, Entry, Settled, Entered,
        Publishing, Complete, Reliable, table, daemon, env, control, Clean, None
<1>1. CASE Stop
  BY <1>1 DEF Stop
<1>2. CASE Start
  BY <1>2 DEF Start
<1>3. CASE Crash
  BY <1>3 DEF Crash
<1>4. CASE LinkChange
  BY <1>4 DEF LinkChange
<1>5. CASE Netd
  <2>1. UNCHANGED <<control, daemon>>
    BY <1>5 DEF Netd
  <2>2. CASE FlushForward \/ Prepend
    BY <2>1, <2>2 DEF FlushForward, Prepend
  <2>3. CASE DupEntry
    BY <2>1, <2>3, AppendEntry DEF DupEntry, SetHook, TableOK
  <2>4. CASE FlushChain("hook")
    BY <2>1, <2>4 DEF FlushChain
  <2>5. CASE NewTable
    BY <2>1, <2>5 DEF NewTable
  <2>6. QED
    BY <1>5, <2>2, <2>3, <2>4, <2>5 DEF Netd
<1>6. QED BY <1>1, <1>2, <1>3, <1>4, <1>5 DEF Environment

\* Where -C and -D can be relied on, forwarded packets meet no rule or a
\* complete rule set, whatever other commands fail, whenever the daemon is
\* killed and restarted, and for every number of rules, links and retries.
THEOREM CompleteTraffic == Spec => []NoPartialTraffic
<1>1. Init => Typed /\ (Reliable => Safe)
  <2> SUFFICES ASSUME Init PROVE Typed /\ (Reliable => Safe) OBVIOUS
  <2>1. Typed BY TypedInit
  <2>2. Safe
    BY DEF Init, Safe, Unhooked, Spare, Entry, Settled, Entered, Publishing
  <2>3. QED BY <2>1, <2>2
<1>2. Typed /\ (Reliable => Safe) /\ [Next]_vars => (Typed /\ (Reliable => Safe))'
  <2> SUFFICES ASSUME Typed, Reliable => Safe, [Next]_vars, Reliable' PROVE Safe'
    BY TypedNext
  <2>1. Reliable /\ IInv
    BY WorldFixed DEF Reliable, Faulty, Disturbances, IInv
  <2>2. CASE UNCHANGED vars
    BY <2>1, <2>2 DEF vars, table, control, daemon, IInv, Safe, Unhooked, Spare, Entry,
       Settled, Entered, Publishing, Complete
  <2>3. CASE Next
    BY <2>1, <2>3, CleanupSafe, InstallSafe, LoopSafe, EnvironmentSafe DEF Next, Daemon
  <2>4. QED BY <2>2, <2>3
<1>3. Typed /\ (Reliable => Safe) => NoPartialTraffic
  <2> SUFFICES ASSUME IInv PROVE Effective = {} \/ Covered BY DEF NoPartialTraffic, IInv
  <2>1. CASE jumps > 0 /\ hook # <<>>
    <3>1. hook[1] \in Range(hook)
      BY <2>1 DEF IInv, Typed, TableOK, Range
    <3>2. payload[hook[1]] \subseteq Effective
      BY <2>1, <3>1 DEF Effective
    <3>3. QED
      BY <2>1, <3>2 DEF IInv, Safe, Entry, Complete, Covered
  <2>2. CASE ~(jumps > 0) \/ hook = <<>>
    BY <2>2 DEF Effective, Range
  <2>3. QED BY <2>1, <2>2
<1>4. QED
  BY <1>1, <1>2, <1>3, PTL DEF Spec

-----------------------------------------------------------------------------
(* A clean end.                                                             *)

\* Once both deletions are through, nothing puts a jump back.
Detached ==
    /\ pc \in {"checkLegacy", "deleteLegacy"} => jumps = 0
    /\ pc \in Erase \cup {"stopped"} => jumps = 0 /\ legacy = 0

\* Where -C can be relied on, a daemon that ends with phase "stopped" has left
\* no jump in FORWARD, whatever else fails and whatever netd does meanwhile.
THEOREM StopCorrect == Spec => []CleanStop
<1> DEFINE Trusted == "C" \notin Faulty
           SInv == Typed /\ (Trusted => Detached)
<1>1. Init => SInv
  BY TypedInit DEF Init, Detached
<1>2. SInv /\ [Next]_vars => SInv'
  <2> SUFFICES ASSUME Typed, Trusted => Detached, [Next]_vars, Trusted' PROVE Detached'
    BY TypedNext
  <2>0. "C" \notin Faulty
    BY WorldFixed DEF Faulty
  <2> "C" \notin Faulty /\ Detached
    BY <2>0
  <2> HIDE DEF Trusted, SInv
  <2> USE DEF Query, Command, Free, Spend, Typed, Rest, TableOK, Detached, table, daemon,
          control, env, Goto, Step, Clean, Recover
  <2>1. CASE UNCHANGED vars
    BY <2>1 DEF vars
  <2>2. CASE Cleanup
    <3> USE DEF DelJumpTrue, DelJumpFalse, Deleted, CleanupDone
    <3>1. CASE CheckJump BY <3>1 DEF CheckJump
    <3>2. CASE CheckLegacy BY <3>2 DEF CheckLegacy
    <3>3. CASE DeleteHookJump BY <3>3 DEF DeleteHookJump, DeleteJump
    <3>4. CASE DeleteLegacyJump BY <3>4 DEF DeleteLegacyJump, DeleteLegacy
    <3>5. CASE CleanupFlush BY <3>5 DEF CleanupFlush, FlushChain, FlushNext
    <3>6. CASE CleanupErase BY <3>6 DEF CleanupErase, DropChain, EraseNext
    <3>7. QED BY <2>2, <3>1, <3>2, <3>3, <3>4, <3>5, <3>6 DEF Cleanup
  <2>3. CASE Install
    BY <2>3 DEF Install, NewChain, Clear, Fill, NewHook, Swap, FlushHook, AddEntry, List,
       Trim, Place, Insert, Retire, FillFirst, FillNext, TrimNext, Published, InstallDone
  <2>4. CASE Loop \/ RulesOk
    BY <2>4 DEF Loop, RulesOk, OkForward, OkHook, OkPayload, Repair, BeginInstall
  <2>5. CASE Environment
    BY <2>5 DEF Environment, Stop, Start, Crash, LinkChange, Netd, FlushForward, Prepend,
       DupJump, DupEntry, NewTable, SetHook, FlushChain
  <2>6. QED BY <2>1, <2>2, <2>3, <2>4, <2>5 DEF Next, Daemon
<1>3. SInv => CleanStop
  BY DEF Detached, CleanStop
<1> HIDE DEF SInv
<1>4. QED
  BY <1>1, <1>2, <1>3, PTL DEF Spec

-----------------------------------------------------------------------------
(* Replacement without a gap.                                               *)

Activating == pc \in Unhook /\ ctx = "activate"
\* A daemon that has a chain finds it in force up to the swap, and the chain it
\* has built in force after it; the commands that unhook belong to a daemon
\* that has none.
InPlace ==
    /\ Settled /\ active # None => /\ HookOk /\ "hook" \in chains
                                   /\ hook = <<active>> /\ Complete(active)
    /\ pc \in {"list", "place", "retire"} => hook = <<new>>
    /\ pc \in {"list", "place", "retire"} /\ active # None => HookOk
    /\ pc \in {"flushHook", "addEntry", "insert"} \/ Activating => active = None
    /\ pc = "addEntry" => hook = <<>>
    /\ pc = "insert" \/ Activating => jumps = 0 /\ hook = <<new>>
    /\ pc \in {"swap", "retire"} => active # None
    /\ pc # "trim"
    /\ jumps <= 1 /\ (jumps > 0 => top)
Ready ==
    /\ pc \in Build \/ Publishing => new # active
    /\ pc = "fill" \/ Publishing => new \in chains
    /\ pc = "fill" => payload[new] = {sig} \X (1 .. k - 1)
    /\ Publishing => Complete(new)
    /\ Publishing /\ pc \notin {"newHook", "flushHook"} => "hook" \in chains
Begun ==
    /\ pc \in Erase \cup {"checkLegacy", "deleteLegacy"} => ctx # "activate"
    /\ pc \in Erase \cup Unhook \cup {"checkLegacy", "deleteLegacy"} /\ ctx = "boot"
       => active = None
SwapInv == Typed /\ InPlace /\ Ready /\ Begun

LEMMA SwapNext == Swappable /\ SwapInv /\ [Next]_vars => SwapInv'
<1> SUFFICES ASSUME Swappable, SwapInv, [Next]_vars PROVE (InPlace /\ Ready /\ Begun)'
  BY TypedNext DEF SwapInv
<1> USE DEF Query, Command, Free, Spend, Rest, Typed, SwapInv, InPlace, Ready, Begun,
        Settled, Activating, Publishing, Complete, Swappable, table, daemon, control, env,
        Recover, Clean, Goto, Step, None, TableOK, HookOk
<1>1. CASE UNCHANGED vars
  BY <1>1 DEF vars
<1>2. CASE Cleanup
  <2> USE DEF DelJumpTrue, DelJumpFalse, Deleted, CleanupDone
  <2>1. CASE CheckJump BY <1>2, <2>1 DEF CheckJump
  <2>2. CASE CheckLegacy BY <2>2 DEF CheckLegacy
  <2>3. CASE DeleteHookJump BY <2>3 DEF DeleteHookJump, DeleteJump
  <2>4. CASE DeleteLegacyJump BY <2>4 DEF DeleteLegacyJump, DeleteLegacy
  <2>5. CASE CleanupFlush BY <2>5 DEF CleanupFlush, FlushChain, FlushNext
  <2>6. CASE CleanupErase BY <2>6 DEF CleanupErase, DropChain, EraseNext
  <2>7. QED BY <1>2, <2>1, <2>2, <2>3, <2>4, <2>5, <2>6 DEF Cleanup
<1>3. CASE Install
  <2> USE DEF Published, InstallDone, Payload, Chain
  <2>1. CASE NewChain BY <2>1 DEF NewChain, CreateChain
  <2>2. CASE Clear BY <2>2 DEF Clear, FlushChain, FillFirst
  <2>3. CASE Fill BY <2>3 DEF Fill, FillNext, AddRule, RuleSet
  <2>4. CASE NewHook BY <2>4 DEF NewHook, CreateChain
  <2>5. CASE Swap
    <3>1. active \in Payload /\ new \in Payload /\ hook = <<active>>
      BY <2>5 DEF Swap
    <3> [hook EXCEPT ![1] = new] = <<new>>
      BY <3>1, OnlyEntry
    <3>2. SetHook(<<new>>) /\ Step("list")
      BY <2>5, <3>1, OnlyEntry DEF Swap
    <3>3. QED BY <2>5, <3>1, <3>2 DEF Swap, SetHook
  <2>6. CASE FlushHook BY <2>6 DEF FlushHook, FlushChain
  <2>7. CASE AddEntry BY <2>7, AppendEntry DEF AddEntry, SetHook
  <2>8. CASE List
    <3>1. Len(hook) = 1 BY <2>8, OnlyEntry DEF List
    <3>2. UNCHANGED table /\ Step("place") BY <2>8, <3>1 DEF List
    <3>3. QED BY <2>8, <3>2 DEF List
  <2>9. CASE Trim BY <2>9 DEF Trim
  <2>10. CASE Place BY <2>10 DEF Place
  <2>11. CASE Insert BY <2>11 DEF Insert, InsertJump
  <2>12. CASE Retire
    <3>1. active \in Payload \cup {None} /\ active # "hook" BY DEF Payload
    <3>2. hook' = hook /\ chains' = chains /\ HookOk' = HookOk /\ payload'[new] = payload[new]
      BY <2>12, <3>1 DEF Retire, FlushChain
    <3>3. active' = new /\ pc' = "loop"
      BY <2>12 DEF Retire
    <3>4. QED BY <2>12, <3>2, <3>3 DEF Retire
  <2>13. QED
    BY <1>3, <2>1, <2>2, <2>3, <2>4, <2>5, <2>6, <2>7, <2>8, <2>9, <2>10, <2>11, <2>12
       DEF Install
<1>4. CASE Loop \/ RulesOk
  <2> USE DEF BeginInstall, Repair, Payload, Other
  <2>1. CASE Loop BY <2>1 DEF Loop
  <2>2. CASE OkForward BY <2>2 DEF OkForward
  <2>3. CASE OkHook BY <2>3 DEF OkHook
  <2>4. CASE OkPayload BY <2>4 DEF OkPayload
  <2>5. QED BY <1>4, <2>1, <2>2, <2>3, <2>4 DEF RulesOk
<1>5. CASE Environment
  <2>1. ~Netd BY DEF Netd
  <2>2. QED BY <1>5, <2>1 DEF Environment, Stop, Start, Crash, LinkChange
<1>6. QED BY <1>1, <1>2, <1>3, <1>4, <1>5 DEF Next, Daemon

\* Where -R and -S do as they are told and nobody else changes the table, a rule
\* set in force is replaced without a moment in which no complete rule set is in
\* force, whatever other commands fail and whenever the daemon dies.
THEOREM Seamless == Spec => []SeamlessSwap
<1>1. Init => Typed /\ (Swappable => SwapInv)
  BY TypedInit DEF Init, SwapInv, InPlace, Ready, Begun, Settled, Activating, Publishing
<1>2. Typed /\ (Swappable => SwapInv) /\ [Next]_vars => (Typed /\ (Swappable => SwapInv))'
  <2> SUFFICES ASSUME Typed, Swappable => SwapInv, [Next]_vars, Swappable' PROVE SwapInv'
    BY TypedNext
  <2>1. Swappable
    BY WorldFixed DEF Swappable, Faulty, Disturbances
  <2>2. QED
    BY <2>1, SwapNext
<1>3. Typed /\ (Swappable => SwapInv) => SeamlessSwap
  <2> SUFFICES ASSUME SwapInv, pc \in Build \cup Publish, active # None PROVE Covered
    BY DEF SeamlessSwap
  <2>1. PICK c \in Payload : jumps > 0 /\ hook = <<c>> /\ Complete(c)
    BY DEF SwapInv, InPlace, Ready, Settled, Publishing, HookOk, Typed, Rest
  <2>2. payload[c] \subseteq Effective
    BY <2>1 DEF Effective, Range
  <2>3. QED BY <2>1, <2>2 DEF Complete, Covered
<1>4. QED
  BY <1>1, <1>2, <1>3, PTL DEF Spec

-----------------------------------------------------------------------------
(* Install and cleanup as operations with a result.                         *)

\* Nobody else changes the table: there is one jump at most and one entry at
\* most, and activate knows which.
Single ==
    /\ jumps <= 1 /\ (jumps > 0 => top)
    /\ pc \in Erase \cup {"insert", "checkLegacy", "deleteLegacy"} => jumps = 0
    /\ pc \in Erase \cup {"checkLegacy", "deleteLegacy"} => ctx # "activate"
    /\ pc = "retire" => jumps > 0
    /\ hook = <<>> \/ \E c \in Payload : hook = <<c>>
    /\ Entered => hook = <<new>>
    /\ pc = "addEntry" => hook = <<>>
    /\ pc # "trim"
\* The chain that is published holds what install has put there.
Built ==
    /\ pc \in Build \/ Publishing => new # active
    /\ pc = "fill" \/ Publishing => new \in chains
    /\ pc = "fill" => payload[new] = {sig} \X (1 .. k - 1)
    /\ Publishing => sig \in Sigs /\ payload[new] = RuleSet(sig)
AInv == Typed /\ Single /\ Built

LEMMA AloneNext == Alone /\ AInv /\ [Next]_vars => AInv'
<1> SUFFICES ASSUME Alone, AInv, [Next]_vars PROVE (Single /\ Built)'
  BY TypedNext DEF AInv
<1> USE DEF Query, Command, Free, Spend, Rest, Typed, AInv, Single, Built, Entered,
        Publishing, Alone, table, daemon, control, env, Recover, Clean, Goto, Step, None,
        TableOK
<1>1. CASE UNCHANGED vars
  BY <1>1 DEF vars
<1>2. CASE Cleanup
  <2> USE DEF DelJumpTrue, DelJumpFalse, Deleted, CleanupDone
  <2>1. CASE CheckJump BY <2>1 DEF CheckJump
  <2>2. CASE CheckLegacy BY <2>2 DEF CheckLegacy
  <2>3. CASE DeleteHookJump BY <2>3 DEF DeleteHookJump, DeleteJump
  <2>4. CASE DeleteLegacyJump BY <2>4 DEF DeleteLegacyJump, DeleteLegacy
  <2>5. CASE CleanupFlush BY <2>5 DEF CleanupFlush, FlushChain, FlushNext
  <2>6. CASE CleanupErase BY <2>6 DEF CleanupErase, DropChain, EraseNext
  <2>7. QED BY <1>2, <2>1, <2>2, <2>3, <2>4, <2>5, <2>6 DEF Cleanup
<1>3. CASE Install
  <2> USE DEF Published, InstallDone, Payload, Chain
  <2>1. CASE NewChain BY <2>1 DEF NewChain, CreateChain
  <2>2. CASE Clear BY <2>2 DEF Clear, FlushChain, FillFirst
  <2>3. CASE Fill BY <2>3 DEF Fill, FillNext, AddRule, RuleSet
  <2>4. CASE NewHook BY <2>4 DEF NewHook, CreateChain
  <2>5. CASE Swap
    <3>1. hook # <<>> => [hook EXCEPT ![1] = new] = <<new>>
      BY OnlyEntry
    <3>2. /\ UNCHANGED table \/ SetHook(<<new>>)
          /\ \/ SetHook(<<new>>) /\ Step("list")
             \/ Step("flushHook")
      BY <2>5, <3>1 DEF Swap
    <3>3. QED BY <2>5, <3>2 DEF Swap, SetHook
  <2>6. CASE FlushHook BY <2>6 DEF FlushHook, FlushChain
  <2>7. CASE AddEntry BY <2>7, AppendEntry DEF AddEntry, SetHook
  <2>8. CASE List
    <3>1. Len(hook) = 1 BY <2>8, OnlyEntry DEF List
    <3>2. UNCHANGED table /\ Step("place") BY <2>8, <3>1 DEF List
    <3>3. QED BY <2>8, <3>2 DEF List
  <2>9. CASE Trim BY <2>9 DEF Trim
  <2>10. CASE Place BY <2>10 DEF Place, HookOk
  <2>11. CASE Insert BY <2>11 DEF Insert, InsertJump
  <2>12. CASE Retire BY <2>12 DEF Retire, FlushChain
  <2>13. QED
    BY <1>3, <2>1, <2>2, <2>3, <2>4, <2>5, <2>6, <2>7, <2>8, <2>9, <2>10, <2>11, <2>12
       DEF Install
<1>4. CASE Loop \/ RulesOk
  <2> USE DEF BeginInstall, Repair, Payload, Other
  <2>1. CASE Loop BY <2>1 DEF Loop
  <2>2. CASE OkForward BY <2>2 DEF OkForward
  <2>3. CASE OkHook BY <2>3 DEF OkHook
  <2>4. CASE OkPayload BY <2>4 DEF OkPayload
  <2>5. QED BY <1>4, <2>1, <2>2, <2>3, <2>4 DEF RulesOk
<1>5. CASE Environment
  <2>1. ~Netd BY DEF Netd
  <2>2. QED BY <1>5, <2>1 DEF Environment, Stop, Start, Crash, LinkChange
<1>6. QED BY <1>1, <1>2, <1>3, <1>4, <1>5 DEF Next, Daemon

\* What the refinement sees of the table.
Nothing == [hooked |-> FALSE, rules |-> {}]
Whole(s) == [hooked |-> TRUE, rules |-> RuleSet(s)]
Wrecks == [hooked : {TRUE}, rules : (SUBSET Rule) \ {RuleSet(s) : s \in Sigs}]
Partly(s) == InTable' \in {InTable, Nothing, Whole(s)} \cup Wrecks

LEMMA Apart == ASSUME NEW s \in Sigs, NEW t \in Sigs, NEW i, <<s, i>> \in RuleSet(t)
               PROVE  s = t
BY DEF RuleSet
LEMMA NonEmpty == ASSUME NEW s \in Sigs PROVE <<s, 1>> \in RuleSet(s)
BY DEF RuleSet

\* A set that is empty or holds a rule of s is the set of no other signature.
LEMMA OfOne ==
    ASSUME NEW s \in Sigs, NEW r \in SUBSET Rule, r = {} \/ \E i : <<s, i>> \in r
    PROVE  [hooked |-> TRUE, rules |-> r] \in {Whole(s)} \cup Wrecks
<1>1. ASSUME NEW t \in Sigs, r = RuleSet(t) PROVE t = s
  <2>1. <<t, 1>> \in r BY <1>1, NonEmpty
  <2>2. PICK i : <<s, i>> \in r BY <2>1
  <2>3. QED BY <1>1, <2>2, Apart
<1>2. CASE r = RuleSet(s) BY <1>2 DEF Whole
<1>3. CASE \A t \in Sigs : r # RuleSet(t) BY <1>3 DEF Wrecks
<1>4. QED BY <1>1, <1>2, <1>3

\* The table with one jump or none, and one entry or none.
LEMMA Detachment == jumps' = 0 => InTable' = Nothing
<1>1. jumps' = 0 => ~HookOk' /\ (jumps' > 0) = FALSE BY DEF HookOk
<1>2. QED BY <1>1 DEF InTable, Nothing
LEMMA Attachment ==
    ASSUME jumps' = 1, top', NEW c \in Payload, hook' = <<c>>
    PROVE  InTable' = [hooked |-> TRUE, rules |-> payload'[c]]
<1>1. HookOk' /\ (jumps' > 0) = TRUE BY DEF HookOk
<1>2. Len(hook') = 1 /\ hook'[1] = c BY OnlyEntry
<1>3. QED BY <1>1, <1>2 DEF InTable
LEMMA Emptied ==
    ASSUME jumps' = 1, hook' = <<>> PROVE InTable' = [hooked |-> TRUE, rules |-> {}]
<1>1. Len(hook') # 1 /\ (jumps' > 0) = TRUE OBVIOUS
<1>2. QED BY <1>1 DEF InTable
LEMMA TableKept == UNCHANGED <<jumps, top, hook, payload>> => InTable' = InTable
BY DEF InTable, HookOk

\* What filling or flushing the chain under construction does to the table.
LEMMA Rebuilt ==
    ASSUME TableOK, new \in Payload, hook = <<>> \/ \E c \in Payload : hook = <<c>>,
           jumps' = 1, top', UNCHANGED <<jumps, top, hook>>, sig \in Sigs,
           NEW r \in SUBSET Rule, r = {} \/ \E i : <<sig, i>> \in r,
           payload' = [payload EXCEPT ![new] = r]
    PROVE  Partly(sig)
<1>1. CASE hook = <<>>
  BY <1>1, Emptied, OfOne DEF Partly
<1>2. CASE hook = <<new>>
  <2>1. payload'[new] = r BY DEF TableOK
  <2>2. InTable' = [hooked |-> TRUE, rules |-> r] BY <1>2, <2>1, Attachment
  <2>3. QED BY <2>2, OfOne DEF Partly
<1>3. ASSUME NEW c \in Payload, hook = <<c>>, c # new PROVE Partly(sig)
  <2>1. payload'[c] = payload[c] BY <1>3 DEF TableOK
  <2>2. InTable' = InTable BY <1>3, <2>1, OnlyEntry DEF InTable, HookOk
  <2>3. QED BY <2>2 DEF Partly
<1>4. QED BY <1>1, <1>2, <1>3

\* What a step of install, or of the cleanup within it, does to the table.
LEMMA InstallTable == Alone /\ AInv /\ Install => Partly(sig)
<1> SUFFICES ASSUME Alone, AInv, AInv', Install PROVE Partly(sig)
  BY AloneNext DEF Next, Daemon
<1> USE DEF Query, Command, table
<1>1. /\ new \in Payload /\ TableOK /\ sig \in Sigs
      /\ hook = <<>> \/ \E c \in Payload : hook = <<c>>
      /\ jumps' \in {0, 1} /\ (jumps' = 1 => top')
  BY DEF AInv, Typed, Rest, Single, Built, TableOK, Install, NewChain, Clear, Fill, NewHook,
     Swap, FlushHook, AddEntry, List, Trim, Place, Insert, Retire, Publishing
<1>2. CASE jumps' = 0
  BY <1>2, Detachment DEF Partly
<1>3. CASE UNCHANGED <<jumps, top, hook, payload>>
  BY <1>3, TableKept DEF Partly
<1>4. CASE jumps' = 1 /\ Clear
  <2>1. UNCHANGED table \/ (payload' = [payload EXCEPT ![new] = {}] /\ UNCHANGED <<jumps, top, hook>>)
    BY <1>1, <1>4 DEF Clear, FlushChain, Payload
  <2>2. QED BY <1>1, <1>3, <1>4, <2>1, Rebuilt
<1>5. CASE jumps' = 1 /\ Fill
  <2>1. /\ <<sig, k>> \in Rule
        /\ \/ UNCHANGED table
           \/ /\ payload' = [payload EXCEPT ![new] = payload[new] \cup {<<sig, k>>}]
              /\ UNCHANGED <<jumps, top, hook>>
    BY <1>1, <1>5 DEF Fill, AddRule, AInv, Typed, Rest, Rule, TableOK
  <2>2. payload[new] \cup {<<sig, k>>} \in SUBSET Rule
    BY <1>1, <2>1 DEF TableOK
  <2>3. QED BY <1>1, <1>3, <1>5, <2>1, <2>2, Rebuilt
<1>6. CASE jumps' = 1 /\ (Swap \/ AddEntry \/ Insert)
  <2>1. UNCHANGED table \/ (hook' = <<new>> /\ payload'[new] = RuleSet(sig))
    <3>1. CASE Swap
      BY <3>1, <1>1, OnlyEntry DEF Swap, SetHook, AInv, Built, Publishing
    <3>2. CASE AddEntry
      BY <3>2, <1>1 DEF AddEntry, SetHook, AInv, Single, Built, Publishing
    <3>3. CASE Insert
      BY <3>3, <1>1 DEF Insert, InsertJump, AInv, Single, Built, Publishing, Entered
    <3>4. QED BY <1>6, <3>1, <3>2, <3>3
  <2>2. QED BY <1>1, <1>3, <1>6, <2>1, Attachment DEF Partly, Whole
<1>7. CASE jumps' = 1 /\ FlushHook
  <2>1. UNCHANGED table \/ hook' = <<>>
    BY <1>7 DEF FlushHook, FlushChain
  <2>2. [hooked |-> TRUE, rules |-> {}] \in {Whole(sig)} \cup Wrecks
    BY <1>1, OfOne
  <2>3. QED BY <1>3, <1>7, <2>1, <2>2, Emptied DEF Partly
<1>8. CASE Retire
  <2>1. hook = <<new>> /\ new # active /\ active \in Payload \cup {None}
    BY <1>8 DEF Retire, AInv, Typed, Rest, Single, Built, Entered, Publishing
  <2>2. hook' = hook /\ jumps' = jumps /\ top' = top /\ payload'[new] = payload[new]
    <3>1. active # "hook" BY <2>1 DEF Payload, None
    <3>2. UNCHANGED table \/ FlushChain(active) BY <1>8 DEF Retire
    <3>3. QED BY <1>1, <2>1, <3>1, <3>2 DEF FlushChain, TableOK
  <2>3. InTable' = InTable
    BY <1>1, <2>1, <2>2, OnlyEntry DEF InTable, HookOk
  <2>4. QED BY <2>3 DEF Partly
<1>9. CASE NewChain \/ NewHook \/ List \/ Place
  BY <1>3, <1>9 DEF NewChain, NewHook, List, Place, CreateChain
<1>10. ~Trim
  BY DEF Trim, AInv, Single
<1>11. QED
  BY <1>1, <1>2, <1>4, <1>5, <1>6, <1>7, <1>8, <1>9, <1>10 DEF Install

\* Where the daemon is, and the operation that is.
InOperationIs ==
    /\ pc \in Probe \cup {"loop"} => InOperation = <<"idle">>
    /\ pc = "stopped" => InOperation = <<"stopped">>
    /\ pc \in {"error", "dead"} => InOperation = <<"failed">>
    /\ pc \in Build \cup Publish \/ (pc \in Unhook /\ ctx = "activate")
       => InOperation = <<"install", sig>>
    /\ pc \in Unhook /\ ctx # "activate" => InOperation = <<"cleanup", ctx>>
    /\ pc \in Erase \cup {"checkLegacy", "deleteLegacy"} => InOperation = <<"cleanup", ctx>>
LEMMA Operation == InOperationIs /\ InOperationIs'
BY DEF InOperationIs, InOperation

\* How a cleanup goes on, and how it ends.
Cleans ==
    \/ InOperation' = InOperation
    \/ /\ InTable' = Nothing
       /\ InOperation' = IF ctx = "exit" THEN <<"stopped">> ELSE <<"idle">>
    \/ InOperation' = IF ctx \in {"boot", "exit"} THEN <<"failed">> ELSE <<"idle">>
LEMMA CleanupEnds ==
    ASSUME ctx \in Contexts, ctx # "activate", NEW ok \in BOOLEAN, CleanupDone(ok),
           ok => InTable' = Nothing
    PROVE  Cleans
<1>1. CASE ctx = "boot" BY <1>1, Operation DEF CleanupDone, InOperationIs, Cleans
<1>2. CASE ctx = "idle" BY <1>2, Operation DEF CleanupDone, InOperationIs, Cleans
<1>3. CASE ctx = "recover" BY <1>3, Operation DEF CleanupDone, InOperationIs, Cleans
<1>4. CASE ctx = "exit" BY <1>4, Operation DEF CleanupDone, InOperationIs, Cleans
<1>5. QED BY <1>1, <1>2, <1>3, <1>4

LEMMA CleanupTable ==
    ASSUME Alone, AInv, Cleanup
    PROVE  /\ InTable' \in {InTable, Nothing}
           /\ pc \in Unhook /\ ctx = "activate"
              => InOperation' \in {<<"install", sig>>, <<"cleanup", "recover">>}
           /\ ~(pc \in Unhook /\ ctx = "activate") => Cleans
<1> USE DEF Query, Command, Typed, Rest, AInv, Single, table, TableOK, Alone
<1>0. ctx \in Contexts /\ jumps \in {0, 1} OBVIOUS
<1> HIDE DEF Typed, Rest, AInv, Single, TableOK, Alone
<1>1. CASE CheckJump
  <2>1. InTable' = InTable BY <1>1, TableKept DEF CheckJump
  <2>2. pc = "check" /\ ((pc' = "delete" /\ ctx' = ctx /\ sig' = sig) \/ (jumps = 0 /\ DelJumpTrue("hook")))
    BY <1>0, <1>1 DEF CheckJump, Goto, daemon, Alone
  <2>3. CASE pc' = "delete" /\ ctx' = ctx /\ sig' = sig
    BY <2>1, <2>2, <2>3, Operation DEF InOperationIs, Cleans
  <2>4. CASE jumps = 0 /\ DelJumpTrue("hook")
    BY <2>1, <2>2, <2>4, Operation DEF InOperationIs, Cleans, DelJumpTrue, daemon
  <2>5. QED BY <2>2, <2>3, <2>4
<1>2. CASE CheckLegacy
  <2>1. InTable' = InTable BY <1>2, TableKept DEF CheckLegacy
  <2>2. pc = "checkLegacy" /\ ctx # "activate" /\ ctx' = ctx /\ pc' \in {"deleteLegacy", "flush"}
    BY <1>2 DEF CheckLegacy, Goto, DelJumpTrue, AInv, Single
  <2>3. QED BY <2>1, <2>2, Operation DEF InOperationIs, Cleans
<1>3. CASE DeleteHookJump
  <2>1. InTable' \in {InTable, Nothing}
    BY <1>0, <1>3, TableKept, Detachment DEF DeleteHookJump, DeleteJump
  <2>2. pc = "delete" /\ (DelJumpFalse \/ (pc' = "check" /\ ctx' = ctx /\ sig' = sig))
    BY <1>3 DEF DeleteHookJump, Deleted, daemon
  <2>3. CASE pc' = "check" /\ ctx' = ctx /\ sig' = sig
    BY <2>1, <2>2, <2>3, Operation DEF InOperationIs, Cleans
  <2>4. CASE DelJumpFalse /\ ctx = "activate"
    BY <2>1, <2>2, <2>4, Operation DEF DelJumpFalse, Recover, Clean, InOperationIs
  <2>5. CASE DelJumpFalse /\ ctx # "activate"
    BY <1>0, <2>1, <2>5, CleanupEnds DEF DelJumpFalse
  <2>6. QED BY <2>2, <2>3, <2>4, <2>5
<1>4. CASE DeleteLegacyJump
  <2>1. jumps = 0 /\ pc = "deleteLegacy" /\ ctx # "activate"
    BY <1>4 DEF DeleteLegacyJump, AInv, Single
  <2>2. jumps' = 0
    BY <1>4, <2>1 DEF DeleteLegacyJump, DeleteLegacy
  <2>3. InTable' = Nothing BY <2>2, Detachment
  <2>4. DelJumpFalse \/ (pc' = "checkLegacy" /\ ctx' = ctx)
    BY <1>4 DEF DeleteLegacyJump, Deleted
  <2>5. CASE pc' = "checkLegacy" /\ ctx' = ctx
    BY <2>1, <2>3, <2>5, Operation DEF InOperationIs, Cleans
  <2>6. CASE DelJumpFalse
    BY <1>0, <2>1, <2>3, <2>6, CleanupEnds DEF DelJumpFalse
  <2>7. QED BY <2>4, <2>5, <2>6
<1>5. CASE CleanupFlush \/ CleanupErase
  <2>1. jumps = 0 /\ pc \in Erase /\ ctx # "activate"
    BY <1>5 DEF CleanupFlush, CleanupErase, AInv, Single
  <2>2. jumps' = 0
    BY <1>5, <2>1 DEF CleanupFlush, CleanupErase, FlushChain, DropChain
  <2>3. InTable' = Nothing BY <2>2, Detachment
  <2>4. CleanupDone(TRUE) \/ (pc' \in Erase /\ ctx' = ctx)
    BY <1>5 DEF CleanupFlush, CleanupErase, FlushNext, EraseNext
  <2>5. CASE pc' \in Erase /\ ctx' = ctx
    BY <2>1, <2>3, <2>5, Operation DEF InOperationIs, Cleans
  <2>6. CASE CleanupDone(TRUE)
    BY <1>0, <2>1, <2>3, <2>6, CleanupEnds
  <2>7. QED BY <2>1, <2>3, <2>4, <2>5, <2>6
<1>6. QED BY <1>1, <1>2, <1>3, <1>4, <1>5 DEF Cleanup

LEMMA RecoverBegins == Recover => InOperation' = <<"cleanup", "recover">>
BY Operation DEF Recover, Clean, InOperationIs

\* How an install goes on, and how it ends.
LEMMA InstallEnds ==
    ASSUME Alone, AInv, Install
    PROVE  \/ InOperation' \in {<<"install", sig>>, <<"cleanup", "recover">>}
           \/ InOperation' = <<"idle">> /\ InTable' = Whole(sig)
<1> USE DEF Query, Command
<1>1. CASE Place \/ Insert \/ Retire
  <2>1. hook = <<new>> /\ new \in Payload /\ payload[new] = RuleSet(sig) /\ new # active
    BY <1>1 DEF Place, Insert, Retire, AInv, Typed, Rest, Single, Built, Entered, Publishing
  <2>2. CASE InstallDone /\ jumps' = 1 /\ top' /\ hook' = hook /\ payload'[new] = payload[new]
    <3>1. InTable' = Whole(sig) BY <2>1, <2>2, Attachment DEF Whole
    <3>2. QED BY <2>2, <3>1, Operation DEF InstallDone, InOperationIs
  <2>3. CASE Step("retire") \/ (Clean("activate") /\ UNCHANGED daemon)
    BY <2>3, Operation DEF Step, Goto, daemon, Clean, InOperationIs
  <2>4. CASE Recover BY <2>4, RecoverBegins
  <2>5. CASE Place
    BY <2>2, <2>3, <2>5 DEF Place, Published, HookOk, table
  <2>6. CASE Insert
    <3>1. jumps = 0 BY <2>6 DEF Insert, AInv, Single
    <3>2. QED BY <2>2, <2>3, <2>4, <2>6, <3>1 DEF Insert, InsertJump, Published
  <2>7. CASE Retire
    <3>1. active # "hook" BY <2>7 DEF Retire, AInv, Typed, Rest, Payload, None
    <3>2. UNCHANGED table \/ FlushChain(active) BY <2>7 DEF Retire
    <3>3. jumps = 1 /\ top BY <2>7 DEF Retire, AInv, Single, Typed, TableOK
    <3>4. hook' = hook /\ jumps' = jumps /\ top' = top /\ payload'[new] = payload[new]
      BY <2>1, <3>1, <3>2 DEF FlushChain, AInv, Typed, TableOK, table
    <3>5. QED BY <2>2, <2>7, <3>3, <3>4 DEF Retire
  <2>8. QED BY <1>1, <2>5, <2>6, <2>7
<1>2. CASE NewChain \/ Clear \/ Fill \/ NewHook \/ Swap \/ FlushHook \/ AddEntry \/ List \/ Trim
  <2>1. Recover \/ (pc' \in Build \cup Publish /\ sig' = sig)
    BY <1>2 DEF NewChain, Clear, Fill, NewHook, Swap, FlushHook, AddEntry, List, Trim, Step,
       Goto, daemon, FillFirst, FillNext, TrimNext
  <2>2. QED BY <2>1, RecoverBegins, Operation DEF InOperationIs
<1>3. QED BY <1>1, <1>2 DEF Install

Seen == <<IF Alone THEN InTable ELSE [hooked |-> FALSE, rules |-> {}],
          IF Alone THEN InOperation ELSE <<"failed">>>>
TableInv == Typed /\ (Alone => AInv)

LEMMA AloneFixed == [Next]_vars => Alone' = Alone
BY WorldFixed DEF Alone, Disturbances, Faulty

LEMMA TableInit == Init => TableInv /\ AsTable!Init
<1> SUFFICES ASSUME Init PROVE TableInv /\ AsTable!Init OBVIOUS
<1>1. Typed BY TypedInit
<1>2. AInv BY <1>1 DEF Init, AInv, Single, Built, Publishing, Entered
<1>3. InTable = Nothing
  <2>1. ~HookOk /\ (jumps > 0) = FALSE BY DEF Init, HookOk
  <2>2. QED BY <2>1 DEF InTable, Nothing
<1>4. InOperation = <<"failed">> BY DEF Init, InOperation
<1>5. QED BY <1>1, <1>2, <1>3, <1>4 DEF TableInv, AsTable!Init, AsTable!Absent, AsTable!Failed, Nothing

LEMMA TableNext == TableInv /\ [Next]_vars => TableInv'
<1> SUFFICES ASSUME TableInv, [Next]_vars, Alone' PROVE AInv' BY TypedNext DEF TableInv
<1>1. Alone BY AloneFixed
<1>2. QED BY <1>1, AloneNext DEF TableInv

LEMMA TableStep == TableInv /\ [Next]_vars => [AsTable!Next]_Seen
<1> SUFFICES ASSUME TableInv, [Next]_vars PROVE [AsTable!Next]_Seen OBVIOUS
<1>1. CASE ~Alone
  BY <1>1, AloneFixed DEF Seen
<1>2. CASE Alone
  <2>1. Alone' /\ AInv BY <1>2, AloneFixed DEF TableInv
  <2>2. Seen = <<InTable, InOperation>> /\ Seen' = <<InTable, InOperation>>'
    BY <1>2, <2>1 DEF Seen
  <2> USE DEF AsTable!Next, AsTable!Idle, AsTable!Stopped, AsTable!Failed, AsTable!Installing,
          AsTable!Cleaning
  <2>3. CASE Install
    <3>1. sig \in Sigs /\ InOperation = <<"install", sig>>
      BY <2>1, <2>3, Operation DEF AInv, Typed, Rest, Built, Publishing, InOperationIs, Install,
         NewChain, Clear, Fill, NewHook, Swap, FlushHook, AddEntry, List, Trim, Place, Insert,
         Retire
    <3>2. Partly(sig) BY <1>2, <2>1, <2>3, InstallTable
    <3>3. CASE InOperation' = <<"idle">> /\ InTable' = Whole(sig)
      <4>1. AsTable!InstallOk(sig)
        BY <1>2, <2>1, <3>1, <3>3 DEF AsTable!InstallOk, AsTable!Full, Whole
      <4>2. QED BY <3>1, <4>1
    <3>4. CASE InOperation' = <<"cleanup", "recover">>
      <4>1. AsTable!InstallFails(sig)
        BY <1>2, <2>1, <3>1, <3>2, <3>4 DEF AsTable!InstallFails, AsTable!Full, AsTable!Absent,
           AsTable!Broken, Whole, Nothing, Wrecks, Partly
      <4>2. QED BY <3>1, <4>1
    <3>5. CASE InOperation' = <<"install", sig>>
      <4>1. InTable' = InTable \/ AsTable!Install(sig)
        BY <1>2, <2>1, <3>1, <3>2, <3>5 DEF AsTable!Install, AsTable!Full, AsTable!Absent,
           AsTable!Broken, Whole, Nothing, Wrecks, Partly
      <4>2. QED BY <2>2, <3>1, <3>5, <4>1
    <3>6. QED BY <1>2, <2>1, <2>3, <3>3, <3>4, <3>5, InstallEnds
  <2>4. CASE Cleanup /\ pc \in Unhook /\ ctx = "activate"
    <3>1. /\ sig \in Sigs /\ InOperation = <<"install", sig>>
          /\ InTable' \in {InTable, Nothing}
          /\ InOperation' \in {<<"install", sig>>, <<"cleanup", "recover">>}
      BY <1>2, <2>1, <2>4, Operation, CleanupTable DEF AInv, Built, Publishing, InOperationIs
    <3>2. CASE InOperation' = <<"cleanup", "recover">>
      <4>1. AsTable!InstallFails(sig)
        BY <1>2, <2>1, <3>1, <3>2 DEF AsTable!InstallFails, AsTable!Absent, Nothing
      <4>2. QED BY <3>1, <4>1
    <3>3. CASE InOperation' = <<"install", sig>>
      <4>1. InTable' = InTable \/ AsTable!Install(sig)
        BY <1>2, <2>1, <3>1, <3>3 DEF AsTable!Install, AsTable!Absent, Nothing
      <4>2. QED BY <2>2, <3>1, <3>3, <4>1
    <3>4. QED BY <3>1, <3>2, <3>3
  <2>5. CASE Cleanup /\ ~(pc \in Unhook /\ ctx = "activate")
    <3>1. /\ ctx \in AsTable!Purposes /\ InOperation = <<"cleanup", ctx>>
          /\ InTable' \in {InTable, Nothing} /\ Cleans
      BY <1>2, <2>1, <2>5, Operation, CleanupTable DEF AInv, Typed, Rest, Single, InOperationIs,
         Cleanup, CheckJump, CheckLegacy, DeleteHookJump, DeleteLegacyJump, CleanupFlush,
         CleanupErase, AsTable!Purposes
    <3>2. CASE InOperation' = InOperation
      <4>1. InTable' = InTable \/ AsTable!Clean(ctx)
        BY <1>2, <2>1, <3>1, <3>2 DEF AsTable!Clean, AsTable!Absent, Nothing
      <4>2. QED BY <2>2, <3>1, <3>2, <4>1
    <3>3. CASE /\ InTable' = Nothing
               /\ InOperation' = IF ctx = "exit" THEN <<"stopped">> ELSE <<"idle">>
      <4>1. AsTable!CleanOk(ctx)
        BY <1>2, <2>1, <3>1, <3>3 DEF AsTable!CleanOk, AsTable!Absent, Nothing
      <4>2. QED BY <3>1, <4>1
    <3>4. CASE InOperation' = IF ctx \in {"boot", "exit"} THEN <<"failed">> ELSE <<"idle">>
      <4>1. AsTable!CleanFails(ctx)
        BY <1>2, <2>1, <3>1, <3>4 DEF AsTable!CleanFails, AsTable!Absent, Nothing
      <4>2. QED BY <3>1, <4>1
    <3>5. QED BY <3>1, <3>2, <3>3, <3>4 DEF Cleans
  <2>6. CASE Loop \/ RulesOk
    <3>1. InTable' = InTable /\ InOperation = <<"idle">>
      BY <2>6, TableKept, Operation DEF Loop, RulesOk, OkForward, OkHook, OkPayload, Query,
         table, InOperationIs
    <3>2. sig' \in Sigs \cup {NoLinks}
      BY <2>1, TypedNext DEF AInv, Typed, Rest
    <3>3. \/ InOperation' \in {<<"idle">>, <<"cleanup", "idle">>}
          \/ InOperation' = <<"install", sig'>> /\ sig' \in Sigs
      BY <2>1, <2>6, <3>2, Operation DEF AInv, Typed, Rest, Loop, RulesOk, OkForward, OkHook,
         OkPayload, Query, Repair, BeginInstall, Clean, Step, Goto, control, InOperationIs
    <3>4. CASE InOperation' = <<"idle">>
      BY <2>2, <3>1, <3>4
    <3>5. CASE InOperation' # <<"idle">>
      <4>1. AsTable!Begin
        BY <1>2, <2>1, <3>1, <3>3, <3>5 DEF AsTable!Begin
      <4>2. QED BY <4>1
    <3>6. QED BY <3>4, <3>5
  <2>7. CASE Stop
    <3>1. InTable' = InTable /\ InOperation = <<"idle">> /\ InOperation' = <<"cleanup", "exit">>
      BY <2>7, TableKept, Operation DEF Stop, Clean, table, InOperationIs
    <3>2. AsTable!Begin BY <1>2, <2>1, <3>1 DEF AsTable!Begin
    <3>3. QED BY <3>2
  <2>8. CASE Start
    <3>1. /\ InTable' = InTable /\ InOperation \in {<<"stopped">>, <<"failed">>}
          /\ InOperation' = <<"cleanup", "boot">>
      BY <2>8, TableKept, Operation DEF Start, Clean, table, InOperationIs
    <3>2. AsTable!Start BY <1>2, <2>1, <3>1 DEF AsTable!Start
    <3>3. QED BY <3>2
  <2>9. CASE Crash
    <3>1. InTable' = InTable /\ InOperation' = <<"failed">>
      BY <2>9, TableKept, Operation DEF Crash, table, InOperationIs
    <3>2. AsTable!Crash BY <1>2, <2>1, <3>1 DEF AsTable!Crash
    <3>3. QED BY <3>2
  <2>10. CASE LinkChange \/ UNCHANGED vars
    <3>1. InTable' = InTable
      BY <2>10, TableKept DEF LinkChange, vars, table
    <3>2. InOperation' = InOperation
      BY <2>10 DEF LinkChange, vars, control, daemon, InOperation
    <3>3. QED BY <2>2, <3>1, <3>2
  <2>11. ~Netd BY <1>2 DEF Netd, Alone
  <2>12. QED
    BY <2>3, <2>4, <2>5, <2>6, <2>7, <2>8, <2>9, <2>10, <2>11 DEF Next, Daemon, Environment
<1>3. QED BY <1>1, <1>2

\* The operations Supervisor takes as single steps are those the commands add
\* up to, for every number of rules and signatures, every fault but that of -C,
\* and however many attempts failed before.
THEOREM RefinesTable == Spec => ImplementsTable
BY TableInit, TableNext, TableStep, PTL DEF Spec, ImplementsTable, AsTable!Spec, Seen

-----------------------------------------------------------------------------
(* What install leaves is what rules_ok asks for.                           *)

InPlaceOf(s) == /\ active # None /\ HookOk /\ hook = <<active>>
                /\ payload[active] = RuleSet(s)
Removing == pc \in Unhook \cup Erase \cup {"checkLegacy", "deleteLegacy"}
\* The links last acted on are active ones and the next iteration does not act
\* of itself: their rule set is in place.
Kept ==
    /\ pc \in Probe => sig = last /\ InPlaceOf(last)
    /\ pc = "loop" /\ ~first /\ last # NoLinks => InPlaceOf(last)
    /\ Removing /\ ctx = "boot" => first
    /\ Removing /\ ctx = "idle" => sig = NoLinks
Seeing == Alone /\ "S" \notin Faulty
KInv == AInv /\ Kept

LEMMA KeptNext == Seeing /\ KInv /\ [Next]_vars => Kept'
<1> SUFFICES ASSUME Seeing, KInv, [Next]_vars PROVE Kept'
  OBVIOUS
<1> USE DEF Query, Command, Free, Spend, Rest, Typed, KInv, AInv, Single, Built, Entered,
        Publishing, Alone, Seeing, Kept, InPlaceOf, Removing, HookOk, table, daemon, control, env,
        Recover, Clean, Goto, Step, None, TableOK
<1>1. CASE UNCHANGED vars
  BY <1>1 DEF vars
<1>2. CASE Cleanup
  <2> USE DEF DelJumpTrue, DelJumpFalse, Deleted, CleanupDone
  <2>1. CASE CheckJump BY <2>1 DEF CheckJump
  <2>2. CASE CheckLegacy BY <2>2 DEF CheckLegacy
  <2>3. CASE DeleteHookJump BY <2>3 DEF DeleteHookJump, DeleteJump
  <2>4. CASE DeleteLegacyJump BY <2>4 DEF DeleteLegacyJump, DeleteLegacy
  <2>5. CASE CleanupFlush BY <2>5 DEF CleanupFlush, FlushChain, FlushNext
  <2>6. CASE CleanupErase BY <2>6 DEF CleanupErase, DropChain, EraseNext
  <2>7. QED BY <1>2, <2>1, <2>2, <2>3, <2>4, <2>5, <2>6 DEF Cleanup
<1>3. CASE Install
  <2> USE DEF Published, InstallDone, Payload, Chain
  <2>1. CASE NewChain BY <2>1 DEF NewChain
  <2>2. CASE Clear BY <2>2 DEF Clear, FillFirst
  <2>3. CASE Fill BY <2>3 DEF Fill, FillNext
  <2>4. CASE NewHook BY <2>4 DEF NewHook
  <2>5. CASE Swap BY <2>5 DEF Swap
  <2>6. CASE FlushHook BY <2>6 DEF FlushHook
  <2>7. CASE AddEntry BY <2>7 DEF AddEntry
  <2>8. CASE List BY <2>8 DEF List
  <2>9. CASE Trim BY <2>9 DEF Trim
  <2>10. CASE Place BY <2>10 DEF Place
  <2>11. CASE Insert BY <2>11 DEF Insert, InsertJump
  <2>12. CASE Retire
    <3>1. /\ new # active /\ new \in Payload
          /\ active \in Payload \cup {None} /\ active # "hook"
      <4>1. pc = "retire" BY <2>12 DEF Retire
      <4>2. new # active BY <4>1
      <4>3. active \in Payload \cup {None} /\ active # "hook" BY DEF Payload
      <4>4. QED BY <4>2, <4>3
    <3>2. hook' = hook /\ jumps' = jumps /\ top' = top /\ payload'[new] = payload[new]
      BY <2>12, <3>1 DEF Retire, FlushChain
    <3>3. pc' = "loop" /\ active' = new /\ last' = sig
      BY <2>12 DEF Retire
    <3>4. payload[new] = RuleSet(sig) /\ jumps = 1 /\ top /\ hook = <<new>>
      <4>1. pc = "retire" BY <2>12 DEF Retire
      <4>2. jumps \in Nat BY DEF TableOK
      <4>3. QED BY <4>1, <4>2
    <3>5. QED BY <2>12, <3>1, <3>2, <3>3, <3>4
  <2>13. QED
    BY <1>3, <2>1, <2>2, <2>3, <2>4, <2>5, <2>6, <2>7, <2>8, <2>9, <2>10, <2>11, <2>12
       DEF Install
<1>4. CASE Loop \/ RulesOk
  <2> USE DEF BeginInstall, Repair, Payload, Other
  <2>1. CASE Loop BY <2>1 DEF Loop
  <2>2. CASE OkForward BY <2>2 DEF OkForward
  <2>3. CASE OkHook BY <2>3 DEF OkHook
  <2>4. CASE OkPayload BY <2>4 DEF OkPayload
  <2>5. QED BY <1>4, <2>1, <2>2, <2>3, <2>4 DEF RulesOk
<1>5. CASE Environment
  <2>1. ~Netd BY DEF Netd
  <2>2. QED BY <1>5, <2>1 DEF Environment, Stop, Start, Crash, LinkChange
<1>6. QED BY <1>1, <1>2, <1>3, <1>4, <1>5 DEF Next, Daemon

\* rules_ok finds nothing to repair.
NothingToRepair == [][Seeing /\ RulesOk => pc' \in Probe \cup {"loop"}]_vars

\* Where nobody else changes the table and -C and -S can be relied on, rules_ok
\* never rejects what install reported as installed: a daemon whose links rest
\* does not rebuild its rules at every check, whatever failed or died before
\* (rules_ok, install4, activate, recover).
THEOREM RepairsNothing == Spec => NothingToRepair
<1> DEFINE Checked == Seeing /\ RulesOk => pc' \in Probe \cup {"loop"}
<1>1. Init => Typed /\ (Alone => AInv) /\ (Seeing => KInv)
  BY TypedInit DEF Init, AInv, Single, Built, Entered, Publishing, KInv, Kept, Removing, Seeing,
     Build, Publish, Probe, Erase, Alone
<1>2. Typed /\ (Alone => AInv) /\ (Seeing => KInv) /\ [Next]_vars
      => (Typed /\ (Alone => AInv) /\ (Seeing => KInv))'
  <2> SUFFICES ASSUME Typed, Alone => AInv, Seeing => KInv, [Next]_vars
               PROVE  Typed' /\ (Alone' => AInv') /\ (Seeing' => KInv')
    OBVIOUS
  <2>1. Alone' = Alone /\ Seeing' = Seeing
    BY WorldFixed DEF Alone, Seeing, Faulty, Disturbances
  <2>2. QED
    BY <2>1, TypedNext, AloneNext, KeptNext DEF KInv, Seeing
<1>3. (Seeing => KInv) /\ [Next]_vars => Checked
  <2> SUFFICES ASSUME Seeing, KInv, RulesOk PROVE pc' \in Probe \cup {"loop"}
    OBVIOUS
  <2> USE DEF Kept, KInv, InPlaceOf, Seeing, Query, Step, Goto, Probe
  <2>1. CASE OkForward BY <2>1 DEF OkForward
  <2>2. CASE OkHook BY <2>2 DEF OkHook
  <2>3. CASE OkPayload BY <2>3 DEF OkPayload
  <2>4. QED BY <2>1, <2>2, <2>3 DEF RulesOk
<1> HIDE DEF Checked
<1>4. Spec => [][Checked]_vars
  BY <1>1, <1>2, <1>3, PTL DEF Spec
<1> QED
  BY <1>4 DEF NothingToRepair, Checked

-----------------------------------------------------------------------------
(* What SelfHeal reaches, stays.                                            *)

\* The rule set of the links is in force and the daemon knows.
AtPeace ==
    /\ InForce /\ active # None
    /\ last = links /\ links # NoLinks /\ ~first
    /\ pc \in Probe \cup {"loop"} /\ (pc \in Probe => sig = links)
    /\ "S" \notin Faulty

\* Whatever was done to the table and the daemon before: once the rule set of the
\* links is in force and the daemon back at its loop, the daemon's own steps never
\* take it out of force again.  It is the half of SelfHeal that says "leaves it
\* so" (rules_ok, daemon.rs:457-479).
THEOREM StaysInForce == AtPeace /\ [][Daemon]_vars => []InForce
<1>1. AtPeace /\ [Daemon]_vars => AtPeace'
  <2> SUFFICES ASSUME AtPeace, [Daemon]_vars PROVE AtPeace'
    OBVIOUS
  <2> USE DEF AtPeace, InForce, HookOk, Query, Step, Goto, Free, Faulty, table, daemon,
          control, env
  <2>1. CASE Loop BY <2>1 DEF Loop
  <2>2. CASE OkForward BY <2>2 DEF OkForward
  <2>3. CASE OkHook BY <2>3 DEF OkHook
  <2>4. CASE OkPayload BY <2>4 DEF OkPayload
  <2>5. CASE UNCHANGED vars BY <2>5 DEF vars
  <2>6. ~Install
    BY DEF Install, NewChain, Clear, Fill, NewHook, Swap, FlushHook, AddEntry, List, Trim,
       Place, Insert, Retire
  <2>7. ~Cleanup
    BY DEF Cleanup, CheckJump, CheckLegacy, DeleteHookJump, DeleteLegacyJump, CleanupFlush,
       CleanupErase
  <2>8. QED BY <2>1, <2>2, <2>3, <2>4, <2>5, <2>6, <2>7 DEF Daemon, RulesOk
<1>2. AtPeace => InForce
  BY DEF AtPeace
<1>3. QED
  BY <1>1, <1>2, PTL
=============================================================================
