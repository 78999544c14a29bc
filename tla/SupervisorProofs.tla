--------------------------- MODULE SupervisorProofs ---------------------------
(***************************************************************************)
(* Proofs about Supervisor, for any number of workers and any limits.      *)
(***************************************************************************)
EXTENDS Supervisor, TLAPS

USE SupervisorAssumption DEF SupervisorAssumption, Withdrawing

LEMMA Halving == ASSUME NEW n \in 1 .. Workers
                 PROVE  (n + 1) \div 2 \in 1 .. Workers
OBVIOUS

LEMMA CleanupType ==
    ASSUME TypeOK, NEW ok \in BOOLEAN, CleanupTo(ok)
    PROVE  rules' \in [Family -> RuleState] /\ budget' \in 0 .. Budget
BY DEF TypeOK, WorldOK, CleanupTo, RuleState, Family, Fault, Spend

LEMMA InstallType ==
    ASSUME TypeOK, NEW f \in Family, NEW wanted \in RuleState, NEW ok \in BOOLEAN,
           InstallTo(f, wanted, ok)
    PROVE  rules' \in [Family -> RuleState] /\ budget' \in 0 .. Budget
BY DEF TypeOK, WorldOK, InstallTo, RuleState, Family, Fault, Spend

LEMMA WantedType ==
    ASSUME TypeOK, sig \in Sigs
    PROVE  Wanted4(sig) \in RuleState /\ Wanted6(sig) \in RuleState /\ Absent \in RuleState
BY DEF TypeOK, LoopOK, Wanted4, Wanted6, Rules, RuleState

\* An activation is only under way for links that are active.
Acting == pc \in {"start", "await", "install4", "install6"} => sig \in Sigs
Typed == TypeOK /\ Acting

LEMMA InitTyped == Init => Typed
<1> SUFFICES ASSUME Init PROVE WorldOK /\ LoopOK /\ Acting BY DEF Typed, TypeOK
<1>1. rules \in [Family -> RuleState] BY DEF Init, RuleState
<1>2. WorldOK
  <2>1. child \in [Queue -> {"none", "spawned", "ready", "hung", "exited"}]
    BY DEF Init, NoChild
  <2>2. budget \in 0 .. Budget BY DEF Init
  <2>3. stop \in BOOLEAN BY DEF Init
  <2>4. QED BY <1>1, <2>1, <2>2, <2>3 DEF Init, WorldOK
<1>3. LoopOK BY DEF Init, LoopOK, Neither, Control, Phase
<1>4. Acting BY DEF Init, Acting
<1>5. QED BY <1>2, <1>3, <1>4

LEMMA TypedNext == Typed /\ [Next]_vars => Typed'
<1> SUFFICES ASSUME TypeOK, Acting, [Next]_vars PROVE TypeOK' /\ Acting' BY DEF Typed
<1> USE DEF TypeOK, WorldOK, LoopOK, Acting, Control, Phase, NoChild, Neither
<1>1. CASE Boot
  <2>1. rules' \in [Family -> RuleState] /\ budget' \in 0 .. Budget
    BY <1>1, CleanupType DEF Boot
  <2>2. count' \in 1 .. Workers /\ failures' \in 0 .. FailureCap BY <1>1 DEF Boot
  <2>3. pc' \in {"down", "loop"} /\ phase' \in Phase BY <1>1 DEF Boot
  <2>4. active' \in [Family -> BOOLEAN]
        /\ child' \in [Queue -> {"none", "spawned", "ready", "hung", "exited"}]
    BY <1>1 DEF Boot
  <2>5. QED BY <1>1, <2>1, <2>2, <2>3, <2>4 DEF Boot
<1>2. CASE Leave BY <1>2 DEF Leave
<1>3. CASE Intact BY <1>3 DEF Intact
<1>4. CASE Idle \/ IdleUnhook \/ IdleStop \/ IdleDone
  <2>1. CASE IdleUnhook
    <3>1. rules' \in [Family -> RuleState] /\ budget' \in 0 .. Budget
          /\ first' \in BOOLEAN /\ cleaned' \in BOOLEAN
      BY <2>1, CleanupType DEF IdleUnhook
    <3>2. QED BY <2>1, <3>1 DEF IdleUnhook
  <2>2. CASE Idle BY <2>2 DEF Idle
  <2>3. CASE IdleStop BY <2>3 DEF IdleStop
  <2>4. CASE IdleDone BY <2>4 DEF IdleDone
  <2>5. QED BY <1>4, <2>1, <2>2, <2>3, <2>4
<1>5. CASE Activate BY <1>5 DEF Activate
<1>6. CASE StartWorkers BY <1>6 DEF StartWorkers, Fault, Spend
<1>7. CASE AwaitWorkers BY <1>7 DEF AwaitWorkers, Fault, Spend
<1>8. CASE Install4
  <2>1. rules' \in [Family -> RuleState] /\ budget' \in 0 .. Budget
    BY <1>8, InstallType, WantedType DEF Install4, Family
  <2>2. QED BY <1>8, <2>1 DEF Install4, Family
<1>9. CASE Install6
  <2>1. rules' \in [Family -> RuleState] /\ budget' \in 0 .. Budget
    BY <1>9, InstallType, WantedType DEF Install6, Family
  <2>2. active' \in [Family -> BOOLEAN] BY <1>9 DEF Install6, Family
  <2>3. QED BY <1>9, <2>1, <2>2 DEF Install6
<1>10. CASE Watch BY <1>10 DEF Watch
<1>11. CASE Unhook
  <2>1. rules' \in [Family -> RuleState] /\ budget' \in 0 .. Budget
    BY <1>11, CleanupType DEF Unhook
  <2>2. QED BY <1>11, <2>1 DEF Unhook
<1>12. CASE Degrade
  <2>1. count' \in 1 .. Workers BY <1>12, Halving DEF Degrade
  <2>2. failures' \in 0 .. FailureCap BY <1>12 DEF Degrade
  <2>3. QED BY <1>12, <2>1, <2>2 DEF Degrade
<1>13. CASE Exit \/ ExitStop \/ ExitDone
  <2>1. CASE Exit
    <3>1. rules' \in [Family -> RuleState] /\ budget' \in 0 .. Budget /\ cleaned' \in BOOLEAN
      BY <2>1, CleanupType DEF Exit
    <3>2. QED BY <2>1, <3>1 DEF Exit
  <2>2. CASE ExitStop BY <2>2 DEF ExitStop
  <2>3. CASE ExitDone BY <2>3 DEF ExitDone
  <2>4. QED BY <1>13, <2>1, <2>2, <2>3
<1>14. CASE Start BY <1>14 DEF Start
<1>15. CASE Crash
  <2>1. LeftOf(4) \subseteq RuleState /\ LeftOf(6) \subseteq RuleState
    <3>1. rules[4] \in RuleState /\ rules[6] \in RuleState /\ Broken \in RuleState
      BY DEF Family, RuleState
    <3>2. CASE pc \in {"install4", "install6"} BY <3>1, <3>2, WantedType DEF LeftOf
    <3>3. CASE pc \notin {"install4", "install6"} BY <3>1, <3>3 DEF LeftOf, RuleState
    <3>4. QED BY <3>2, <3>3
  <2>2. rules' \in [Family -> RuleState] BY <1>15, <2>1 DEF Crash
  <2>3. QED BY <1>15, <2>2 DEF Crash, Fault, Spend
<1>16. CASE LinkChange BY <1>16 DEF LinkChange, Spend
<1>17. CASE Netd
  <2>1. rules' \in [Family -> RuleState] BY <1>17 DEF Netd, RuleState
  <2>2. QED BY <1>17, <2>1 DEF Netd, Fault, Spend
<1>18. CASE Request
  <2>1. stop' \in BOOLEAN BY <1>18 DEF Request
  <2>2. budget' \in 0 .. Budget BY <1>18 DEF Request, Spend
  <2>3. QED BY <1>18, <2>1, <2>2 DEF Request
<1>19. ASSUME NEW q \in Queue, WorkerFails(q) PROVE TypeOK' /\ Acting'
  BY <1>19 DEF WorkerFails, Become, Fault, Spend
<1>20. ASSUME NEW q \in Queue, WorkerReady(q) PROVE TypeOK' /\ Acting'
  BY <1>20 DEF WorkerReady, Become
<1>21. ASSUME NEW q \in Queue, StaleExits(q) PROVE TypeOK' /\ Acting'
  BY <1>21 DEF StaleExits
<1>22. CASE UNCHANGED vars BY <1>22 DEF vars
<1>23. QED
  BY <1>1, <1>2, <1>3, <1>4, <1>5, <1>6, <1>7, <1>8, <1>9, <1>10, <1>11, <1>12, <1>13,
     <1>14, <1>15, <1>16, <1>17, <1>18, <1>19, <1>20, <1>21, <1>22
  DEF Next, Daemon, Environment

\* The variables keep their types; in particular a degraded daemon keeps at
\* least one worker and the failure count stays in its range.
THEOREM TypeCorrect == Spec => []TypeOK
<1>1. Typed => TypeOK BY DEF Typed
<1>2. QED BY <1>1, InitTyped, TypedNext, PTL DEF Spec

-----------------------------------------------------------------------------
(* Queues have one owner                                                    *)

LEMMA OwnerNext == Typed /\ OneOwner /\ [Next]_vars => OneOwner'
<1> SUFFICES ASSUME TypeOK, OneOwner, [Next]_vars PROVE OneOwner' BY DEF Typed
<1> USE DEF TypeOK, WorldOK, LoopOK, OneOwner, NoChild
<1>1. CASE UNCHANGED <<child, stale>> BY <1>1
<1>2. CASE child' = NoChild /\ (stale' = stale \/ Crash)
  BY <1>2 DEF Crash
<1>3. CASE StartWorkers
  <2>1. CASE child' = NoChild BY <1>3, <2>1 DEF StartWorkers
  <2>2. CASE /\ stale \cap (0 .. (count - 1)) = {}
             /\ child' = [q \in Queue |-> IF q < count THEN "spawned" ELSE "none"]
    BY <1>3, <2>2 DEF StartWorkers, Queue
  <2>3. QED BY <1>3, <2>1, <2>2 DEF StartWorkers
<1>4. ASSUME NEW q \in Queue, WorkerReady(q) \/ WorkerFails(q) PROVE OneOwner'
  BY <1>4 DEF WorkerReady, WorkerFails, Become
<1>5. ASSUME NEW q \in Queue, StaleExits(q) PROVE OneOwner' BY <1>5 DEF StaleExits
<1>6. CASE Idle \/ IdleUnhook \/ IdleStop \/ IdleDone
  BY <1>6, <1>1, <1>2 DEF Idle, IdleUnhook, IdleStop, IdleDone
<1>7. CASE AwaitWorkers BY <1>7, <1>1, <1>2 DEF AwaitWorkers
<1>8. CASE Boot \/ Degrade \/ Exit \/ ExitStop \/ ExitDone \/ Crash
  BY <1>8, <1>1, <1>2 DEF Boot, Degrade, Exit, ExitStop, ExitDone, Crash
<1>9. CASE Leave \/ Intact \/ Activate \/ Install4 \/ Install6 \/ Watch \/ Unhook
  BY <1>9, <1>1 DEF Leave, Intact, Activate, Install4, Install6, Watch, Unhook
<1>10. CASE Start \/ LinkChange \/ Netd \/ Request
  BY <1>10, <1>1 DEF Start, LinkChange, Netd, Request
<1>11. CASE UNCHANGED vars BY <1>11, <1>1 DEF vars
<1>12. QED
  BY <1>3, <1>4, <1>5, <1>6, <1>7, <1>8, <1>9, <1>10, <1>11 DEF Next, Daemon, Environment

\* A queue an orphaned worker still owns is never given to a new worker.
THEOREM OwnersSeparate == Spec => []OneOwner
<1>1. Init => OneOwner BY DEF Init, OneOwner
<1>2. QED BY <1>1, InitTyped, TypedNext, OwnerNext, PTL DEF Spec

-----------------------------------------------------------------------------
(* Rules and workers agree                                                  *)

\* Between Workers::start and the end of the activation, and as long as the
\* phase stays active after it, the workers are those the rules count on.
Manned ==
    /\ pc \in {"install4", "install6"} /\ Nfqueue => Started = 0 .. (count - 1)
    /\ pc = "install6" /\ Nfqueue /\ rules[4].kind = "complete" => rules[4].workers = count
    /\ phase = "active" =>
         pc \in {"settled", "watch", "loop", "recover", "exit", "down"} \cup Withdrawing
    /\ pc \in Withdrawing /\ cleaned => rules[4].kind # "complete"
    /\ pc = "boot" => phase = "boot-wait"
    /\ Steered

LEMMA MannedNext == Typed /\ Manned /\ [Next]_vars => Manned'
<1> SUFFICES ASSUME TypeOK, Manned, [Next]_vars PROVE Manned' BY DEF Typed
<1> USE DEF TypeOK, WorldOK, LoopOK, Manned, Steered
<1>1. CASE Boot BY <1>1 DEF Boot
<1>2. CASE Leave BY <1>2 DEF Leave, Started
<1>3. CASE Intact BY <1>3 DEF Intact, Started
<1>4. CASE Idle \/ IdleUnhook \/ IdleStop \/ IdleDone
  <2>1. CASE IdleUnhook
    <3>1. Started' = Started BY <2>1 DEF IdleUnhook, Started
    <3>2. cleaned' => rules'[4] = Absent BY <2>1 DEF IdleUnhook, CleanupTo, Family, Fault
    <3>3. QED BY <2>1, <3>1, <3>2 DEF IdleUnhook, Absent
  <2>2. CASE Idle BY <2>2 DEF Idle
  <2>3. CASE IdleStop BY <2>3 DEF IdleStop
  <2>4. CASE IdleDone BY <2>4 DEF IdleDone
  <2>5. QED BY <1>4, <2>1, <2>2, <2>3, <2>4
<1>5. CASE Activate BY <1>5 DEF Activate, Healthy, Started
<1>6. CASE StartWorkers BY <1>6 DEF StartWorkers
<1>7. CASE AwaitWorkers BY <1>7 DEF AwaitWorkers, Healthy, Started
<1>8. CASE Install4
  <2>1. Started' = Started BY <1>8 DEF Install4, Started
  <2>2. pc' = "install6" /\ Nfqueue => rules'[4] = Wanted4(sig)
    BY <1>8 DEF Install4, InstallTo, Family
  <2>3. QED BY <1>8, <2>1, <2>2 DEF Install4, Wanted4, Rules
<1>9. CASE Install6
  <2>1. Started' = Started BY <1>9 DEF Install6, Started
  <2>2. rules'[4] = rules[4] BY <1>9 DEF Install6, InstallTo, Family
  <2>3. QED BY <1>9, <2>1, <2>2 DEF Install6
<1>10. CASE Watch BY <1>10 DEF Watch, Started
<1>11. CASE Unhook BY <1>11 DEF Unhook
<1>12. CASE Degrade BY <1>12 DEF Degrade
<1>13. CASE Exit \/ ExitStop \/ ExitDone
  <2>1. CASE Exit
    <3>1. Started' = Started BY <2>1 DEF Exit, Started
    <3>2. cleaned' => rules'[4] = Absent BY <2>1 DEF Exit, CleanupTo, Family, Fault
    <3>3. QED BY <2>1, <3>1, <3>2 DEF Exit, Absent
  <2>2. CASE ExitStop BY <2>2 DEF ExitStop
  <2>3. CASE ExitDone BY <2>3 DEF ExitDone
  <2>4. QED BY <1>13, <2>1, <2>2, <2>3
<1>14. CASE Start BY <1>14 DEF Start
<1>15. CASE Crash BY <1>15 DEF Crash
<1>16. CASE LinkChange BY <1>16 DEF LinkChange, Started
<1>17. CASE Netd
  <2>1. Started' = Started BY <1>17 DEF Netd, Started
  <2>2. rules'[4] \in {rules[4], Foreign} BY <1>17 DEF Netd, Family
  <2>3. QED BY <1>17, <2>1, <2>2 DEF Netd, Foreign
<1>18. CASE Request BY <1>18 DEF Request, Started
<1>19. ASSUME NEW q \in Queue, WorkerFails(q) PROVE Manned'
  <2>1. Started' = Started BY <1>19 DEF WorkerFails, Become, Started
  <2>2. QED BY <1>19, <2>1 DEF WorkerFails
<1>20. ASSUME NEW q \in Queue, WorkerReady(q) PROVE Manned'
  <2>1. Started' = Started BY <1>20 DEF WorkerReady, Become, Started
  <2>2. QED BY <1>20, <2>1 DEF WorkerReady
<1>21. ASSUME NEW q \in Queue, StaleExits(q) PROVE Manned'
  BY <1>21 DEF StaleExits, Started
<1>22. CASE UNCHANGED vars BY <1>22 DEF vars, Started
<1>23. QED
  BY <1>1, <1>2, <1>3, <1>4, <1>5, <1>6, <1>7, <1>8, <1>9, <1>10, <1>11, <1>12, <1>13,
     <1>14, <1>15, <1>16, <1>17, <1>18, <1>19, <1>20, <1>21, <1>22
  DEF Next, Daemon, Environment

\* While the phase is active, complete rules steer to exactly the queues the
\* daemon started a worker for, under every fault of the model.
THEOREM RulesMatchWorkers == Spec => []SteersToOwnWorkers
<1>1. Init => Manned BY DEF Init, Manned, Steered
<1>2. Manned /\ OneOwner => SteersToOwnWorkers BY DEF Manned, SteersToOwnWorkers
<1>3. QED BY <1>1, <1>2, OwnersSeparate, InitTyped, TypedNext, MannedNext, PTL DEF Spec

-----------------------------------------------------------------------------
(* The phase file tells the truth                                           *)

Truthful ==
    /\ pc = "install6" => active[4] /\ rules[4] \in {Wanted4(sig), Foreign}
    /\ PhaseTruth

\* A step that touches none of these keeps the truth.
LEMMA Untouched ==
    ASSUME Truthful, UNCHANGED <<rules, active, count, sig, last>>,
           pc' = "install6" => pc = "install6",
           pc' \notin {"down"} \cup Withdrawing /\ phase' = "active"
             => pc \notin {"down"} \cup Withdrawing /\ phase = "active"
    PROVE  Truthful'
BY DEF Truthful, PhaseTruth, Wanted4, Wanted6

LEMMA TruthNext == Typed /\ Manned /\ Truthful /\ [Next]_vars => Truthful'
<1> SUFFICES ASSUME Typed, Manned, Truthful, [Next]_vars PROVE Truthful'
  OBVIOUS
<1>1. CASE Boot BY <1>1 DEF Boot, Manned, Truthful, PhaseTruth
<1>2. CASE Leave BY <1>2, Untouched DEF Leave
<1>3. CASE Intact BY <1>3 DEF Intact, Truthful, PhaseTruth, Wanted4, Wanted6
<1>4. CASE Idle \/ IdleUnhook \/ IdleStop \/ IdleDone
  BY <1>4 DEF Idle, IdleUnhook, IdleStop, IdleDone, Truthful, PhaseTruth
<1>5. CASE Activate BY <1>5 DEF Activate, Truthful, PhaseTruth
<1>6. CASE StartWorkers BY <1>6, Untouched DEF StartWorkers
<1>7. CASE AwaitWorkers BY <1>7, Untouched DEF AwaitWorkers
<1>8. CASE Install4
  <2>1. phase' # "active" BY <1>8 DEF Install4, Manned
  <2>2. pc' = "install6" => active'[4] /\ rules'[4] = Wanted4(sig)
    BY <1>8 DEF Install4, InstallTo, Family, Typed, TypeOK, WorldOK, LoopOK
  <2>3. QED BY <1>8, <2>1, <2>2 DEF Install4, Truthful, PhaseTruth, Wanted4
<1>9. CASE Install6
  <2>1. CASE phase' # "active" BY <1>9, <2>1 DEF Install6, Truthful, PhaseTruth
  <2>2. CASE phase' = "active"
    <3>1. pc' = "settled" /\ last' = sig /\ sig \in Sigs
      BY <1>9, <2>2 DEF Install6, Manned, Typed, Acting
    <3>2. active'[4] /\ rules'[4] \in {Wanted4(sig), Foreign}
      BY <1>9, <2>2 DEF Install6, Manned, InstallTo, Truthful, Family, Typed, TypeOK,
         WorldOK, LoopOK
    <3>3. Filter6 => active'[6] /\ rules'[6] = Wanted6(sig)
      BY <1>9, <2>2 DEF Install6, Manned, InstallTo, Family, Typed, TypeOK, WorldOK, LoopOK
    <3>4. QED
      BY <1>9, <3>1, <3>2, <3>3
      DEF Install6, Truthful, PhaseTruth, Wanted4, Wanted6
  <2>3. QED BY <2>1, <2>2
<1>10. CASE Watch BY <1>10, Untouched DEF Watch
<1>11. CASE Unhook BY <1>11 DEF Unhook, Truthful, PhaseTruth
<1>12. CASE Degrade BY <1>12 DEF Degrade, Manned, Truthful, PhaseTruth
<1>13. CASE Exit \/ ExitStop \/ ExitDone
  BY <1>13 DEF Exit, ExitStop, ExitDone, Truthful, PhaseTruth
<1>14. CASE Start BY <1>14 DEF Start, Truthful, PhaseTruth
<1>15. CASE Crash BY <1>15 DEF Crash, Truthful, PhaseTruth
<1>16. CASE LinkChange BY <1>16, Untouched DEF LinkChange
<1>17. CASE Netd
  <2>1. rules'[4] \in {rules[4], Foreign} /\ rules'[6] \in {rules[6], Foreign}
    BY <1>17 DEF Netd, Family, Typed, TypeOK, WorldOK
  <2>2. UNCHANGED <<active, count, sig, last, pc, phase>>
    BY <1>17 DEF Netd
  <2>3. QED BY <2>1, <2>2 DEF Truthful, PhaseTruth, Wanted4, Wanted6
<1>18. CASE Request BY <1>18, Untouched DEF Request
<1>19. ASSUME NEW q \in Queue, WorkerFails(q) PROVE Truthful'
  BY <1>19, Untouched DEF WorkerFails
<1>20. ASSUME NEW q \in Queue, WorkerReady(q) PROVE Truthful'
  BY <1>20, Untouched DEF WorkerReady
<1>21. ASSUME NEW q \in Queue, StaleExits(q) PROVE Truthful'
  BY <1>21, Untouched DEF StaleExits
<1>22. CASE UNCHANGED vars BY <1>22, Untouched DEF vars
<1>23. QED
  BY <1>1, <1>2, <1>3, <1>4, <1>5, <1>6, <1>7, <1>8, <1>9, <1>10, <1>11, <1>12, <1>13,
     <1>14, <1>15, <1>16, <1>17, <1>18, <1>19, <1>20, <1>21, <1>22
  DEF Next, Daemon, Environment

\* An active phase means the rules of both families are those of the links
\* last acted on, unless somebody else has changed them since.
THEOREM PhaseTruthful == Spec => []PhaseTruth
<1>1. Init => Manned /\ Truthful
  BY DEF Init, Manned, Steered, Truthful, PhaseTruth
<1>2. Truthful => PhaseTruth BY DEF Truthful
<1>3. QED BY <1>1, <1>2, InitTyped, TypedNext, MannedNext, TruthNext, PTL DEF Spec

-----------------------------------------------------------------------------
(* What SelfHeals reaches, stays                                            *)

\* What the loop remembers of an activation, and that the watchdog has a reason
\* to recover from an active phase.
Steady ==
    /\ first => phase # "active" \/ pc \in {"down"} \cup Withdrawing
    /\ pc \in {"start", "await", "install4", "install6"} => ~first
    /\ (pc \in {"install4", "install6"} \/ (phase = "active" /\ pc # "down")) /\ Nfqueue
         => \A q \in Queue : child[q] # "spawned"
    /\ pc = "recover" /\ phase = "active" => Nfqueue /\ active[4] /\ Sick

LEMMA SteadyNext == Typed /\ Manned /\ Steady /\ [Next]_vars => Steady'
<1> SUFFICES ASSUME TypeOK, Manned, Steady, [Next]_vars PROVE Steady' BY DEF Typed
<1> USE DEF TypeOK, WorldOK, LoopOK, Manned, Steady
<1>1. CASE Boot BY <1>1 DEF Boot
<1>2. CASE Leave BY <1>2 DEF Leave
<1>3. CASE Intact BY <1>3 DEF Intact
<1>4. CASE Idle \/ IdleUnhook \/ IdleStop \/ IdleDone
  BY <1>4 DEF Idle, IdleUnhook, IdleStop, IdleDone, NoChild
<1>5. CASE Activate BY <1>5 DEF Activate, Healthy, Started
<1>6. CASE StartWorkers BY <1>6 DEF StartWorkers
<1>7. CASE AwaitWorkers BY <1>7 DEF AwaitWorkers, Healthy, Started
<1>8. CASE Install4 BY <1>8 DEF Install4
<1>9. CASE Install6 BY <1>9 DEF Install6
<1>10. CASE Watch BY <1>10 DEF Watch, Sick, Healthy, Started
<1>11. CASE Unhook BY <1>11 DEF Unhook
<1>12. CASE Degrade BY <1>12 DEF Degrade
<1>13. CASE Exit \/ ExitStop \/ ExitDone
  BY <1>13 DEF Exit, ExitStop, ExitDone, NoChild
<1>14. CASE Start BY <1>14 DEF Start
<1>15. CASE Crash BY <1>15 DEF Crash
<1>16. CASE LinkChange BY <1>16 DEF LinkChange, Sick, Healthy, Started
<1>17. CASE Netd BY <1>17 DEF Netd, Sick, Healthy, Started
<1>18. CASE Request BY <1>18 DEF Request, Sick, Healthy, Started
<1>19. ASSUME NEW q \in Queue, WorkerFails(q) PROVE Steady'
  <2>1. UNCHANGED <<count, active, first, pc, phase>>
        /\ child' = [child EXCEPT ![q] = child'[q]] /\ child'[q] \in {"exited", "hung"}
    BY <1>19 DEF WorkerFails, Become
  <2>2. Sick'
    BY <2>1 DEF Sick, Healthy, Started
  <2>3. QED BY <2>1, <2>2
<1>20. ASSUME NEW q \in Queue, WorkerReady(q) PROVE Steady'
  <2>1. UNCHANGED <<count, active, first, pc, phase>> /\ child[q] = "spawned"
        /\ child' = [child EXCEPT ![q] = "ready"]
    BY <1>20 DEF WorkerReady, Become
  <2>2. pc = "recover" => phase # "active" BY <2>1
  <2>3. QED BY <2>1, <2>2
<1>21. ASSUME NEW q \in Queue, StaleExits(q) PROVE Steady'
  BY <1>21 DEF StaleExits, Sick, Healthy, Started
<1>22. CASE UNCHANGED vars BY <1>22 DEF vars, Sick, Healthy, Started
<1>23. QED
  BY <1>1, <1>2, <1>3, <1>4, <1>5, <1>6, <1>7, <1>8, <1>9, <1>10, <1>11, <1>12, <1>13,
     <1>14, <1>15, <1>16, <1>17, <1>18, <1>19, <1>20, <1>21, <1>22
  DEF Next, Daemon, Environment

\* A daemon that runs, with links to serve and served, and that is not taking
\* its rules away.
InService == pc \notin {"down", "boot", "exit"} \cup Withdrawing /\ ~stop /\ links # NoLinks /\ Served
Own == Daemon \/ \E q \in Queue : WorkerReady(q) \/ StaleExits(q)

\* No step of the daemon or of its workers ends the service.
KeepsServing == [][InService /\ Own => InService']_vars

LEMMA ServiceStep ==
    Typed /\ Truthful /\ Manned /\ Steady /\ InService /\ Own => InService'
<1> SUFFICES ASSUME Typed, Truthful, Manned, Steady, InService, Own PROVE InService'
  OBVIOUS
<1> USE DEF InService, Served
<1>1. last = links
  BY DEF Truthful, PhaseTruth, RulesOk, Wanted4, Rules, Foreign
<1>2. ~Due /\ ~(Nfqueue /\ active[4] /\ Sick)
  BY <1>1 DEF Due, Steady
<1>3. pc \in {"settled", "watch", "loop"}
  BY <1>2 DEF Manned, Steady
<1>4. CASE Intact \/ Watch
  BY <1>2, <1>3, <1>4 DEF Intact, Watch, RulesOk, Wanted4, Wanted6, Healthy, Sick, Started
<1>5. ASSUME NEW q \in Queue, StaleExits(q) PROVE InService'
  BY <1>5 DEF StaleExits, RulesOk, Wanted4, Wanted6, Healthy, Sick, Started
<1>6. ASSUME NEW q \in Queue, WorkerReady(q) PROVE InService'
  BY <1>6, <1>3 DEF WorkerReady, Become, Steady, RulesOk, Wanted4, Wanted6
<1>7. ~Boot /\ ~Leave /\ ~Idle /\ ~IdleUnhook /\ ~IdleStop /\ ~IdleDone /\ ~Activate /\ ~StartWorkers /\ ~AwaitWorkers /\ ~Install4
      /\ ~Install6 /\ ~Unhook /\ ~Degrade /\ ~Exit /\ ~ExitStop /\ ~ExitDone
  BY <1>2, <1>3 DEF Boot, Leave, Idle, IdleUnhook, IdleStop, IdleDone, Activate, StartWorkers,
     AwaitWorkers, Install4, Install6, Unhook, Degrade, Exit, ExitStop, ExitDone
<1>8. QED BY <1>4, <1>5, <1>6, <1>7 DEF Own, Daemon

\* Once a daemon has the rules of both families and every worker right, only a
\* fault, a change of the links or of the table, or a request to stop ends it:
\* its own loop, checks, watchdog and workers never do, whatever failed, died or
\* was degraded before.  It is the half of SelfHeals that says "keeps them so"
\* (run_inner, Workers::healthy, rules_ok).
THEOREM ServiceKept == Spec => KeepsServing
<1> DEFINE Serving == InService /\ Own => InService'
           Before == Typed /\ Truthful /\ Manned /\ Steady
<1>1. Init => Before
  BY InitTyped DEF Init, Manned, Steered, Truthful, PhaseTruth, Steady
<1>2. Before /\ [Next]_vars => Before'
  BY TypedNext, MannedNext, TruthNext, SteadyNext
<1>3. Before => Serving
  BY ServiceStep
<1> HIDE DEF Serving, Before
<1>4. Spec => [][Serving]_vars
  BY <1>1, <1>2, <1>3, PTL DEF Spec
<1>5. QED
  BY <1>4 DEF KeepsServing, Serving

-----------------------------------------------------------------------------
(* Degradation gets on                                                      *)

\* Another failure is always short of a halving, or is the one that halves.
Pending == count > 1 => failures < MaxFailures
\* Failures are forgotten by a halving, a restart or the watchdog, and only by
\* them; workers are added by a restart only; and a recovery of a daemon with
\* several workers lowers their number or brings that nearer.
Dwindles ==
    /\ Pending
    /\ count' > count => pc = "boot"
    /\ failures' < failures => pc = "boot" \/ pc = "watch" \/ (pc = "degrade" /\ count' < count)
    /\ Degrade /\ count > 1 => IF failures + 1 < MaxFailures
                               THEN count' = count /\ failures' = failures + 1
                               ELSE 2 * count' <= count + 1 /\ count' < count /\ failures' = 0
Dwindling == [][Dwindles]_vars

LEMMA PendingNext == TypeOK /\ Pending /\ [Next]_vars => Pending'
<1> SUFFICES ASSUME TypeOK, Pending, [Next]_vars PROVE Pending'
  OBVIOUS
<1> USE DEF TypeOK, LoopOK, Pending
<1>1. CASE UNCHANGED <<count, failures>> BY <1>1
<1>2. CASE Boot BY <1>2 DEF Boot
<1>3. CASE Watch BY <1>3 DEF Watch
<1>4. CASE Degrade BY <1>4 DEF Degrade
<1>5. CASE \/ Leave \/ Intact \/ Idle \/ IdleUnhook \/ IdleStop \/ IdleDone \/ Activate
           \/ StartWorkers \/ AwaitWorkers \/ Install4 \/ Install6 \/ Unhook
           \/ Exit \/ ExitStop \/ ExitDone
  BY <1>1, <1>5 DEF Leave, Intact, Idle, IdleUnhook, IdleStop, IdleDone, Activate, StartWorkers,
     AwaitWorkers, Install4, Install6, Unhook, Exit, ExitStop, ExitDone
<1>6. CASE Start \/ Crash \/ LinkChange \/ Netd \/ Request \/ UNCHANGED vars
  BY <1>1, <1>6 DEF Start, Crash, LinkChange, Netd, Request, vars
<1>7. ASSUME NEW q \in Queue, WorkerFails(q) \/ WorkerReady(q) \/ StaleExits(q) PROVE Pending'
  BY <1>1, <1>7 DEF WorkerFails, WorkerReady, StaleExits
<1>8. QED BY <1>2, <1>3, <1>4, <1>5, <1>6, <1>7 DEF Next, Daemon, Environment

LEMMA DwindlingStep ==
    ASSUME TypeOK, Pending, Next
    PROVE  /\ count' > count => pc = "boot"
           /\ failures' < failures => pc = "boot" \/ pc = "watch" \/ (pc = "degrade" /\ count' < count)
<1> USE DEF TypeOK, LoopOK, Pending
<1>1. CASE UNCHANGED <<count, failures>> BY <1>1
<1>2. CASE Boot BY <1>2 DEF Boot
<1>3. CASE Degrade BY <1>3 DEF Degrade
<1>4. CASE Watch BY <1>4 DEF Watch
<1>5. CASE \/ Leave \/ Intact \/ Idle \/ IdleUnhook \/ IdleStop \/ IdleDone \/ Activate
           \/ StartWorkers \/ AwaitWorkers \/ Install4 \/ Install6 \/ Unhook
           \/ Exit \/ ExitStop \/ ExitDone
  BY <1>1, <1>5 DEF Leave, Intact, Idle, IdleUnhook, IdleStop, IdleDone, Activate, StartWorkers,
     AwaitWorkers, Install4, Install6, Unhook, Exit, ExitStop, ExitDone
<1>6. CASE Start \/ Crash \/ LinkChange \/ Netd \/ Request
  BY <1>1, <1>6 DEF Start, Crash, LinkChange, Netd, Request
<1>7. CASE \E q \in Queue : WorkerFails(q) \/ WorkerReady(q) \/ StaleExits(q)
  BY <1>1, <1>7 DEF WorkerFails, WorkerReady, StaleExits
<1>8. QED BY <1>2, <1>3, <1>5, <1>6, <1>7, <1>4 DEF Next, Daemon, Environment

\* For any number of workers, any max_failures and every fault: unless the
\* watchdog forgives in between, max_failures recoveries halve the workers, until
\* one is left; a phone that cannot start all of them is not retried with the
\* same number for ever (recover, daemon.rs:674-683).  The argument SelfHeals,
\* a property of fair behaviours, rests on.
THEOREM DegradationProceeds == Spec => Dwindling
<1>1. TypeOK /\ Pending /\ Next => Dwindles
  <2> SUFFICES ASSUME TypeOK, Pending, Next PROVE Dwindles
    OBVIOUS
  <2>1. ASSUME Degrade, count > 1
        PROVE  IF failures + 1 < MaxFailures
               THEN count' = count /\ failures' = failures + 1
               ELSE 2 * count' <= count + 1 /\ count' < count /\ failures' = 0
    BY <2>1 DEF Degrade, TypeOK, LoopOK, Pending
  <2>2. QED BY <2>1, DwindlingStep DEF Dwindles
<1>2. Init => Pending
  BY DEF Init, Pending
<1>3. QED
  BY <1>1, <1>2, TypeCorrect, PendingNext, PTL DEF Spec, Dwindling
=============================================================================
