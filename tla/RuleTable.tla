------------------------------ MODULE RuleTable ------------------------------
(***************************************************************************)
(* What Supervisor takes for granted of one address family's rules: install *)
(* and cleanup as operations with a result, while nobody else changes the   *)
(* table.  An install that succeeds leaves exactly the wanted rule set in   *)
(* force; one that fails is followed by a cleanup and leaves no other rule  *)
(* set; a cleanup that succeeds leaves nothing, one that fails leaves       *)
(* nothing or what it found.                                                *)
(***************************************************************************)
CONSTANTS
    Sigs,      \* what an install may be asked for
    Rule,      \* the rules there are
    Wanted     \* the rule set of each signature

VARIABLES
    rules,     \* whether FORWARD leads to the rules, and the rules in force
    doing      \* the operation that runs, or the state between two

Absent == [hooked |-> FALSE, rules |-> {}]
Full(s) == [hooked |-> TRUE, rules |-> Wanted[s]]
\* Hooked, and the rule set of no signature.
Broken == [hooked : {TRUE}, rules : (SUBSET Rule) \ {Wanted[s] : s \in Sigs}]

Idle == <<"idle">>
Stopped == <<"stopped">>
Failed == <<"failed">>
Installing(s) == <<"install", s>>
Cleaning(why) == <<"cleanup", why>>
Purposes == {"boot", "idle", "recover", "exit"}

Init == rules = Absent /\ doing = Failed

Start == /\ doing \in {Stopped, Failed} /\ doing' = Cleaning("boot")
         /\ UNCHANGED rules
Begin == /\ doing = Idle
         /\ doing' \in {Installing(s) : s \in Sigs} \cup {Cleaning("idle"), Cleaning("exit")}
         /\ UNCHANGED rules
Crash == doing' = Failed /\ UNCHANGED rules

Install(s) == /\ doing = Installing(s) /\ UNCHANGED doing
              /\ rules' \in {Absent, Full(s)} \cup Broken
InstallOk(s) == doing = Installing(s) /\ doing' = Idle /\ rules' = Full(s)
InstallFails(s) == /\ doing = Installing(s) /\ doing' = Cleaning("recover")
                   /\ rules' \in {rules, Absent, Full(s)} \cup Broken

Clean(why) == doing = Cleaning(why) /\ UNCHANGED doing /\ rules' = Absent
CleanOk(why) == /\ doing = Cleaning(why)
                /\ doing' = IF why = "exit" THEN Stopped ELSE Idle
                /\ rules' = Absent
\* The daemon does not start with rules it cannot remove.
CleanFails(why) == /\ doing = Cleaning(why)
                   /\ doing' = IF why \in {"boot", "exit"} THEN Failed ELSE Idle
                   /\ rules' \in {rules, Absent}

Next == \/ Start \/ Begin \/ Crash
        \/ \E s \in Sigs : Install(s) \/ InstallOk(s) \/ InstallFails(s)
        \/ \E why \in Purposes : Clean(why) \/ CleanOk(why) \/ CleanFails(why)
Spec == Init /\ [][Next]_<<rules, doing>>
=============================================================================
