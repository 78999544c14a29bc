------------------------------- MODULE Offload -------------------------------
(***************************************************************************)
(* One offload setting of Android and its journal (src/offload.rs).  The   *)
(* loops over hw, bpf and bpf_tethering treat the keys one after the other *)
(* and share nothing between them, so one key is the whole story.          *)
(*                                                                         *)
(* apply() runs when the daemon starts and every 30 s, restore() when it   *)
(* exits, when it starts with DISABLE_OFFLOAD=0 and in `nfqttl stop`.  The *)
(* process can die between any two steps; the user, a vendor service or an *)
(* update can change the setting at any time.                              *)
(***************************************************************************)
EXTENDS Naturals

CONSTANTS
    Values,   \* the values valid() accepts for the key, "null" included
    Ours,     \* the one that disables offload
    Odd,      \* any value valid() rejects
    Absent,   \* a journal file that does not exist
    Torn,     \* a journal file created and not written: read_trim gives ""
    Faulty,   \* what can fail: "read", "set", "file", "unlink", "crash"
    Users,    \* when others may change the setting: "unowned", "anytime"
    Budget    \* bound: faults and changes by others

ASSUME OffloadAssumption ==
    /\ Ours \in Values
    /\ Odd \notin Values /\ Absent \notin Values /\ Torn \notin Values
    /\ Odd # Absent /\ Odd # Torn /\ Absent # Torn
    /\ Faulty \subseteq {"read", "set", "file", "unlink", "crash"}
    /\ Users \subseteq {"unowned", "anytime"}
    /\ Budget \in Nat

VARIABLES
    setting,  \* the value Android holds
    before,   \* the journal file offload.<key>.before
    owned,    \* the journal file offload.<key>.owned
    pc,       \* what the process does next; "off" when there is none
    then,     \* where restore returns to: "run" or "off"
    enabled,  \* the daemon's disable_offload
    old,      \* the value apply read
    budget,
    others,   \* when others change the setting, one of Users
    \* observation
    user,     \* the value somebody else wrote last
    past,     \* every value somebody else wrote
    mine,     \* the setting's value was written by apply
    choice    \* of what became of user: "kept"; "unseen", written after restore
              \* compared; "lost", overwritten and not journalled

files == <<before, owned>>
seen == <<user, past, choice>>
vars == <<setting, before, owned, pc, then, enabled, old, budget, others, user, past, mine, choice>>

Spend == budget > 0 /\ budget' = budget - 1
Fault(kind) == kind \in Faulty /\ Spend

\* fs::write: done, refused, or left empty; a process killed inside it leaves
\* the file empty too.
WriteFile(file, new, ok, bad) ==
    \/ file' = new /\ pc' = ok /\ UNCHANGED budget
    \/ file' \in {file, Torn} /\ pc' = bad /\ Fault("file")
    \/ file' = Torn /\ pc' = "off" /\ Fault("crash")

\* A settings command: done, refused, or killed after it took effect.
Set(new, isMine, ok, bad) ==
    \/ setting' = new /\ mine' = isMine /\ pc' = ok /\ UNCHANGED budget
    \/ UNCHANGED <<setting, mine>> /\ pc' = bad /\ Fault("set")
    \/ setting' = new /\ mine' = isMine /\ pc' = bad /\ Fault("set")

Goto(next) == pc' = next /\ UNCHANGED budget

-----------------------------------------------------------------------------
(* apply                                                                    *)

\* Mutant: the original is not journalled.
ReadUnsaved ==
    /\ pc = "read"
    /\ old' = setting
    /\ \/ Goto(IF setting \notin Values \/ setting = Ours THEN "run" ELSE "writeOwned")
       \/ pc' = "run" /\ Fault("read")
    /\ UNCHANGED <<setting, files, then, enabled, seen, mine, others>>
Read ==
    /\ pc = "read"
    /\ old' = setting
    /\ \/ Goto(IF setting \notin Values \/ setting = Ours THEN "run"
               ELSE IF owned = Absent THEN "writeBefore" ELSE "writeOwned")
       \/ pc' = "run" /\ Fault("read")
    /\ UNCHANGED <<setting, files, then, enabled, seen, mine, others>>
\* Ownership is journalled before the setting is written.
\* Mutant: the journal of ownership is forgotten.
WriteBeforeOnly ==
    /\ pc = "writeBefore"
    /\ WriteFile(before, old, "disable", "run")
    /\ UNCHANGED <<setting, owned, then, enabled, old, seen, mine, others>>
WriteBefore ==
    /\ pc = "writeBefore"
    /\ WriteFile(before, old, "writeOwned", "run")
    /\ UNCHANGED <<setting, owned, then, enabled, old, seen, mine, others>>
\* Mutant: the value read is journalled as ours.
WriteOwnedOld ==
    /\ pc = "writeOwned"
    /\ WriteFile(owned, old, "disable", "run")
    /\ UNCHANGED <<setting, before, then, enabled, old, seen, mine, others>>
WriteOwned ==
    /\ pc = "writeOwned"
    /\ WriteFile(owned, Ours, "disable", "run")
    /\ UNCHANGED <<setting, before, then, enabled, old, seen, mine, others>>
\* A value that somebody wrote after the journal is overwritten with no record.
Disable ==
    /\ pc = "disable"
    /\ Set(Ours, TRUE, "run", "run")
    /\ choice' = IF mine' /\ before # user THEN "lost" ELSE choice
    /\ UNCHANGED <<files, then, enabled, old, user, past, others>>

-----------------------------------------------------------------------------
(* restore                                                                  *)

\* restore looks at the setting: what others wrote until now, it sees.
Look == choice' = IF choice = "unseen" THEN "kept" ELSE choice
\* Mutant: the original is put back whatever the setting holds now.
CompareAlways ==
    /\ pc = "compare"
    /\ \/ Goto(IF owned = Absent THEN then
               ELSE IF before # Absent THEN "putBack" ELSE "forgetOwned")
       \/ pc' = then /\ Fault("read")
    /\ Look
    /\ UNCHANGED <<setting, files, then, enabled, old, user, past, mine, others>>
\* Mutant: a failed read is taken for a change by somebody else.
CompareBlind ==
    /\ pc = "compare"
    /\ \/ Goto(IF owned = Absent THEN then
               ELSE IF setting = owned /\ before # Absent THEN "putBack"
               ELSE "forgetOwned")
       \/ pc' = "forgetOwned" /\ Fault("read")
    /\ Look
    /\ UNCHANGED <<setting, files, then, enabled, old, user, past, mine, others>>
Compare ==
    /\ pc = "compare"
    /\ \/ Goto(IF owned = Absent THEN then
               ELSE IF setting = owned /\ before # Absent THEN "putBack"
               ELSE "forgetOwned")
       \/ pc' = then /\ Fault("read")
    /\ Look
    /\ UNCHANGED <<setting, files, then, enabled, old, user, past, mine, others>>
\* What was written since restore looked is overwritten with no record.
Overwrite ==
    choice' = IF choice = "unseen" /\ setting' # user THEN "lost" ELSE choice
\* Mutant: the journal is dropped whatever the write's result.
PutBackOnce ==
    /\ pc = "putBack"
    /\ Set(before, FALSE, "forgetOwned", "forgetOwned")
    /\ Overwrite
    /\ UNCHANGED <<files, then, enabled, old, user, past, others>>
PutBack ==
    /\ pc = "putBack"
    /\ Set(before, FALSE, "verify", then)
    /\ Overwrite
    /\ UNCHANGED <<files, then, enabled, old, user, past, others>>
Verify ==
    /\ pc = "verify"
    /\ \/ Goto(IF setting = before THEN "forgetOwned" ELSE then)
       \/ pc' = then /\ Fault("read")
    /\ UNCHANGED <<setting, files, then, enabled, old, seen, mine, others>>
Forget(file, next) ==
    /\ pc' = next
    /\ \/ file' = Absent /\ UNCHANGED budget
       \/ file' = file /\ Fault("unlink")
ForgetOwned ==
    /\ pc = "forgetOwned"
    /\ Forget(owned, "forgetBefore")
    /\ UNCHANGED <<setting, before, then, enabled, old, seen, mine, others>>
ForgetBefore ==
    /\ pc = "forgetBefore"
    /\ Forget(before, then)
    /\ UNCHANGED <<setting, owned, then, enabled, old, seen, mine, others>>

-----------------------------------------------------------------------------
(* The processes that call them, and the others                             *)

Start ==
    /\ pc = "off"
    /\ enabled' \in BOOLEAN
    /\ then' = "run"
    /\ Goto(IF enabled' THEN "read" ELSE "compare")
    /\ UNCHANGED <<setting, files, old, seen, mine, others>>
\* Every 30 s; apply(false) returns at once.
Tick ==
    /\ pc = "run" /\ enabled
    /\ Goto("read")
    /\ UNCHANGED <<setting, files, then, enabled, old, seen, mine, others>>
\* The daemon's exit, or `nfqttl stop` after it.
Stop ==
    /\ pc \in {"run", "off"}
    /\ then' = "off"
    /\ Goto("compare")
    /\ UNCHANGED <<setting, files, enabled, old, seen, mine, others>>
Crash ==
    /\ pc # "off"
    /\ pc' = "off" /\ Fault("crash")
    /\ UNCHANGED <<setting, files, then, enabled, old, seen, mine, others>>

Allowed == \/ others = "anytime"
           \/ others = "unowned" /\ pc \in {"run", "off"} /\ owned = Absent
ChangeByOthers ==
    /\ Allowed /\ Spend
    /\ setting' \in (Values \cup {Odd}) \ {setting}
    /\ user' = setting' /\ past' = past \cup {setting'} /\ mine' = FALSE
    /\ choice' = IF pc = "putBack" THEN "unseen" ELSE "kept"
    /\ UNCHANGED <<files, pc, then, enabled, old, others>>

-----------------------------------------------------------------------------
Init ==
    /\ setting \in Values \cup {Odd}
    /\ before = Absent /\ owned = Absent
    /\ pc = "off" /\ then = "off" /\ enabled = FALSE /\ old = Odd
    /\ budget = Budget /\ others \in Users
    /\ user = setting /\ past = {setting} /\ mine = FALSE
    /\ choice = "kept"

Apply == Read \/ WriteBefore \/ WriteOwned \/ Disable
Restore == Compare \/ PutBack \/ Verify \/ ForgetOwned \/ ForgetBefore
Next == Apply \/ Restore \/ Start \/ Tick \/ Stop \/ Crash \/ ChangeByOthers

Spec == Init /\ [][Next]_vars

-----------------------------------------------------------------------------
(* Properties                                                               *)

File == Values \cup {Odd, Absent, Torn}
TypeOK ==
    /\ setting \in File /\ before \in File /\ owned \in {Absent, Torn, Ours}
    /\ pc \in {"off", "run", "read", "writeBefore", "writeOwned", "disable", "compare",
               "putBack", "verify", "forgetOwned", "forgetBefore"}
    /\ then \in {"run", "off"} /\ enabled \in BOOLEAN
    /\ old \in File /\ budget \in Nat
    /\ user \in Values \cup {Odd} /\ past \subseteq Values \cup {Odd}
    /\ mine \in BOOLEAN /\ others \in Users /\ choice \in {"kept", "unseen", "lost"}

\* Whatever dies or fails next, the next restore can put a real value back:
\* whenever the setting holds a value apply wrote, both journal files are whole
\* and the original is one somebody else wrote, never our own (apply 62-68);
\* and once the journal's ownership is gone, nothing of ours is left in the
\* setting (restore removes it only after the old value was read back).
JournalUsable == mine => owned = Ours /\ before \in past \ {Ours}
NothingLeft == owned = Absent => ~mine
Recoverable == JournalUsable /\ NothingLeft

\* After a restore that ran to its end, the setting is what its owner chose
\* last, also when that choice was made while the setting was journalled:
\* "restoring does not overwrite differing external changes" (README_RU.md:103,
\* integration.py:84-86).  Left out are a choice equal to ours, which restore
\* cannot tell from ours, and the lost ones: written between restore's look and
\* its write, or found there by the apply of every 30 s, which disables offload
\* again and keeps the first original only (offload.rs:62-69).
OwnersChoice ==
    pc = "off" /\ owned = Absent /\ user # Ours /\ choice # "lost" => setting = user

\* When others leave the setting alone while it is journalled, the daemon and
\* its journal borrow the setting and give back exactly what they took, through
\* every crash, retry and restart.  Other behaviours are mapped to no change at
\* all: nothing is promised of them here.
Lent == others = "unowned" /\ mine
AsLoan == INSTANCE Loan WITH setting <- IF others = "unowned" THEN setting ELSE Odd,
                             saved <- IF Lent THEN before ELSE Absent, Nobody <- Absent
ImplementsLoan == AsLoan!Spec
=============================================================================
