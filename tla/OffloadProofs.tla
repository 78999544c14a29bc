---------------------------- MODULE OffloadProofs ----------------------------
(***************************************************************************)
(* Proofs about Offload, for every set of values.  That what is borrowed   *)
(* comes back is proved for every fault but that of removing a journal     *)
(* file; that nothing else is ever put back, for that one too.             *)
(***************************************************************************)
EXTENDS Offload, TLAPS

Original == before \in past \ {Ours}

\* The setting is ours only while the journal is whole; the journal is only
\* there with an original; nothing of ours is in the setting where the code
\* writes the journal or is about to remove it.
Journal ==
    /\ mine => setting = Ours /\ owned = Ours
    /\ ~mine => setting \in past
    /\ owned # Absent \/ pc = "writeOwned" => Original
    /\ pc = "writeBefore" => old \in past \ {Ours} /\ owned = Absent
    /\ pc \in {"writeBefore", "writeOwned", "disable", "verify", "forgetOwned",
               "forgetBefore"} => ~mine
    /\ pc = "disable" => owned = Ours
    /\ pc = "forgetBefore" => owned = Absent
    /\ pc \in {"putBack", "verify"} => owned # Absent
IInv == TypeOK /\ Journal

USE OffloadAssumption

LEMMA InitInv == Init => IInv
<1>1. Init => TypeOK BY DEF Init, TypeOK, File
<1>2. Init => Journal BY DEF Init, Journal
<1>3. QED BY <1>1, <1>2 DEF IInv

LEMMA TypeNext == TypeOK /\ [Next]_vars => TypeOK'
<1> SUFFICES ASSUME TypeOK, [Next]_vars PROVE TypeOK' OBVIOUS
<1> USE DEF TypeOK, File, files, seen, Goto, Fault, Spend
<1>1. CASE Read BY <1>1 DEF Read
<1>2. CASE WriteBefore BY <1>2 DEF WriteBefore, WriteFile
<1>3. CASE WriteOwned BY <1>3 DEF WriteOwned, WriteFile
<1>4. CASE Disable
  <2>1. setting' \in File /\ mine' \in BOOLEAN BY <1>4 DEF Disable, Set
  <2>2. pc' \in {pc, "run", "verify", then} /\ budget' \in Nat BY <1>4 DEF Disable, Set
  <2>3. QED BY <1>4, <2>1, <2>2 DEF Disable
<1>5. CASE Compare BY <1>5 DEF Compare, Look
<1>6. CASE PutBack
  <2>1. setting' \in File /\ mine' \in BOOLEAN BY <1>6 DEF PutBack, Set
  <2>2. pc' \in {pc, "run", "verify", then} /\ budget' \in Nat BY <1>6 DEF PutBack, Set
  <2>3. QED BY <1>6, <2>1, <2>2 DEF PutBack, Overwrite
<1>7. CASE Verify BY <1>7 DEF Verify
<1>8. CASE ForgetOwned BY <1>8 DEF ForgetOwned, Forget
<1>9. CASE ForgetBefore BY <1>9 DEF ForgetBefore, Forget
<1>10. CASE Start BY <1>10 DEF Start
<1>11. CASE Tick BY <1>11 DEF Tick
<1>12. CASE Stop BY <1>12 DEF Stop
<1>13. CASE Crash BY <1>13 DEF Crash
<1>14. CASE ChangeByOthers
  <2>1. setting' \in File /\ mine' \in BOOLEAN BY <1>14 DEF ChangeByOthers
  <2>2. pc' \in {pc, "run", "verify", then} /\ budget' \in Nat BY <1>14 DEF ChangeByOthers
  <2>3. QED BY <1>14, <2>1, <2>2 DEF ChangeByOthers
<1>15. CASE UNCHANGED vars BY <1>15 DEF vars
<1>16. QED
  BY <1>1, <1>2, <1>3, <1>4, <1>5, <1>6, <1>7, <1>8, <1>9, <1>10, <1>11, <1>12, <1>13,
     <1>14, <1>15 DEF Next, Apply, Restore

LEMMA JournalNext == "unlink" \notin Faulty => (IInv /\ [Next]_vars => Journal')
<1> SUFFICES ASSUME "unlink" \notin Faulty, TypeOK, Journal, [Next]_vars PROVE Journal'
  BY DEF IInv
<1> USE DEF TypeOK, Journal, Original, files, seen, Goto, Fault, Spend
<1>1. CASE Read BY <1>1 DEF Read
<1>2. CASE WriteBefore BY <1>2 DEF WriteBefore, WriteFile
<1>3. CASE WriteOwned BY <1>3 DEF WriteOwned, WriteFile
<1>4. CASE Disable BY <1>4 DEF Disable, Set
<1>5. CASE Compare BY <1>5 DEF Compare, Look
<1>6. CASE PutBack BY <1>6 DEF PutBack, Set
<1>7. CASE Verify BY <1>7 DEF Verify
<1>8. CASE ForgetOwned BY <1>8 DEF ForgetOwned, Forget
<1>9. CASE ForgetBefore BY <1>9 DEF ForgetBefore, Forget
<1>10. CASE Start BY <1>10 DEF Start
<1>11. CASE Tick BY <1>11 DEF Tick
<1>12. CASE Stop BY <1>12 DEF Stop
<1>13. CASE Crash BY <1>13 DEF Crash
<1>14. CASE ChangeByOthers BY <1>14 DEF ChangeByOthers
<1>15. CASE UNCHANGED vars BY <1>15 DEF vars
<1>16. QED
  BY <1>1, <1>2, <1>3, <1>4, <1>5, <1>6, <1>7, <1>8, <1>9, <1>10, <1>11, <1>12, <1>13,
     <1>14, <1>15 DEF Next, Apply, Restore

LEMMA NextInv == "unlink" \notin Faulty => (IInv /\ [Next]_vars => IInv')
BY TypeNext, JournalNext DEF IInv

\* The variables keep their types.
THEOREM TypeCorrect == Spec => []TypeOK
<1>1. Init => TypeOK BY InitInv DEF IInv
<1>2. QED BY <1>1, TypeNext, PTL DEF Spec

\* At every step of apply, restore, a crash and a retry, a setting that apply
\* wrote has a whole journal with a value somebody else chose, and nothing of
\* ours is in the setting once the journal's ownership is gone.
THEOREM AlwaysRecoverable == "unlink" \notin Faulty => (Spec => []Recoverable)
<1> SUFFICES ASSUME "unlink" \notin Faulty PROVE Spec => []Recoverable OBVIOUS
<1>1. IInv => Recoverable
  BY DEF IInv, Journal, Original, Recoverable, JournalUsable, NothingLeft
<1>2. QED BY <1>1, InitInv, NextInv, PTL DEF Spec

\* The fault the proofs of this and the next section leave out.
Sound == "unlink" \notin Faulty

-----------------------------------------------------------------------------
(* What an owner chose last, whenever it was written.                       *)

\* A choice that is not lost is in the setting, or in the journal while the
\* setting is ours; restore is about to write only while it is ours.
Remembered ==
    choice # "lost" /\ user # Ours =>
    /\ ~mine => setting = user
    /\ mine \/ (pc = "putBack" /\ choice = "kept") => before = user
CInv == IInv /\ Remembered

LEMMA CInvNext == Sound => (CInv /\ [Next]_vars => CInv')
<1> SUFFICES ASSUME Sound, CInv, [Next]_vars PROVE Remembered'
  BY NextInv DEF CInv, Sound
<1> USE DEF CInv, IInv, TypeOK, Journal, Remembered, Sound, files, seen, Goto, Fault, Spend
<1>1. CASE Read \/ WriteBefore \/ WriteOwned
  BY <1>1 DEF Read, WriteBefore, WriteOwned, WriteFile
<1>2. CASE Disable BY <1>2 DEF Disable, Set
<1>3. CASE Compare
  <2>1. UNCHANGED <<setting, before, user, mine>> BY <1>3 DEF Compare
  <2>2. choice' # "lost" => choice # "lost" BY <1>3 DEF Compare, Look
  <2>3. pc' = "putBack" => setting = Ours BY <1>3 DEF Compare
  <2>4. QED BY <2>1, <2>2, <2>3
<1>4. CASE PutBack
  <2>1. UNCHANGED <<before, user>> /\ pc' \in {"verify", then} BY <1>4 DEF PutBack, Set
  <2>2. CASE UNCHANGED <<setting, mine>>
    BY <1>4, <2>1, <2>2 DEF PutBack, Overwrite
  <2>3. CASE setting' = before /\ mine' = FALSE
    BY <1>4, <2>1, <2>3 DEF PutBack, Overwrite
  <2>4. QED BY <1>4, <2>2, <2>3 DEF PutBack, Set
<1>5. CASE Verify \/ ForgetOwned \/ ForgetBefore
  BY <1>5 DEF Verify, ForgetOwned, ForgetBefore, Forget
<1>6. CASE Start \/ Tick \/ Stop \/ Crash
  BY <1>6 DEF Start, Tick, Stop, Crash
<1>7. CASE ChangeByOthers BY <1>7 DEF ChangeByOthers
<1>8. CASE UNCHANGED vars BY <1>8 DEF vars
<1>9. QED
  BY <1>1, <1>2, <1>3, <1>4, <1>5, <1>6, <1>7, <1>8 DEF Next, Apply, Restore

\* The setting an owner chose comes back, was never taken, or was written after
\* ours and is left alone.
THEOREM OwnersChoiceKept == Sound => (Spec => []OwnersChoice)
<1> SUFFICES ASSUME Sound PROVE Spec => []OwnersChoice OBVIOUS
<1>1. Init => CInv BY InitInv DEF CInv, Remembered, Init
<1>2. CInv => OwnersChoice
  BY DEF CInv, IInv, Journal, Remembered, OwnersChoice
<1>3. QED BY <1>1, <1>2, CInvNext, PTL DEF Spec

-----------------------------------------------------------------------------
(* The refinement, where others leave a journalled setting alone.           *)

\* The setting or the journal holds what its owner chose last.
Faithful ==
    others = "unowned" =>
    /\ ~mine => setting = user
    /\ owned # Absent \/ pc = "writeOwned" => before = user
    /\ pc = "writeBefore" => old = user
    /\ pc \in {"writeBefore", "writeOwned", "disable"} => setting \in Values \ {Ours}
RInv == IInv /\ Faithful

LEMMA RInvInit == Init => RInv
BY InitInv DEF RInv, Faithful, Init

LEMMA RInvNext == Sound => (RInv /\ [Next]_vars => RInv')
<1> SUFFICES ASSUME Sound, RInv, [Next]_vars PROVE Faithful'
  BY NextInv DEF RInv, Sound
<1> USE DEF RInv, IInv, TypeOK, Journal, Faithful, Sound, files, seen, Goto, Fault, Spend
<1>1. CASE Apply
  BY <1>1 DEF Apply, Read, WriteBefore, WriteOwned, Disable, WriteFile, Set
<1>2. CASE Restore
  BY <1>2 DEF Restore, Compare, Look, PutBack, Overwrite, Verify, ForgetOwned, ForgetBefore, Set, Forget
<1>3. CASE Start \/ Tick \/ Stop \/ Crash
  BY <1>3 DEF Start, Tick, Stop, Crash
<1>4. CASE ChangeByOthers
  BY <1>4 DEF ChangeByOthers, Allowed
<1>5. CASE UNCHANGED vars BY <1>5 DEF vars
<1>6. QED BY <1>1, <1>2, <1>3, <1>4, <1>5 DEF Next

\* What the refinement sees of a state.
Seen == <<IF others = "unowned" THEN setting ELSE Odd, IF Lent THEN before ELSE Absent>>

LEMMA LoanStep == Sound => (RInv /\ [Next]_vars => [AsLoan!Next]_Seen)
<1> SUFFICES ASSUME Sound, RInv, [Next]_vars PROVE [AsLoan!Next]_Seen OBVIOUS
<1> USE DEF RInv, IInv, TypeOK, Journal, Original, Faithful, Sound, files, seen, Goto,
        Fault, Spend, Seen, Lent
<1>1. others' = others
  BY DEF Next, Apply, Restore, Read, WriteBefore, WriteOwned, Disable, Compare, PutBack,
     Verify, ForgetOwned, ForgetBefore, Start, Tick, Stop, Crash, ChangeByOthers, vars
<1>2. CASE others # "unowned"
  BY <1>1, <1>2
<1>3. CASE others = "unowned" /\ Disable
  <2>1. CASE UNCHANGED <<setting, mine>>
    BY <1>1, <1>3, <2>1 DEF Disable
  <2>2. CASE setting' = Ours /\ mine' = TRUE
    BY <1>1, <1>3, <2>2 DEF Disable, AsLoan!Next, AsLoan!Borrow
  <2>3. QED BY <1>3, <2>1, <2>2 DEF Disable, Set
<1>4. CASE others = "unowned" /\ PutBack
  <2>1. CASE UNCHANGED <<setting, mine>>
    BY <1>1, <1>4, <2>1 DEF PutBack
  <2>2. CASE setting' = before /\ mine' = FALSE
    BY <1>1, <1>4, <2>2 DEF PutBack, AsLoan!Next, AsLoan!GiveBack
  <2>3. QED BY <1>4, <2>1, <2>2 DEF PutBack, Set
<1>5. CASE others = "unowned" /\ ChangeByOthers
  BY <1>1, <1>5 DEF ChangeByOthers, Allowed, AsLoan!Next, AsLoan!Change
<1>6. CASE WriteBefore \/ ForgetBefore
  BY <1>1, <1>6 DEF WriteBefore, ForgetBefore
<1>7. CASE UNCHANGED <<setting, before, mine>>
  BY <1>1, <1>7
<1>8. QED
  BY <1>2, <1>3, <1>4, <1>5, <1>6, <1>7 DEF Next, Apply, Restore, Read, WriteOwned, Compare,
     Verify, ForgetOwned, Start, Tick, Stop, Crash, vars

\* Where others leave a journalled setting alone, the code borrows the setting
\* and gives back exactly the value it took.
THEOREM RefinesLoan == Sound => (Spec => ImplementsLoan)
<1> SUFFICES ASSUME Sound PROVE Spec => ImplementsLoan OBVIOUS
<1>1. Init => AsLoan!Init
  BY DEF Init, AsLoan!Init, Lent
<1>2. QED
  BY <1>1, RInvInit, RInvNext, LoanStep, PTL DEF Spec, ImplementsLoan, AsLoan!Spec, Seen

-----------------------------------------------------------------------------
(* Under every fault, that of removing a journal file included.             *)

\* A journal file that is there holds a value somebody else wrote, or nothing
\* while apply has yet to write it.
Genuine ==
    /\ before \in (past \ {Ours}) \cup {Absent, Torn}
    /\ ~mine => setting \in past
    /\ owned # Absent \/ pc = "writeOwned" => before # Torn
    /\ pc = "writeBefore" => old \in past \ {Ours} /\ owned = Absent
    /\ pc = "putBack" => before \in past \ {Ours}
    /\ mine => setting = Ours

LEMMA Unlike == TypeOK => Absent # Torn /\ Torn \notin past /\ Absent \notin past
<1> SUFFICES ASSUME past \subseteq Values \cup {Odd}
             PROVE Absent # Torn /\ Torn \notin past /\ Absent \notin past
  BY DEF TypeOK
<1> QED OBVIOUS

LEMMA GenuineNext == TypeOK /\ Genuine /\ [Next]_vars => Genuine'
<1> SUFFICES ASSUME TypeOK, Genuine, [Next]_vars PROVE Genuine' OBVIOUS
<1> USE DEF TypeOK, Genuine, files, seen, Goto, Fault, Spend
<1>1. CASE Read BY <1>1 DEF Read
<1>2. CASE WriteBefore
  <2>1. UNCHANGED <<setting, owned, old, seen, mine>> /\ pc = "writeBefore"
    BY <1>2 DEF WriteBefore
  <2>2. before' \in {old, before, Torn} /\ pc' \in {"writeOwned", "run", "off"}
    BY <1>2 DEF WriteBefore, WriteFile
  <2>3. pc' = "writeOwned" => before' = old
    BY <1>2 DEF WriteBefore, WriteFile
  <2>4. old \in past \ {Ours} /\ old # Torn
    BY <2>1, Unlike
  <2>5. QED BY <2>1, <2>2, <2>3, <2>4
<1>3. CASE WriteOwned BY <1>3 DEF WriteOwned, WriteFile
<1>4. CASE Disable BY <1>4 DEF Disable, Set
<1>5. CASE Compare BY <1>5 DEF Compare, Look
<1>6. CASE PutBack BY <1>6 DEF PutBack, Set
<1>7. CASE Verify BY <1>7 DEF Verify
<1>8. CASE ForgetOwned BY <1>8 DEF ForgetOwned, Forget
<1>9. CASE ForgetBefore
  <2>1. UNCHANGED <<setting, owned, old, seen, mine>> /\ pc' = then
    BY <1>9 DEF ForgetBefore, Forget
  <2>2. before' \in {before, Absent}
    BY <1>9 DEF ForgetBefore, Forget
  <2>3. pc' \in {"run", "off"} BY <2>1
  <2>4. pc = "forgetBefore" BY <1>9 DEF ForgetBefore
  <2>5. QED BY <2>1, <2>2, <2>3, <2>4, Unlike
<1>10. CASE Start \/ Tick \/ Stop \/ Crash BY <1>10 DEF Start, Tick, Stop, Crash
<1>11. CASE ChangeByOthers BY <1>11 DEF ChangeByOthers
<1>12. CASE UNCHANGED vars BY <1>12 DEF vars
<1>13. QED
  BY <1>1, <1>2, <1>3, <1>4, <1>5, <1>6, <1>7, <1>8, <1>9, <1>10, <1>11, <1>12
  DEF Next, Apply, Restore

\* The setting changes to the value that disables offload, to one its owners
\* wrote before, or because they write it now.
NothingInvented ==
    [][setting' # setting => \/ setting' = Ours /\ mine'
                             \/ setting' \in past \ {Ours}
                             \/ setting' = user']_vars

\* Whatever fails, dies or cannot be removed, and whoever writes the setting
\* when: restore never writes a value nobody chose, an empty one (a torn journal)
\* or our own (offload.rs:62-68, 91-109).
THEOREM RestoresOnlyOriginals == Spec => NothingInvented
<1> DEFINE Chosen == setting' # setting => \/ setting' = Ours /\ mine'
                                           \/ setting' \in past \ {Ours}
                                           \/ setting' = user'
<1>1. Init => TypeOK /\ Genuine
  BY InitInv DEF IInv, Init, Genuine
<1>2. Spec => [](TypeOK /\ Genuine)
  BY <1>1, TypeNext, GenuineNext, PTL DEF Spec
<1>3. TypeOK /\ Genuine /\ [Next]_vars => Chosen
  BY DEF Genuine, Next, Apply, Restore, Read, WriteBefore, WriteOwned, Disable, Compare, PutBack, Verify,
         ForgetOwned, ForgetBefore, Start, Tick, Stop, Crash, ChangeByOthers, Set, vars
<1> HIDE DEF Chosen
<1>4. Spec => [][Chosen]_vars
  BY <1>2, <1>3, PTL DEF Spec
<1> QED
  BY <1>4 DEF NothingInvented, Chosen
=============================================================================
