-------------------------------- MODULE Loan --------------------------------
(***************************************************************************)
(* What the offload journal promises about one setting of Android, with no *)
(* journal, no process and no failure: the module borrows the setting and  *)
(* gives back exactly the value it took it with.  While it is lent nobody  *)
(* else writes it.                                                         *)
(***************************************************************************)
CONSTANTS Values, Ours, Odd, Nobody

VARIABLES
    setting,  \* the value Android holds
    saved     \* the value to give back, Nobody when the setting is not lent

Init == setting \in Values \cup {Odd} /\ saved = Nobody

Borrow == /\ saved = Nobody /\ setting \in Values \ {Ours}
          /\ saved' = setting /\ setting' = Ours
GiveBack == /\ saved # Nobody
            /\ setting' = saved /\ saved' = Nobody
Change == /\ saved = Nobody
          /\ setting' \in Values \cup {Odd} /\ UNCHANGED saved

Next == Borrow \/ GiveBack \/ Change
Spec == Init /\ [][Next]_<<setting, saved>>
=============================================================================
