------------------------------ MODULE SqmProofs ------------------------------
(***************************************************************************)
(* Proofs about Sqm, for any interfaces, indexes, rates and faults: every  *)
(* queue of ours has its journal, a cleanup that returned Ok left none,    *)
(* the queues of others are kept, and sync leaves alone what it installed. *)
(***************************************************************************)
EXTENDS Sqm, TLAPS

USE SqmAssumption

-----------------------------------------------------------------------------
(* A step of one process                                                    *)

\* What the step of another process leaves alone.
Same(q) == /\ pc'[q] = pc[q] /\ wanted'[q] = wanted[q] /\ saved'[q] = saved[q]
           /\ dump'[q] = dump[q] /\ todo'[q] = todo[q] /\ iface'[q] = iface[q]
Others(p) == \A q \in Procs \ {p} : Same(q)

LEMMA CalledLocals ==
    ASSUME LocalsOK, NEW p \in Procs, NEW w \in Entries, NEW next \in Control,
           Called(p, w), To(p, next)
    PROVE /\ LocalsOK' /\ Others(p)
          /\ pc'[p] = next /\ wanted'[p] = w /\ saved'[p] = Nothing /\ todo'[p] = {}
<1>1. Nothing \in Entries
  BY DEF Nothing, Entries
<1>2. [x \in Indexes |-> Default] \in [Indexes -> Root]
  BY DEF Root
<1>3. QED
  BY <1>1, <1>2 DEF LocalsOK, Called, To, Others, Same

LEMMA ReturnLocals ==
    ASSUME LocalsOK, NEW p \in Procs, NEW ok, Return(p, ok)
    PROVE /\ LocalsOK' /\ Others(p)
          /\ pc'[p] \in {"run", "off"} /\ wanted'[p] = Nothing
<1>1. Nothing \in Entries
  BY DEF Nothing, Entries
<1>2. Called(p, Nothing)
  BY DEF Return
<1>3. To(p, "run") \/ To(p, "off")
  BY DEF Return
<1>4. "run" \in Control /\ "off" \in Control
  BY DEF Control
<1>5. QED
  BY <1>1, <1>2, <1>3, <1>4, CalledLocals

LEMMA ReconcileLocals ==
    ASSUME LocalsOK, NEW p \in Procs, root \in [Indexes -> Root], journal \in Entries,
           Reconcile(p)
    PROVE LocalsOK' /\ Others(p)
<1>1. CASE Return(p, TRUE) \/ Return(p, FALSE)
  BY <1>1, ReturnLocals
<1> SUFFICES ASSUME ~Return(p, TRUE), ~Return(p, FALSE) PROVE LocalsOK' /\ Others(p)
  BY <1>1
<1> USE DEF LocalsOK, Others, Same, Go, To, Control, job
<1>2. CASE ReadJournals(p)
  <2>1. saved' = [saved EXCEPT ![p] = journal] /\ UNCHANGED <<wanted, dump, todo, iface>>
    BY <1>2 DEF ReadJournals
  <2>2. pc' = [pc EXCEPT ![p] = "dump"]
    BY <1>2 DEF ReadJournals
  <2>3. QED
    BY <2>1, <2>2
<1>3. CASE Dump(p)
  <2>1. /\ dump' = [dump EXCEPT ![p] = root] /\ UNCHANGED <<wanted, saved, iface>>
        /\ todo' = [todo EXCEPT ![p] = {i \in Ifaces : saved[p][i] # None}]
        /\ pc' = [pc EXCEPT ![p] = "release"]
    BY <1>3 DEF Dump, Look
  <2>2. QED
    BY <2>1
<1>4. CASE Release(p)
  <2>1. CASE \E i \in Ifaces : Done(p, i) /\ Go(p, "release")
    BY <2>1 DEF Done
  <2>2. CASE \E i \in Ifaces : Turn(p, i) /\ (Go(p, "delete") \/ Go(p, "remove"))
    BY <2>2 DEF Turn
  <2>3. CASE /\ todo' = [todo EXCEPT ![p] = {i \in Ifaces : wanted[p][i] # None}]
             /\ UNCHANGED <<wanted, saved, dump, iface>>
             /\ Go(p, "acquire") \/ Go(p, "redump")
    BY <2>3
  <2>4. QED
    BY ONLY <1>4, <2>1, <2>2, <2>3 DEF Release
<1>5. CASE Delete(p)
  BY <1>5 DEF Delete, Request
<1>6. CASE RemoveJournal(p)
  <2>1. /\ Done(p, iface[p]) /\ pc' = [pc EXCEPT ![p] = "release"] /\ pc[p] = "remove"
    BY <1>6 DEF RemoveJournal
  <2>2. QED
    BY <2>1 DEF Done
<1>7. CASE Redump(p)
  <2>1. /\ dump' = [dump EXCEPT ![p] = root] /\ UNCHANGED <<wanted, saved, todo, iface>>
        /\ pc' = [pc EXCEPT ![p] = "acquire"] /\ pc[p] = "redump"
    BY <1>7 DEF Redump, Look
  <2>2. QED
    BY <2>1
<1>8. CASE Acquire(p)
  <2>1. CASE \E i \in Ifaces : Done(p, i) /\ Go(p, "acquire")
    BY <2>1 DEF Done
  <2>2. CASE \E i \in Ifaces : Turn(p, i) /\ Go(p, "write")
    BY <2>2 DEF Turn
  <2>3. QED
    BY <1>8, <2>1, <2>2 DEF Acquire
<1>9. CASE WriteJournal(p)
  BY <1>9 DEF WriteJournal
<1>10. CASE Add(p)
  BY <1>10 DEF Add, Request
<1>11. CASE Verify(p)
  <2>1. /\ Done(p, iface[p]) /\ pc' = [pc EXCEPT ![p] = "acquire"] /\ pc[p] = "verify"
    BY <1>11 DEF Verify
  <2>2. QED
    BY <2>1 DEF Done
<1>12. QED
  BY <1>2, <1>3, <1>4, <1>5, <1>6, <1>7, <1>8, <1>9, <1>10, <1>11 DEF Reconcile

\* The loops go through entries that exist.
LEMMA ReconcileLoop ==
    ASSUME LocalsOK, NEW p \in Procs, LoopOK(p), LocalsOK', Reconcile(p)
    PROVE LoopOK(p)'
<1>1. CASE Return(p, TRUE) \/ Return(p, FALSE)
  BY <1>1, ReturnLocals DEF LoopOK
<1> SUFFICES ASSUME ~Return(p, TRUE), ~Return(p, FALSE) PROVE LoopOK(p)'
  BY <1>1
<1> USE DEF LocalsOK, LoopOK, Go, To, job
<1>2. CASE ReadJournals(p)
  BY <1>2 DEF ReadJournals
<1>3. CASE Dump(p)
  <2>1. /\ dump' = [dump EXCEPT ![p] = root] /\ UNCHANGED <<wanted, saved, iface>>
        /\ todo' = [todo EXCEPT ![p] = {i \in Ifaces : saved[p][i] # None}]
        /\ pc' = [pc EXCEPT ![p] = "release"]
    BY <1>3 DEF Dump, Look
  <2>2. QED
    BY <2>1
<1>4. CASE Release(p)
  <2>1. CASE \E i \in Ifaces : Done(p, i) /\ Go(p, "release")
    BY <1>4, <2>1 DEF Done, Release
  <2>2. CASE \E i \in Ifaces : Least(p, i) /\ Turn(p, i) /\ (Go(p, "delete") \/ Go(p, "remove"))
    BY <1>4, <2>2 DEF Turn, Least, Release
  <2>3. CASE /\ todo' = [todo EXCEPT ![p] = {i \in Ifaces : wanted[p][i] # None}]
             /\ UNCHANGED <<wanted, saved, dump, iface>>
             /\ Go(p, "acquire") \/ Go(p, "redump")
    BY <2>3
  <2>4. QED
    BY ONLY <1>4, <2>1, <2>2, <2>3 DEF Release
<1>5. CASE Delete(p)
  BY <1>5 DEF Delete, Request
<1>6. CASE RemoveJournal(p)
  <2>1. /\ Done(p, iface[p]) /\ pc' = [pc EXCEPT ![p] = "release"] /\ pc[p] = "remove"
    BY <1>6 DEF RemoveJournal
  <2>2. QED
    BY <2>1 DEF Done
<1>7. CASE Redump(p)
  <2>1. /\ dump' = [dump EXCEPT ![p] = root] /\ UNCHANGED <<wanted, saved, todo, iface>>
        /\ pc' = [pc EXCEPT ![p] = "acquire"] /\ pc[p] = "redump"
    BY <1>7 DEF Redump, Look
  <2>2. QED
    BY <2>1
<1>8. CASE Acquire(p)
  <2>1. CASE \E i \in Ifaces : Done(p, i) /\ Go(p, "acquire")
    BY <1>8, <2>1 DEF Done, Acquire
  <2>2. CASE \E i \in Ifaces : Least(p, i) /\ Turn(p, i) /\ Go(p, "write")
    BY <1>8, <2>2 DEF Turn, Least, Acquire
  <2>3. QED
    BY <1>8, <2>1, <2>2 DEF Acquire
<1>9. CASE WriteJournal(p)
  BY <1>9 DEF WriteJournal
<1>10. CASE Add(p)
  BY <1>10 DEF Add, Request
<1>11. CASE Verify(p)
  <2>1. /\ Done(p, iface[p]) /\ pc' = [pc EXCEPT ![p] = "acquire"] /\ pc[p] = "verify"
    BY <1>11 DEF Verify
  <2>2. QED
    BY <2>1 DEF Done
<1>12. QED
  BY <1>2, <1>3, <1>4, <1>5, <1>6, <1>7, <1>8, <1>9, <1>10, <1>11 DEF Reconcile

\* What the loop at iface[p] deals with.
LEMMA AtEntry ==
    ASSUME TypeOK, NEW p \in Procs
    PROVE /\ pc[p] \in {"write", "add", "verify"} =>
               iface[p] \in Ifaces /\ wanted[p][iface[p]] \in Entry
          /\ pc[p] \in {"delete", "remove"} =>
               iface[p] \in Ifaces /\ saved[p][iface[p]] \in Entry
<1>1. wanted[p] \in Entries /\ saved[p] \in Entries /\ todo[p] \subseteq Ifaces /\ LoopOK(p)
  BY DEF TypeOK, LocalsOK
<1>2. \A i \in Ifaces : /\ wanted[p][i] # None => wanted[p][i] \in Entry
                        /\ saved[p][i] # None => saved[p][i] \in Entry
  BY <1>1 DEF Entries
<1>3. QED
  BY <1>1, <1>2 DEF LoopOK

LEMMA ReconcileFiles ==
    ASSUME TypeOK, NEW p \in Procs, Reconcile(p)
    PROVE root' \in [Indexes -> Root] /\ journal' \in Entries
<1> root \in [Indexes -> Root] /\ journal \in Entries
  BY DEF TypeOK, FilesOK
<1>1. CASE Delete(p)
  <2>1. root' = root \/ \E x : root' = [root EXCEPT ![x] = Default]
    BY <1>1 DEF Delete, Request
  <2>2. QED
    BY <1>1, <2>1 DEF Delete, Request, Root
<1>2. CASE Add(p)
  <2> DEFINE e == wanted[p][iface[p]]
  <2>1. e \in Entry
    BY <1>2, AtEntry DEF Add
  <2>2. Cake(e[2]) \in Root
    BY <2>1 DEF Cake, Root, Entry
  <2>3. root' = root \/ root' = [root EXCEPT ![e[1]] = Cake(e[2])]
    BY <1>2 DEF Add, Request
  <2>4. journal' = journal
    BY <1>2 DEF Add, Request
  <2> HIDE DEF e
  <2>5. QED
    BY <2>2, <2>3, <2>4
<1>3. CASE RemoveJournal(p)
  BY <1>3 DEF RemoveJournal, Entries
<1>4. CASE WriteJournal(p)
  <2>1. wanted[p][iface[p]] \in Entry
    BY <1>4, AtEntry DEF WriteJournal
  <2>2. journal' = journal \/ journal' = [journal EXCEPT ![iface[p]] = wanted[p][iface[p]]]
    BY <1>4 DEF WriteJournal
  <2>3. root' = root
    BY <1>4 DEF WriteJournal
  <2>4. QED
    BY <2>1, <2>2, <2>3 DEF Entries
<1>5. CASE ~(Delete(p) \/ Add(p) \/ RemoveJournal(p) \/ WriteJournal(p))
  BY <1>5 DEF Reconcile, ReadJournals, Dump, Release, Redump, Acquire, Verify, Look
<1>6. QED
  BY <1>1, <1>2, <1>3, <1>4, <1>5

\* The variables a reconcile leaves alone, and the Boolean ones.
LEMMA ReconcileRest ==
    ASSUME TypeOK, NEW p \in Procs, Reconcile(p)
    PROVE /\ UNCHANGED <<net, conf, quiet>> /\ budget' \in Nat
          /\ leaving' \in BOOLEAN /\ clean' \in BOOLEAN
<1> USE DEF TypeOK, FilesOK
<1>1. UNCHANGED <<net, conf, quiet>>
  BY DEF Reconcile, ReadJournals, Dump, Release, Delete, RemoveJournal, Redump, Acquire,
         WriteJournal, Add, Verify, Look, Request
<1>2. Free \/ \E kind : Fault(kind)
  BY DEF Reconcile, ReadJournals, Dump, Release, Delete, RemoveJournal, Redump, Acquire,
         WriteJournal, Add, Verify, Look, Request, Free
<1>3. budget' \in Nat
  BY <1>2 DEF Free, Fault, Spend
<1>4. Return(p, TRUE) \/ Return(p, FALSE) \/ UNCHANGED <<leaving, clean>>
  BY DEF Reconcile, ReadJournals, Dump, Release, Delete, RemoveJournal, Redump, Acquire,
         WriteJournal, Add, Verify, Look, Request, Go
<1>5. leaving' \in BOOLEAN
  BY <1>4 DEF Return
<1>6. clean' \in BOOLEAN
  BY <1>4 DEF Return
<1>7. QED
  BY <1>1, <1>3, <1>5, <1>6

LEMMA ReconcileTyped == ASSUME TypeOK, NEW p \in Procs, Reconcile(p) PROVE TypeOK'
<1>1. LocalsOK' /\ Others(p)
  BY ReconcileLocals DEF TypeOK, FilesOK
<1>2. LoopOK(p)'
  BY <1>1, ReconcileLoop DEF TypeOK
<1>3. \A q \in Procs \ {p} : LoopOK(q)'
  BY <1>1 DEF TypeOK, LoopOK, Others, Same
<1>4. NetOK' /\ FilesOK'
  BY ReconcileFiles, ReconcileRest DEF TypeOK, NetOK, FilesOK, net
<1>5. QED
  BY <1>1, <1>2, <1>3, <1>4 DEF TypeOK

LEMMA NothingTyped == Nothing \in Entries
BY DEF Nothing, Entries

LEMMA DesiredTyped == TypeOK => Desired \in Entries
<1> SUFFICES ASSUME TypeOK PROVE Desired \in Entries
  OBVIOUS
<1>1. ASSUME NEW i \in Ifaces, index[i] # None, conf[i] # None
      PROVE <<index[i], conf[i]>> \in Entry
  BY <1>1 DEF TypeOK, NetOK, FilesOK, Numbering, Entry
<1>2. QED
  BY <1>1 DEF Desired, Entries

\* A call, or the end of a process, disturbs only its locals.
LEMMA BeginTyped ==
    ASSUME TypeOK, NEW p \in Procs, NEW w \in Entries, NEW next \in {"read", "off"},
           Called(p, w), To(p, next)
    PROVE LocalsOK' /\ (\A q \in Procs : LoopOK(q)') /\ Others(p)
<1>1. next \in Control
  BY DEF Control
<1>2. LocalsOK' /\ Others(p) /\ pc'[p] = next
  BY <1>1, CalledLocals DEF TypeOK
<1>3. LoopOK(p)'
  BY <1>2 DEF LoopOK
<1>4. \A q \in Procs \ {p} : LoopOK(q)'
  BY <1>2 DEF TypeOK, LoopOK, Others, Same
<1>5. QED
  BY <1>2, <1>3, <1>4

LEMMA CallersTyped == TypeOK /\ (Sync \/ Callers) => TypeOK'
<1> SUFFICES ASSUME TypeOK, Sync \/ Callers PROVE TypeOK'
  OBVIOUS
<1>0. "daemon" \in Procs /\ "stop" \in Procs
  BY DEF Procs
<1> USE DEF FilesOK, NetOK, net
<1>1. CASE Start
  <2>1. LocalsOK'
    BY <1>1 DEF Start, To, TypeOK, LocalsOK, Control, job
  <2>2. \A q \in Procs : LoopOK(q)'
    BY <1>1, <1>0 DEF Start, To, TypeOK, LocalsOK, LoopOK, job
  <2>3. FilesOK' /\ NetOK'
    BY <1>1 DEF Start, TypeOK
  <2>4. QED
    BY <2>1, <2>2, <2>3 DEF TypeOK
<1>2. CASE StartPaused
  <2>1. LocalsOK' /\ \A q \in Procs : LoopOK(q)'
    BY <1>2, <1>0, BeginTyped, NothingTyped DEF StartPaused, Begin
  <2>2. QED
    BY <1>2, <2>1 DEF StartPaused, TypeOK
<1>3. CASE Sync
  <2>1. LocalsOK' /\ \A q \in Procs : LoopOK(q)'
    BY <1>3, <1>0, BeginTyped, DesiredTyped DEF Sync, Begin
  <2>2. QED
    BY <1>3, <2>1 DEF Sync, TypeOK
<1>4. CASE Leave
  <2>1. LocalsOK' /\ \A q \in Procs : LoopOK(q)'
    BY <1>4, <1>0, BeginTyped, NothingTyped DEF Leave, Begin
  <2>2. QED
    BY <1>4, <2>1 DEF Leave, TypeOK, Nothing, Spend
<1>5. CASE Stop
  <2>1. LocalsOK' /\ \A q \in Procs : LoopOK(q)'
    BY <1>5, <1>0, BeginTyped, NothingTyped DEF Stop, Begin
  <2>2. QED
    BY <1>5, <2>1 DEF Stop, TypeOK
<1>6. QED
  BY <1>1, <1>2, <1>3, <1>4, <1>5 DEF Callers

LEMMA KillTyped == ASSUME TypeOK, NEW p \in Procs, Kill(p) PROVE TypeOK'
<1>1. LocalsOK' /\ \A q \in Procs : LoopOK(q)'
  BY BeginTyped, NothingTyped DEF Kill
<1>2. leaving' \in BOOLEAN /\ conf' \in [Ifaces -> Rates \cup {None}]
  BY DEF Kill, Gone, Nothing, TypeOK, FilesOK
<1>3. QED
  BY <1>1, <1>2 DEF Kill, Fault, Spend, TypeOK, FilesOK, NetOK, net

LEMMA EnvironmentTyped == TypeOK /\ Environment => TypeOK'
<1> SUFFICES ASSUME TypeOK, Environment PROVE TypeOK'
  OBVIOUS
<1> USE DEF NetOK, FilesOK, Spend, net
<1>0. ASSUME UNCHANGED <<pc, job>> PROVE LocalsOK' /\ \A q \in Procs : LoopOK(q)'
  BY <1>0 DEF TypeOK, LocalsOK, LoopOK, job
<1>1. CASE Links
  BY <1>1, <1>0 DEF Links, TypeOK
<1>2. CASE Tc
  <2>1. root' \in [Indexes -> Root]
    BY <1>2 DEF Tc, Root, TypeOK
  <2>2. QED
    BY <1>2, <1>0, <2>1 DEF Tc, TypeOK
<1>3. CASE Reboot
  <2>1. LocalsOK' /\ \A q \in Procs : LoopOK(q)'
    BY <1>3, NothingTyped DEF Reboot, LocalsOK, LoopOK, Control, Root
  <2>2. root' \in [Indexes -> Root] /\ conf' \in [Ifaces -> Rates \cup {None}]
    BY <1>3 DEF Reboot, Root, Gone, Nothing
  <2>3. NetOK'
    BY <1>3 DEF Reboot
  <2>4. UNCHANGED <<journal, clean, quiet>> /\ ~leaving' /\ budget > 0 /\ budget' = budget - 1
    BY <1>3 DEF Reboot, Gone, Fault
  <2>5. leaving' \in BOOLEAN
    BY <1>3 DEF Reboot, Gone
  <2>6. FilesOK'
    BY <2>2, <2>4, <2>5 DEF TypeOK
  <2>7. QED
    BY <2>1, <2>3, <2>6 DEF TypeOK
<1>4. ASSUME NEW i \in Ifaces, Unplug(i) PROVE TypeOK'
  <2>1. index' \in Numbering
    BY <1>4 DEF Unplug, Numbering, TypeOK
  <2>2. root' \in [Indexes -> Root]
    BY <1>4 DEF Unplug, Numbering, Root, TypeOK
  <2>3. QED
    BY <1>4, <1>0, <2>1, <2>2 DEF Unplug, TypeOK
<1>5. ASSUME NEW i \in Ifaces, Plug(i) PROVE TypeOK'
  <2>1. index' \in Numbering
    BY <1>5 DEF Plug, Numbering, InUse, TypeOK
  <2>2. active' \subseteq Ifaces
    BY <1>5 DEF Plug, TypeOK
  <2>3. QED
    BY <1>5, <1>0, <2>1, <2>2 DEF Plug, TypeOK
<1>6. QED
  BY <1>1, <1>2, <1>3, <1>4, <1>5 DEF Environment

LEMMA InitTyped == Init => TypeOK
<1> SUFFICES ASSUME Init PROVE TypeOK
  OBVIOUS
<1>1. NetOK
  BY DEF Init, NetOK
<1>2. FilesOK
  BY NothingTyped DEF Init, FilesOK, Nothing, Root
<1>3. LocalsOK
  BY NothingTyped DEF Init, LocalsOK, Root, Control
<1>4. \A p \in Procs : LoopOK(p)
  BY DEF Init, LoopOK
<1>5. QED
  BY <1>1, <1>2, <1>3, <1>4 DEF TypeOK

LEMMA TypedNext == TypeOK /\ [Next]_vars => TypeOK'
<1>1. ASSUME TypeOK, UNCHANGED vars PROVE TypeOK'
  BY <1>1 DEF TypeOK, NetOK, FilesOK, LocalsOK, LoopOK, vars, net, job
<1>2. QED
  BY <1>1, ReconcileTyped, CallersTyped, KillTyped, EnvironmentTyped DEF Next

\* Every variable of Sqm keeps its type, and the loops of reconcile go through
\* entries that exist.
THEOREM TypeCorrect == Spec => []TypeOK
BY InitTyped, TypedNext, PTL DEF Spec

-----------------------------------------------------------------------------
(* The inductive invariant                                                  *)

Reading == {"release", "delete", "remove"}
Installing == {"redump", "acquire", "write", "add", "verify"}
Syncing == pc["daemon"] # "off" /\ ~leaving
Cleaner(p) == p = "stop" \/ leaving

\* Whoever may install is alone, and those who clean up want nothing.
Roles ==
    /\ Syncing => pc["stop"] = "off" /\ ~clean
    /\ pc["stop"] # "run" /\ (pc["daemon"] = "run" => ~leaving)
    /\ \A p \in Procs : Cleaner(p) => wanted[p] = Nothing
\* What a process read is still there or was removed; what it has dealt with is
\* wanted or gone.
Remembered(p) ==
    /\ pc[p] = "dump" => \A i \in Ifaces : journal[i] \in {None, saved[p][i]}
    /\ pc[p] \in Reading => \A i \in Ifaces :
         journal[i] \in {None, IF i \in todo[p] THEN saved[p][i] ELSE wanted[p][i]}
    /\ pc[p] \in Installing => \A i \in Ifaces : journal[i] \in {None, wanted[p][i]}
    /\ pc[p] = "add" => journal[iface[p]] = wanted[p][iface[p]]
\* No queue of ours has appeared behind a process that removes.
Current(p) ==
    /\ pc[p] \in Reading =>
         \A x \in Indexes : root[x].kind = "cake" => dump[p][x] = root[x]
    /\ pc[p] = "remove" => ~Owned(root, saved[p][iface[p]])
\* What a process is about to change is what its dump showed.
Seen(p) ==
    /\ pc[p] = "delete" => Owned(dump[p], saved[p][iface[p]])
    /\ pc[p] \in {"write", "add"} => dump[p][wanted[p][iface[p]][1]] = Default
    /\ quiet /\ pc[p] \in Reading \cup Installing =>
         \A x \in Indexes : root[x] \in Foreign => dump[p][x] = root[x]
Local(p) == Remembered(p) /\ Current(p) /\ Seen(p)
IInv == TypeOK /\ Roles /\ Journalled /\ CleanEnd /\ \A p \in Procs : Local(p)

\* Queues of ours and of others only go; so do journals.
Shrinks ==
    /\ \A x \in Indexes : root'[x].kind = "cake" => root'[x] = root[x]
    /\ quiet => \A x \in Indexes : root'[x] \in Foreign => root'[x] = root[x]
    /\ \A i \in Ifaces : journal'[i] \in {None, journal[i]}

LEMMA AtRest ==
    ASSUME NEW p \in Procs, pc'[p] \in {"off", "run", "read"} PROVE Local(p)'
BY DEF Local, Remembered, Current, Seen, Reading, Installing

\* What a process knows survives the steps of others that only take away.
LEMMA Undisturbed ==
    ASSUME NEW q \in Procs, Local(q), Same(q), Shrinks, UNCHANGED quiet,
           pc[q] # "add" \/ UNCHANGED journal, TypeOK
    PROVE Local(q)'
<1> USE DEF Same, Shrinks
<1>1. Remembered(q)'
  BY DEF Local, Remembered, Reading, Installing
<1>2. Current(q)'
  <2>1. ASSUME pc[q] \in Reading, NEW x \in Indexes, root'[x].kind = "cake"
        PROVE dump[q][x] = root'[x]
    BY <2>1 DEF Local, Current
  <2>2. ASSUME pc[q] = "remove" PROVE ~Owned(root, saved[q][iface[q]])'
    <3>1. saved[q][iface[q]] \in Entry /\ ~Owned(root, saved[q][iface[q]])
      BY <2>2, AtEntry DEF Local, Current
    <3>2. QED
      BY <3>1 DEF Owned, Cake, Entry
  <2>3. QED
    BY <2>1, <2>2 DEF Current
<1>3. Seen(q)'
  BY DEF Local, Seen, Owned
<1>4. QED
  BY <1>1, <1>2, <1>3 DEF Local

\* Only a daemon that is alone has anything to install.
LEMMA Alone ==
    ASSUME TypeOK, Roles, NEW p \in Procs, pc[p] \in {"write", "add", "verify"}
    PROVE p = "daemon" /\ ~leaving /\ pc["stop"] = "off" /\ ~clean
<1>1. iface[p] \in Ifaces /\ wanted[p][iface[p]] \in Entry
  BY AtEntry
<1>2. wanted[p][iface[p]] # None
  BY <1>1 DEF SqmAssumption, Entry
<1>3. wanted[p] # Nothing
  BY <1>1, <1>2 DEF Nothing
<1>4. QED
  BY <1>3 DEF Roles, Cleaner, Syncing, Procs

LEMMA ReconcileShrinks ==
    ASSUME TypeOK, NEW p \in Procs, Reconcile(p), ~WriteJournal(p), ~Add(p)
    PROVE Shrinks
<1> journal \in Entries /\ root \in [Indexes -> Root]
  BY DEF TypeOK, FilesOK
<1>1. CASE Delete(p)
  <2>1. root' = root \/ \E x : root' = [root EXCEPT ![x] = Default]
    BY <1>1 DEF Delete, Request
  <2>2. journal' = journal
    BY <1>1 DEF Delete, Request
  <2>3. Default \notin Foreign /\ Default.kind # "cake"
    BY DEF Default, Foreign, Custom, Child, Changed
  <2>4. QED
    BY <2>1, <2>2, <2>3 DEF Shrinks
<1>2. CASE RemoveJournal(p)
  <2>1. journal' = journal \/ \E i : journal' = [journal EXCEPT ![i] = None]
    BY <1>2 DEF RemoveJournal
  <2>2. root' = root
    BY <1>2 DEF RemoveJournal
  <2>3. QED
    BY <2>1, <2>2 DEF Shrinks, Entries
<1>3. CASE ~Delete(p) /\ ~RemoveJournal(p)
  <2>1. root' = root /\ journal' = journal
    BY <1>3 DEF Reconcile, ReadJournals, Dump, Release, Redump, Acquire, Verify, Look
  <2>2. QED
    BY <2>1 DEF Shrinks
<1>4. QED
  BY <1>1, <1>2, <1>3

\* The step of a process keeps what the process itself knows.
LEMMA OwnStep ==
    ASSUME IInv, NEW p \in Procs, Reconcile(p), ~Return(p, TRUE), ~Return(p, FALSE),
           TypeOK'
    PROVE Local(p)'
<1> TypeOK /\ LocalsOK /\ Local(p) /\ LoopOK(p)
  BY DEF IInv, TypeOK
<1> USE DEF Go, To, LocalsOK
<1>1. CASE ReadJournals(p)
  <2>1. saved' = [saved EXCEPT ![p] = journal] /\ pc' = [pc EXCEPT ![p] = "dump"]
        /\ journal' = journal
    BY <1>1 DEF ReadJournals
  <2>2. QED
    BY <2>1 DEF Local, Remembered, Current, Seen, Reading, Installing
<1>2. CASE Dump(p)
  <2>1. /\ dump' = [dump EXCEPT ![p] = root] /\ UNCHANGED <<wanted, saved, iface>>
        /\ todo' = [todo EXCEPT ![p] = {i \in Ifaces : saved[p][i] # None}]
        /\ pc' = [pc EXCEPT ![p] = "release"] /\ pc[p] = "dump" /\ UNCHANGED <<root, journal>>
    BY <1>2 DEF Dump, Look
  <2>2. Remembered(p)'
    BY <2>1 DEF Local, Remembered, Reading, Installing
  <2>3. Current(p)' /\ Seen(p)'
    BY <2>1 DEF Current, Seen, Reading, Installing
  <2>4. QED
    BY <2>2, <2>3 DEF Local
<1>3. CASE Release(p)
  <2>0. pc[p] = "release" /\ UNCHANGED <<root, journal, quiet>>
    BY <1>3 DEF Release
  <2>1. ASSUME NEW i \in Ifaces, Least(p, i), Kept(p, i), Done(p, i), Go(p, "release")
        PROVE Local(p)'
    <3>1. Remembered(p)'
      BY <2>0, <2>1 DEF Local, Remembered, Reading, Installing, Done, Kept, Least
    <3>2. Current(p)' /\ Seen(p)'
      BY <2>0, <2>1 DEF Local, Current, Seen, Reading, Installing, Done
    <3>3. QED
      BY <3>1, <3>2 DEF Local
  <2>2. ASSUME NEW i \in Ifaces, Least(p, i), Turn(p, i),
               Go(p, IF Owned(dump[p], saved[p][i]) THEN "delete" ELSE "remove")
        PROVE Local(p)'
    <3>1. /\ iface' = [iface EXCEPT ![p] = i] /\ UNCHANGED <<wanted, saved, dump, todo>>
          /\ pc'[p] \in {"delete", "remove"} /\ iface'[p] = i
          /\ pc'[p] = "delete" <=> Owned(dump[p], saved[p][i])
      BY <2>2 DEF Turn
    <3>2. Remembered(p)'
      BY <2>0, <3>1 DEF Local, Remembered, Reading, Installing
    <3>3. saved[p][i] \in Entry
      BY <2>0, <2>2 DEF LoopOK, Least, Entries
    <3>4. Owned(root, saved[p][i]) => Owned(dump[p], saved[p][i])
      BY <2>0, <3>3 DEF Local, Current, Reading, Owned, Cake, Entry
    <3>5. Current(p)'
      BY <2>0, <3>1, <3>4 DEF Local, Current, Reading
    <3>6. Seen(p)'
      BY <2>0, <3>1 DEF Local, Seen, Reading, Installing
    <3>7. QED
      BY <3>2, <3>5, <3>6 DEF Local
  <2>3. ASSUME todo[p] = {}, UNCHANGED <<wanted, saved, dump, iface>>,
               Go(p, "acquire") \/ Go(p, "redump")
        PROVE Local(p)'
    BY <2>0, <2>3 DEF Local, Remembered, Current, Seen, Reading, Installing
  <2>4. QED
    BY ONLY <1>3, <2>1, <2>2, <2>3 DEF Release
<1>4. CASE Delete(p)
  <2> DEFINE e == saved[p][iface[p]]
  <2>1. /\ pc[p] = "delete" /\ root' = [root EXCEPT ![e[1]] = Default]
        /\ pc' = [pc EXCEPT ![p] = "remove"] /\ UNCHANGED <<job, journal, quiet>>
    BY <1>4 DEF Delete, Request
  <2>2. e \in Entry /\ iface[p] \in Ifaces
    BY <2>1, AtEntry
  <2>3. Remembered(p)'
    BY <2>1 DEF Local, Remembered, Reading, Installing, job
  <2>4. root \in [Indexes -> Root]
    BY DEF TypeOK, FilesOK
  <2>5. \A x \in Indexes : root'[x] = root[x] \/ root'[x] = Default
    BY <2>1, <2>4
  <2>6. Current(p)'
    <3>1. ~Owned(root', e)
      BY <2>1, <2>2, <2>4 DEF Owned, Cake, Default, Entry
    <3>2. \A x \in Indexes : root'[x].kind = "cake" => dump[p][x] = root'[x]
      BY <2>1, <2>5 DEF Local, Current, Reading, Default
    <3>3. QED
      BY <2>1, <3>1, <3>2 DEF Current, Reading, job, Owned
  <2>7. Seen(p)'
    BY <2>1, <2>5 DEF Local, Seen, Reading, Installing, Foreign, Default, Custom, Child, Changed, job
  <2>8. QED
    BY <2>3, <2>6, <2>7 DEF Local
<1>5. CASE RemoveJournal(p)
  <2>1. /\ pc[p] = "remove" /\ journal' = [journal EXCEPT ![iface[p]] = None]
        /\ Done(p, iface[p]) /\ pc' = [pc EXCEPT ![p] = "release"] /\ UNCHANGED <<root, quiet>>
    BY <1>5 DEF RemoveJournal
  <2>2. Remembered(p)'
    BY <2>1 DEF Local, Remembered, Reading, Installing, Done, TypeOK, FilesOK, Entries
  <2>3. Current(p)' /\ Seen(p)'
    BY <2>1 DEF Local, Current, Seen, Reading, Installing, Done
  <2>4. QED
    BY <2>2, <2>3 DEF Local
<1>6. CASE Redump(p)
  <2>1. /\ dump' = [dump EXCEPT ![p] = root] /\ UNCHANGED <<wanted, saved, todo, iface>>
        /\ pc' = [pc EXCEPT ![p] = "acquire"] /\ pc[p] = "redump" /\ UNCHANGED <<root, journal>>
    BY <1>6 DEF Redump, Look
  <2>2. QED
    BY <2>1 DEF Local, Remembered, Current, Seen, Reading, Installing
<1>7. CASE Acquire(p)
  <2>0. pc[p] = "acquire" /\ UNCHANGED <<root, journal, quiet>>
    BY <1>7 DEF Acquire
  <2>1. ASSUME NEW i \in Ifaces, Done(p, i), Go(p, "acquire") PROVE Local(p)'
    BY <2>0, <2>1 DEF Local, Remembered, Current, Seen, Reading, Installing, Done
  <2>2. ASSUME NEW i \in Ifaces, Replaceable(p, i), Turn(p, i), Go(p, "write") PROVE Local(p)'
    BY <2>0, <2>2 DEF Local, Remembered, Current, Seen, Reading, Installing, Turn, Replaceable
  <2>3. QED
    BY <1>7, <2>1, <2>2 DEF Acquire
<1>8. CASE WriteJournal(p)
  <2>1. /\ pc[p] = "write" /\ journal' = [journal EXCEPT ![iface[p]] = wanted[p][iface[p]]]
        /\ pc' = [pc EXCEPT ![p] = "add"] /\ UNCHANGED <<job, root, quiet>>
    BY <1>8 DEF WriteJournal
  <2>2. iface[p] \in Ifaces /\ journal \in Entries
    BY <2>1, AtEntry DEF TypeOK, FilesOK
  <2>3. Remembered(p)'
    BY <2>1, <2>2 DEF Local, Remembered, Reading, Installing, job, Entries
  <2>4. Current(p)' /\ Seen(p)'
    BY <2>1 DEF Local, Current, Seen, Reading, Installing, job
  <2>5. QED
    BY <2>3, <2>4 DEF Local
<1>9. CASE Add(p)
  <2>1. /\ pc[p] = "add" /\ UNCHANGED <<job, journal, quiet>>
        /\ root' = [root EXCEPT ![wanted[p][iface[p]][1]] = Cake(wanted[p][iface[p]][2])]
        /\ pc' = [pc EXCEPT ![p] = "verify"]
    BY <1>9 DEF Add, Request
  <2>2. \A x \in Indexes : root'[x] = root[x] \/ root'[x].kind = "cake"
    BY <2>1 DEF TypeOK, FilesOK, Cake
  <2>3. Remembered(p)' /\ Current(p)'
    BY <2>1 DEF Local, Remembered, Current, Reading, Installing, job
  <2>4. Seen(p)'
    BY <2>1, <2>2 DEF Local, Seen, Reading, Installing, job, Foreign, Custom, Child, Changed
  <2>5. QED
    BY <2>3, <2>4 DEF Local
<1>10. CASE Verify(p)
  <2>1. /\ pc[p] = "verify" /\ Done(p, iface[p]) /\ pc' = [pc EXCEPT ![p] = "acquire"]
        /\ UNCHANGED <<root, journal, quiet>>
    BY <1>10 DEF Verify
  <2>2. QED
    BY <2>1 DEF Local, Remembered, Current, Seen, Reading, Installing, Done
<1>11. QED
  BY <1>1, <1>2, <1>3, <1>4, <1>5, <1>6, <1>7, <1>8, <1>9, <1>10 DEF Reconcile

LEMMA ReconcileLocal == ASSUME IInv, NEW p \in Procs, Reconcile(p) PROVE \A q \in Procs : Local(q)'
<1>1. TypeOK /\ TypeOK' /\ Others(p) /\ UNCHANGED quiet
  BY ReconcileTyped, ReconcileLocals, ReconcileRest DEF IInv, TypeOK, FilesOK
<1>2. Local(p)'
  <2>1. CASE Return(p, TRUE) \/ Return(p, FALSE)
    BY <1>1, <2>1, ReturnLocals, AtRest DEF TypeOK
  <2>2. CASE ~Return(p, TRUE) /\ ~Return(p, FALSE)
    BY <1>1, <2>2, OwnStep
  <2>3. QED
    BY <2>1, <2>2
<1>3. ASSUME NEW q \in Procs, q # p PROVE Local(q)'
  <2>1. Same(q) /\ Local(q)
    BY <1>1, <1>3 DEF Others, IInv
  <2>2. CASE pc[p] \in {"write", "add"}
    <3>1. pc[q] = "off"
      BY <1>1, <1>3, <2>2, Alone DEF IInv, Procs
    <3>2. QED
      BY <3>1, <2>1, AtRest DEF Same
  <2>3. CASE pc[p] \notin {"write", "add"}
    <3>1. Shrinks
      BY <1>1, <2>3, ReconcileShrinks DEF WriteJournal, Add
    <3>2. ASSUME pc[q] = "add" PROVE FALSE
      <4>1. q = "daemon" /\ pc["stop"] = "off"
        BY <1>1, <3>2, Alone DEF IInv
      <4>2. pc[p] = "off"
        BY <4>1, <1>3 DEF Procs
      <4>3. QED
        BY <4>2 DEF Reconcile, ReadJournals, Dump, Release, Delete, RemoveJournal, Redump,
                    Acquire, WriteJournal, Add, Verify
    <3>3. QED
      BY <1>1, <2>1, <3>1, <3>2, Undisturbed
  <2>4. QED
    BY <2>2, <2>3
<1>4. QED
  BY <1>2, <1>3

LEMMA ReconcileJournalled == ASSUME IInv, NEW p \in Procs, Reconcile(p) PROVE Journalled'
<1> TypeOK /\ Local(p) /\ Journalled /\ root \in [Indexes -> Root] /\ journal \in Entries
  BY DEF IInv, TypeOK, FilesOK
<1>1. CASE RemoveJournal(p)
  <2> DEFINE i == iface[p]
  <2>1. pc[p] = "remove" /\ i \in Ifaces /\ saved[p][i] \in Entry /\ i \in todo[p] /\ root' = root
    BY <1>1, AtEntry DEF RemoveJournal, TypeOK, LoopOK
  <2>2. journal[i] \in {None, saved[p][i]} /\ ~Owned(root, saved[p][i])
    BY <2>1 DEF Local, Remembered, Current, Reading
  <2>3. journal' = journal \/ journal' = [journal EXCEPT ![i] = None]
    BY <1>1 DEF RemoveJournal
  <2>4. ASSUME NEW x \in Indexes, root[x].kind = "cake"
        PROVE \E k \in Ifaces : journal'[k] = <<x, root[x].rate>>
    <3>1. PICK k \in Ifaces : journal[k] = <<x, root[x].rate>>
      BY <2>4 DEF Journalled
    <3>2. root[x] = Cake(root[x].rate) /\ root[x].rate \in Rates
      BY <2>4 DEF Root, Cake, Default, Custom, Child, Changed
    <3>3. journal[k] # None
      BY <3>1, <3>2 DEF SqmAssumption
    <3>4. ASSUME k = i PROVE FALSE
      <4>1. saved[p][i] = <<x, root[x].rate>>
        BY <2>2, <3>1, <3>3, <3>4
      <4>2. saved[p][i][1] = x /\ saved[p][i][2] = root[x].rate /\ saved[p][i] # None
        BY <3>1, <3>3, <4>1
      <4>3. QED
        BY <2>2, <3>2, <4>2 DEF Owned
    <3>5. QED
      BY <2>3, <3>1, <3>4 DEF Entries
  <2>5. QED
    BY <2>1, <2>4 DEF Journalled
<1>2. CASE WriteJournal(p)
  <2> DEFINE i == iface[p]
  <2>1. pc[p] = "write" /\ i \in Ifaces /\ root' = root
    BY <1>2, AtEntry DEF WriteJournal
  <2>2. journal[i] \in {None, wanted[p][i]}
    BY <2>1 DEF Local, Remembered, Installing
  <2>3. journal' = journal \/ journal' = [journal EXCEPT ![i] = wanted[p][i]]
    BY <1>2 DEF WriteJournal
  <2>4. ASSUME NEW x \in Indexes, root[x].kind = "cake"
        PROVE \E k \in Ifaces : journal'[k] = <<x, root[x].rate>>
    <3>1. PICK k \in Ifaces : journal[k] = <<x, root[x].rate>>
      BY <2>4 DEF Journalled
    <3>2. root[x].rate \in Rates
      BY <2>4 DEF Root, Default, Custom, Child, Changed
    <3>3. journal[k] # None
      BY <3>1, <3>2 DEF SqmAssumption
    <3>4. journal'[k] = journal[k]
      BY <2>1, <2>2, <2>3, <3>3 DEF Entries
    <3>5. QED
      BY <3>1, <3>4
  <2>5. QED
    BY <2>1, <2>4 DEF Journalled
<1>3. CASE Add(p)
  <2> DEFINE e == wanted[p][iface[p]]
  <2>1. /\ pc[p] = "add" /\ iface[p] \in Ifaces /\ e \in Entry /\ journal' = journal
        /\ journal[iface[p]] = e
    BY <1>3, AtEntry DEF Add, Request, Local, Remembered
  <2>2. root' = root \/ root' = [root EXCEPT ![e[1]] = Cake(e[2])]
    BY <1>3 DEF Add, Request
  <2>3. ASSUME NEW x \in Indexes, root'[x].kind = "cake"
        PROVE \E k \in Ifaces : journal[k] = <<x, root'[x].rate>>
    <3>1. CASE root'[x] = root[x]
      BY <2>3, <3>1 DEF Journalled
    <3>2. CASE x = e[1] /\ root'[x] = Cake(e[2])
      <4>1. e = <<x, root'[x].rate>>
        BY <2>1, <3>2 DEF Cake, Entry
      <4>2. QED
        BY <2>1, <4>1
    <3>3. QED
      BY <2>2, <3>1, <3>2
  <2>4. QED
    BY <2>1, <2>3 DEF Journalled
<1>4. CASE ~RemoveJournal(p) /\ ~WriteJournal(p) /\ ~Add(p)
  <2>1. Shrinks
    BY <1>4, ReconcileShrinks
  <2>2. journal' = journal
    BY <1>4 DEF Reconcile, ReadJournals, Dump, Release, Delete, Redump, Acquire, Verify, Look,
                Request
  <2>3. QED
    BY <2>1, <2>2 DEF Shrinks, Journalled
<1>5. QED
  BY <1>1, <1>2, <1>3, <1>4

\* Without a journal there is no queue of ours.
LEMMA NoJournal ==
    ASSUME TypeOK, Journalled, \A i \in Ifaces : journal[i] = None
    PROVE \A x \in Indexes : root[x].kind # "cake"
<1> SUFFICES ASSUME NEW x \in Indexes, root[x].kind = "cake" PROVE FALSE
  OBVIOUS
<1>1. root[x].rate \in Rates
  BY DEF TypeOK, FilesOK, Root, Default, Custom, Child, Changed
<1>2. PICK i \in Ifaces : journal[i] = <<x, root[x].rate>>
  BY DEF Journalled
<1>3. <<x, root[x].rate>> \in Indexes \X Rates
  BY <1>1
<1>4. QED
  BY <1>2, <1>3 DEF SqmAssumption

LEMMA ReconcileClean == ASSUME IInv, NEW p \in Procs, Reconcile(p) PROVE CleanEnd'
<1> TypeOK /\ Local(p) /\ Journalled /\ Roles /\ CleanEnd
  BY DEF IInv
<1> SUFFICES ASSUME clean' PROVE \A x \in Indexes : root'[x].kind # "cake"
  BY DEF CleanEnd
<1>1. CASE UNCHANGED clean
  <2>1. ~Add(p) /\ ~WriteJournal(p)
    BY <1>1, Alone DEF Add, WriteJournal
  <2>2. Shrinks
    BY <2>1, ReconcileShrinks
  <2>3. QED
    BY <1>1, <2>2 DEF Shrinks, CleanEnd
<1>2. CASE clean' # clean
  <2>1. ~Return(p, FALSE)
    BY <1>2 DEF Return
  <2>2. Return(p, TRUE) /\ ~(p = "daemon" /\ ~leaving)
    BY <1>2, <2>1 DEF Reconcile, ReadJournals, Dump, Release, Delete, RemoveJournal, Redump,
                Acquire, WriteJournal, Add, Verify, Look, Request, Go, Return
  <2>3. wanted[p] = Nothing
    BY <2>2 DEF Roles, Cleaner, Procs
  <2>4. \/ ReadJournals(p) /\ journal = Nothing
        \/ Acquire(p)
    BY <1>2, <2>1 DEF Reconcile, ReadJournals, Dump, Release, Delete, RemoveJournal, Redump,
                Acquire, WriteJournal, Add, Verify, Look, Request, Go
  <2>5. \A i \in Ifaces : journal[i] = None
    BY <2>3, <2>4 DEF Acquire, Local, Remembered, Installing, Nothing
  <2>6. root' = root
    BY <2>4 DEF ReadJournals, Acquire
  <2>7. QED
    BY <2>5, <2>6, NoJournal
<1>3. QED
  BY <1>1, <1>2

LEMMA ReconcileRoles == ASSUME IInv, NEW p \in Procs, Reconcile(p) PROVE Roles'
<1> TypeOK /\ Roles /\ LocalsOK /\ "stop" \in Procs /\ "daemon" \in Procs
  BY DEF IInv, TypeOK, Procs
<1>0. Others(p)
  BY ReconcileLocals DEF TypeOK, FilesOK
<1>4. pc[p] \notin {"off", "run"}
  BY DEF Reconcile, ReadJournals, Dump, Release, Delete, RemoveJournal, Redump, Acquire,
         WriteJournal, Add, Verify
<1>1. CASE Return(p, TRUE) \/ Return(p, FALSE)
  <2>1. wanted'[p] = Nothing
    BY <1>1, ReturnLocals
  <2>2. \/ p = "daemon" /\ ~leaving /\ ~leaving' /\ pc'[p] = "run" /\ clean' = clean
        \/ p = "daemon" /\ leaving /\ ~leaving' /\ pc'[p] = "off"
        \/ p = "stop" /\ leaving' = leaving /\ pc'[p] = "off"
    <3>1. leaving' = (leaving /\ p # "daemon")
      BY <1>1 DEF Return
    <3>2. CASE p = "daemon" /\ ~leaving
      BY <1>1, <3>1, <3>2 DEF Return, To, LocalsOK
    <3>3. CASE p = "daemon" /\ leaving
      BY <1>1, <3>1, <3>3 DEF Return, To, LocalsOK
    <3>4. CASE p = "stop"
      <4>1. pc'[p] = "off"
        BY <1>1, <3>4 DEF Return, To, LocalsOK
      <4>2. leaving' = leaving
        BY <3>1, <3>4 DEF TypeOK, FilesOK
      <4>3. QED
        BY <3>4, <4>1, <4>2
    <3>5. QED
      BY <3>2, <3>3, <3>4 DEF Procs
  <2>3. QED
    BY <1>0, <1>4, <2>1, <2>2 DEF Roles, Syncing, Cleaner, Others, Same, Procs
<1>2. CASE ~Return(p, TRUE) /\ ~Return(p, FALSE)
  <2>1. UNCHANGED <<leaving, clean, wanted>> /\ pc'[p] \notin {"off", "run"}
    BY <1>2 DEF Reconcile, ReadJournals, Dump, Release, Delete, RemoveJournal, Redump, Acquire,
                WriteJournal, Add, Verify, Look, Request, Go, To, Turn, Done, job, LocalsOK
  <2>2. QED
    BY <1>0, <1>4, <2>1 DEF Roles, Syncing, Cleaner, Others, Same, Procs
<1>3. QED
  BY <1>1, <1>2

\* The start and the end of a process, and the environment, take nothing but
\* the process itself, queues or interfaces away.
LEMMA CallLocal ==
    ASSUME IInv, NEW p \in Procs, NEW w \in Entries, NEW next \in {"read", "off"},
           Called(p, w), To(p, next), UNCHANGED <<root, journal, quiet>>
    PROVE (\A q \in Procs : Local(q)') /\ Journalled' /\ Others(p) /\ wanted'[p] = w
          /\ pc'[p] = next
<1>1. TypeOK /\ Others(p) /\ pc'[p] = next /\ wanted'[p] = w
  <2>1. next \in Control
    BY DEF Control
  <2>2. QED
    BY <2>1, CalledLocals DEF IInv, TypeOK
<1>2. Shrinks
  BY DEF Shrinks
<1>3. \A q \in Procs \ {p} : Local(q)'
  BY <1>1, <1>2, Undisturbed DEF Others, IInv
<1>4. Local(p)'
  BY <1>1, AtRest
<1>5. QED
  BY <1>1, <1>3, <1>4 DEF IInv, Journalled

LEMMA CallersInv == ASSUME IInv, Sync \/ Callers PROVE IInv'
<1>0. TypeOK' /\ TypeOK /\ Roles /\ CleanEnd
  BY CallersTyped DEF IInv
<1> "daemon" \in Procs /\ "stop" \in Procs /\ Nothing \in Entries /\ Desired \in Entries
  BY <1>0, NothingTyped, DesiredTyped DEF Procs
<1> UNCHANGED <<root, journal, quiet>>
  BY DEF Callers, Start, StartPaused, Sync, Leave, Stop
<1> USE DEF Roles, Syncing, Cleaner, Others, Same, Procs
<1>1. CASE Start
  <2>1. Others("daemon") /\ pc'["daemon"] = "run" /\ UNCHANGED wanted /\ ~leaving' /\ ~clean'
    BY <1>0, <1>1 DEF Start, To, job, TypeOK, LocalsOK
  <2>2. Local("daemon")'
    BY <2>1, AtRest
  <2>3. Local("stop")'
    BY <1>0, <2>1, Undisturbed DEF IInv, Shrinks
  <2>4. Roles'
    BY <1>0, <1>1, <2>1 DEF Start
  <2>5. QED
    BY <1>0, <2>1, <2>2, <2>3, <2>4 DEF IInv, Journalled, CleanEnd
<1>2. CASE StartPaused
  <2>1. Called("daemon", Nothing) /\ To("daemon", "read") /\ UNCHANGED clean /\ leaving'
    BY <1>2 DEF StartPaused, Begin
  <2>2. (\A q \in Procs : Local(q)') /\ Journalled' /\ Others("daemon")
        /\ wanted'["daemon"] = Nothing /\ pc'["daemon"] = "read"
    BY <2>1, CallLocal
  <2>3. Roles' /\ CleanEnd'
    BY <1>0, <2>1, <2>2 DEF CleanEnd
  <2>4. QED
    BY <1>0, <2>2, <2>3 DEF IInv
<1>3. CASE Sync
  <2>1. Called("daemon", Desired) /\ To("daemon", "read") /\ UNCHANGED <<clean, leaving>>
        /\ pc["daemon"] = "run"
    BY <1>3 DEF Sync, Begin
  <2>2. (\A q \in Procs : Local(q)') /\ Journalled' /\ Others("daemon") /\ pc'["daemon"] = "read"
    BY <2>1, CallLocal
  <2>3. Roles' /\ CleanEnd'
    BY <1>0, <2>1, <2>2 DEF CleanEnd
  <2>4. QED
    BY <1>0, <2>2, <2>3 DEF IInv
<1>4. CASE Leave
  <2>1. Called("daemon", Nothing) /\ To("daemon", "read") /\ UNCHANGED clean /\ leaving'
    BY <1>4 DEF Leave, Begin
  <2>2. (\A q \in Procs : Local(q)') /\ Journalled' /\ Others("daemon")
        /\ wanted'["daemon"] = Nothing /\ pc'["daemon"] = "read"
    BY <2>1, CallLocal
  <2>3. Roles' /\ CleanEnd'
    BY <1>0, <2>1, <2>2 DEF CleanEnd
  <2>4. QED
    BY <1>0, <2>2, <2>3 DEF IInv
<1>5. CASE Stop
  <2>1. Called("stop", Nothing) /\ To("stop", "read") /\ UNCHANGED <<clean, leaving>>
        /\ (pc["daemon"] = "off" \/ leaving)
    BY <1>5 DEF Stop, Begin
  <2>2. (\A q \in Procs : Local(q)') /\ Journalled' /\ Others("stop")
        /\ wanted'["stop"] = Nothing /\ pc'["stop"] = "read"
    BY <2>1, CallLocal
  <2>3. Roles' /\ CleanEnd'
    BY <1>0, <2>1, <2>2 DEF CleanEnd
  <2>4. QED
    BY <1>0, <2>2, <2>3 DEF IInv
<1>6. QED
  BY <1>1, <1>2, <1>3, <1>4, <1>5 DEF Callers

LEMMA KillInv == ASSUME IInv, NEW p \in Procs, Kill(p) PROVE IInv'
<1>0. TypeOK' /\ TypeOK /\ Roles /\ CleanEnd
  BY KillTyped DEF IInv
<1>1. Called(p, Nothing) /\ To(p, "off") /\ UNCHANGED <<root, journal, quiet, clean>>
  BY DEF Kill
<1>2. (\A q \in Procs : Local(q)') /\ Journalled' /\ Others(p) /\ wanted'[p] = Nothing
      /\ pc'[p] = "off"
  BY <1>1, CallLocal, NothingTyped
<1>3. \/ p = "daemon" /\ ~leaving'
      \/ p = "stop" /\ UNCHANGED leaving
  <2>1. CASE p = "daemon"
    <3>1. Gone
      BY <2>1 DEF Kill
    <3>2. leaving' = FALSE
      BY <3>1 DEF Gone
    <3>3. QED
      BY <2>1, <3>2
  <2>2. CASE p = "stop"
    BY <2>2 DEF Kill
  <2>3. QED
    BY <2>1, <2>2 DEF Procs
<1>4. Roles' /\ CleanEnd'
  BY <1>0, <1>1, <1>2, <1>3 DEF Roles, Syncing, Cleaner, Others, Same, Procs, CleanEnd
<1>5. QED
  BY <1>0, <1>2, <1>4 DEF IInv

LEMMA EnvironmentInv == ASSUME IInv, Environment PROVE IInv'
<1>0. TypeOK' /\ TypeOK /\ root \in [Indexes -> Root] /\ journal' = journal /\ quiet' = quiet
  <2>1. journal' = journal /\ quiet' = quiet
    BY DEF Environment, Links, Tc, Reboot, Unplug, Plug
  <2>2. QED
    BY <2>1, EnvironmentTyped DEF IInv, TypeOK, FilesOK
<1>1. CASE Reboot
  <2>1. root' = [x \in Indexes |-> Default] /\ pc' = [p \in Procs |-> "off"] /\ ~leaving'
        /\ clean' = clean /\ \A p \in Procs : wanted'[p] = Nothing
    BY <1>1 DEF Reboot, Gone
  <2>2. \A p \in Procs : Local(p)'
    BY <2>1, AtRest
  <2>3. Roles'
    BY <2>1 DEF Roles, Syncing, Procs
  <2>4. Journalled' /\ CleanEnd'
    BY <2>1 DEF Journalled, CleanEnd, Default
  <2>5. QED
    BY <1>0, <2>2, <2>3, <2>4 DEF IInv
<1>2. CASE ~Reboot
  <2>1. UNCHANGED <<pc, job, leaving, clean>>
    BY <1>2 DEF Environment, Links, Tc, Unplug, Plug
  <2>2. Roles'
    BY <2>1 DEF IInv, Roles, Syncing, Cleaner, job
  <2>3. \A x \in Indexes : root'[x].kind = "cake" => root'[x] = root[x]
    BY <1>0, <1>2 DEF Environment, Links, Tc, Unplug, Plug, Default, Custom, Child, Changed
  <2>4. Journalled' /\ CleanEnd'
    BY <1>0, <2>1, <2>3 DEF IInv, Journalled, CleanEnd
  <2>5. CASE quiet /\ Tc
    <3>1. \A p \in Procs : pc'[p] \in {"off", "run"}
      BY <2>1, <2>5 DEF Tc, Resting
    <3>2. QED
      BY <1>0, <2>2, <2>4, <3>1, AtRest DEF IInv
  <2>6. CASE ~(quiet /\ Tc)
    <3>1. quiet => \A x \in Indexes : root'[x] \in Foreign => root'[x] = root[x]
      BY <1>0, <1>2, <2>6 DEF Environment, Links, Unplug, Plug, Default, Foreign, Custom, Child,
                              Changed
    <3>2. Shrinks
      BY <1>0, <2>3, <3>1 DEF Shrinks
    <3>3. \A q \in Procs : Local(q)'
      BY <1>0, <2>1, <3>2, Undisturbed DEF IInv, Same, job
    <3>4. QED
      BY <1>0, <2>2, <2>4, <3>3 DEF IInv
  <2>7. QED
    BY <2>5, <2>6
<1>3. QED
  BY <1>1, <1>2

LEMMA InitInv == Init => IInv
<1> SUFFICES ASSUME Init PROVE IInv
  OBVIOUS
<1>1. Roles
  BY DEF Init, Roles, Syncing, Procs
<1>2. Journalled /\ CleanEnd
  BY DEF Init, Journalled, CleanEnd, Default
<1>3. \A p \in Procs : Local(p)
  BY DEF Init, Local, Remembered, Current, Seen, Reading, Installing
<1>4. QED
  BY <1>1, <1>2, <1>3, InitTyped DEF IInv

LEMMA NextInv == IInv /\ [Next]_vars => IInv'
<1> SUFFICES ASSUME IInv, [Next]_vars PROVE IInv'
  OBVIOUS
<1>1. ASSUME NEW p \in Procs, Reconcile(p) PROVE IInv'
  BY <1>1, ReconcileTyped, ReconcileRoles, ReconcileJournalled, ReconcileClean, ReconcileLocal
     DEF IInv
<1>2. CASE UNCHANGED vars
  <2>1. TypeOK'
    BY <1>2, TypedNext DEF IInv
  <2>2. \A p \in Procs : Local(p)'
    BY <1>2, Undisturbed DEF IInv, Same, Shrinks, vars, job
  <2>3. Roles' /\ Journalled' /\ CleanEnd'
    BY <1>2 DEF IInv, Roles, Syncing, Cleaner, Journalled, CleanEnd, vars, job
  <2>4. QED
    BY <2>1, <2>2, <2>3 DEF IInv
<1>3. QED
  BY <1>1, <1>2, CallersInv, KillInv, EnvironmentInv DEF Next

LEMMA Invariant == Spec => []IInv
BY InitInv, NextInv, PTL DEF Spec

\* reconcile: a queue of ours has a journal, at every moment and whatever is
\* killed, fails, restarts or is numbered anew.
THEOREM JournalledAlways == Spec => []Journalled
BY Invariant, PTL DEF IInv

\* cleanup: where one has returned Ok, no queue of ours is left, also when two
\* run at the same time.
THEOREM CleanEndHolds == Spec => []CleanEnd
BY Invariant, PTL DEF IInv

\* reconcile never takes the queue, the child or the options of somebody else
\* away, if they are not set under its hands.
THEOREM CustomPreserved == Spec => PreservesCustom
<1>1. ASSUME IInv, quiet, NEW p \in Procs, Reconcile(p), NEW x \in Indexes, root[x] \in Foreign
      PROVE root'[x] = root[x]
  <2>0. TypeOK /\ Local(p) /\ root \in [Indexes -> Root]
    BY <1>1 DEF IInv, TypeOK, FilesOK
  <2>1. CASE Delete(p)
    <3>1. dump[p][x] = root[x] /\ Owned(dump[p], saved[p][iface[p]])
      BY <1>1, <2>0, <2>1 DEF Delete, Local, Seen, Reading
    <3>2. x # saved[p][iface[p]][1]
      BY <1>1, <3>1 DEF Owned, Cake, Foreign, Custom, Child, Changed
    <3>3. QED
      BY <2>0, <2>1, <3>2 DEF Delete, Request
  <2>2. CASE Add(p)
    <3>1. dump[p][x] = root[x] /\ dump[p][wanted[p][iface[p]][1]] = Default
      BY <1>1, <2>0, <2>2 DEF Add, Local, Seen, Installing
    <3>2. x # wanted[p][iface[p]][1]
      BY <1>1, <3>1 DEF Default, Foreign, Custom, Child, Changed
    <3>3. QED
      BY <2>0, <2>2, <3>2 DEF Add, Request
  <2>3. CASE ~Delete(p) /\ ~Add(p)
    BY <1>1, <2>3 DEF Reconcile, ReadJournals, Dump, Release, RemoveJournal, Redump, Acquire,
                      WriteJournal, Verify, Look
  <2>4. QED
    BY <2>1, <2>2, <2>3
<1>2. IInv /\ [Next]_vars =>
        [quiet /\ Reconciling => \A x \in Indexes : root[x] \in Foreign => root'[x] = root[x]]_vars
  BY <1>1 DEF Reconciling
<1>3. QED
  BY <1>2, Invariant, PTL DEF Spec, PreservesCustom

-----------------------------------------------------------------------------
(* What Converges reaches, stays                                            *)

\* Every queue and every journal is the one that is wanted.
InPlace == Shaped /\ journal = Desired
\* The daemon rests, or is in a reconcile that began in this state.
AtPeace ==
    /\ InPlace /\ ~leaving
    /\ pc["daemon"] \in {"run", "read", "dump", "release", "redump", "acquire"}
    /\ pc["daemon"] # "run" => wanted["daemon"] = Desired
    /\ pc["daemon"] \notin {"run", "read"} => saved["daemon"] = Desired
    /\ pc["daemon"] \in {"release", "redump", "acquire"} =>
         \A i \in Ifaces : Desired[i] # None => Owned(dump["daemon"], Desired[i])

Settle == Sync \/ Reconcile("daemon")

LEMMA PeaceStep ==
    ASSUME TypeOK, AtPeace, Settle
    PROVE  AtPeace' /\ UNCHANGED <<root, journal>>
<1> DEFINE d == "daemon"
<1>0. d \in Procs /\ pc \in [Procs -> Control] /\ wanted \in [Procs -> Entries]
      /\ saved \in [Procs -> Entries] /\ dump \in [Procs -> [Indexes -> Root]]
  BY DEF TypeOK, LocalsOK, Procs
<1>1. CASE Sync
  <2>1. /\ UNCHANGED <<net, root, journal, leaving, conf>>
        /\ pc'[d] = "read" /\ wanted'[d] = Desired
    BY <1>0, <1>1 DEF Sync, Begin, To, Called
  <2>2. Desired' = Desired /\ Shaped' = Shaped
    BY <2>1 DEF Desired, Shaped, Owned, net
  <2>3. QED BY <2>1, <2>2 DEF AtPeace, InPlace
<1>2. SUFFICES ASSUME Reconcile(d) PROVE AtPeace' /\ UNCHANGED <<root, journal>>
  BY <1>1 DEF Settle
<1>3. UNCHANGED <<net, conf>>
  BY <1>2 DEF Reconcile, ReadJournals, Dump, Release, Delete, RemoveJournal, Redump, Acquire,
     WriteJournal, Add, Verify, Look, Request
<1>4. ~Delete(d) /\ ~RemoveJournal(d) /\ ~WriteJournal(d) /\ ~Add(d) /\ ~Verify(d)
  BY DEF AtPeace, Delete, RemoveJournal, WriteJournal, Add, Verify
<1>5. UNCHANGED <<root, journal>>
  BY <1>2, <1>4 DEF Reconcile, ReadJournals, Dump, Release, Redump, Acquire, Look
<1>6. Desired' = Desired /\ Shaped' = Shaped /\ InPlace'
  BY <1>3, <1>5 DEF Desired, Shaped, Owned, net, AtPeace, InPlace
<1>7. CASE Return(d, TRUE) \/ Return(d, FALSE)
  <2>1. pc'[d] = "run" /\ ~leaving'
    BY <1>0, <1>7 DEF Return, To, AtPeace
  <2>2. QED BY <1>5, <1>6, <2>1 DEF AtPeace
<1>8. CASE ReadJournals(d) /\ ~Return(d, TRUE) /\ ~Return(d, FALSE)
  <2>0. saved' = [saved EXCEPT ![d] = journal] /\ UNCHANGED wanted /\ Go(d, "dump")
    BY <1>8 DEF ReadJournals
  <2>1. pc'[d] = "dump" /\ saved'[d] = journal /\ wanted'[d] = wanted[d] /\ ~leaving'
    BY <1>0, <2>0 DEF Go, To, AtPeace
  <2>2. wanted[d] = Desired /\ journal = Desired
    BY <1>8 DEF AtPeace, ReadJournals, InPlace
  <2>3. QED BY <1>5, <1>6, <2>1, <2>2 DEF AtPeace
<1>9. CASE (Dump(d) \/ Redump(d)) /\ ~Return(d, FALSE)
  <2>0. /\ dump' = [dump EXCEPT ![d] = root] /\ UNCHANGED <<wanted, saved>>
        /\ Go(d, "release") \/ Go(d, "acquire")
    BY <1>9 DEF Dump, Redump, Look
  <2>1. /\ pc'[d] \in {"release", "acquire"} /\ saved'[d] = saved[d] /\ wanted'[d] = wanted[d]
        /\ dump'[d] = root /\ ~leaving'
    BY <1>0, <2>0 DEF Go, To, AtPeace
  <2>2. wanted[d] = Desired /\ saved[d] = Desired
    BY <1>9 DEF AtPeace, Dump, Redump
  <2>3. \A i \in Ifaces : Desired[i] # None => Owned(root, Desired[i])
    BY DEF AtPeace, InPlace, Shaped
  <2>4. QED BY <1>5, <1>6, <2>1, <2>2, <2>3 DEF AtPeace
<1>10. CASE (Release(d) \/ Acquire(d)) /\ ~Return(d, TRUE) /\ ~Return(d, FALSE)
  <2>1. wanted[d] = Desired /\ saved[d] = Desired
        /\ \A i \in Ifaces : Desired[i] # None => Owned(dump[d], Desired[i])
    BY <1>10 DEF AtPeace, Release, Acquire
  <2>2. ASSUME NEW i \in Ifaces, Least(d, i) PROVE Kept(d, i)
    <3>1. i \in todo[d]
      BY <2>2 DEF Least
    <3>2. Desired[i] # None
      BY <1>0, <1>10, <2>1, <3>1 DEF TypeOK, LoopOK, Release, Acquire
    <3>3. QED BY <2>1, <3>2 DEF Kept
  <2>0. Go(d, "release") \/ Go(d, "redump") \/ Go(d, "acquire")
    BY <1>10, <2>2 DEF Release, Acquire
  <2>3. pc'[d] \in {"release", "redump", "acquire"} /\ ~leaving'
    BY <1>0, <2>0 DEF Go, To, AtPeace
  <2>4. UNCHANGED <<wanted, saved, dump>>
    BY <1>10 DEF Release, Acquire, Done, Turn
  <2>5. QED BY <1>5, <1>6, <2>1, <2>3, <2>4 DEF AtPeace
<1>11. QED
  BY <1>2, <1>4, <1>7, <1>8, <1>9, <1>10 DEF Reconcile

\* Once every queue and every journal is the one that is wanted, sync changes
\* neither, at whatever step of it the kernel or a file fails: the queues are not
\* dropped and built again every 30 s.  It is the half of Converges that says
\* "and keeps them" (qos.rs:376-463).
THEOREM SyncIdempotent ==
    TypeOK /\ AtPeace /\ [][Settle]_vars => []Shaped /\ [][UNCHANGED <<root, journal>>]_vars
<1> DEFINE Unmoved == UNCHANGED <<root, journal>>
<1>1. TypeOK /\ AtPeace /\ [Settle]_vars => (TypeOK /\ AtPeace)' /\ Unmoved
  <2>1. TypeOK /\ Settle => TypeOK'
    BY ReconcileTyped, CallersTyped DEF Settle, Procs
  <2>2. TypeOK /\ UNCHANGED vars => TypeOK'
    BY TypedNext
  <2>3. AtPeace /\ UNCHANGED vars => AtPeace' /\ Unmoved
    BY DEF vars, net, job, AtPeace, InPlace, Shaped, Desired, Owned
  <2>4. QED BY <2>1, <2>2, <2>3, PeaceStep
<1>2. AtPeace => Shaped
  BY DEF AtPeace, InPlace
<1> HIDE DEF Unmoved
<1>3. TypeOK /\ AtPeace /\ [][Settle]_vars => []Shaped /\ [][Unmoved]_vars
  BY <1>1, <1>2, PTL
<1>4. QED
  BY <1>3 DEF Unmoved
=============================================================================
