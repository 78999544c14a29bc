--------------------------------- MODULE Sqm ---------------------------------
(***************************************************************************)
(* The CAKE queues of the module and their journals: src/qos.rs.           *)
(*                                                                         *)
(* reconcile() brings the queues in line with a wanted set: first it takes *)
(* away the journalled queues that are not wanted, then it installs the    *)
(* missing ones, journal first.  The daemon calls it when it starts, when  *)
(* the links change and every 30 s (sync), and with nothing wanted when it *)
(* ends (cleanup); `nfqttl stop` calls cleanup too.  A daemon that stop    *)
(* did not see, because it had not written lock/pid yet, finds the marker  *)
(* `paused` and runs its cleanup at the same time (Lifecycle!Exclusive).   *)
(*                                                                         *)
(* A queue is identified by interface index, handle 7e10: and its whole    *)
(* set of options; of the options only the rate differs here.              *)
(***************************************************************************)
EXTENDS Naturals

CONSTANTS
    Ifaces,   \* the interfaces, as numbers in their names' alphabetical order
    Indexes,  \* interface indexes; one that was given up can be used again
    Rates,    \* sets of CAKE options
    Configs,  \* the rate of each interface, None for no queue
    None,
    Faults,   \* what goes wrong
    Budget    \* bound: faults, changes of the links, changes by others

FaultKinds == {"netlink", "file", "kill", "reboot"}

ASSUME SqmAssumption ==
    /\ Ifaces \subseteq Nat
    /\ Configs \subseteq [Ifaces -> Rates \cup {None}]
    /\ None \notin Rates /\ None \notin Ifaces /\ None \notin Indexes \X Rates
    /\ None \notin Indexes
    /\ Faults \subseteq FaultKinds
    /\ Budget \in Nat

Procs == {"daemon", "stop"}
Entry == Indexes \X Rates
Entries == [Ifaces -> Entry \cup {None}]
Nothing == [i \in Ifaces |-> None]
\* No two interfaces have the same index.
Numbering == {f \in [Ifaces -> Indexes \cup {None}] :
                \A i, j \in Ifaces : f[i] = f[j] => i = j \/ f[i] = None}

\* The root queue of an interface: the kernel's, another's, the kernel's with a
\* child of another's, one of ours, one of ours with options another changed.
Default == [kind |-> "default"]
Custom == [kind |-> "custom"]
Child == [kind |-> "child"]
Changed == [kind |-> "changed"]
Cake(r) == [kind |-> "cake", rate |-> r]
Root == {Default, Custom, Child, Changed} \cup [kind : {"cake"}, rate : Rates]
Foreign == {Custom, Child, Changed}

VARIABLES
    index,    \* the index of each interface, None when it does not exist
    active,   \* the interfaces the last scan found in their role
    root,     \* the root queue of each index; Default where there is no interface
    journal,  \* the files sqm.<iface>.owned: index and options
    pc,       \* what each process does next
    leaving,  \* the daemon's reconcile is its final cleanup
    conf,     \* the daemon's configuration
    clean,    \* the last cleanup that ended returned Ok
    quiet,    \* nobody runs tc while reconcile runs; never changes
    budget,
    \* the local variables of reconcile in each process
    wanted,   \* what it is called with
    saved,    \* the journals it read
    dump,     \* the queues its last dump showed
    todo,     \* the entries its loop has not dealt with
    iface     \* the one it deals with

net == <<index, active>>
job == <<wanted, saved, dump, todo, iface>>
vars == <<net, root, journal, pc, leaving, conf, clean, quiet, budget, job>>

Spend == budget > 0 /\ budget' = budget - 1
Free == UNCHANGED budget
Fault(kind) == kind \in Faults /\ Spend
To(p, next) == pc' = [pc EXCEPT ![p] = next]

Owned(roots, entry) == entry # None /\ roots[entry[1]] = Cake(entry[2])
\* Mutant: the journal is believed without a look at the queue.
KeptByJournal(p, i) == wanted[p][i] # None /\ saved[p][i] = wanted[p][i]
Kept(p, i) == saved[p][i] = wanted[p][i] /\ Owned(dump[p], wanted[p][i])
\* reconcile goes through its maps in the order of the names.
Least(p, i) == i \in todo[p] /\ \A k \in todo[p] : i <= k
InUse(x) == \E i \in Ifaces : index[i] = x

\* The local variables before the call and after it.
Called(p, w) ==
    /\ wanted' = [wanted EXCEPT ![p] = w] /\ saved' = [saved EXCEPT ![p] = Nothing]
    /\ dump' = [dump EXCEPT ![p] = [x \in Indexes |-> Default]]
    /\ todo' = [todo EXCEPT ![p] = {}] /\ iface' = [iface EXCEPT ![p] = None]
\* Mutant: cleanup drops the result of reconcile.
ReturnOk(p, ok) ==
    /\ Called(p, Nothing)
    /\ IF p = "daemon" /\ ~leaving
       THEN To(p, "run") /\ UNCHANGED clean
       ELSE To(p, "off") /\ clean' = TRUE
    /\ leaving' = (leaving /\ p # "daemon")
\* reconcile returns: sync goes on, cleanup ends the process.
Return(p, ok) ==
    /\ Called(p, Nothing)
    /\ IF p = "daemon" /\ ~leaving
       THEN To(p, "run") /\ UNCHANGED clean
       ELSE To(p, "off") /\ clean' = ok
    /\ leaving' = (leaving /\ p # "daemon")
Go(p, next) == To(p, next) /\ UNCHANGED <<leaving, clean>>

\* A request to the kernel: its answer, or an error before or after its effect.
Request(p, can, effect, next) ==
    /\ \/ can /\ root' = effect /\ Go(p, next) /\ UNCHANGED job /\ Free
       \/ ~can /\ UNCHANGED root /\ Return(p, FALSE) /\ Free
       \/ UNCHANGED root /\ Return(p, FALSE) /\ Fault("netlink")
       \/ can /\ root' = effect /\ Return(p, FALSE) /\ Fault("netlink")
    /\ UNCHANGED <<net, journal, conf, quiet>>
\* A dump.
Look(p, next, rest) ==
    /\ \/ /\ dump' = [dump EXCEPT ![p] = root] /\ rest
          /\ UNCHANGED <<wanted, saved, iface>> /\ Go(p, next) /\ Free
       \/ Return(p, FALSE) /\ Fault("netlink")
    /\ UNCHANGED <<net, root, journal, conf, quiet>>

-----------------------------------------------------------------------------
(* reconcile                                                                *)

\* The loop turns to i, and goes on after it.
Turn(p, i) == iface' = [iface EXCEPT ![p] = i] /\ UNCHANGED <<wanted, saved, dump, todo>>
Done(p, i) ==
    /\ todo' = [todo EXCEPT ![p] = @ \ {i}] /\ iface' = [iface EXCEPT ![p] = None]
    /\ UNCHANGED <<wanted, saved, dump>>

ReadJournals(p) ==
    /\ pc[p] = "read"
    /\ \/ journal = Nothing /\ wanted[p] = Nothing /\ Return(p, TRUE) /\ Free
       \/ /\ journal # Nothing \/ wanted[p] # Nothing
          /\ saved' = [saved EXCEPT ![p] = journal]
          /\ UNCHANGED <<wanted, dump, todo, iface>> /\ Go(p, "dump") /\ Free
       \/ Return(p, FALSE) /\ Fault("file")
    /\ UNCHANGED <<net, root, journal, conf, quiet>>
Dump(p) ==
    /\ pc[p] = "dump"
    /\ Look(p, "release", todo' = [todo EXCEPT ![p] = {i \in Ifaces : saved[p][i] # None}])

\* Take away what is journalled and not wanted.
Release(p) ==
    /\ pc[p] = "release"
    /\ \/ \E i \in Ifaces :
            /\ Least(p, i) /\ Kept(p, i)
            /\ Done(p, i) /\ Go(p, "release")
       \/ \E i \in Ifaces :
            /\ Least(p, i) /\ ~Kept(p, i)
            /\ Turn(p, i) /\ Go(p, IF Owned(dump[p], saved[p][i]) THEN "delete" ELSE "remove")
       \/ /\ todo[p] = {}
          /\ todo' = [todo EXCEPT ![p] = {i \in Ifaces : wanted[p][i] # None}]
          /\ UNCHANGED <<wanted, saved, dump, iface>>
          /\ Go(p, IF saved[p] = Nothing THEN "acquire" ELSE "redump")
    /\ UNCHANGED <<net, root, journal, conf, quiet, budget>>
\* The kernel deletes a root with the handle it is given and falls back to its
\* default queue.
Delete(p) ==
    /\ pc[p] = "delete"
    /\ LET x == saved[p][iface[p]][1]
       IN Request(p, root[x].kind \in {"cake", "changed"}, [root EXCEPT ![x] = Default],
                  "remove")
RemoveJournal(p) ==
    /\ pc[p] = "remove"
    /\ LET i == iface[p]
       IN \/ /\ journal[i] # None /\ journal' = [journal EXCEPT ![i] = None]
             /\ Done(p, i) /\ Go(p, "release") /\ Free
          \/ journal[i] = None /\ UNCHANGED journal /\ Return(p, FALSE) /\ Free
          \/ UNCHANGED journal /\ Return(p, FALSE) /\ Fault("file")
    /\ UNCHANGED <<net, root, conf, quiet>>
Redump(p) ==
    /\ pc[p] = "redump"
    /\ Look(p, "acquire", UNCHANGED todo)

\* Mutant: whatever the dump shows is taken for replaceable.
ReplaceableAlways(p, i) == TRUE
\* A root of the kernel's own, or none in the dump, and no custom child.
Replaceable(p, i) == dump[p][wanted[p][i][1]] = Default
\* Install what is wanted and missing.
Acquire(p) ==
    /\ pc[p] = "acquire"
    /\ \/ todo[p] = {} /\ Return(p, TRUE)
       \/ \E i \in Ifaces :
            /\ Least(p, i) /\ Kept(p, i)
            /\ Done(p, i) /\ Go(p, "acquire")
       \/ \E i \in Ifaces :
            /\ Least(p, i) /\ ~Kept(p, i) /\ ~Replaceable(p, i)
            /\ Return(p, FALSE)
       \/ \E i \in Ifaces :
            /\ Least(p, i) /\ ~Kept(p, i) /\ Replaceable(p, i)
            /\ Turn(p, i) /\ Go(p, "write")
    /\ UNCHANGED <<net, root, journal, conf, quiet, budget>>
\* Mutant: the journal is left to the next reconcile.
WriteLater(p) ==
    /\ pc[p] = "write"
    /\ Go(p, "add") /\ UNCHANGED job /\ Free
    /\ UNCHANGED <<net, root, journal, conf, quiet>>
WriteJournal(p) ==
    /\ pc[p] = "write"
    /\ LET i == iface[p]
       IN \/ /\ journal' = [journal EXCEPT ![i] = wanted[p][i]]
             /\ Go(p, "add") /\ UNCHANGED job /\ Free
          \/ UNCHANGED journal /\ Return(p, FALSE) /\ Fault("file")
    /\ UNCHANGED <<net, root, conf, quiet>>
\* CREATE|EXCL: only where the root has handle 0, with or without children.
Add(p) ==
    /\ pc[p] = "add"
    /\ LET e == wanted[p][iface[p]]
       IN Request(p, InUse(e[1]) /\ root[e[1]] \in {Default, Child},
                  [root EXCEPT ![e[1]] = Cake(e[2])], "verify")
Verify(p) ==
    /\ pc[p] = "verify"
    /\ \/ /\ Owned(root, wanted[p][iface[p]])
          /\ Done(p, iface[p]) /\ Go(p, "acquire") /\ Free
       \/ ~Owned(root, wanted[p][iface[p]]) /\ Return(p, FALSE) /\ Free
       \/ Return(p, FALSE) /\ Fault("netlink")
    /\ UNCHANGED <<net, root, journal, conf, quiet>>

-----------------------------------------------------------------------------
(* Who calls it                                                             *)

Begin(p, w) == To(p, "read") /\ Called(p, w)
\* Mutant: a missing ifindex is not noticed.
DesiredUnchecked == [i \in Ifaces |-> IF i \in active /\ conf[i] # None
                                      THEN <<index[i], conf[i]>> ELSE None]
Desired == [i \in Ifaces |-> IF i \in active /\ index[i] # None /\ conf[i] # None
                             THEN <<index[i], conf[i]>> ELSE None]
Start ==
    /\ pc["daemon"] = "off" /\ pc["stop"] = "off"
    /\ To("daemon", "run")
    /\ conf' \in Configs /\ clean' = FALSE /\ leaving' = FALSE
    /\ UNCHANGED <<net, root, journal, job, quiet, budget>>
\* A daemon that finds the marker.
StartPaused ==
    /\ pc["daemon"] = "off"
    /\ Begin("daemon", Nothing) /\ leaving' = TRUE
    /\ UNCHANGED <<net, root, journal, conf, clean, quiet, budget>>
Sync ==
    /\ pc["daemon"] = "run"
    /\ Begin("daemon", Desired)
    /\ UNCHANGED <<net, root, journal, leaving, conf, clean, quiet, budget>>
Leave ==
    /\ pc["daemon"] = "run" /\ Spend
    /\ Begin("daemon", Nothing) /\ leaving' = TRUE /\ conf' = Nothing
    /\ UNCHANGED <<net, root, journal, clean, quiet>>
\* stop has waited for the daemon it saw.
Stop ==
    /\ pc["stop"] = "off" /\ (pc["daemon"] = "off" \/ leaving)
    /\ Begin("stop", Nothing)
    /\ UNCHANGED <<net, root, journal, leaving, conf, clean, quiet, budget>>
Gone == leaving' = FALSE /\ conf' = Nothing
Kill(p) ==
    /\ pc[p] # "off" /\ Fault("kill")
    /\ To(p, "off") /\ Called(p, Nothing)
    /\ IF p = "daemon" THEN Gone ELSE UNCHANGED <<leaving, conf>>
    /\ UNCHANGED <<net, root, journal, clean, quiet>>

-----------------------------------------------------------------------------
(* The environment                                                          *)

Links ==
    /\ Spend
    /\ active' \in SUBSET {i \in Ifaces : index[i] # None}
    /\ UNCHANGED <<index, root, journal, pc, job, leaving, conf, clean, quiet>>
\* An interface goes, its queue with it; one comes, with any free index.
Unplug(i) ==
    /\ index[i] # None /\ Spend
    /\ root' = [root EXCEPT ![index[i]] = Default]
    /\ index' = [index EXCEPT ![i] = None]
    /\ UNCHANGED <<active, journal, pc, job, leaving, conf, clean, quiet>>
Plug(i) ==
    /\ index[i] = None /\ Spend
    /\ \E x \in Indexes : ~InUse(x) /\ index' = [index EXCEPT ![i] = x]
    /\ active' \in {active, active \cup {i}}
    /\ UNCHANGED <<root, journal, pc, job, leaving, conf, clean, quiet>>
Resting == \A p \in Procs : pc[p] \in {"off", "run"}
\* tc: any queue, or the options of one of ours.
Tc ==
    /\ quiet => Resting
    /\ Spend
    /\ \E x \in Indexes :
         /\ InUse(x)
         /\ \/ \E q \in {Default, Custom, Child} : root' = [root EXCEPT ![x] = q]
            \/ root[x].kind = "cake" /\ root' = [root EXCEPT ![x] = Changed]
    /\ UNCHANGED <<net, journal, pc, job, leaving, conf, clean, quiet>>
\* Only the journals are on disk; the interfaces are numbered anew.
Reboot ==
    /\ Fault("reboot")
    /\ index' \in Numbering
    /\ active' = {i \in Ifaces : index'[i] # None}
    /\ root' = [x \in Indexes |-> Default]
    /\ pc' = [p \in Procs |-> "off"] /\ Gone
    /\ wanted' = [p \in Procs |-> Nothing] /\ saved' = [p \in Procs |-> Nothing]
    /\ dump' = [p \in Procs |-> [x \in Indexes |-> Default]]
    /\ todo' = [p \in Procs |-> {}] /\ iface' = [p \in Procs |-> None]
    /\ UNCHANGED <<journal, clean, quiet>>

-----------------------------------------------------------------------------
\* Every interface is there; Unplug takes them away.
Init ==
    /\ index \in Numbering /\ (\A i \in Ifaces : index[i] # None) /\ active = Ifaces
    /\ root = [x \in Indexes |-> Default] /\ journal = Nothing
    /\ pc = [p \in Procs |-> "off"]
    /\ wanted = [p \in Procs |-> Nothing] /\ saved = [p \in Procs |-> Nothing]
    /\ dump = [p \in Procs |-> [x \in Indexes |-> Default]]
    /\ todo = [p \in Procs |-> {}] /\ iface = [p \in Procs |-> None]
    /\ leaving = FALSE /\ conf = Nothing /\ clean = FALSE
    /\ quiet \in BOOLEAN /\ budget = Budget

Reconcile(p) == \/ ReadJournals(p) \/ Dump(p) \/ Release(p) \/ Delete(p)
                \/ RemoveJournal(p) \/ Redump(p) \/ Acquire(p) \/ WriteJournal(p)
                \/ Add(p) \/ Verify(p)
Callers == Start \/ StartPaused \/ Leave \/ Stop
Environment == \/ Links \/ Tc \/ Reboot
               \/ \E i \in Ifaces : Unplug(i) \/ Plug(i)
Next == \/ \E p \in Procs : Reconcile(p) \/ Kill(p)
        \/ Sync \/ Callers \/ Environment

Spec == Init /\ [][Next]_vars
\* The daemon goes on; every 30 s it calls sync.
FairSpec == Spec /\ WF_vars(Reconcile("daemon") \/ Sync)

-----------------------------------------------------------------------------
(* Properties                                                               *)

Control == {"off", "run", "read", "dump", "release", "delete", "remove", "redump",
            "acquire", "write", "add", "verify"}

\* Every variable has its type, and the loops go through entries that exist.
NetOK ==
    /\ index \in Numbering /\ active \subseteq Ifaces
FilesOK ==
    /\ root \in [Indexes -> Root] /\ journal \in Entries
    /\ leaving \in BOOLEAN /\ conf \in [Ifaces -> Rates \cup {None}]
    /\ clean \in BOOLEAN /\ quiet \in BOOLEAN /\ budget \in Nat
LocalsOK ==
    /\ pc \in [Procs -> Control]
    /\ wanted \in [Procs -> Entries] /\ saved \in [Procs -> Entries]
    /\ dump \in [Procs -> [Indexes -> Root]]
    /\ todo \in [Procs -> SUBSET Ifaces] /\ iface \in [Procs -> Ifaces \cup {None}]
LoopOK(p) ==
    /\ pc[p] \in {"release", "delete", "remove"} => \A i \in todo[p] : saved[p][i] # None
    /\ pc[p] \in {"acquire", "write", "add", "verify", "redump"}
          => \A i \in todo[p] : wanted[p][i] # None
    /\ pc[p] \in {"delete", "remove", "write", "add", "verify"} => iface[p] \in todo[p]
TypeOK == NetOK /\ FilesOK /\ LocalsOK /\ \A p \in Procs : LoopOK(p)

\* Whatever is killed, fails or renumbers the interfaces: a queue of ours has a
\* journal with its index and its options, so the next reconcile finds and
\* removes it (write_journal before add, delete before remove_file).
Journalled ==
    \A x \in Indexes : root[x].kind = "cake" =>
        \E i \in Ifaces : journal[i] = <<x, root[x].rate>>

\* When a cleanup has returned Ok, none of our queues is left, also when the
\* cleanup of stop and that of a paused daemon ran into each other.
CleanEnd == clean => \A x \in Indexes : root[x].kind # "cake"

\* A queue, a child queue or changed options of somebody else are never taken
\* away or replaced, as long as they are not set while reconcile runs
\* (docs/NETWORK_RU.md:102-110).
Reconciling == \E p \in Procs : Reconcile(p)
PreservesCustom ==
    [][quiet /\ Reconciling => \A x \in Indexes : root[x] \in Foreign => root'[x] = root[x]]_vars

\* Once faults and changes cease, a running daemon has a queue on every
\* interface that is to have one and on no other, unless a queue of somebody
\* else is in the way: then the other interfaces may stay without theirs.
Blocked == \E i \in Ifaces : Desired[i] # None /\ root[Desired[i][1]] \in Foreign
Shaped ==
    /\ \A i \in Ifaces : Desired[i] # None => Owned(root, Desired[i])
    /\ \A x \in Indexes : root[x].kind = "cake" =>
         \E i \in Ifaces : Desired[i] = <<x, root[x].rate>>
Converges == <>[](pc["daemon"] = "off" \/ leaving \/ Blocked \/ Shaped)
=============================================================================
