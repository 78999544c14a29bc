------------------------------ MODULE Discovery ------------------------------
(***************************************************************************)
(* How the daemon comes to its configuration and to the links it works on: *)
(* config.conf is read three times at the start (src/config.rs, daemon.rs) *)
(* while configure or an editor may replace it; then every round may ask   *)
(* ip four times what the interfaces are (src/net.rs), while they change   *)
(* and the kernel announces changes through a netlink socket.              *)
(***************************************************************************)
EXTENDS Settings, FiniteSets

CONSTANTS
    Texts,      \* the texts config.conf may have at first or after an edit
    Orders,     \* what configure may be told, a sequence of lines each
    Ifaces,     \* the interfaces there are
    UpNames,    \* those allowed_up takes
    DownNames,  \* those allowed_down takes
    Nets,       \* what may be true of the interfaces at first
    Faulty,     \* whether an ip command can fail
    DrainMax,   \* messages wait takes at once (64)
    QueueMax,   \* bound: messages the socket holds
    Budget      \* bound: changes of the file and of the interfaces, failures

\* The four commands of discover, in order.
Kinds == <<"route4", "route6", "addr", "live">>
Facts == {Kinds[i] : i \in DOMAIN Kinds}

ASSUME DiscoveryAssumption ==
    /\ UpNames \subseteq Ifaces /\ DownNames \subseteq Ifaces
    /\ Nets \subseteq [Facts -> SUBSET Ifaces] /\ Faulty \in BOOLEAN
    /\ \A text \in Texts : IsText(text)
    \* A setting that is given twice is refused (ctl.rs:318).
    /\ \A given \in Orders : IsText(given) /\ Once(given)
    /\ DrainMax \in Nat \ {0} /\ QueueMax \in Nat \ {0} /\ Budget \in Nat

VARIABLES
    hand,      \* whether somebody writes config.conf in place during the start
    asked,     \* a configure that found no daemon has yet to replace the file, now
               \* or when the daemon has loaded it
    file,      \* the text of config.conf
    net,       \* per fact, the interfaces it holds of: default routes of both
               \* families, a usable address, up
    pending,   \* messages in the watcher's socket
    budget,
    \* the daemon
    pc,
    conf,      \* the configuration in force
    watcher,   \* whether it has a watcher
    due,       \* rescan_ms have passed since the last scan
    first, changed,
    next,      \* the command discover runs next
    got,       \* what those before it told
    links,     \* the result of the last scan
    \* observation
    clean,     \* no command of the last scan failed
    read       \* the text config.conf had when it was loaded

settings == <<hand, asked, file, conf, read>>
scan == <<next, got, links, clean>>
flags == <<watcher, due, first, changed>>
vars == <<settings, scan, flags, net, pending, budget, pc>>

NoNet == [k \in Facts |-> {}]
Spend == budget > 0 /\ budget' = budget - 1

-----------------------------------------------------------------------------
(* The links                                                                *)

\* Mutant: an interface is used in both directions.
ClassifyBoth(c, facts) ==
    LET up == IF c["UPSTREAMS"] = {} THEN (facts["route4"] \cup facts["route6"]) \cap UpNames
              ELSE c["UPSTREAMS"]
        down == IF c["DOWNSTREAMS"] = {} THEN facts["addr"] \cap DownNames ELSE c["DOWNSTREAMS"]
        Usable(names) == {n \in names : ValidName(n) /\ n \in facts["live"]}
    IN [up |-> Usable(up), down |-> Usable(down)]
Classify(c, facts) ==
    LET up == IF c["UPSTREAMS"] = {} THEN (facts["route4"] \cup facts["route6"]) \cap UpNames
              ELSE c["UPSTREAMS"]
        down == IF c["DOWNSTREAMS"] = {} THEN facts["addr"] \cap DownNames ELSE c["DOWNSTREAMS"]
        Usable(names) == {n \in names : ValidName(n) /\ n \in facts["live"]}
    IN [up |-> Usable(up), down |-> Usable(down) \ Usable(up)]

-----------------------------------------------------------------------------
(* The start: validate reads twice, then the daemon loads                   *)

\* A file that is written in place may be missing for a while.
ReadLines ==
    /\ pc = "lines"
    /\ \/ pc' = IF TextOK(file) THEN "sqm" ELSE "failed"
       \/ hand /\ pc' = "failed"
    /\ UNCHANGED <<settings, scan, flags, net, pending, budget>>
ReadSqm ==
    /\ pc = "sqm"
    /\ \/ pc' = IF SqmOK(Load(file)) THEN "load" ELSE "failed"
       \/ hand /\ SqmOK(Default) /\ pc' = "load"
    /\ UNCHANGED <<settings, scan, flags, net, pending, budget>>
LoadConfig ==
    /\ pc = "load" /\ pc' = "watch" /\ read' = file
    /\ \/ conf' = Load(file)
       \/ hand /\ conf' = Default
    /\ UNCHANGED <<hand, asked, file, scan, flags, net, pending, budget>>
\* RouteWatcher::new().ok()
Watch ==
    /\ pc = "watch"
    /\ watcher' \in BOOLEAN /\ pc' = "round"
    /\ UNCHANGED <<settings, scan, due, first, changed, net, pending, budget>>

-----------------------------------------------------------------------------
(* The loop                                                                 *)

\* Mutant: the time since the last scan is not looked at.
RoundDeaf ==
    /\ pc = "round"
    /\ IF first \/ changed
       THEN pc' = "scan" /\ clean' = TRUE
       ELSE pc' = "work" /\ UNCHANGED clean
    /\ UNCHANGED <<settings, next, got, links, flags, net, pending, budget>>
Round ==
    /\ pc = "round"
    /\ IF first \/ changed \/ due
       THEN pc' = "scan" /\ clean' = TRUE
       ELSE pc' = "work" /\ UNCHANGED clean
    /\ UNCHANGED <<settings, next, got, links, flags, net, pending, budget>>
\* A command that fails is taken for one that tells nothing.
Ask ==
    /\ pc = "scan" /\ next <= Len(Kinds)
    /\ next' = next + 1
    /\ \/ got' = [got EXCEPT ![Kinds[next]] = net[Kinds[next]]] /\ UNCHANGED <<clean, budget>>
       \/ Faulty /\ got' = [got EXCEPT ![Kinds[next]] = {}] /\ clean' = FALSE /\ Spend
    /\ UNCHANGED <<settings, links, flags, net, pending, pc>>
Scanned ==
    /\ pc = "scan" /\ next > Len(Kinds)
    /\ links' = Classify(conf, got) /\ due' = FALSE /\ pc' = "work"
    /\ next' = 1 /\ got' = NoNet
    /\ UNCHANGED <<settings, clean, watcher, first, changed, net, pending, budget>>
\* The rest of a round.  One that recovers starts the next without waiting.
Work ==
    /\ pc = "work"
    /\ \/ first' \in BOOLEAN /\ pc' = "wait"
       \/ first' = TRUE /\ pc' = "round"
    /\ UNCHANGED <<settings, scan, watcher, due, changed, net, pending, budget>>
\* wait: a message, and up to DrainMax are taken; or the delay is over.
\* Mutant: what came during the scan is thrown away before waiting.
WaitFlushed ==
    /\ pc = "wait"
    /\ pc' = "round" /\ changed' = FALSE /\ pending' = 0
    /\ UNCHANGED <<settings, scan, watcher, due, first, net, budget>>
Wait ==
    /\ pc = "wait"
    /\ pc' = "round"
    /\ IF watcher /\ pending > 0
       THEN /\ changed' = TRUE
            /\ pending' = IF pending > DrainMax THEN pending - DrainMax ELSE 0
       ELSE changed' = FALSE /\ UNCHANGED pending
    /\ UNCHANGED <<settings, scan, watcher, due, first, net, budget>>

-----------------------------------------------------------------------------
(* The others                                                               *)

Starting == pc \in {"lines", "sqm", "load"}
Started == pc \in {"round", "scan", "work", "wait"}
\* configure reads the file, writes a copy, validates it and renames it.  It
\* stops a daemon it finds (see Lifecycle), so one that goes on could not be seen
\* when configure looked; the rename may come at any time since.  What
\* somebody wrote in place after it read is lost.
Configure ==
    /\ asked /\ Spend
    /\ \E given \in Orders, old \in {file} \cup (IF hand THEN Texts ELSE {}) :
          Valid(Merge(old, given)) /\ file' = Merge(old, given)
    /\ asked' = FALSE
    /\ UNCHANGED <<hand, conf, read, scan, flags, net, pending, pc>>
\* What is read may be half of a text.  (Once it is loaded, nobody here reads it.)
Edit ==
    /\ hand /\ Starting /\ Spend
    /\ file' \in Texts
    /\ UNCHANGED <<hand, asked, conf, read, scan, flags, net, pending, pc>>
\* The kernel announces every change to a socket that is there.
Change ==
    /\ Started /\ Spend
    /\ \E k \in Facts, i \in Ifaces :
          net' = [net EXCEPT ![k] = IF i \in @ THEN @ \ {i} ELSE @ \cup {i}]
    /\ pending' = IF watcher /\ pending < QueueMax THEN pending + 1 ELSE pending
    /\ UNCHANGED <<settings, scan, flags, pc>>
Elapse ==
    /\ Started /\ ~due /\ due' = TRUE
    /\ UNCHANGED <<settings, scan, watcher, first, changed, net, pending, budget, pc>>

-----------------------------------------------------------------------------
Init ==
    /\ hand \in BOOLEAN /\ asked \in BOOLEAN /\ file \in Texts /\ conf = Default /\ read = <<>>
    /\ net \in Nets /\ pending = 0 /\ budget = Budget
    /\ pc = "lines" /\ watcher = FALSE /\ due = FALSE /\ first = TRUE /\ changed = TRUE
    /\ next = 1 /\ got = NoNet /\ links = [up |-> {}, down |-> {}] /\ clean = FALSE

Daemon == \/ ReadLines \/ ReadSqm \/ LoadConfig \/ Watch
          \/ Round \/ Ask \/ Scanned \/ Work \/ Wait
Next == Daemon \/ Configure \/ Edit \/ Change \/ Elapse

Spec == Init /\ [][Next]_vars
\* The daemon runs, and time passes.
FairSpec == Spec /\ WF_vars(Daemon) /\ WF_vars(Elapse)

-----------------------------------------------------------------------------
(* Properties                                                               *)

\* The links are interfaces of one direction each.
TypeOK ==
    /\ hand \in BOOLEAN /\ asked \in BOOLEAN /\ DOMAIN conf = Keys
    /\ net \in [Facts -> SUBSET Ifaces] /\ got \in [Facts -> SUBSET Ifaces]
    /\ pending \in 0 .. QueueMax /\ budget \in 0 .. Budget
    /\ pc \in {"lines", "sqm", "load", "watch", "round", "scan", "work", "wait", "failed"}
    /\ <<watcher, due, first, changed, clean>> \in BOOLEAN \X BOOLEAN \X BOOLEAN \X BOOLEAN \X BOOLEAN
    /\ next \in 1 .. (Len(Kinds) + 1)
    /\ links \in [up : SUBSET Ifaces, down : SUBSET Ifaces] /\ links.up \cap links.down = {}

\* Every number but the rates is in its range and the backlog fits the queue
\* (config.rs:90).
InForceInRange ==
    /\ \A k \in Ranged \cup Clamped : Fits(k, conf[k])
    /\ conf["MAX_BACKLOG"] <= conf["QUEUE_MAXLEN"]
\* Whatever is written to config.conf between the three reads (daemon.rs:358,
\* 365), the configuration in force is in range.  Unless somebody writes the
\* file in place, it is what a reader of the file loaded takes it for, validated
\* as a whole though configure may have replaced it between the reads; and the
\* file there now is that one, or it with the settings of one configure whose
\* rename came too late for this daemon (ctl.rs:353, 358).
ReadAsWritten ==
    /\ InForceInRange
    /\ (pc = "watch" \/ Started) /\ ~hand =>
          /\ Valid(read) /\ conf = Fitted(Meaning(read))
          /\ file = read \/ (~asked /\ Valid(file) /\ \E given \in Orders : file = Merge(read, given))

\* configure changes the settings it was told and no other (ctl.rs:332).
ConfigureKeeps ==
    [][~hand /\ file' # file =>
          \E given \in Orders : \A k \in Keys :
             Meaning(file')[k] = IF Written(given, k) = {} THEN Meaning(file)[k]
                                ELSE Meaning(given)[k]]_vars

\* A change of the interfaces is never lost: while the daemon waits and its
\* watcher has nothing to tell, the links are those of this moment, also when
\* the change came between two commands of the last scan (net.rs:103, 158).
AtRest ==
    pc = "wait" /\ watcher /\ pending = 0 /\ clean => links = Classify(conf, net)

\* With a watcher or without, after failed commands too, the links end up
\* being those of the interfaces once these stop changing (daemon.rs:452).
Settles == <>[](pc = "failed" \/ links = Classify(conf, net))
=============================================================================
