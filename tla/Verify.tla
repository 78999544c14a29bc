------------------------------- MODULE Verify -------------------------------
(***************************************************************************)
(* nfqttl verify (src/verify.rs): the counters of the published payload    *)
(* chains are read, packets leaving upstream are sampled for a while, the  *)
(* counters are read again, and a verdict is given.  Meanwhile the daemon  *)
(* rebuilds and publishes chains, packets pass, and any xtables command of *)
(* verify can fail, which it takes for empty output.                       *)
(*                                                                         *)
(* A packet counter is a number per downstream/upstream pair, zero where   *)
(* the chain has no rule: parse_counters and total_hits take it so.        *)
(***************************************************************************)
EXTENDS Integers, Sequences

CONSTANTS
    Families,    \* address families: "v4" or both
    Pairs,       \* downstream/upstream pairs, what identifies a row
    Chains,      \* payload chains of a family
    NoChain,     \* the hook chain jumps nowhere, or nothing was read
    Ttls,        \* the TTLs a configuration may give
    OwnTtl,      \* ip_default_ttl
    StrayTtl,    \* a TTL nobody configured
    LeakMin,     \* LEAK_MIN_PACKETS (10)
    LeakDiv,     \* LEAK_RATIO_DIV (20)
    WireMin,     \* WIRE_ONLY_MIN_PACKETS (10)
    Lifetime,    \* packets each rule in force counted before verify starts
    Faulty,      \* whether verify's xtables commands can fail
    MaxPackets,  \* bound: packets, by the number of families verify reads
    MaxChanges   \* bound: steps of the daemon and failed commands, likewise

ASSUME VerifyAssumption ==
    /\ Families \in {{"v4"}, {"v4", "v6"}} /\ NoChain \notin Chains
    /\ Ttls \subseteq Nat /\ OwnTtl \in Nat /\ StrayTtl \in Nat
    /\ StrayTtl \notin Ttls /\ StrayTtl # OwnTtl
    /\ LeakMin \in Nat \ {0} /\ LeakDiv \in Nat \ {0} /\ WireMin \in Nat
    /\ Lifetime \in Nat /\ Faulty \in BOOLEAN 
    /\ MaxPackets \in [0 .. 2 -> Nat] /\ MaxChanges \in [0 .. 2 -> Nat]

VARIABLES
    \* the kernel and the daemon
    hook,      \* per family, the payload chain its hook chain jumps to
    rules,     \* the pairs each payload chain has rules for
    count,     \* their packet counters
    built,     \* the chain the daemon filled last and has not published
    ttl,       \* the TTL in force, the daemon's since its start
    packets,   \* packets so far
    changes,   \* steps of the daemon and failed commands so far
    \* verify
    pc,
    fams,      \* the families whose counters count: none with --wire-only
    conf,      \* the TTL loaded
    taps,      \* whether a tap could be opened
    todo,      \* families still to be read in this round
    chain,     \* the chain -S told
    round,     \* first or second reading
    before,    \* what was read first
    after,     \* what was read last
    hist,      \* the sample: IPv4 packets, and those of a foreign TTL
    verdict,   \* the result and its reason
    \* observation
    answered,  \* families none of whose commands failed in the first round
    complete,  \* no command failed
    lasting,   \* families whose published chain was not replaced, removed or flushed
               \* since it was first read
    met,       \* per family, pairs a packet of which matched since then
    evidence,  \* met, when the family was read again
    strayed,   \* packets that left upstream during the sample as nobody intended
    early,     \* such packets on any interface, caught by a tap before its bind
    steady     \* the TTL in force is the one loaded, and stays

kernel == <<hook, rules, count, built>>
bounds == <<packets, changes>>
options == <<fams, conf>>
reading == <<todo, chain, round, before, after>>
seen == <<answered, complete, lasting, met, evidence>>
wire == <<taps, hist, strayed, early, steady>>
vars == <<kernel, ttl, bounds, pc, options, reading, verdict, seen, wire>>

Result(r, why) == [result |-> r, reason |-> why]
Zero == [p \in Pairs |-> 0]
Earlier == [p \in Pairs |-> Lifetime]
Nothing == [chain |-> NoChain, count |-> Zero]
WireOnly == fams = <<>>
Counted == {fams[k] : k \in DOMAIN fams}

-----------------------------------------------------------------------------
(* The verdict                                                              *)

\* total_hits sums up what grew; judge only asks whether the sum is zero, so
\* the rows that grew stand for it.
\* Mutant: the first reading is not subtracted.
HitsLifetime(old, new) == {p \in Pairs : new.count[p] > 0}
\* Mutant: a single packet is not enough.
HitsMany(old, new) == {p \in Pairs : new.count[p] > old.count[p] + 1}
Hits(old, new) == {p \in Pairs : new.count[p] > old.count[p]}
Matched == \E f \in Families : Hits(before[f], after[f]) # {}
ChainChanged == \E f \in Families : before[f].chain # after[f].chain
Leak == hist.foreign >= LeakMin /\ hist.foreign * LeakDiv > hist.total
Unmatched == Result("inconclusive", IF ChainChanged THEN "reinstalled" ELSE "unmatched")
Judgement ==
    CASE Leak /\ ~WireOnly /\ ~Matched -> Result("fail", "bypass")
      [] Leak /\ (WireOnly \/ Matched) -> Result("fail", "share")
      [] ~Leak /\ ~WireOnly /\ Matched -> Result("pass", "matched")
      [] ~Leak /\ ~WireOnly /\ ~Matched -> Unmatched
      [] ~Leak /\ WireOnly /\ hist.total >= WireMin -> Result("pass", "wire")
      [] ~Leak /\ WireOnly /\ hist.total < WireMin -> Result("inconclusive", "few")

-----------------------------------------------------------------------------
(* verify                                                                   *)

\* The options and the configuration, or an error; the file may have been
\* edited since the daemon started.
Options ==
    /\ pc = "options"
    /\ conf' \in Ttls /\ steady' = (conf' = ttl)
    /\ \/ pc' = "phase" /\ UNCHANGED verdict
       \/ pc' = "off" /\ verdict' = Result("error", "config")
    /\ UNCHANGED <<kernel, ttl, bounds, fams, reading, seen, taps, hist, strayed, early>>
\* The phase, select and the IPv6 mode: what will be read.
Phase ==
    /\ pc = "phase"
    /\ \/ /\ pc' = "off" /\ UNCHANGED <<fams, todo>>
          /\ verdict' \in {Result("inconclusive", "inactive"), Result("error", "select")}
       \/ /\ fams' \in {<<"v4">>} \cup (IF "v6" \in Families THEN {<<"v4", "v6">>} ELSE {})
          /\ todo' = fams' /\ pc' = "hook" /\ UNCHANGED verdict
       \/ fams' = <<>> /\ todo' = <<>> /\ pc' = "open" /\ UNCHANGED verdict
    /\ UNCHANGED <<kernel, ttl, bounds, chain, round, before, after, conf, seen, wire>>

\* What counters returns for the family at hand, and where the run goes on.
Family == Head(todo)
Found(what) ==
    /\ todo' = Tail(todo)
    /\ IF round = 1 THEN before' = [before EXCEPT ![Family] = what] /\ UNCHANGED <<after, evidence>>
                    ELSE /\ after' = [after EXCEPT ![Family] = what] /\ UNCHANGED before
                         /\ evidence' = [evidence EXCEPT ![Family] = met[Family]]
    /\ pc' = CASE Tail(todo) # <<>> -> "hook"
               [] Tail(todo) = <<>> /\ round = 1 -> "open"
               [] OTHER -> "judge"
\* A command that fails gives no output.
Failed ==
    /\ Faulty /\ complete' = FALSE
    /\ changes < MaxChanges[Len(fams)] /\ changes' = changes + 1
    /\ answered' = IF round = 1 THEN answered \ {Family} ELSE answered
\* -S of the hook chain.
ReadHook ==
    /\ pc = "hook"
    /\ \/ chain' = hook[Family] /\ UNCHANGED <<changes, answered, complete>>
       \/ chain' = NoChain /\ Failed
    /\ IF round = 1 THEN /\ lasting' = lasting \cup {Family}
                         /\ met' = [met EXCEPT ![Family] = {}]
                    ELSE UNCHANGED <<lasting, met>>
    /\ IF chain' = NoChain THEN Found(Nothing)
       ELSE pc' = "list" /\ UNCHANGED <<todo, before, after, evidence>>
    /\ UNCHANGED <<kernel, ttl, packets, round, options, verdict, wire>>
\* -L of the chain it told.
ReadList ==
    /\ pc = "list"
    /\ \/ /\ Found([chain |-> chain, count |-> count[Family][chain]])
          /\ UNCHANGED <<changes, answered, complete>>
       \/ Found([chain |-> chain, count |-> Zero]) /\ Failed
    /\ met' = IF round = 1 /\ Family \in lasting THEN [met EXCEPT ![Family] = {}] ELSE met
    /\ UNCHANGED <<kernel, ttl, packets, chain, round, options, verdict, lasting, wire>>
\* open_tap: until its bind, a packet socket takes what any interface sends.
OpenTaps ==
    /\ pc = "open"
    /\ taps' \in BOOLEAN /\ pc' = IF taps' THEN "bind" ELSE "sample"
    /\ UNCHANGED <<kernel, ttl, bounds, options, reading, verdict, seen, hist, strayed, early, steady>>
BindTaps ==
    /\ pc = "bind" /\ pc' = "sample"
    /\ UNCHANGED <<kernel, ttl, bounds, options, reading, verdict, seen, wire>>
\* The window is over.
\* Mutant: the counters are read again without asking whether they count.
EndSampleAlways ==
    /\ pc = "sample"
    /\ round' = 2 /\ todo' = fams
    /\ pc' = "hook"
    /\ UNCHANGED <<kernel, ttl, bounds, options, chain, before, after, verdict, seen, wire>>
EndSample ==
    /\ pc = "sample"
    /\ round' = 2 /\ todo' = fams
    /\ pc' = IF WireOnly THEN "judge" ELSE "hook"
    /\ UNCHANGED <<kernel, ttl, bounds, options, chain, before, after, verdict, seen, wire>>
JudgeRun ==
    /\ pc = "judge"
    /\ verdict' = Judgement /\ pc' = "off"
    /\ UNCHANGED <<kernel, ttl, bounds, options, reading, seen, wire>>

-----------------------------------------------------------------------------
(* Packets, while verify reads counters or samples                          *)
(* (what concerns a family it does not read is left out)                    *)

Sampling == pc \in {"bind", "sample"}
Running == pc \in {"hook", "list", "open"} \/ Sampling
Packet == Running /\ packets < MaxPackets[Len(fams)] /\ packets' = packets + 1
Foreign(t, known) == IF t \in {known, OwnTtl} THEN 0 ELSE 1
\* drain counts what is outgoing.
\* Mutant: it counts what comes in, too.
SampledAny(outgoing, t) == [total |-> hist.total + 1, foreign |-> hist.foreign + Foreign(t, conf)]
Sampled(outgoing, t) ==
    IF outgoing THEN [total |-> hist.total + 1, foreign |-> hist.foreign + Foreign(t, conf)]
                ELSE hist
\* A packet leaves; a tap may see it, unless its socket or drain's 4096 is full.
Leave(f, t) ==
    IF f = "v4" /\ Sampling
    THEN /\ strayed' = strayed + Foreign(t, ttl)
         /\ (taps /\ hist' = Sampled(TRUE, t)) \/ UNCHANGED hist
    ELSE UNCHANGED <<hist, strayed>>
Outside == UNCHANGED <<ttl, changes, pc, options, reading, verdict, taps, steady>>
\* One a rule matches; without a worker NFQUEUE's bypass lets it go as it is.
Forward ==
    /\ Packet /\ Outside
    /\ \E f \in Counted, p \in Pairs, t \in {ttl, StrayTtl} :
          /\ t = ttl \/ Sampling
          /\ hook[f] # NoChain /\ p \in rules[f][hook[f]]
          /\ count' = [count EXCEPT ![f][hook[f]][p] = @ + 1]
          /\ met' = [met EXCEPT ![f] = @ \cup {p}]
          /\ Leave(f, t)
    /\ UNCHANGED <<hook, rules, built, answered, complete, lasting, evidence, early>>
\* The phone's own, an app's with a TTL of its own, or one that bypasses netfilter.
Other ==
    /\ Packet /\ Outside /\ Sampling /\ \E t \in {OwnTtl, StrayTtl} : Leave("v4", t)
    /\ UNCHANGED <<kernel, seen, early>>
\* One leaves through an interface nobody samples, a tap of which is to be bound.
Elsewhere ==
    /\ Packet /\ Outside /\ pc = "bind"
    /\ \E t \in {OwnTtl, StrayTtl} :
          hist' = Sampled(TRUE, t) /\ early' = early + Foreign(t, ttl)
    /\ UNCHANGED <<kernel, seen, strayed>>
Incoming ==
    /\ Packet /\ Outside /\ Sampling /\ taps
    /\ hist' = Sampled(FALSE, StrayTtl)
    /\ UNCHANGED <<kernel, seen, strayed, early>>

-----------------------------------------------------------------------------
(* The daemon, as far as it touches what verify reads (see Firewall)        *)

Change == Running /\ changes < MaxChanges[Len(fams)] /\ changes' = changes + 1
Inside == UNCHANGED <<packets, pc, options, reading, verdict, taps, hist, strayed, early>>
\* install flushes a chain, the published one when the daemon forgot which that
\* is: recover and the way to idle do, though their -D may have failed.
Flush ==
    /\ Change /\ Inside
    /\ \E f \in Counted : \E c \in Chains :
          /\ rules' = [rules EXCEPT ![f][c] = {}]
          /\ count' = [count EXCEPT ![f][c] = Zero]
          /\ built' = [built EXCEPT ![f] = c]
          /\ lasting' = IF c = hook[f] THEN lasting \ {f} ELSE lasting
    /\ UNCHANGED <<hook, ttl, answered, complete, met, evidence, steady>>
\* It fills it, a rule at a time.
Fill ==
    /\ Running /\ Inside
    /\ \E f \in Counted : \E p \in Pairs :
          /\ built[f] # NoChain /\ p \notin rules[f][built[f]]
          /\ rules' = [rules EXCEPT ![f][built[f]] = @ \cup {p}]
    /\ UNCHANGED <<hook, count, built, changes, ttl, seen, steady>>
\* activate makes the hook jump to the chain just filled.
Publish ==
    /\ Change /\ Inside
    /\ \E f \in Counted :
          /\ built[f] # NoChain
          /\ hook' = [hook EXCEPT ![f] = built[f]]
          /\ built' = [built EXCEPT ![f] = NoChain]
          /\ lasting' = lasting \ {f}
    /\ UNCHANGED <<rules, count, ttl, answered, complete, met, evidence, steady>>
\* cleanup.
Unhook ==
    /\ Change /\ Inside
    /\ \E f \in Counted :
          /\ hook[f] # NoChain
          /\ hook' = [hook EXCEPT ![f] = NoChain]
          /\ built' = [built EXCEPT ![f] = NoChain]
          /\ rules' = [rules EXCEPT ![f] = [c \in Chains |-> {}]]
          /\ count' = [count EXCEPT ![f] = [c \in Chains |-> Zero]]
          /\ lasting' = lasting \ {f}
    /\ UNCHANGED <<ttl, answered, complete, met, evidence, steady>>
\* A daemon loads the configuration, edited perhaps, once, when it starts; a
\* failed -C may have left it the hook of the one before.
Restart ==
    /\ Change /\ Inside
    /\ ttl' \in Ttls \ {ttl} /\ steady' = FALSE
    /\ UNCHANGED <<kernel, seen>>

-----------------------------------------------------------------------------
Init ==
    /\ hook \in [Families -> Chains \cup {NoChain}] /\ built = [f \in Families |-> NoChain]
    /\ rules = [f \in Families |-> [c \in Chains |-> IF c = hook[f] THEN Pairs ELSE {}]]
    /\ count = [f \in Families |-> [c \in Chains |-> IF c = hook[f] THEN Earlier ELSE Zero]]
    /\ ttl \in Ttls /\ packets = 0 /\ changes = 0
    /\ pc = "options" /\ fams = <<>> /\ conf = ttl /\ taps = FALSE
    /\ todo = <<>> /\ chain = NoChain /\ round = 1
    /\ before = [f \in Families |-> Nothing] /\ after = before
    /\ hist = [total |-> 0, foreign |-> 0] /\ verdict = Result("none", "none")
    /\ answered = Families /\ complete = TRUE /\ lasting = {}
    /\ met = [f \in Families |-> {}] /\ evidence = met
    /\ strayed = 0 /\ early = 0 /\ steady = TRUE

Run == Options \/ Phase \/ ReadHook \/ ReadList \/ OpenTaps \/ BindTaps \/ EndSample \/ JudgeRun
Traffic == Forward \/ Other \/ Elsewhere \/ Incoming
Daemon == Flush \/ Fill \/ Publish \/ Unhook \/ Restart
Next == Run \/ Traffic \/ Daemon

Spec == Init /\ [][Next]_vars
-----------------------------------------------------------------------------
(* Properties                                                               *)

SeenType == [chain : Chains \cup {NoChain}, count : [Pairs -> Nat]]
VerdictType == [result : {"none", "pass", "inconclusive", "fail", "error"},
                reason : {"none", "config", "inactive", "select", "bypass", "share", "matched",
                          "reinstalled", "unmatched", "wire", "few"}]
Orders == {<<>>, <<"v4">>, <<"v6">>, <<"v4", "v6">>}

\* Every variable has its type; a family whose counters are being read is one.
KernelOK ==
    /\ hook \in [Families -> Chains \cup {NoChain}] /\ built \in [Families -> Chains \cup {NoChain}]
    /\ rules \in [Families -> [Chains -> SUBSET Pairs]]
    /\ count \in [Families -> [Chains -> [Pairs -> Nat]]]
    /\ ttl \in Ttls /\ packets \in Nat /\ changes \in Nat
RunOK ==
    /\ pc \in {"options", "phase", "hook", "list", "open", "bind", "sample", "judge", "off"}
    /\ fams \in Orders /\ todo \in Orders /\ conf \in Ttls /\ taps \in BOOLEAN
    /\ pc \in {"hook", "list"} => todo # <<>> /\ Head(todo) \in Families
    /\ chain \in Chains \cup {NoChain} /\ round \in {1, 2}
    /\ before \in [Families -> SeenType] /\ after \in [Families -> SeenType]
    /\ hist \in [total : Nat, foreign : Nat] /\ verdict \in VerdictType
SeenOK ==
    /\ answered \subseteq Families /\ complete \in BOOLEAN /\ lasting \subseteq Families
    /\ met \in [Families -> SUBSET Pairs] /\ evidence \in [Families -> SUBSET Pairs]
    /\ strayed \in Nat /\ early \in Nat /\ steady \in BOOLEAN
TypeOK == KernelOK /\ RunOK /\ SeenOK

\* PASS by counters means that since they were first read a packet matched a
\* rule, whatever was rebuilt, published or removed in between: a chain that
\* starts anew never looks like traffic.  The first reading must have
\* succeeded (see PassNeedsTraffic).
PassMeansMatched ==
    verdict.reason = "matched" /\ answered = Families => \E f \in Counted : evidence[f] # {}

\* "no rule matched" and "no forwarded packets matched" are true: when every
\* command succeeded and meanwhile no published chain was replaced, removed or
\* flushed, the counters miss no packet.
UnmatchedIsTrue ==
    /\ verdict.reason \in {"bypass", "unmatched"}
    /\ complete /\ Counted \subseteq lasting
    => \A f \in Counted : evidence[f] = {}

\* FAIL means that at least LEAK_MIN_PACKETS packets left with a TTL nobody
\* chose, what others send in not included: upstream or, for a tap not bound
\* yet, by any interface.  The TTL in force must be the one of the
\* configuration that was loaded.
FailMeansStray == verdict.result = "fail" /\ steady => strayed + early >= LeakMin

\* PASS means that client packets pass the rules (README_RU.md:22), the sum of
\* increases between two snapshots (verify.rs:80).
PassNeedsTraffic == verdict.reason = "matched" => \E f \in Counted : evidence[f] # {}
===============================================================================
