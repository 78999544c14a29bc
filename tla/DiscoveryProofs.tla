---------------------------- MODULE DiscoveryProofs ----------------------------
(***************************************************************************)
(* Proofs about Settings and Discovery, for any interfaces, names, texts   *)
(* and bounds: the daemon does not miss a change that came while it was    *)
(* scanning; what it reads from config.conf is in range and is what the    *)
(* file says; configure keeps the settings it was not told.  The loops of  *)
(* load and configure are followed line by line with Counting, induction   *)
(* over a set of numbers.                                                  *)
(***************************************************************************)
EXTENDS Discovery, FiniteSetTheorems, WellFoundedInduction, TLAPS

-----------------------------------------------------------------------------
(* The loop                                                                 *)

\* What the argument needs to know of the loop.
Looped ==
    /\ net \in [Facts -> SUBSET Ifaces] /\ got \in [Facts -> SUBSET Ifaces]
    /\ pending \in Nat /\ next \in Nat \ {0}
    /\ pc # "scan" => next = 1
    /\ Starting \/ pc = "watch" => first /\ ~watcher

\* A change the last scan, or the scan that runs, did not see is announced by a
\* message still in the socket, or the next round will scan.
Current == links = Classify(conf, net)
Attentive ==
    watcher /\ clean =>
        /\ pc = "scan" => \A i \in 1 .. (next - 1) :
              i \in DOMAIN Kinds => got[Kinds[i]] = net[Kinds[i]] \/ pending > 0
        /\ pc \in {"work", "wait"} => Current \/ pending > 0
        /\ pc = "round" => Current \/ pending > 0 \/ first \/ changed

LEMMA KindsFacts ==
    /\ DOMAIN Kinds = 1 .. 4 /\ Len(Kinds) = 4
    /\ \A i \in DOMAIN Kinds : Kinds[i] \in Facts
    /\ \A k \in Facts : \E i \in 1 .. 4 : k = Kinds[i]
<1>1. DOMAIN Kinds = 1 .. 4 /\ Len(Kinds) = 4
  BY DEF Kinds
<1> QED
  BY <1>1 DEF Facts

LEMMA InitLooped == Init => Looped /\ Attentive
<1> SUFFICES ASSUME Init PROVE Looped /\ Attentive
  OBVIOUS
<1> QED
  BY DiscoveryAssumption DEF Init, Looped, Attentive, NoNet, Starting

LEMMA LoopedNext == Looped /\ [Next]_vars => Looped'
<1> SUFFICES ASSUME Looped, [Next]_vars PROVE Looped'
  OBVIOUS
<1> USE DEF Looped, Starting
<1>1. CASE ReadLines \/ ReadSqm \/ LoadConfig
  BY <1>1 DEF ReadLines, ReadSqm, LoadConfig, settings, scan, flags
<1>2. CASE Watch \/ Round \/ Work
  BY <1>2 DEF Watch, Round, Work, settings, scan, flags
<1>3. CASE Wait
  BY <1>3, DiscoveryAssumption DEF Wait, settings, scan
<1>4. CASE Ask
  <2>1. Kinds[next] \in Facts
    BY <1>4, KindsFacts DEF Ask
  <2>2. got' \in [Facts -> SUBSET Ifaces]
    BY <1>4, <2>1 DEF Ask
  <2> QED
    BY <1>4, <2>2 DEF Ask, settings, flags
<1>5. CASE Scanned
  BY <1>5 DEF Scanned, NoNet, settings
<1>6. CASE Configure \/ Edit \/ Elapse
  BY <1>6 DEF Configure, Edit, Elapse, Started, settings, scan, flags
<1>7. CASE Change
  <2>1. net' \in [Facts -> SUBSET Ifaces]
    BY <1>7 DEF Change
  <2>2. pending' \in Nat
    BY <1>7 DEF Change
  <2> QED
    BY <1>7, <2>1, <2>2 DEF Change, Started, settings, scan, flags
<1>8. CASE UNCHANGED vars
  BY <1>8 DEF vars, settings, scan, flags
<1> QED
  BY <1>1, <1>2, <1>3, <1>4, <1>5, <1>6, <1>7, <1>8 DEF Next, Daemon

LEMMA AttentiveNext == Looped /\ Attentive /\ [Next]_vars => Attentive'
<1> SUFFICES ASSUME Looped, Attentive, [Next]_vars PROVE Attentive'
  OBVIOUS
<1>0. pending \in Nat /\ next \in Nat \ {0} /\ (pc # "scan" => next = 1)
  BY DEF Looped
<1>1. CASE ReadLines \/ ReadSqm \/ LoadConfig \/ Edit
  <2>1. ~watcher'
    BY <1>1 DEF ReadLines, ReadSqm, LoadConfig, Edit, Looped, Starting, flags
  <2> QED
    BY <2>1 DEF Attentive
<1>2. CASE Watch
  BY <1>2 DEF Watch, Looped, Attentive, scan
<1>3. CASE Round
  <2>1. UNCHANGED <<conf, net, links, pending, watcher, next>> /\ pc' \in {"scan", "work"}
    BY <1>3 DEF Round, settings, flags
  <2>2. pc' = "scan" => next' = 1
    BY <1>0, <1>3, <2>1 DEF Round
  <2>3. pc' = "work" => ~first /\ ~changed /\ clean' = clean /\ pc = "round"
    BY <1>3 DEF Round
  <2> QED
    <3>1. CASE pc' = "scan"
      BY <2>1, <2>2, <3>1 DEF Attentive
    <3>2. CASE pc' = "work"
      BY <2>1, <2>3, <3>2 DEF Attentive, Current, Classify
    <3> QED
      BY <2>1, <3>1, <3>2
<1>4. CASE Ask
  <2>1. UNCHANGED <<net, pending, watcher, pc>> /\ pc = "scan" /\ next' = next + 1
    BY <1>4 DEF Ask, flags
  <2>2. next \in DOMAIN Kinds /\ Kinds[next] \in Facts
    BY <1>0, <1>4, KindsFacts DEF Ask
  <2>3. ASSUME clean', watcher', NEW i \in 1 .. (next' - 1), i \in DOMAIN Kinds
        PROVE  got'[Kinds[i]] = net'[Kinds[i]] \/ pending' > 0
    <3>1. clean /\ got' = [got EXCEPT ![Kinds[next]] = net[Kinds[next]]]
      BY <1>4, <2>3 DEF Ask
    <3>2. CASE i = next
      BY <2>1, <2>2, <3>1, <3>2 DEF Looped
    <3>3. CASE i # next
      <4>1. i \in 1 .. (next - 1)
        BY <1>0, <2>1, <2>3, <3>3
      <4>2. got[Kinds[i]] = net[Kinds[i]] \/ pending > 0
        BY <2>1, <2>3, <3>1, <4>1 DEF Attentive
      <4> QED
        BY <2>1, <2>2, <2>3, <3>1, <4>2, KindsFacts DEF Looped
    <3> QED
      BY <3>2, <3>3
  <2> QED
    BY <2>1, <2>3 DEF Attentive
<1>5. CASE Scanned
  <2>1. /\ UNCHANGED <<conf, net, pending, watcher, clean>> /\ pc = "scan" /\ pc' = "work"
        /\ links' = Classify(conf, got) /\ next > 4
    BY <1>5, KindsFacts DEF Scanned, settings
  <2>2. ASSUME clean, watcher, ~(pending > 0) PROVE links' = Classify(conf, net)
    <3>1. \A i \in 1 .. 4 : got[Kinds[i]] = net[Kinds[i]]
      BY <1>0, <2>1, <2>2, KindsFacts DEF Attentive
    <3>2. \A k \in Facts : got[k] = net[k]
      BY <3>1, KindsFacts
    <3>3. got = net
      BY <3>2 DEF Looped
    <3> QED
      BY <2>1, <3>3
  <2> QED
    BY <2>1, <2>2 DEF Attentive, Current, Classify
<1>6. CASE Work
  BY <1>6 DEF Work, Attentive, Current, Classify, settings, scan
<1>7. CASE Wait
  <2>1. UNCHANGED <<conf, net, links, watcher, clean>> /\ pc = "wait" /\ pc' = "round"
    BY <1>7 DEF Wait, settings, scan
  <2>2. watcher /\ pending > 0 => changed'
    BY <1>7 DEF Wait
  <2> QED
    BY <2>1, <2>2 DEF Attentive, Current, Classify
<1>8. CASE Change
  <2>1. UNCHANGED <<watcher, pc>>
    BY <1>8 DEF Change, flags
  <2>2. watcher => pending' > 0
    BY <1>0, <1>8, DiscoveryAssumption DEF Change
  <2> QED
    BY <2>1, <2>2 DEF Attentive
<1>9. CASE Elapse \/ Configure
  <2>1. UNCHANGED <<conf, net, pending, watcher, pc, scan, first, changed>>
    BY <1>9 DEF Elapse, Configure, settings, flags
  <2> QED
    BY <2>1 DEF Attentive, Current, Classify, scan
<1>10. CASE UNCHANGED vars
  BY <1>10 DEF vars, Attentive, Current, Classify, settings, scan, flags
<1> QED
  BY <1>1, <1>2, <1>3, <1>4, <1>5, <1>6, <1>7, <1>8, <1>9, <1>10 DEF Next, Daemon

\* A change of the interfaces is never lost (discover, RouteWatcher::wait), for
\* any interfaces and any number of messages taken at once.
THEOREM ChangesNoticed == Spec => []AtRest
<1>1. Looped /\ Attentive => AtRest
  BY DEF Looped, Attentive, Current, AtRest
<1> QED
  BY <1>1, InitLooped, LoopedNext, AttentiveNext, PTL DEF Spec

-----------------------------------------------------------------------------
(* Reading a text                                                           *)

\* A set that holds 0 and with every number the next holds them all.
LEMMA Counting ==
  ASSUME NEW S, 0 \in S, \A n \in Nat : n \in S => n + 1 \in S
  PROVE  \A n \in Nat : n \in S
<1> DEFINE Less == {ss \in Nat \X Nat : ss[1] < ss[2]}
           T == Nat \ S
<1>1. IsWellFoundedOn(Less, Nat)
  BY NatLessThanWellFounded DEF OpToRel
<1>2. ASSUME T # {} PROVE FALSE
  <2>1. \E x \in T : \A y \in T : ~ (<<y, x>> \in Less)
    <3> T \subseteq Nat
      OBVIOUS
    <3> HIDE DEF Less, T
    <3> QED
      BY <1>1, <1>2, WFMin
  <2>2. PICK x \in T : \A y \in T : ~ (<<y, x>> \in Less)
    BY <2>1
  <2>3. x # 0
    OBVIOUS
  <2>4. x - 1 \in Nat /\ <<x - 1, x>> \in Less
    BY <2>3
  <2>5. x - 1 \in S
    BY <2>2, <2>4
  <2> QED
    BY <2>4, <2>5
<1> QED
  BY <1>2

\* The settings after a line are what the line makes of those before it.
LEMMA ReadingSteps ==
  ASSUME NEW text, Len(text) \in Nat
  PROVE  Reading(text) = [i \in 0 .. Len(text) |->
                            IF i = 0 THEN Default ELSE Apply(Reading(text)[i - 1], text[i])]
<1> DEFINE Reads(g, n) ==
              g = [i \in 0 .. n |-> IF i = 0 THEN Default ELSE Apply(g[i - 1], text[i])]
           S == {n \in Nat : \E r : Reads(r, n)}
<1>1. 0 \in S
  <2>1. Reads([i \in 0 .. 0 |-> Default], 0)
    OBVIOUS
  <2> QED
    BY <2>1
<1>2. ASSUME NEW n \in Nat, n \in S PROVE n + 1 \in S
  <2>1. PICK f : Reads(f, n)
    BY <1>2
  <2> DEFINE h == [i \in 0 .. (n + 1) |-> IF i = n + 1 THEN Apply(f[n], text[n + 1]) ELSE f[i]]
  <2>2. ASSUME NEW i \in 0 .. (n + 1)
        PROVE  h[i] = IF i = 0 THEN Default ELSE Apply(h[i - 1], text[i])
    <3>1. CASE i = n + 1
      BY <3>1
    <3>2. CASE i # n + 1
      <4>1. i \in 0 .. n /\ h[i] = f[i] /\ (i # 0 => i - 1 \in 0 .. n /\ h[i - 1] = f[i - 1])
        BY <3>2
      <4>2. f[i] = IF i = 0 THEN Default ELSE Apply(f[i - 1], text[i])
        BY <2>1, <4>1
      <4> QED
        BY <4>1, <4>2
    <3> QED
      BY <3>1, <3>2
  <2>3. Reads(h, n + 1)
    BY <2>2
  <2>4. \E r : Reads(r, n + 1)
    <3> HIDE DEF h, Reads
    <3> QED
      BY <2>3
  <2> QED
    BY <2>4
<1>3. \E r : Reads(r, Len(text))
  <2> HIDE DEF S
  <2>1. Len(text) \in S
    BY <1>1, <1>2, Counting
  <2> QED
    BY <2>1 DEF S
<1>4. Reading(text) = CHOOSE r : Reads(r, Len(text))
  BY DEF Reading
<1> QED
  BY <1>3, <1>4

Kept(c) == DOMAIN c = Keys /\ \A k \in Ranged \cup Clamped : Fits(k, c[k])
\* What a line that validate accepts says.
Says(line) == IF line.key \in Switches THEN line.value \in {"1", "true"} ELSE line.value

LEMMA KeyClasses ==
  /\ Ranged \cap Clamped = {} /\ Rates \cap (Ranged \cup Clamped) = {}
  /\ Words \cap Numbers = {} /\ Switches \cap (Numbers \cup Words) = {}
  /\ Lists \cap (Numbers \cup Words \cup Switches) = {}
  /\ Names \cap (Numbers \cup Words \cup Switches \cup Lists) = {}
<1>1. Ranged \cap Clamped = {} /\ Rates \cap (Ranged \cup Clamped) = {}
  BY DEF Ranged, Clamped, Rates
<1>2. Words \cap Numbers = {}
  BY DEF Words, Numbers, Ranged, Clamped, Rates
<1>3. Switches \cap (Numbers \cup Words) = {}
  BY DEF Switches, Words, Numbers, Ranged, Clamped, Rates
<1>4. Lists \cap (Numbers \cup Words \cup Switches) = {}
  BY DEF Lists, Switches, Words, Numbers, Ranged, Clamped, Rates
<1>5. Names \cap (Numbers \cup Words \cup Switches \cup Lists) = {}
  BY DEF Names, Lists, Switches, Words, Numbers, Ranged, Clamped, Rates
<1> QED
  BY <1>1, <1>2, <1>3, <1>4, <1>5

\* The table of ranges.
LEMMA Limits ==
  /\ \A k \in Numbers : Lowest[k] \in Nat /\ Highest[k] \in Nat
  /\ \A k \in Clamped : Lowest[k] = 1000 /\ Highest[k] = 60000
  /\ \A k \in Short : Highest[k] <= 255
  /\ \A k \in Numbers : Highest[k] <= 1000000
<1>1. \A k \in Numbers : Lowest[k] \in Nat /\ Highest[k] \in Nat
  BY SMT DEF Lowest, Highest, Numbers, Ranged, Clamped, Rates
<1>2. \A k \in Clamped : Lowest[k] = 1000 /\ Highest[k] = 60000
  BY SMT DEF Lowest, Highest, Clamped
<1>3. \A k \in Short : Highest[k] <= 255
  BY SMT DEF Highest, Short
<1>4. \A k \in Numbers : Highest[k] <= 1000000
  BY SMT DEF Highest, Numbers, Ranged, Clamped, Rates
<1> QED
  BY <1>1, <1>2, <1>3, <1>4

LEMMA FitsMeans ==
  ASSUME NEW k \in Numbers, NEW n
  PROVE  Fits(k, n) <=> n \in Int /\ Lowest[k] <= n /\ n <= Highest[k]
BY Limits, SMT DEF Fits

LEMMA DefaultNumbers ==
  /\ Default["TTL"] = 64 /\ Default["IPV6_HL"] = 64 /\ Default["WORKERS"] = 1
  /\ Default["MAX_FAILURES"] = 6 /\ Default["COOLDOWN"] = 1 /\ Default["QUEUE_MAXLEN"] = 4096
  /\ Default["RCVBUF_MB"] = 8 /\ Default["MAX_BACKLOG"] = 3072 /\ Default["STALL_LIMIT"] = 3
  /\ Default["WATCHDOG_MS"] = 500 /\ Default["IDLE_MS"] = 10000 /\ Default["RESCAN_MS"] = 10000
  /\ Default["CHECK_MS"] = 5000 /\ Default["SQM_UP_KBIT"] = 0 /\ Default["SQM_DOWN_KBIT"] = 0
BY SMT DEF Default

LEMMA DefaultKept ==
  /\ Kept(Default)
  /\ \A k \in Numbers : Default[k] \in Int
<1>1. DOMAIN Default = Keys
  BY SMT DEF Default, Keys, Numbers, Ranged, Clamped, Rates, Words, Switches, Lists, Names
<1>2. \A k \in Numbers : Default[k] \in Int
  BY DefaultNumbers, SMT DEF Numbers, Ranged, Clamped, Rates
<1>3. ASSUME NEW k \in Ranged \cup Clamped PROVE Lowest[k] <= Default[k] /\ Default[k] <= Highest[k]
  <2>1. CASE k \in {"TTL", "IPV6_HL", "WORKERS", "MAX_FAILURES", "COOLDOWN"}
    BY <2>1, DefaultNumbers, SMT DEF Lowest, Highest
  <2>2. CASE k \in {"QUEUE_MAXLEN", "RCVBUF_MB", "MAX_BACKLOG"}
    BY <2>2, DefaultNumbers, SMT DEF Lowest, Highest
  <2>3. CASE k \in {"STALL_LIMIT", "WATCHDOG_MS"}
    BY <2>3, DefaultNumbers, SMT DEF Lowest, Highest
  <2>4. CASE k \in Clamped
    BY <2>4, DefaultNumbers, SMT DEF Lowest, Highest, Clamped
  <2> QED
    BY <2>1, <2>2, <2>3, <2>4 DEF Ranged
<1> QED
  BY <1>1, <1>2, <1>3, Limits DEF Kept, Fits, Numbers

LEMMA TakenFits ==
  ASSUME NEW k \in Ranged \cup Clamped, NEW v \in Int, NEW was, Fits(k, was)
  PROVE  Fits(k, Taken(k, v, was))
<1>1. CASE k \in Ranged
  BY <1>1 DEF Taken
<1>2. CASE k \in Clamped
  <2>1. Taken(k, v, was) = Clamp(Number(k, v))
    BY <1>2, KeyClasses DEF Taken
  <2>2. Number(k, v) \in Int
    BY <1>2, DefaultKept DEF Number, Numbers
  <2>3. Clamp(Number(k, v)) \in Int /\ 1000 <= Clamp(Number(k, v)) /\ Clamp(Number(k, v)) <= 60000
    BY <2>2, SMT DEF Clamp
  <2> QED
    BY <1>2, <2>1, <2>3, Limits, SMT DEF Fits
<1> QED
  BY <1>1, <1>2

LEMMA ApplyKept ==
  ASSUME NEW c, Kept(c), NEW line, line.key \in Numbers => line.value \in Int
  PROVE  Kept(Apply(c, line))
<1>1. CASE line.key \notin Keys
  BY <1>1 DEF Apply
<1>2. CASE line.key \in Keys
  <2> DEFINE t == Taken(line.key, line.value, c[line.key])
  <2>1. Apply(c, line) = [c EXCEPT ![line.key] = t]
    BY <1>2 DEF Apply
  <2>2. line.key \in Ranged \cup Clamped => Fits(line.key, t)
    BY TakenFits DEF Kept, Numbers
  <2> HIDE DEF t
  <2> QED
    BY <2>1, <2>2 DEF Kept
<1> QED
  BY <1>1, <1>2

LEMMA TakenOK ==
  ASSUME NEW line, LineOK(line), NEW was
  PROVE  Taken(line.key, line.value, was) = Says(line)
<1> DEFINE k == line.key
           v == line.value
<1>1. CASE k \in Numbers
  <2>0. Fits(k, v)
    BY <1>1 DEF LineOK
  <2>1. Fits(k, v) /\ v \in Nat
    BY <1>1, <2>0, Limits, SMT DEF Fits
  <2>2. v <= 1000000 /\ (k \in Short => v <= 255)
    <3>1. Highest[k] \in Nat /\ Highest[k] <= 1000000 /\ (k \in Short => Highest[k] <= 255)
      BY <1>1, Limits, SMT
    <3>2. v \in Nat /\ v <= Highest[k]
      BY <1>1, <2>1, FitsMeans
    <3> QED
      BY <3>1, <3>2, SMT
  <2>3. Number(k, v) = v
    <3>1. \A n \in Nat : n <= 1000000 =>
             n \div 65536 <= 65535 /\ ((n \div 65536) \div 65536) \div 65536 <= 65535
      BY SMT
    <3>2. v # NoNumber /\ 0 <= v /\ v <= 2147483647 /\ -2147483647 - 1 <= v
      BY <2>1, <2>2, SMT DEF NoNumber
    <3>3. k \in Short => v <= 65535
      BY <2>1, <2>2, SMT
    <3>4. v \div 65536 <= 65535 /\ ((v \div 65536) \div 65536) \div 65536 <= 65535
      BY <2>1, <2>2, <3>1, SMT
    <3>5. Parses(k, v)
      BY <3>2, <3>3, <3>4, SMT DEF Parses
    <3> QED
      BY <3>5, SMT DEF Number
  <2>4. k \in Clamped => Clamp(v) = v
    BY <1>1, <2>1, Limits, SMT DEF Fits, Clamp
  <2>5. Says(line) = v
    BY <1>1, KeyClasses DEF Says
  <2> QED
    BY <1>1, <2>1, <2>3, <2>4, <2>5, KeyClasses DEF Taken, Numbers
<1>2. CASE k \in Words
  BY <1>2, KeyClasses DEF LineOK, Says, Taken, Numbers
<1>3. CASE k \in Switches
  BY <1>3, KeyClasses DEF Taken, Says, Numbers
<1>4. CASE k \in Lists
  <2>1. {n \in v : ValidName(n)} = v
    BY <1>4 DEF LineOK
  <2> QED
    BY <1>4, <2>1, KeyClasses DEF Taken, Says, Numbers
<1>5. CASE k \in Names
  BY <1>5, KeyClasses DEF Taken, Says, Numbers
<1> QED
  BY <1>1, <1>2, <1>3, <1>4, <1>5 DEF LineOK, Keys

LEMMA ApplyOK ==
  ASSUME NEW c, NEW line, LineOK(line)
  PROVE  line.key \in Keys /\ Apply(c, line) = [c EXCEPT ![line.key] = Says(line)]
BY TakenOK DEF Apply, LineOK

LEMMA TextLength ==
  ASSUME NEW text, IsText(text)
  PROVE  Len(text) \in Nat /\ DOMAIN text = 1 .. Len(text)
BY DEF IsText

\* Whatever the lines are, the settings stay in their ranges.
LEMMA ReadingKept ==
  ASSUME NEW text, IsText(text), NEW n \in 0 .. Len(text)
  PROVE  Kept(Reading(text)[n])
<1> DEFINE S == {m \in Nat : m <= Len(text) => Kept(Reading(text)[m])}
<1>1. Len(text) \in Nat /\ DOMAIN text = 1 .. Len(text)
  BY TextLength
<1>2. 0 \in S
  BY <1>1, ReadingSteps, DefaultKept
<1>3. ASSUME NEW m \in Nat, m \in S PROVE m + 1 \in S
  <2> SUFFICES ASSUME m + 1 <= Len(text) PROVE Kept(Reading(text)[m + 1])
    OBVIOUS
  <2>1. Reading(text)[m + 1] = Apply(Reading(text)[m], text[m + 1])
    BY <1>1, ReadingSteps
  <2>2. Kept(Reading(text)[m])
    BY <1>1, <1>3
  <2>3. text[m + 1].key \in Numbers => text[m + 1].value \in Int
    BY <1>1 DEF IsText
  <2> QED
    BY <2>1, <2>2, <2>3, ApplyKept
<1>4. n \in S
  <2> HIDE DEF S
  <2> QED
    BY <1>1, <1>2, <1>3, Counting
<1> QED
  BY <1>1, <1>4

LEMMA FittedKept ==
  ASSUME NEW c, Kept(c)
  PROVE  Kept(Fitted(c)) /\ Fitted(c)["MAX_BACKLOG"] <= Fitted(c)["QUEUE_MAXLEN"]
<1>1. /\ Lowest["MAX_BACKLOG"] = 32 /\ Highest["MAX_BACKLOG"] = 32768
      /\ Lowest["QUEUE_MAXLEN"] = 256 /\ Highest["QUEUE_MAXLEN"] = 32768
  BY SMT DEF Lowest, Highest
<1>2. /\ {"MAX_BACKLOG", "QUEUE_MAXLEN"} \subseteq Ranged
      /\ Ranged \subseteq Numbers /\ Numbers \subseteq Keys
  BY DEF Ranged, Numbers, Keys
<1>3. Fits("MAX_BACKLOG", c["MAX_BACKLOG"]) /\ Fits("QUEUE_MAXLEN", c["QUEUE_MAXLEN"])
  BY <1>2 DEF Kept
<1>4. /\ c["MAX_BACKLOG"] \in Int /\ 32 <= c["MAX_BACKLOG"] /\ c["MAX_BACKLOG"] <= 32768
      /\ c["QUEUE_MAXLEN"] \in Int /\ 256 <= c["QUEUE_MAXLEN"] /\ c["QUEUE_MAXLEN"] <= 32768
  BY <1>1, <1>2, <1>3, FitsMeans
<1>5. Fits("MAX_BACKLOG", c["QUEUE_MAXLEN"])
  BY <1>1, <1>2, <1>4, FitsMeans
<1> QED
  BY <1>2, <1>4, <1>5 DEF Kept, Fitted

\* What load returns (config.rs:90) is in range, for any text.
THEOREM LoadKept ==
  ASSUME NEW text, IsText(text)
  PROVE  Kept(Load(text)) /\ Load(text)["MAX_BACKLOG"] <= Load(text)["QUEUE_MAXLEN"]
<1>1. Kept(Reading(text)[Len(text)])
  BY TextLength, ReadingKept
<1> QED
  BY <1>1, FittedKept DEF Load

\* In a text without duplicates the meaning of a key is what its line says.
LEMMA MeaningOf ==
  ASSUME NEW text, Once(text), NEW i \in DOMAIN text, text[i].key \in Keys
  PROVE  Meaning(text)[text[i].key] = Says(text[i])
<1>1. i \in Written(text, text[i].key)
  BY DEF Written
<1>2. \A j \in Written(text, text[i].key) : j = i
  BY DEF Written, Once
<1>3. (CHOOSE j \in Written(text, text[i].key) : TRUE) = i
  BY <1>1, <1>2
<1> QED
  BY <1>1, <1>3 DEF Meaning, Says

\* What validate accepts line by line is read as it is written.
LEMMA ReadingSays ==
  ASSUME NEW text, IsText(text), TextOK(text)
  PROVE  Reading(text)[Len(text)] = Meaning(text)
<1> DEFINE Seen(m) == {text[j].key : j \in 1 .. m}
           Upto(m) == [k \in Keys |-> IF k \in Seen(m) THEN Meaning(text)[k] ELSE Default[k]]
           S == {m \in Nat : m <= Len(text) => Reading(text)[m] = Upto(m)}
<1>1. Len(text) \in Nat /\ DOMAIN text = 1 .. Len(text)
  BY TextLength
<1>2. 0 \in S
  <2>1. Upto(0) = [k \in Keys |-> Default[k]]
    OBVIOUS
  <2>2. Default = [k \in Keys |-> Default[k]]
    <3>1. Default \in [DOMAIN Default -> {Default[k] : k \in DOMAIN Default}]
      BY SMT DEF Default
    <3> QED
      BY <3>1, DefaultKept DEF Kept
  <2> QED
    BY <1>1, <2>1, <2>2, ReadingSteps
<1>3. ASSUME NEW m \in Nat, m \in S PROVE m + 1 \in S
  <2> SUFFICES ASSUME m + 1 <= Len(text) PROVE Reading(text)[m + 1] = Upto(m + 1)
    OBVIOUS
  <2> DEFINE l == text[m + 1]
  <2>1. Reading(text)[m + 1] = Apply(Reading(text)[m], l)
    BY <1>1, ReadingSteps
  <2>2. Reading(text)[m] = Upto(m)
    BY <1>1, <1>3
  <2>3. LineOK(l) /\ m + 1 \in DOMAIN text
    BY <1>1 DEF TextOK
  <2>4. l.key \in Keys /\ Apply(Upto(m), l) = [Upto(m) EXCEPT ![l.key] = Says(l)]
    BY <2>3, ApplyOK
  <2>5. Meaning(text)[l.key] = Says(l)
    BY <2>3, <2>4, MeaningOf DEF TextOK
  <2>6. Seen(m + 1) = Seen(m) \cup {l.key}
    OBVIOUS
  <2>7. [Upto(m) EXCEPT ![l.key] = Says(l)] = Upto(m + 1)
    <3> HIDE DEF Seen, l
    <3> QED
      BY <2>4, <2>5, <2>6
  <2> QED
    BY <2>1, <2>2, <2>4, <2>7
<1>4. Reading(text)[Len(text)] = Upto(Len(text))
  <2> HIDE DEF S
  <2>1. Len(text) \in S
    BY <1>1, <1>2, <1>3, Counting
  <2> QED
    BY <2>1, <1>1 DEF S
<1>5. ASSUME NEW k \in Keys, k \notin Seen(Len(text)) PROVE Meaning(text)[k] = Default[k]
  <2>1. Written(text, k) = {}
    BY <1>1, <1>5 DEF Written
  <2> QED
    BY <2>1 DEF Meaning
<1>6. Upto(Len(text)) = [k \in Keys |-> Meaning(text)[k]]
  <2> HIDE DEF Seen
  <2> QED
    BY <1>5
<1>7. Meaning(text) = [k \in Keys |-> Meaning(text)[k]]
  BY DEF Meaning
<1> QED
  BY <1>4, <1>6, <1>7

\* A text that validate accepts line by line is read by load (config.rs:90) as
\* it is written, but for a backlog that does not fit the queue.
THEOREM LoadSays ==
  ASSUME NEW text, IsText(text), TextOK(text)
  PROVE  Load(text) = Fitted(Meaning(text))
BY ReadingSays DEF Load

-----------------------------------------------------------------------------
(* Writing a text                                                           *)

\* What is left over, as a sequence: every line of it once.
LEMMA Listed ==
  ASSUME NEW T, IsFiniteSet(T)
  PROVE  /\ SetToSeq(T) \in Seq(T) /\ Len(SetToSeq(T)) = Cardinality(T)
         /\ \A t \in T : \E i \in 1 .. Cardinality(T) : SetToSeq(T)[i] = t
         /\ \A i, j \in 1 .. Cardinality(T) : SetToSeq(T)[i] = SetToSeq(T)[j] => i = j
         /\ Cardinality(T) \in Nat
<1>1. Cardinality(T) \in Nat /\ ExistsBijection(1 .. Cardinality(T), T)
  BY FS_CardinalityType
<1> DEFINE n == Cardinality(T)
           f == SetToSeq(T)
<1>2. \E g : g \in [1 .. n -> T] /\ IsInjective(g)
  <2>1. PICK g : g \in Bijection(1 .. n, T)
    BY <1>1 DEF ExistsBijection
  <2>2. g \in [1 .. n -> T] /\ \A a, b \in 1 .. n : g[a] = g[b] => a = b
    BY <2>1 DEF Bijection, Injection, IsInjective
  <2> QED
    BY <2>2 DEF IsInjective
<1>3. f \in [1 .. n -> T] /\ IsInjective(f)
  BY <1>2 DEF SetToSeq
<1>4. \A a, b \in 1 .. n : f[a] = f[b] => a = b
  BY <1>3 DEF IsInjective
<1>5. f \in Injection(1 .. n, T)
  BY <1>3, <1>4 DEF Injection
<1>6. f \in Surjection(1 .. n, T)
  <2>1. IsFiniteSet(1 .. n) /\ Cardinality(1 .. n) = n
    BY <1>1, FS_Interval
  <2> HIDE DEF f
  <2> QED
    BY <1>5, <2>1, FS_Injection
<1>7. \A t \in T : \E i \in 1 .. n : f[i] = t
  BY <1>6 DEF Surjection
<1>8. f \in Seq(T) /\ Len(f) = n
  BY <1>1, <1>3
<1> QED
  BY <1>1, <1>4, <1>7, <1>8

\* The two parts of what configure writes.
Added(old, given) == {g \in Range(given) : Written(old, g.key) = {}}
Chosen(old, given, i) ==
    {g \in Range(given) : (\A j \in 1 .. (i - 1) : old[j].key # old[i].key) /\ g.key = old[i].key}
Rewritten(old, given) ==
    [i \in DOMAIN old |-> IF Chosen(old, given, i) = {} THEN old[i]
                         ELSE CHOOSE g \in Chosen(old, given, i) : TRUE]

LEMMA RangeFinite ==
  ASSUME NEW text, IsText(text), NEW T, T \subseteq Range(text)
  PROVE  IsFiniteSet(T)
<1> DEFINE n == Len(text)
<1>1. n \in Nat /\ DOMAIN text = 1 .. n /\ text \in [1 .. n -> Range(text)]
  BY TextLength DEF IsText
<1>2. text \in Surjection(1 .. n, Range(text))
  BY <1>1 DEF Surjection, Range
<1>3. IsFiniteSet(1 .. n)
  BY <1>1, FS_Interval
<1>4. IsFiniteSet(Range(text))
  BY <1>2, <1>3, FS_Surjection
<1> QED
  BY <1>4, FS_Subset

\* m consists of the n old lines, rewritten, and of the lines of L.
Consists(old, given, m, n, L) ==
    /\ n \in Nat /\ DOMAIN old = 1 .. n /\ 1 .. n \subseteq DOMAIN m
    /\ \A i \in 1 .. n : m[i] = Rewritten(old, given)[i]
    /\ \A i \in DOMAIN m \ (1 .. n) : m[i] \in L
    /\ \A g \in L : \E i \in DOMAIN m : m[i] = g

LEMMA MergeParts ==
  ASSUME NEW old, IsText(old), NEW given, IsText(given)
  PROVE  /\ Merge(old, given) \in Seq(Range(old) \cup Range(given))
         /\ Consists(old, given, Merge(old, given), Len(old), Added(old, given))
<1> SUFFICES ASSUME NEW m, m = Merge(old, given), NEW n, n = Len(old), NEW L, L = Added(old, given)
             PROVE  m \in Seq(Range(old) \cup Range(given)) /\ Consists(old, given, m, n, L)
  OBVIOUS
<1> DEFINE h == Rewritten(old, given)
           t == SetToSeq(L)
           R == Range(old) \cup Range(given)
<1>1. n \in Nat /\ DOMAIN old = 1 .. n
  BY TextLength
<1>2. m = h \o t
  BY DEF Merge, Rewritten, Chosen, Added
<1>3. ASSUME NEW i \in DOMAIN old PROVE h[i] \in R
  BY <1>3 DEF Rewritten, Chosen, Range
<1>4. h \in Seq(R) /\ Len(h) = n
  <2>1. h \in [1 .. n -> R]
    BY <1>1, <1>3 DEF Rewritten
  <2> HIDE DEF h, R
  <2> QED
    BY <1>1, <2>1
<1>5. IsFiniteSet(L) /\ L \subseteq R
  <2>1. L \subseteq Range(given)
    BY DEF Added
  <2> QED
    BY <2>1, RangeFinite
<1>6. /\ t \in Seq(L) /\ Len(t) = Cardinality(L) /\ Cardinality(L) \in Nat
      /\ \A g \in L : \E i \in 1 .. Cardinality(L) : t[i] = g
  BY <1>5, Listed
<1>7. t \in Seq(R)
  BY <1>5, <1>6
<1> HIDE DEF h, t, R
<1>8. m \in Seq(R)
  BY <1>2, <1>4, <1>7
<1>9. Len(m) = n + Cardinality(L)
  <2>1. Len(h \o t) = Len(h) + Len(t)
    BY <1>4, <1>7
  <2> QED
    BY <1>2, <1>4, <1>6, <2>1
<1>10. DOMAIN m = 1 .. (n + Cardinality(L))
  BY <1>8, <1>9
<1>11. \A i \in 1 .. n : m[i] = Rewritten(old, given)[i]
  <2>1. ASSUME NEW i \in 1 .. n PROVE m[i] = h[i]
    BY <1>1, <1>2, <1>4, <1>7
  <2> QED
    BY <2>1 DEF h
<1>12. ASSUME NEW i \in 1 .. Cardinality(L) PROVE m[n + i] = t[i] /\ t[i] \in L /\ n + i \in DOMAIN m
  <2>1. i \in 1 .. Len(t) /\ t[i] \in L
    BY <1>6
  <2>2. (h \o t)[Len(h) + i] = t[i]
    BY <1>1, <1>4, <1>6, <1>7, <2>1
  <2> QED
    BY <1>1, <1>2, <1>4, <1>6, <1>10, <2>1, <2>2
<1>13. ASSUME NEW i \in DOMAIN m \ (1 .. n) PROVE m[i] \in L
  <2>1. i - n \in 1 .. Cardinality(L) /\ n + (i - n) = i
    BY <1>1, <1>6, <1>10
  <2>2. m[n + (i - n)] \in L
    BY <1>12, <2>1
  <2> QED
    BY <2>1, <2>2
<1>14. ASSUME NEW g \in L PROVE \E i \in DOMAIN m : m[i] = g
  <2>1. PICK i \in 1 .. Cardinality(L) : t[i] = g
    BY <1>6
  <2>2. m[n + i] = g /\ n + i \in DOMAIN m
    BY <1>12, <2>1
  <2> QED
    BY <2>2
<1>15. 1 .. n \subseteq DOMAIN m
  BY <1>1, <1>6, <1>10
<1> QED
  BY <1>1, <1>8, <1>11, <1>13, <1>14, <1>15 DEF R, Consists

LEMMA RewrittenLines ==
  ASSUME NEW old, IsText(old), NEW given, IsText(given), NEW i \in DOMAIN old
  PROVE  /\ Rewritten(old, given)[i].key = old[i].key
         /\ Rewritten(old, given)[i] = old[i] \/ Rewritten(old, given)[i] \in Range(given)
         /\ Written(given, old[i].key) = {} => Rewritten(old, given)[i] = old[i]
         /\ \A g \in Range(given) : Once(given) /\ Once(old) /\ g.key = old[i].key => Rewritten(old, given)[i] = g
<1> DEFINE C == Chosen(old, given, i)
<1>1. Rewritten(old, given)[i] = IF C = {} THEN old[i] ELSE CHOOSE g \in C : TRUE
  BY DEF Rewritten
<1>2. C # {} => (CHOOSE g \in C : TRUE) \in C
  OBVIOUS
<1>3. \A g \in C : g \in Range(given) /\ g.key = old[i].key
  BY DEF Chosen
<1>4. Written(given, old[i].key) = {} => C = {}
  BY <1>3 DEF Written, Range
<1>5. ASSUME NEW g \in Range(given), Once(given), Once(old), g.key = old[i].key PROVE C = {g}
  <2>1. i \in Nat /\ \A j \in 1 .. (i - 1) : j \in DOMAIN old
    BY TextLength
  <2>2. \A j \in 1 .. (i - 1) : old[j].key # old[i].key
    BY <1>5, <2>1 DEF Once
  <2>3. g \in C
    BY <1>5, <2>2 DEF Chosen
  <2>4. \A f \in C : f = g
    BY <1>3, <1>5 DEF Range, Once
  <2> QED
    BY <2>3, <2>4
<1> QED
  BY <1>1, <1>2, <1>3, <1>4, <1>5

\* What configure writes is a text again.
LEMMA MergeText ==
  ASSUME NEW old, IsText(old), NEW given, IsText(given)
  PROVE  IsText(Merge(old, given))
<1> DEFINE m == Merge(old, given)
           R == Range(old) \cup Range(given)
<1>1. m \in Seq(R)
  <2> HIDE DEF m, R
  <2> QED
    BY MergeParts DEF m, R
<1>2. m \in Seq(Range(m))
  <2> HIDE DEF m, R
  <2> QED
    BY <1>1 DEF Range
<1>3. \A l \in R : l.key \in Numbers => l.value \in Int
  BY DEF IsText, Range
<1>4. \A i \in DOMAIN m : m[i] \in R
  <2> HIDE DEF m, R
  <2> QED
    BY <1>1
<1> QED
  BY <1>2, <1>3, <1>4 DEF IsText

\* The settings that were given mean what they were given as, all others what
\* they meant, provided no key is there twice afterwards.
LEMMA MergeMeaning ==
  ASSUME NEW old, IsText(old), NEW given, IsText(given), Once(given),
         Once(Merge(old, given)), NEW k \in Keys
  PROVE  Meaning(Merge(old, given))[k] =
            IF Written(given, k) = {} THEN Meaning(old)[k] ELSE Meaning(given)[k]
<1> SUFFICES ASSUME NEW m, m = Merge(old, given), NEW n, n = Len(old), NEW L, L = Added(old, given)
             PROVE  Meaning(m)[k] = IF Written(given, k) = {} THEN Meaning(old)[k] ELSE Meaning(given)[k]
  OBVIOUS
<1>0. Consists(old, given, m, n, L)
  BY MergeParts
<1>1. /\ n \in Nat /\ DOMAIN old = 1 .. n /\ 1 .. n \subseteq DOMAIN m
      /\ \A i \in 1 .. n : m[i] = Rewritten(old, given)[i]
      /\ \A i \in DOMAIN m \ (1 .. n) : m[i] \in L
      /\ \A g \in L : \E i \in DOMAIN m : m[i] = g
  BY <1>0 DEF Consists
<1>2. \A i \in 1 .. n : i \in DOMAIN m /\ m[i].key = old[i].key
  BY <1>1, RewrittenLines
<1>3. Once(old)
  BY <1>1, <1>2 DEF Once
<1>4. CASE Written(given, k) = {}
  <2>1. \A g \in L : g.key # k
    BY <1>4 DEF Added, Range, Written
  <2>3. Written(m, k) = Written(old, k)
    BY <1>1, <1>2, <2>1 DEF Written
  <2>4. \A i \in Written(old, k) : m[i] = old[i]
    BY <1>1, <1>4, RewrittenLines DEF Written
  <2>5. Written(old, k) # {} => (CHOOSE i \in Written(old, k) : TRUE) \in Written(old, k)
    OBVIOUS
  <2>6. Meaning(m)[k] = Meaning(old)[k]
    BY <2>3, <2>4, <2>5 DEF Meaning
  <2> QED
    BY <1>4, <2>6
<1>5. CASE Written(given, k) # {}
  <2>1. PICK j \in DOMAIN given : given[j].key = k
    BY <1>5 DEF Written
  <2>2. given[j] \in Range(given)
    BY DEF Range
  <2>3. \E i \in DOMAIN m : m[i] = given[j]
    <3>1. CASE Written(old, k) = {}
      <4>1. given[j] \in L
        BY <2>1, <2>2, <3>1 DEF Added
      <4> QED
        BY <1>1, <4>1
    <3>2. CASE Written(old, k) # {}
      <4>1. PICK i \in DOMAIN old : old[i].key = k
        BY <3>2 DEF Written
      <4>2. Rewritten(old, given)[i] = given[j]
        BY <1>3, <2>1, <2>2, <4>1, RewrittenLines
      <4> QED
        BY <1>1, <1>2, <4>2
    <3> QED
      BY <3>1, <3>2
  <2>4. PICK i \in DOMAIN m : m[i] = given[j]
    BY <2>3
  <2>5. Meaning(m)[k] = Says(given[j])
    BY <2>1, <2>4, MeaningOf
  <2>6. Meaning(given)[k] = Says(given[j])
    BY <2>1, MeaningOf
  <2> QED
    BY <1>5, <2>5, <2>6
<1> QED
  BY <1>4, <1>5

-----------------------------------------------------------------------------
(* The configuration in force                                               *)

\* How far the start has come with the text that is there.
ReadSoFar ==
    /\ pc = "sqm" => TextOK(file)
    /\ pc = "load" => Valid(file)
    /\ pc = "watch" \/ Started =>
          /\ Valid(read) /\ conf = Load(read)
          /\ file = read \/ (~asked /\ Valid(file) /\ \E given \in Orders : file = Merge(read, given))
Configured ==
    /\ IsText(file) /\ IsText(read)
    /\ Kept(conf) /\ conf["MAX_BACKLOG"] <= conf["QUEUE_MAXLEN"]
    /\ ~hand => ReadSoFar

LEMMA InitConfigured == Init => Configured
<1> SUFFICES ASSUME Init PROVE Configured
  OBVIOUS
<1>1. IsText(file) /\ IsText(read)
  BY DiscoveryAssumption DEF Init, IsText
<1>2. Kept(conf) /\ conf["MAX_BACKLOG"] <= conf["QUEUE_MAXLEN"]
  BY DefaultKept, DefaultNumbers DEF Init
<1> QED
  BY <1>1, <1>2 DEF Init, Configured, ReadSoFar, Started

LEMMA ConfiguredNext == Configured /\ [Next]_vars => Configured'
<1> SUFFICES ASSUME Configured, [Next]_vars PROVE Configured'
  OBVIOUS
<1> USE DEF Configured
<1>1. CASE ReadLines
  BY <1>1 DEF ReadLines, ReadSoFar, Started, settings
<1>2. CASE ReadSqm
  BY <1>2 DEF ReadSqm, ReadSoFar, Started, Valid, settings
<1>3. CASE LoadConfig
  <2>1. Kept(conf') /\ conf'["MAX_BACKLOG"] <= conf'["QUEUE_MAXLEN"]
    BY <1>3, LoadKept, DefaultKept, DefaultNumbers DEF LoadConfig
  <2> QED
    BY <1>3, <2>1 DEF LoadConfig, ReadSoFar, Started
<1>4. CASE UNCHANGED settings /\ (pc' = pc \/ pc = "watch" \/ Started) /\ (pc' = pc \/ Started')
  BY <1>4 DEF settings, ReadSoFar, Started
<1>5. CASE Watch \/ Round \/ Ask \/ Scanned \/ Work \/ Wait
  BY <1>4, <1>5 DEF Watch, Round, Ask, Scanned, Work, Wait, Started
<1>6. CASE Configure
  <2>1. PICK given \in Orders, old \in {file} \cup (IF hand THEN Texts ELSE {}) :
           Valid(Merge(old, given)) /\ file' = Merge(old, given)
    BY <1>6 DEF Configure
  <2>2. IsText(file')
    BY <2>1, MergeText, DiscoveryAssumption
  <2>3. UNCHANGED <<conf, hand, pc, read>> /\ asked /\ ~asked'
    BY <1>6 DEF Configure
  <2>4. Valid(file') /\ TextOK(file')
    BY <2>1 DEF Valid
  <2>5. ASSUME ~hand, pc = "watch" \/ Started PROVE \E g \in Orders : file' = Merge(read, g)
    <3>1. file = read /\ old = file
      BY <2>1, <2>3, <2>5 DEF ReadSoFar
    <3> QED
      BY <2>1, <3>1
  <2> QED
    BY <2>2, <2>3, <2>4, <2>5 DEF ReadSoFar, Started
<1>7. CASE Edit
  BY <1>7, DiscoveryAssumption DEF Edit
<1>8. CASE Change \/ Elapse
  BY <1>4, <1>8 DEF Change, Elapse
<1>9. CASE UNCHANGED vars
  BY <1>4, <1>9 DEF vars
<1> QED
  BY <1>1, <1>2, <1>3, <1>5, <1>6, <1>7, <1>8, <1>9 DEF Next, Daemon

\* The configuration in force (Config::load after Config::validate, daemon.rs:358)
\* is in range whatever the texts are, and what the file that was loaded says
\* if nobody writes it in place, with any texts and anything configure may be
\* told; a rename that comes later changes what it was told, once.
THEOREM InForceIsRead == Spec => []ReadAsWritten
<1>1. Configured => ReadAsWritten
  <2> SUFFICES ASSUME Configured PROVE ReadAsWritten
    OBVIOUS
  <2>1. InForceInRange
    BY DEF Configured, Kept, InForceInRange
  <2>2. ASSUME ~hand, pc = "watch" \/ Started PROVE Valid(read) /\ conf = Fitted(Meaning(read))
    BY <2>2, LoadSays DEF Configured, ReadSoFar, Valid
  <2> QED
    BY <2>1, <2>2 DEF ReadAsWritten, Configured, ReadSoFar
<1> QED
  BY <1>1, InitConfigured, ConfiguredNext, PTL DEF Spec

\* configure (ctl.rs:332) changes what it was told and keeps the rest, for any
\* file and any settings: a file it replaces has no key twice, or validate
\* would refuse what comes out.
THEOREM OthersKept == Spec => ConfigureKeeps
<1> DEFINE Keeps == ~hand /\ file' # file =>
              \E given \in Orders : \A k \in Keys :
                 Meaning(file')[k] = IF Written(given, k) = {} THEN Meaning(file)[k]
                                    ELSE Meaning(given)[k]
<1>1. Configured /\ [Next]_vars => Keeps
  <2> SUFFICES ASSUME Configured, [Next]_vars, ~hand, file' # file
               PROVE  \E given \in Orders : \A k \in Keys :
                 Meaning(file')[k] = IF Written(given, k) = {} THEN Meaning(file)[k]
                                    ELSE Meaning(given)[k]
    OBVIOUS
  <2>1. Configure
    BY DEF Next, Daemon, ReadLines, ReadSqm, LoadConfig, Watch, Round, Ask, Scanned, Work, Wait,
           Edit, Change, Elapse, vars, settings
  <2>2. PICK given \in Orders : Valid(Merge(file, given)) /\ file' = Merge(file, given)
    BY <2>1, ~hand DEF Configure
  <2>3. IsText(file) /\ IsText(given) /\ Once(given) /\ Once(Merge(file, given))
    BY <2>2, DiscoveryAssumption DEF Configured, Valid, TextOK
  <2>4. \A k \in Keys : Meaning(file')[k] = IF Written(given, k) = {} THEN Meaning(file)[k]
                                               ELSE Meaning(given)[k]
    BY <2>2, <2>3, MergeMeaning
  <2> QED
    BY <2>4
<1>2. Spec => []Configured
  BY InitConfigured, ConfiguredNext, PTL DEF Spec
<1>3. Spec => [][Keeps]_vars
  BY <1>1, <1>2, PTL DEF Spec
<1> QED
  BY <1>3 DEF ConfigureKeeps

-----------------------------------------------------------------------------
(* Types                                                                    *)

LEMMA ClassifyType ==
  ASSUME NEW c, NEW facts \in [Facts -> SUBSET Ifaces]
  PROVE  /\ Classify(c, facts) \in [up : SUBSET Ifaces, down : SUBSET Ifaces]
         /\ Classify(c, facts).up \cap Classify(c, facts).down = {}
<1>1. "live" \in Facts
  BY KindsFacts DEF Kinds
<1>2. facts["live"] \subseteq Ifaces
  BY <1>1
<1> QED
  BY <1>2 DEF Classify

LEMMA BoundTypes ==
  /\ DrainMax \in Nat /\ QueueMax \in Nat /\ Budget \in Nat
  /\ QueueMax > 0 /\ DrainMax > 0 /\ Nets \subseteq [Facts -> SUBSET Ifaces]
BY DiscoveryAssumption

LEMMA Booleans ==
  ASSUME NEW a, NEW b, NEW c, NEW d, NEW e
  PROVE  <<a, b, c, d, e>> \in BOOLEAN \X BOOLEAN \X BOOLEAN \X BOOLEAN \X BOOLEAN
           <=> a \in BOOLEAN /\ b \in BOOLEAN /\ c \in BOOLEAN /\ d \in BOOLEAN /\ e \in BOOLEAN
OBVIOUS

\* What TypeOK says, its flags one by one.
Plain ==
    /\ hand \in BOOLEAN /\ asked \in BOOLEAN /\ DOMAIN conf = Keys
    /\ net \in [Facts -> SUBSET Ifaces] /\ got \in [Facts -> SUBSET Ifaces]
    /\ pending \in Nat /\ pending <= QueueMax /\ budget \in Nat /\ budget <= Budget
    /\ pc \in {"lines", "sqm", "load", "watch", "round", "scan", "work", "wait", "failed"}
    /\ watcher \in BOOLEAN /\ due \in BOOLEAN /\ first \in BOOLEAN
    /\ changed \in BOOLEAN /\ clean \in BOOLEAN
    /\ next \in Nat /\ 1 <= next /\ next <= 5
    /\ links \in [up : SUBSET Ifaces, down : SUBSET Ifaces] /\ links.up \cap links.down = {}

LEMMA PlainTypes == Plain <=> TypeOK
<1>1. Len(Kinds) = 4
  BY KindsFacts
<1>2. pending \in 0 .. QueueMax <=> pending \in Nat /\ pending <= QueueMax
  BY BoundTypes
<1>3. budget \in 0 .. Budget <=> budget \in Nat /\ budget <= Budget
  BY BoundTypes
<1>4. next \in 1 .. (Len(Kinds) + 1) <=> next \in Nat /\ 1 <= next /\ next <= 5
  BY <1>1
<1>5. <<watcher, due, first, changed, clean>> \in BOOLEAN \X BOOLEAN \X BOOLEAN \X BOOLEAN \X BOOLEAN
         <=> /\ watcher \in BOOLEAN /\ due \in BOOLEAN /\ first \in BOOLEAN
             /\ changed \in BOOLEAN /\ clean \in BOOLEAN
  BY Booleans
<1> QED
  BY <1>2, <1>3, <1>4, <1>5, Zenon DEF Plain, TypeOK

LEMMA InitPlain == Init => Plain
<1> SUFFICES ASSUME Init PROVE Plain
  OBVIOUS
<1>1. DOMAIN conf = Keys
  BY DefaultKept DEF Init, Kept
<1>2. NoNet \in [Facts -> SUBSET Ifaces]
  BY DEF NoNet
<1>3. /\ links \in [up : SUBSET Ifaces, down : SUBSET Ifaces]
      /\ links.up \cap links.down = {}
  BY DEF Init
<1>4. pending = 0 /\ budget = Budget /\ net \in [Facts -> SUBSET Ifaces] /\ got = NoNet /\ next = 1
  BY BoundTypes DEF Init
<1>5. /\ hand \in BOOLEAN /\ asked \in BOOLEAN /\ watcher \in BOOLEAN /\ due \in BOOLEAN
      /\ first \in BOOLEAN /\ changed \in BOOLEAN /\ clean \in BOOLEAN /\ pc = "lines"
  BY DEF Init
<1> QED
  BY <1>1, <1>2, <1>3, <1>4, <1>5, BoundTypes DEF Plain

LEMMA PlainNext == Plain /\ Configured' /\ [Next]_vars => Plain'
<1> SUFFICES ASSUME Plain, Configured', [Next]_vars PROVE Plain'
  OBVIOUS
<1>0. DOMAIN conf' = Keys
  BY DEF Configured, Kept
<1>s. Spend => budget' \in Nat /\ budget' <= Budget
  BY BoundTypes DEF Spend, Plain
<1>k. Len(Kinds) = 4
  BY KindsFacts
<1> USE DEF Plain
<1>1. CASE ReadLines \/ ReadSqm \/ LoadConfig \/ Watch
  BY <1>0, <1>1 DEF ReadLines, ReadSqm, LoadConfig, Watch, settings, scan, flags
<1>2. CASE Round \/ Work
  BY <1>0, <1>2 DEF Round, Work, settings, scan, flags
<1>3. CASE Ask
  <2>1. Kinds[next] \in Facts
    BY <1>3, KindsFacts DEF Ask
  <2>2. got' \in [Facts -> SUBSET Ifaces]
    BY <1>3, <2>1 DEF Ask
  <2>3. clean' \in BOOLEAN /\ budget' \in Nat /\ budget' <= Budget
    BY <1>3, <1>s DEF Ask
  <2>4. next' \in Nat /\ 1 <= next' /\ next' <= 5
    BY <1>3, <1>k DEF Ask
  <2> QED
    BY <1>0, <1>3, <2>2, <2>3, <2>4 DEF Ask, settings, flags
<1>4. CASE Scanned
  <2>1. /\ links' \in [up : SUBSET Ifaces, down : SUBSET Ifaces]
        /\ links'.up \cap links'.down = {}
    BY <1>4, ClassifyType DEF Scanned
  <2>2. got' \in [Facts -> SUBSET Ifaces]
    BY <1>4 DEF Scanned, NoNet
  <2>3. UNCHANGED <<hand, asked, clean, watcher, first, changed>> /\ due' = FALSE /\ pc' = "work"
    BY <1>4 DEF Scanned, settings
  <2>4. UNCHANGED <<net, pending, budget>> /\ next' = 1
    BY <1>4 DEF Scanned
  <2>5. /\ hand' \in BOOLEAN /\ asked' \in BOOLEAN /\ watcher' \in BOOLEAN /\ due' \in BOOLEAN
        /\ first' \in BOOLEAN /\ changed' \in BOOLEAN /\ clean' \in BOOLEAN
    BY <2>3
  <2>6. /\ pending' \in Nat /\ pending' <= QueueMax /\ budget' \in Nat /\ budget' <= Budget
        /\ next' \in Nat /\ 1 <= next' /\ next' <= 5 /\ net' \in [Facts -> SUBSET Ifaces]
    BY <2>4
  <2> QED
    BY <1>0, <2>1, <2>2, <2>3, <2>5, <2>6
<1>5. CASE Wait
  <2>1. pending' \in Nat /\ pending' <= QueueMax /\ changed' \in BOOLEAN
    <3>1. changed' \in BOOLEAN
      BY <1>5 DEF Wait
    <3>2. \/ pending' = pending
          \/ pending > DrainMax /\ pending' = pending - DrainMax
          \/ pending' = 0
      BY <1>5 DEF Wait
    <3>3. pending' \in Nat /\ pending' <= QueueMax
      BY <3>2, BoundTypes
    <3> QED
      BY <3>1, <3>3
  <2> QED
    BY <1>0, <1>5, <2>1 DEF Wait, settings, scan
<1>6. CASE Configure \/ Edit
  <2>1. UNCHANGED <<hand, watcher, due, first, changed, clean, pc>> /\ asked' \in BOOLEAN
    BY <1>6 DEF Configure, Edit, scan, flags
  <2>2. UNCHANGED <<net, pending, next, got, links>>
    BY <1>6 DEF Configure, Edit, scan
  <2>3. budget' \in Nat /\ budget' <= Budget
    BY <1>s, <1>6 DEF Configure, Edit
  <2> QED
    BY <1>0, <2>1, <2>2, <2>3
<1>7. CASE Change
  <2>1. net' \in [Facts -> SUBSET Ifaces]
    BY <1>7 DEF Change
  <2>2. pending' \in Nat /\ pending' <= QueueMax
    BY <1>7, BoundTypes DEF Change
  <2> QED
    BY <1>0, <1>s, <1>7, <2>1, <2>2 DEF Change, settings, scan, flags
<1>8. CASE Elapse \/ UNCHANGED vars
  <2>1. UNCHANGED <<hand, asked, watcher, first, changed, clean, pc>> /\ due' \in BOOLEAN
    BY <1>8 DEF Elapse, vars, settings, scan, flags
  <2>2. UNCHANGED <<net, pending, budget, next, got, links>>
    BY <1>8 DEF Elapse, vars, scan
  <2> QED
    BY <1>0, <2>1, <2>2
<1> QED
  BY <1>1, <1>2, <1>3, <1>4, <1>5, <1>6, <1>7, <1>8 DEF Next, Daemon

\* The links are interfaces that exist, each of one direction (classify), and
\* the daemon's flags, commands and answers are what the code makes of them.
THEOREM LinksTyped == Spec => []TypeOK
BY PlainTypes, InitPlain, PlainNext, InitConfigured, ConfiguredNext, PTL DEF Spec
===============================================================================
