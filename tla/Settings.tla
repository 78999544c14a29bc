------------------------------ MODULE Settings ------------------------------
(***************************************************************************)
(* config.conf as the program reads it (src/config.rs): what validate      *)
(* accepts, what load makes of any text, and what configure writes         *)
(* (src/ctl.rs).  A text is the sequence of its lines that are neither     *)
(* empty nor comments; a line is a key and its value without quotes.       *)
(***************************************************************************)
EXTENDS Integers, Sequences, SequencesExt

CONSTANTS
    BadNames,   \* names valid_iface refuses, the empty one aside
    ClatNames   \* names that start with "v4-" or "clat"

\* Stands for a value that is no number (and is not told from the number itself).
NoNumber == -1000

Ranged == {"TTL", "IPV6_HL", "WORKERS", "MAX_FAILURES", "COOLDOWN", "QUEUE_MAXLEN",
           "RCVBUF_MB", "MAX_BACKLOG", "STALL_LIMIT", "WATCHDOG_MS"}
Clamped == {"IDLE_MS", "RESCAN_MS", "CHECK_MS"}
Rates == {"SQM_UP_KBIT", "SQM_DOWN_KBIT"}
Numbers == Ranged \cup Clamped \cup Rates
Words == {"BACKEND", "IPV6_MODE"}
Switches == {"DISABLE_OFFLOAD", "GSO"}
Lists == {"DOWNSTREAMS", "UPSTREAMS"}
Names == {"SQM_UP_IFACE", "SQM_DOWN_IFACE"}
Keys == Numbers \cup Words \cup Switches \cup Lists \cup Names

Lowest ==
    [TTL |-> 1, IPV6_HL |-> 1, WORKERS |-> 1, MAX_FAILURES |-> 1, COOLDOWN |-> 0,
     QUEUE_MAXLEN |-> 256, RCVBUF_MB |-> 1, MAX_BACKLOG |-> 32, STALL_LIMIT |-> 2,
     WATCHDOG_MS |-> 100, IDLE_MS |-> 1000, RESCAN_MS |-> 1000, CHECK_MS |-> 1000,
     SQM_UP_KBIT |-> 0, SQM_DOWN_KBIT |-> 0]
Highest ==
    [TTL |-> 255, IPV6_HL |-> 255, WORKERS |-> 8, MAX_FAILURES |-> 20, COOLDOWN |-> 60,
     QUEUE_MAXLEN |-> 32768, RCVBUF_MB |-> 64, MAX_BACKLOG |-> 32768, STALL_LIMIT |-> 20,
     WATCHDOG_MS |-> 5000, IDLE_MS |-> 60000, RESCAN_MS |-> 60000, CHECK_MS |-> 60000,
     SQM_UP_KBIT |-> 1000000, SQM_DOWN_KBIT |-> 1000000]
Fits(k, n) == n \in Lowest[k] .. Highest[k]
Alternatives(k) == IF k = "BACKEND" THEN {"auto", "kernel", "nfqueue"}
                               ELSE {"auto", "normalize", "block", "pass"}
Default ==
    [TTL |-> 64, IPV6_HL |-> 64, WORKERS |-> 1, MAX_FAILURES |-> 6, COOLDOWN |-> 1,
     QUEUE_MAXLEN |-> 4096, RCVBUF_MB |-> 8, MAX_BACKLOG |-> 3072, STALL_LIMIT |-> 3,
     WATCHDOG_MS |-> 500, IDLE_MS |-> 10000, RESCAN_MS |-> 10000, CHECK_MS |-> 5000,
     SQM_UP_KBIT |-> 0, SQM_DOWN_KBIT |-> 0, SQM_UP_IFACE |-> "", SQM_DOWN_IFACE |-> "",
     BACKEND |-> "auto", IPV6_MODE |-> "auto", DISABLE_OFFLOAD |-> TRUE, GSO |-> FALSE,
     DOWNSTREAMS |-> {}, UPSTREAMS |-> {}]

\* A text, as far as the numbers in it go.
IsText(text) ==
    /\ text \in Seq(Range(text))
    /\ \A i \in DOMAIN text : text[i].key \in Numbers => text[i].value \in Int

ValidName(n) == n \notin BadNames /\ n # ""

-----------------------------------------------------------------------------
(* load                                                                     *)

\* parse refuses what its type does not hold: <u16>, <i32>, <u32> or <u64>.
\* (Quotients, for TLC's own integers end with those of <i32>.)
Signed == {"WATCHDOG_MS", "IDLE_MS"}
Short == {"TTL", "IPV6_HL", "WORKERS", "MAX_FAILURES", "STALL_LIMIT"}
Long == {"QUEUE_MAXLEN", "RCVBUF_MB"} \cup Rates
Parses(k, v) ==
    /\ v # NoNumber
    /\ IF k \in Signed THEN -2147483647 - 1 <= v /\ v <= 2147483647 ELSE 0 <= v
    /\ k \in Short => v <= 65535
    /\ k \in Long => v \div 65536 <= 65535
    /\ ((v \div 65536) \div 65536) \div 65536 <= 65535
Number(k, v) == IF Parses(k, v) THEN v ELSE Default[k]
Clamp(v) == IF v < 1000 THEN 1000 ELSE IF v > 60000 THEN 60000 ELSE v

\* What a line makes of the setting, given what it was.  A number out of its
\* range leaves what was there.
\* Mutant: a number is taken as it is.
TakenUnchecked(k, v, was) ==
    IF k \in Numbers THEN Number(k, v)
    ELSE IF k \in Words THEN IF v \in Alternatives(k) THEN v ELSE "auto"
    ELSE IF k \in Switches THEN v \in {"1", "true"}
    ELSE IF k \in Lists THEN {n \in v : ValidName(n)}
    ELSE v
Taken(k, v, was) ==
    IF k \in Ranged THEN IF Fits(k, Number(k, v)) THEN Number(k, v) ELSE was
    ELSE IF k \in Clamped THEN Clamp(Number(k, v))
    ELSE IF k \in Rates THEN Number(k, v)
    ELSE IF k \in Words THEN IF v \in Alternatives(k) THEN v ELSE "auto"
    ELSE IF k \in Switches THEN v \in {"1", "true"}
    ELSE IF k \in Lists THEN {n \in v : ValidName(n)}
    ELSE v
Apply(c, line) ==
    IF line.key \in Keys
    THEN [c EXCEPT ![line.key] = Taken(line.key, line.value, @)] ELSE c
Fitted(c) ==
    IF c["MAX_BACKLOG"] > c["QUEUE_MAXLEN"]
    THEN [c EXCEPT !["MAX_BACKLOG"] = c["QUEUE_MAXLEN"]] ELSE c
\* What the settings are after each line.
Reading(text) ==
    LET read[i \in 0 .. Len(text)] ==
            IF i = 0 THEN Default ELSE Apply(read[i - 1], text[i])
    IN read
Load(text) == Fitted(Reading(text)[Len(text)])

-----------------------------------------------------------------------------
(* validate                                                                 *)

LineOK(line) ==
    LET k == line.key v == line.value
    IN /\ k \in Keys
       /\ k \in Numbers => Fits(k, v)
       /\ k \in Words => v \in Alternatives(k)
       /\ k \in Switches => v \in {"0", "1", "true", "false"}
       /\ k \in Lists => \A n \in v : ValidName(n)
       /\ k \in Names => v = "" \/ ValidName(v)
Written(text, k) == {i \in DOMAIN text : text[i].key = k}
Once(text) == \A i, j \in DOMAIN text : text[i].key = text[j].key => i = j
Disjoint(text) ==
    \A i \in Written(text, "DOWNSTREAMS"), j \in Written(text, "UPSTREAMS") :
        text[i].value \cap text[j].value = {}
\* The lines, as read first.
\* Mutant: a key may be written twice.
TextOKTwice(text) ==
    /\ \A i \in DOMAIN text : LineOK(text[i])
    /\ Disjoint(text)
TextOK(text) ==
    /\ \A i \in DOMAIN text : LineOK(text[i])
    /\ Once(text)
    /\ Disjoint(text)
\* The SQM settings, as load reads them then.
RateOK(rate, iface) == rate > 0 => rate >= 100 /\ iface # ""
SqmOK(c) ==
    /\ RateOK(c["SQM_UP_KBIT"], c["SQM_UP_IFACE"]) /\ RateOK(c["SQM_DOWN_KBIT"], c["SQM_DOWN_IFACE"])
    /\ c["SQM_UP_KBIT"] > 0 \/ c["SQM_DOWN_KBIT"] > 0 =>
          c["DISABLE_OFFLOAD"] /\ c["SQM_UP_IFACE"] \notin ClatNames
    /\ c["SQM_UP_KBIT"] > 0 /\ c["SQM_DOWN_KBIT"] > 0 => c["SQM_UP_IFACE"] # c["SQM_DOWN_IFACE"]
Valid(text) == TextOK(text) /\ SqmOK(Load(text))

-----------------------------------------------------------------------------
(* configure                                                                *)

\* The first line of a key that is given is replaced, what is left is appended
\* (ordered by its keys, which nothing depends on).
\* Mutant: what is left is forgotten.
MergeKnown(old, given) ==
    [i \in DOMAIN old |->
        LET Given == {g \in Range(given) : g.key = old[i].key}
        IN IF Given = {} THEN old[i] ELSE CHOOSE g \in Given : TRUE]
Merge(old, given) ==
    LET First(i) == \A j \in 1 .. (i - 1) : old[j].key # old[i].key
        Given(i) == {g \in Range(given) : First(i) /\ g.key = old[i].key}
        New == {g \in Range(given) : Written(old, g.key) = {}}
    IN [i \in DOMAIN old |-> IF Given(i) = {} THEN old[i] ELSE CHOOSE g \in Given(i) : TRUE]
           \o SetToSeq(New)

-----------------------------------------------------------------------------
(* What a text says to its reader, by itself: each key has the value of its *)
(* line, or its default.                                                    *)
Meaning(text) ==
    [k \in Keys |->
        IF Written(text, k) = {} THEN Default[k]
        ELSE LET v == text[CHOOSE i \in Written(text, k) : TRUE].value
             IN IF k \in Switches THEN v \in {"1", "true"} ELSE v]
===============================================================================
