----------------------------- MODULE VerifyProofs -----------------------------
(***************************************************************************)
(* Proofs about Verify, for any pairs, chains, TTLs, thresholds and bounds, *)
(* and every failure of verify's commands.                                 *)
(***************************************************************************)
EXTENDS Verify, TLAPS

Members(s) == {s[k] : k \in DOMAIN s}

\* Families are taken from the front of a list that names each once.
LEMMA Lists ==
    ASSUME NEW s \in Orders, s # <<>>
    PROVE  /\ Tail(s) \in Orders /\ Head(s) \notin Members(Tail(s))
           /\ Members(s) = {Head(s)} \cup Members(Tail(s))
<1>1. ASSUME NEW f, f \in {"v4", "v6"}, s = <<f>>
      PROVE  /\ Tail(s) \in Orders /\ Head(s) \notin Members(Tail(s))
             /\ Members(s) = {Head(s)} \cup Members(Tail(s))
  <2>1. Head(s) = f /\ Tail(s) = <<>> /\ DOMAIN s = {1} /\ s[1] = f
    BY <1>1
  <2>2. Members(s) = {f} /\ Members(Tail(s)) = {}
    BY <2>1 DEF Members
  <2> QED
    BY <2>1, <2>2 DEF Orders
<1>2. CASE s = <<"v4", "v6">>
  <2>1. Head(s) = "v4" /\ Tail(s) = <<"v6">>
    BY <1>2
  <2>2. Members(Tail(s)) = {"v6"}
    <3> DEFINE t == Tail(s)
    <3>1. t = <<"v6">>
      BY <2>1
    <3> HIDE DEF t
    <3>2. DOMAIN t = {1} /\ t[1] = "v6"
      BY <3>1
    <3>3. Members(t) = {"v6"}
      BY <3>2 DEF Members
    <3> QED
      BY <3>3 DEF t
  <2>3. DOMAIN s = {1, 2} /\ s[1] = "v4" /\ s[2] = "v6"
    BY <1>2
  <2>4. Members(s) = {"v4", "v6"}
    BY <2>3 DEF Members
  <2> QED
    BY <2>1, <2>2, <2>4 DEF Orders
<1> QED
  BY <1>1, <1>2 DEF Orders

LEMMA Empty == Members(<<>>) = {}
BY DEF Members

LEMMA CountedMembers == Counted = Members(fams)
BY DEF Counted, Members

-----------------------------------------------------------------------------
(* Types, and what is still to be read at each step                         *)

Shape ==
    /\ Members(todo) \subseteq Members(fams) /\ Members(fams) \subseteq Families
    /\ pc \in {"options", "phase"} => round = 1 /\ fams = <<>>
    /\ pc \in {"hook", "list"} => todo # <<>>
    /\ pc \in {"open", "bind", "sample", "judge"} => todo = <<>>
    /\ pc \in {"open", "bind", "sample"} => round = 1
    /\ pc = "judge" => round = 2
    /\ pc = "list" => chain \in Chains
Typed == TypeOK /\ Shape

LEMMA ZeroType == Zero \in [Pairs -> Nat] /\ Nothing \in SeenType
BY DEF Zero, Nothing, SeenType

LEMMA JudgementType == ASSUME hist.total \in Nat PROVE Judgement \in VerdictType
<1> DEFINE leak == Leak  only == WireOnly  matched == Matched
<1>1. /\ Result("fail", "bypass") \in VerdictType /\ Result("fail", "share") \in VerdictType
      /\ Result("pass", "matched") \in VerdictType /\ Result("pass", "wire") \in VerdictType
      /\ Result("inconclusive", "few") \in VerdictType
  BY DEF VerdictType, Result
<1>2. Unmatched \in VerdictType
  BY DEF Unmatched, VerdictType, Result
<1>3. hist.total >= WireMin \/ hist.total < WireMin
  BY VerifyAssumption
<1> HIDE DEF leak, only, matched
<1>4. Judgement =
        CASE leak /\ ~only /\ ~matched -> Result("fail", "bypass")
          [] leak /\ (only \/ matched) -> Result("fail", "share")
          [] ~leak /\ ~only /\ matched -> Result("pass", "matched")
          [] ~leak /\ ~only /\ ~matched -> Unmatched
          [] ~leak /\ only /\ hist.total >= WireMin -> Result("pass", "wire")
          [] ~leak /\ only /\ hist.total < WireMin -> Result("inconclusive", "few")
  BY DEF Judgement, leak, only, matched
<1> QED
  BY <1>1, <1>2, <1>3, <1>4

\* Where a reading leads, whatever was read.
LEMMA FoundTyped ==
    ASSUME Typed, pc \in {"hook", "list"}, NEW what \in SeenType, Found(what)
    PROVE  /\ Family \in Members(fams) /\ Family \in Families
           /\ todo' = Tail(todo) /\ todo' \in Orders
           /\ Members(todo') \subseteq Members(fams) /\ Family \notin Members(todo')
           /\ Members(todo) = {Family} \cup Members(todo')
           /\ before' \in [Families -> SeenType] /\ after' \in [Families -> SeenType]
           /\ evidence' \in [Families -> SUBSET Pairs]
           /\ pc' \in {"hook", "open", "judge"}
           /\ pc' = "hook" => todo' # <<>> /\ Head(todo') \in Families
           /\ pc' \in {"open", "judge"} => todo' = <<>>
           /\ pc' = "open" => round = 1
           /\ pc' = "judge" => round = 2
<1>1. todo \in Orders /\ todo # <<>>
  BY DEF Typed, TypeOK, RunOK, Shape
<1>2. /\ Tail(todo) \in Orders /\ Family \notin Members(Tail(todo))
      /\ Members(todo) = {Family} \cup Members(Tail(todo))
  BY <1>1, Lists DEF Family
<1>3. Family \in Members(fams) /\ Family \in Families /\ todo' = Tail(todo)
  BY <1>2 DEF Typed, Shape, Found
<1>4. Members(todo') \subseteq Members(fams)
  BY <1>2, <1>3 DEF Typed, Shape
<1>5. /\ before' \in [Families -> SeenType] /\ after' \in [Families -> SeenType]
      /\ evidence' \in [Families -> SUBSET Pairs]
  BY <1>3 DEF Found, Typed, TypeOK, RunOK, SeenOK
<1>6. /\ pc' \in {"hook", "open", "judge"}
      /\ pc' = "hook" => todo' # <<>>
      /\ pc' \in {"open", "judge"} => todo' = <<>>
      /\ pc' = "open" => round = 1
      /\ pc' = "judge" => round = 2
  BY <1>3 DEF Found, Typed, TypeOK, RunOK
<1>7. todo' # <<>> => Head(todo') \in Families
  <2>1. ASSUME Tail(todo) # <<>> PROVE Head(Tail(todo)) \in Members(Tail(todo))
    <3> DEFINE t == Tail(todo)
    <3>1. t \in Orders /\ t # <<>>
      BY <1>2, <2>1
    <3> HIDE DEF t
    <3>2. Head(t) \in Members(t)
      BY <3>1, Lists
    <3> QED
      BY <3>2 DEF t
  <2> QED
    BY <1>3, <1>4, <2>1 DEF Typed, Shape
<1> QED
  BY <1>2, <1>3, <1>4, <1>5, <1>6, <1>7

LEMMA InitTyped == Init => Typed
<1> SUFFICES ASSUME Init PROVE Typed
  OBVIOUS
<1> USE VerifyAssumption DEF Init
<1>1. KernelOK
  BY DEF KernelOK, Earlier, Zero
<1>2. RunOK
  BY ZeroType DEF RunOK, Orders, VerdictType, Result
<1>3. SeenOK
  BY DEF SeenOK
<1>4. Shape
  BY Empty DEF Shape
<1> QED
  BY <1>1, <1>2, <1>3, <1>4 DEF Typed, TypeOK

LEMMA TypedNext == Typed /\ [Next]_vars => Typed'
<1> SUFFICES ASSUME Typed, [Next]_vars PROVE Typed'
  OBVIOUS
<1>0. KernelOK /\ RunOK /\ SeenOK /\ Shape
  BY DEF Typed, TypeOK
<1> DEFINE Counting == changes' \in {changes, changes + 1} => changes' \in Nat
           Passing == packets' \in {packets, packets + 1} => packets' \in Nat
<1>a. Counting /\ Passing
  BY <1>0 DEF KernelOK
<1> HIDE DEF Counting, Passing
<1>b. Change \/ Failed => changes' \in Nat
  <2>1. Change \/ Failed => changes' = changes + 1
    BY DEF Change, Failed
  <2> QED
    BY <1>a, <2>1 DEF Counting
<1>c. Packet => packets' \in Nat
  <2>1. Packet => packets' = packets + 1
    BY DEF Packet
  <2> QED
    BY <1>a, <2>1 DEF Passing
<1>1. CASE Options
  BY <1>0, <1>1 DEF Options, Typed, TypeOK, KernelOK, RunOK, SeenOK, Shape, kernel, bounds,
     reading, seen, VerdictType, Result
<1>2. CASE Phase
  <2>1. ASSUME fams' = todo', fams' \in Orders, Members(fams') \subseteq Families,
               fams' # <<>> => Head(fams') \in Families,
               \/ pc' = "hook" /\ fams' # <<>>
               \/ pc' = "open" /\ fams' = <<>>,
               verdict' = verdict
        PROVE  Typed'
    BY <1>0, <1>2, <2>1 DEF Phase, Typed, TypeOK, KernelOK, RunOK, SeenOK, Shape, kernel, bounds,
       seen, wire
  <2>2. CASE pc' = "off" /\ UNCHANGED <<fams, todo>>
    BY <1>0, <1>2, <2>2 DEF Phase, Typed, TypeOK, KernelOK, RunOK, SeenOK, Shape, kernel, bounds,
       seen, wire, VerdictType, Result
  <2>3. CASE fams' = <<>> /\ todo' = <<>> /\ pc' = "open" /\ UNCHANGED verdict
    BY <2>1, <2>3, Empty DEF Orders
  <2>4. ASSUME fams' \in {<<"v4">>} \cup (IF "v6" \in Families THEN {<<"v4", "v6">>} ELSE {}),
               todo' = fams' /\ pc' = "hook" /\ UNCHANGED verdict
        PROVE  Typed'
    <3>1. CASE fams' = <<"v4">>
      <4>1. Members(<<"v4">>) = {"v4"}
        BY DEF Members
      <4> QED
        BY <2>1, <2>4, <3>1, <4>1, VerifyAssumption DEF Orders
    <3>2. CASE fams' = <<"v4", "v6">> /\ "v6" \in Families
      <4>1. Members(<<"v4", "v6">>) = {"v4", "v6"}
        BY DEF Members
      <4> QED
        BY <2>1, <2>4, <3>2, <4>1, VerifyAssumption DEF Orders
    <3> QED
      BY <2>4, <3>1, <3>2
  <2> QED
    BY <1>2, <2>2, <2>3, <2>4 DEF Phase
<1>3. CASE ReadHook
  <2>1. /\ pc = "hook" /\ Family \in Families /\ chain' \in Chains \cup {NoChain}
        /\ answered' \subseteq Families /\ complete' \in BOOLEAN /\ changes' \in Nat
        /\ lasting' \subseteq Families /\ met' \in [Families -> SUBSET Pairs]
    <3>1. pc = "hook" /\ Family \in Families
      BY <1>0, <1>3 DEF ReadHook, RunOK, Family
    <3>2. chain' \in Chains \cup {NoChain}
      BY <1>0, <1>3, <3>1 DEF ReadHook, KernelOK
    <3>3. answered' \subseteq Families /\ complete' \in BOOLEAN /\ changes' \in Nat
      <4>1. CASE Failed
        BY <1>0, <1>b, <4>1 DEF Failed, SeenOK
      <4>2. CASE UNCHANGED <<changes, answered, complete>>
        BY <1>0, <4>2 DEF KernelOK, SeenOK
      <4> QED
        BY <1>3, <4>1, <4>2 DEF ReadHook
    <3>4. lasting' \subseteq Families /\ met' \in [Families -> SUBSET Pairs]
      BY <1>0, <1>3, <3>1 DEF ReadHook, SeenOK
    <3> QED
      BY <3>1, <3>2, <3>3, <3>4
  <2>2. CASE Found(Nothing)
    BY <1>0, <1>3, <2>1, <2>2, FoundTyped, ZeroType
    DEF ReadHook, Typed, TypeOK, KernelOK, RunOK, SeenOK, Shape, kernel, options, wire
  <2>3. CASE pc' = "list" /\ UNCHANGED <<todo, before, after, evidence>> /\ chain' # NoChain
    BY <1>0, <1>3, <2>1, <2>3
    DEF ReadHook, Typed, TypeOK, KernelOK, RunOK, SeenOK, Shape, kernel, options, wire
  <2> QED
    BY <1>3, <2>2, <2>3 DEF ReadHook
<1>4. CASE ReadList
  <2>1. /\ pc = "list" /\ Family \in Families /\ chain \in Chains
        /\ answered' \subseteq Families /\ complete' \in BOOLEAN /\ changes' \in Nat
        /\ met' \in [Families -> SUBSET Pairs]
    <3>1. pc = "list" /\ Family \in Families /\ chain \in Chains
      BY <1>0, <1>4 DEF ReadList, RunOK, Shape, Family
    <3>2. answered' \subseteq Families /\ complete' \in BOOLEAN /\ changes' \in Nat
      <4>1. CASE Failed
        BY <1>0, <1>b, <4>1 DEF Failed, SeenOK
      <4>2. CASE UNCHANGED <<changes, answered, complete>>
        BY <1>0, <4>2 DEF KernelOK, SeenOK
      <4> QED
        BY <1>4, <4>1, <4>2 DEF ReadList
    <3>3. met' \in [Families -> SUBSET Pairs]
      BY <1>0, <1>4, <3>1 DEF ReadList, SeenOK
    <3> QED
      BY <3>1, <3>2, <3>3
  <2>2. /\ [chain |-> chain, count |-> count[Family][chain]] \in SeenType
        /\ [chain |-> chain, count |-> Zero] \in SeenType
    BY <1>0, <2>1, ZeroType DEF KernelOK, SeenType
  <2>3. PICK what \in SeenType : Found(what)
    BY <1>4, <2>2 DEF ReadList
  <2> QED
    BY <1>0, <1>4, <2>1, <2>3, FoundTyped
    DEF ReadList, Typed, TypeOK, KernelOK, RunOK, SeenOK, Shape, kernel, options, wire
<1>5. CASE OpenTaps \/ BindTaps
  BY <1>0, <1>5 DEF OpenTaps, BindTaps, Typed, TypeOK, KernelOK, RunOK, SeenOK, Shape, kernel, bounds,
     options, reading, seen, wire
<1>6. CASE EndSample
  <2>1. fams # <<>> => Head(fams) \in Families
    BY <1>0, Lists DEF RunOK, Shape
  <2> QED
    BY <1>0, <1>6, <2>1 DEF EndSample, WireOnly, Typed, TypeOK, KernelOK, RunOK, SeenOK, Shape,
       kernel, bounds, options, seen, wire
<1>7. CASE JudgeRun
  BY <1>0, <1>7, JudgementType DEF JudgeRun, Typed, TypeOK, KernelOK, RunOK, SeenOK, Shape, kernel,
     bounds, options, reading, seen, wire
<1>8. ASSUME NEW f, NEW t, Leave(f, t) PROVE hist' \in [total : Nat, foreign : Nat] /\ strayed' \in Nat
  <2>1. Foreign(t, ttl) \in Nat /\ Foreign(t, conf) \in Nat
    BY DEF Foreign
  <2>2. strayed' \in Nat
    <3>1. strayed' = strayed \/ strayed' = strayed + Foreign(t, ttl)
      BY <1>8 DEF Leave
    <3> QED
      BY <1>0, <2>1, <3>1 DEF SeenOK
  <2>3. Sampled(TRUE, t) \in [total : Nat, foreign : Nat]
    BY <1>0, <2>1 DEF Sampled, RunOK
  <2> QED
    BY <1>0, <1>8, <2>2, <2>3 DEF Leave, RunOK
<1>9. CASE Forward
  <2>1. /\ hist' \in [total : Nat, foreign : Nat] /\ strayed' \in Nat
        /\ count' \in [Families -> [Chains -> [Pairs -> Nat]]]
        /\ met' \in [Families -> SUBSET Pairs] /\ packets' \in Nat
    <3>1. PICK f \in Counted, p \in Pairs, t \in {ttl, StrayTtl} :
             /\ hook[f] # NoChain
             /\ count' = [count EXCEPT ![f][hook[f]][p] = @ + 1]
             /\ met' = [met EXCEPT ![f] = @ \cup {p}]
             /\ Leave(f, t)
      BY <1>9 DEF Forward
    <3>2. f \in Families /\ hook[f] \in Chains
      BY <1>0, <3>1, CountedMembers DEF Shape, KernelOK
    <3>3. count' \in [Families -> [Chains -> [Pairs -> Nat]]]
      <4> DEFINE c == hook[f]
      <4>1. c \in Chains /\ count[f][c][p] + 1 \in Nat
        BY <1>0, <3>2 DEF KernelOK
      <4>2. count' = [count EXCEPT ![f] = [count[f] EXCEPT ![c] = [count[f][c] EXCEPT ![p] = @ + 1]]]
        BY <1>0, <3>1, <3>2 DEF KernelOK
      <4> HIDE DEF c
      <4> QED
        BY <1>0, <3>2, <4>1, <4>2 DEF KernelOK
    <3>4. met' \in [Families -> SUBSET Pairs]
      BY <1>0, <3>1, <3>2 DEF SeenOK
    <3>5. packets' \in Nat
      BY <1>c, <1>9 DEF Forward
    <3> QED
      BY <1>8, <3>1, <3>3, <3>4, <3>5
  <2> QED
    BY <1>0, <1>9, <2>1 DEF Forward, Packet, Outside, Typed, TypeOK, KernelOK, RunOK, SeenOK, Shape,
       options, reading
<1>10. CASE Other \/ Elsewhere \/ Incoming
  <2>1. /\ hist' \in [total : Nat, foreign : Nat] /\ strayed' \in Nat /\ early' \in Nat
        /\ packets' \in Nat
    <3>1. packets' \in Nat
      BY <1>c, <1>10 DEF Other, Elsewhere, Incoming
    <3>2. CASE Other
      BY <1>0, <1>8, <3>1, <3>2 DEF Other, SeenOK
    <3>4. CASE Elsewhere
      <4>1. PICK t : hist' = Sampled(TRUE, t) /\ early' = early + Foreign(t, ttl)
        BY <3>4 DEF Elsewhere
      <4>2. Foreign(t, ttl) \in Nat /\ Foreign(t, conf) \in Nat
        BY DEF Foreign
      <4>3. strayed' = strayed
        BY <3>4 DEF Elsewhere
      <4> QED
        BY <1>0, <3>1, <4>1, <4>2, <4>3 DEF Sampled, RunOK, SeenOK
    <3>3. CASE Incoming
      BY <1>0, <3>1, <3>3 DEF Incoming, Sampled, RunOK, SeenOK
    <3> QED
      BY <1>10, <3>2, <3>3, <3>4
  <2> QED
    BY <1>0, <1>10, <2>1 DEF Other, Elsewhere, Incoming, Outside, Typed, TypeOK, KernelOK, RunOK, SeenOK, Shape,
       options, reading, kernel, seen
<1>11. CASE Flush
  <2>1. /\ rules' \in [Families -> [Chains -> SUBSET Pairs]]
        /\ count' \in [Families -> [Chains -> [Pairs -> Nat]]]
        /\ built' \in [Families -> Chains \cup {NoChain}]
        /\ lasting' \subseteq Families /\ changes' \in Nat
    <3>1. PICK f \in Counted, c \in Chains :
             /\ rules' = [rules EXCEPT ![f][c] = {}] /\ count' = [count EXCEPT ![f][c] = Zero]
             /\ built' = [built EXCEPT ![f] = c]
             /\ lasting' = IF c = hook[f] THEN lasting \ {f} ELSE lasting
      BY <1>11 DEF Flush
    <3>2. changes' \in Nat
      BY <1>b, <1>11 DEF Flush
    <3>3. rules' \in [Families -> [Chains -> SUBSET Pairs]]
      BY <1>0, <3>1 DEF KernelOK
    <3>4. count' \in [Families -> [Chains -> [Pairs -> Nat]]]
      BY <1>0, <3>1, ZeroType DEF KernelOK
    <3>5. built' \in [Families -> Chains \cup {NoChain}] /\ lasting' \subseteq Families
      BY <1>0, <3>1 DEF KernelOK, SeenOK
    <3> QED
      BY <3>2, <3>3, <3>4, <3>5
  <2> QED
    BY <1>0, <1>11, <2>1 DEF Flush, Inside, Typed, TypeOK, KernelOK, RunOK, SeenOK, Shape,
       options, reading
<1>16. CASE Fill
  <2>1. rules' \in [Families -> [Chains -> SUBSET Pairs]]
    <3>1. PICK f \in Counted, p \in Pairs :
             built[f] # NoChain /\ rules' = [rules EXCEPT ![f][built[f]] = @ \cup {p}]
      BY <1>16 DEF Fill
    <3>2. f \in Families /\ built[f] \in Chains
      BY <1>0, <3>1, CountedMembers DEF Shape, KernelOK
    <3> QED
      BY <1>0, <3>1, <3>2 DEF KernelOK
  <2> QED
    BY <1>0, <1>16, <2>1 DEF Fill, Inside, Typed, TypeOK, KernelOK, RunOK, SeenOK, Shape,
       options, reading, seen
<1>12. CASE Publish
  <2>1. /\ hook' \in [Families -> Chains \cup {NoChain}]
        /\ built' \in [Families -> Chains \cup {NoChain}]
        /\ lasting' \subseteq Families /\ changes' \in Nat
    BY <1>0, <1>b, <1>12 DEF Publish, KernelOK, SeenOK
  <2> QED
    BY <1>0, <1>12, <2>1 DEF Publish, Inside, Typed, TypeOK, KernelOK, RunOK, SeenOK, Shape,
       options, reading
<1>13. CASE Unhook
  <2>1. /\ hook' \in [Families -> Chains \cup {NoChain}]
        /\ built' \in [Families -> Chains \cup {NoChain}]
        /\ rules' \in [Families -> [Chains -> SUBSET Pairs]]
        /\ count' \in [Families -> [Chains -> [Pairs -> Nat]]]
        /\ lasting' \subseteq Families /\ changes' \in Nat
    <3>1. PICK f \in Counted :
             /\ hook' = [hook EXCEPT ![f] = NoChain] /\ built' = [built EXCEPT ![f] = NoChain]
             /\ rules' = [rules EXCEPT ![f] = [c \in Chains |-> {}]]
             /\ count' = [count EXCEPT ![f] = [c \in Chains |-> Zero]]
             /\ lasting' = lasting \ {f}
      BY <1>13 DEF Unhook
    <3>2. /\ [c \in Chains |-> {}] \in [Chains -> SUBSET Pairs]
          /\ [c \in Chains |-> Zero] \in [Chains -> [Pairs -> Nat]]
      BY ZeroType
    <3> QED
      BY <1>0, <1>b, <1>13, <3>1, <3>2 DEF Unhook, KernelOK, SeenOK
  <2> QED
    BY <1>0, <1>13, <2>1 DEF Unhook, Inside, Typed, TypeOK, KernelOK, RunOK, SeenOK, Shape,
       options, reading
<1>14. CASE Restart
  <2>1. ttl' \in Ttls /\ changes' \in Nat /\ steady' \in BOOLEAN
    BY <1>0, <1>b, <1>14 DEF Restart, KernelOK
  <2> QED
    BY <1>0, <1>14, <2>1 DEF Restart, Inside, Typed, TypeOK, KernelOK, RunOK, SeenOK, Shape,
       options, reading, seen, kernel
<1>15. CASE UNCHANGED vars
  BY <1>0, <1>15 DEF vars, Typed, TypeOK, KernelOK, RunOK, SeenOK, Shape, options, reading, seen,
     kernel, bounds, wire, Counted
<1> QED
  BY <1>1, <1>2, <1>3, <1>4, <1>5, <1>6, <1>7, <1>9, <1>10, <1>11, <1>12, <1>13, <1>14, <1>15, <1>16
  DEF Next, Run, Traffic, Daemon

\* Every variable keeps its type, and a family is read only while one is left
\* (counters, EndSample).
THEOREM TypeCorrect == Spec => []TypeOK
<1>1. Typed => TypeOK
  BY DEF Typed
<1> QED
  BY <1>1, InitTyped, TypedNext, PTL DEF Spec

-----------------------------------------------------------------------------
(* FAIL means stray packets                                                 *)

\* What the sample calls foreign left with a TTL nobody chose, as long as the
\* TTL in force is the one loaded.
Sound ==
    /\ steady => conf = ttl /\ hist.foreign <= strayed + early
    /\ pc = "options" => hist.foreign = 0

LEMMA SoundNext == Typed /\ Sound /\ [Next]_vars => Sound'
<1> SUFFICES ASSUME Typed, Sound, [Next]_vars PROVE Sound'
  OBVIOUS
<1>0. hist \in [total : Nat, foreign : Nat] /\ strayed \in Nat /\ early \in Nat
  BY DEF Typed, TypeOK, RunOK, SeenOK
<1>1. CASE UNCHANGED <<steady, conf, ttl, hist, strayed, early>> /\ (pc' = pc \/ pc' # "options")
  BY <1>1 DEF Sound
<1>2. CASE Options
  <2>1. steady' => conf' = ttl' /\ ttl' = ttl
    BY <1>2, Zenon DEF Options
  <2>2. hist' = hist /\ strayed' = strayed /\ early' = early /\ pc' # "options" /\ hist.foreign = 0
    BY <1>2 DEF Options, Sound
  <2> QED
    BY <1>0, <2>1, <2>2 DEF Sound
<1>3. CASE Restart
  BY <1>3 DEF Restart, Inside, Sound
<1>4. ASSUME NEW f, NEW t, Leave(f, t), UNCHANGED <<steady, conf, ttl, pc, early>>, pc # "options"
      PROVE  Sound'
  <2> SUFFICES ASSUME steady, conf = ttl PROVE hist'.foreign <= strayed' + early
    BY <1>4 DEF Sound
  <2>1. Foreign(t, conf) \in Nat /\ Foreign(t, ttl) = Foreign(t, conf)
    BY DEF Foreign
  <2>2. hist.foreign <= strayed + early /\ hist.foreign \in Nat
    BY <1>0 DEF Sound
  <2>3. hist'.foreign \in {hist.foreign, hist.foreign + Foreign(t, conf)}
    BY <1>4 DEF Leave, Sampled
  <2>4. \/ strayed' = strayed + Foreign(t, ttl)
        \/ strayed' = strayed /\ hist' = hist
    BY <1>4 DEF Leave
  <2> QED
    BY <1>0, <2>1, <2>2, <2>3, <2>4
<1>5. CASE Forward \/ Other
  BY <1>4, <1>5 DEF Forward, Other, Packet, Running, Sampling, Outside, options
<1>10. CASE Elsewhere
  <2>1. UNCHANGED <<steady, conf, ttl, pc, strayed>> /\ pc # "options"
    BY <1>10 DEF Elsewhere, Outside, options
  <2>2. PICK t : hist' = Sampled(TRUE, t) /\ early' = early + Foreign(t, ttl)
    BY <1>10 DEF Elsewhere
  <2>3. Foreign(t, conf) \in Nat
    BY DEF Foreign
  <2>4. hist'.foreign = hist.foreign + Foreign(t, conf)
    BY <2>2 DEF Sampled
  <2>5. ASSUME steady PROVE conf = ttl /\ hist.foreign <= strayed + early
    BY <2>5 DEF Sound
  <2>6. ASSUME steady PROVE hist'.foreign <= strayed' + early'
    <3>1. early' = early + Foreign(t, conf)
      BY <2>2, <2>5, <2>6
    <3> QED
      BY <1>0, <2>1, <2>3, <2>4, <2>5, <2>6, <3>1
  <2> QED
    BY <2>1, <2>5, <2>6 DEF Sound
<1>6. CASE Incoming
  BY <1>1, <1>6 DEF Incoming, Outside, options, Sampled
<1>7. CASE Phase \/ ReadHook \/ ReadList \/ OpenTaps \/ BindTaps \/ EndSample \/ JudgeRun
  <2>1. pc' # "options"
    BY <1>7, FoundTyped, ZeroType DEF Phase, ReadHook, ReadList, Found, OpenTaps, BindTaps, EndSample, JudgeRun
  <2> QED
    BY <1>1, <1>7, <2>1 DEF Phase, ReadHook, ReadList, OpenTaps, BindTaps, EndSample, JudgeRun, options, wire
<1>8. CASE Flush \/ Fill \/ Publish \/ Unhook
  BY <1>1, <1>8 DEF Flush, Fill, Publish, Unhook, Inside, options
<1>9. CASE UNCHANGED vars
  BY <1>1, <1>9 DEF vars, options, wire
<1> QED
  BY <1>2, <1>3, <1>5, <1>6, <1>7, <1>8, <1>9, <1>10 DEF Next, Run, Traffic, Daemon

-----------------------------------------------------------------------------
(* What the counters tell                                                   *)

\* f was read first.
Read(f) == f \in Members(fams) /\ (round = 2 \/ f \notin Members(todo))
\* f was read again.
Again(f) == f \in Members(fams) /\ round = 2 /\ f \notin Members(todo)
Grew(old, new) == {p \in Pairs : new[p] > old[p]}

\* A chain that is to replace the published one starts at zero.
Fresh == \A f \in Families :
            built[f] \notin {NoChain, hook[f]} => count[f][built[f]] = Zero
\* A family that was not read a second time has told nothing.
Unread == \A f \in Families : ~Again(f) => after[f] = Nothing
\* While the first chain is listed, another one published meanwhile counts only
\* what was met.
Listing ==
    pc = "list" =>
        /\ Family \in lasting => hook[Family] = chain
        /\ round = 1 /\ hook[Family] \notin {chain, NoChain} =>
              \A p \in Pairs : count[Family][hook[Family]][p] > 0 => p \in met[Family]
        /\ round = 2 /\ Family \in answered =>
              Grew(before[Family].count, count[Family][chain]) \subseteq met[Family]
\* What counts more than it did when it was first read was met.
Met ==
    \A f \in answered :
        /\ Read(f) /\ hook[f] # NoChain =>
              Grew(before[f].count, count[f][hook[f]]) \subseteq met[f]
        /\ Grew(before[f].count, after[f].count) \subseteq evidence[f]
Traced == Fresh /\ Unread /\ Listing /\ Met

\* What was met counts more, in a chain that stays published.
Recorded ==
    complete => \A f \in lasting :
        /\ Read(f) =>
              IF hook[f] = NoChain THEN met[f] = {}
              ELSE /\ \A p \in Pairs : before[f].count[p] <= count[f][hook[f]][p]
                   /\ met[f] \subseteq Grew(before[f].count, count[f][hook[f]])
        /\ Again(f) =>
              evidence[f] \subseteq Grew(before[f].count, after[f].count)

\* The verdict stands for what was read last.
Told ==
    /\ pc # "off" => verdict = Result("none", "none")
    /\ verdict.reason = "matched" => Matched
    /\ verdict.reason \in {"bypass", "unmatched"} => ~Matched /\ round = 2 /\ todo = <<>>
    /\ verdict.result = "fail" => hist.foreign >= LeakMin

-----------------------------------------------------------------------------
(* The steps that read                                                      *)

LEMMA ReadSame ==
    UNCHANGED <<fams, todo, round>> => \A f : (Read(f)' <=> Read(f)) /\ (Again(f)' <=> Again(f))
BY DEF Read, Again, Members

\* Who was read, after a reading.
LEMMA FoundRead ==
    ASSUME Typed, pc \in {"hook", "list"}, NEW what \in SeenType, Found(what),
           UNCHANGED <<fams, round>>
    PROVE  \A f : /\ Read(f)' <=> Read(f) \/ f = Family
                  /\ f \in Members(todo)' <=> f \in Members(todo) /\ f # Family
                  /\ round = 1 => ~Read(Family)
<1>1. /\ Family \in Members(fams) /\ Family \notin Members(todo')
      /\ Members(todo) = {Family} \cup Members(todo')
  BY FoundTyped
<1>2. Members(todo)' = Members(todo') /\ Members(fams)' = Members(fams)
  BY DEF Members
<1> QED
  BY <1>1, <1>2 DEF Read, Typed, TypeOK, RunOK

\* What is unchanged while packets pass and the daemon works.
LEMMA Steady ==
    UNCHANGED <<fams, todo, round, pc, before, after, evidence, chain, verdict, answered, complete>>
    => /\ \A f : Read(f)' <=> Read(f)
       /\ Members(todo)' = Members(todo) /\ Family' = Family
       /\ \A f : Grew(before'[f].count, after'[f].count) = Grew(before[f].count, after[f].count)
BY ReadSame DEF Members, Family, Grew

LEMMA ToldNext == Typed /\ Told /\ [Next]_vars => Told'
<1> SUFFICES ASSUME Typed, Told, [Next]_vars PROVE Told'
  OBVIOUS
<1>1. CASE pc # "off" /\ verdict' = verdict
  BY <1>1 DEF Told, Result
<1>2. CASE UNCHANGED <<pc, verdict, before, after, round, todo, hist>>
  BY <1>2 DEF Told, Matched, Hits
<1>3. CASE Options \/ Phase
  <2>1. \/ verdict' = verdict
        \/ /\ verdict' \in {Result("error", "config"), Result("inconclusive", "inactive"),
                           Result("error", "select")}
           /\ pc' = "off"
    BY <1>3 DEF Options, Phase
  <2>2. pc # "off"
    BY <1>3 DEF Options, Phase
  <2> QED
    BY <1>1, <2>1, <2>2 DEF Told, Result
<1>4. CASE JudgeRun
  <2>1. UNCHANGED <<before, after, round, todo, hist>> /\ pc' = "off" /\ verdict' = Judgement
    BY <1>4 DEF JudgeRun, reading, wire
  <2>2. Matched' <=> Matched
    BY <2>1 DEF Matched, Hits
  <2>3. round = 2 /\ todo = <<>>
    BY <1>4 DEF JudgeRun, Typed, Shape
  <2>4. /\ Judgement.reason = "matched" => Matched
        /\ Judgement.reason \in {"bypass", "unmatched"} => ~Matched
        /\ Judgement.result = "fail" => hist.foreign >= LeakMin
    <3> DEFINE matched == Matched  leak == Leak  only == WireOnly
    <3>1. hist.total >= WireMin \/ hist.total < WireMin
      BY VerifyAssumption DEF Typed, TypeOK, RunOK
    <3>2. Unmatched.reason \in {"reinstalled", "unmatched"} /\ Unmatched.result = "inconclusive"
      BY DEF Unmatched, Result
    <3> HIDE DEF matched, leak, only
    <3>3. Judgement =
        CASE leak /\ ~only /\ ~matched -> Result("fail", "bypass")
          [] leak /\ (only \/ matched) -> Result("fail", "share")
          [] ~leak /\ ~only /\ matched -> Result("pass", "matched")
          [] ~leak /\ ~only /\ ~matched -> Unmatched
          [] ~leak /\ only /\ hist.total >= WireMin -> Result("pass", "wire")
          [] ~leak /\ only /\ hist.total < WireMin -> Result("inconclusive", "few")
      BY DEF Judgement, leak, only, matched
    <3>4. /\ Judgement.reason = "matched" => matched
          /\ Judgement.reason \in {"bypass", "unmatched"} => ~matched
          /\ Judgement.result = "fail" => leak
      BY <3>1, <3>2, <3>3 DEF Result
    <3> QED
      BY <3>4 DEF matched, leak, Leak
  <2> QED
    BY <2>1, <2>2, <2>3, <2>4 DEF Told
<1>5. CASE ReadHook \/ ReadList \/ OpenTaps \/ BindTaps \/ EndSample
  BY <1>1, <1>5 DEF ReadHook, ReadList, OpenTaps, BindTaps, EndSample
<1>6. CASE Traffic \/ Daemon
  BY <1>1, <1>6 DEF Running, Sampling, Packet, Change, Traffic, Forward, Other, Elsewhere, Incoming,
                    Outside, Daemon, Flush, Fill, Publish, Unhook, Restart, Inside
<1>7. CASE UNCHANGED vars
  BY <1>2, <1>7 DEF vars, reading, wire
<1> QED
  BY <1>3, <1>4, <1>5, <1>6, <1>7 DEF Next, Run

-----------------------------------------------------------------------------
(* PASS means a packet that matched                                         *)

LEMMA FreshNext == Typed /\ Fresh /\ [Next]_vars => Fresh'
<1> SUFFICES ASSUME Typed, Fresh, [Next]_vars PROVE Fresh'
  OBVIOUS
<1>0. KernelOK /\ Members(fams) \subseteq Families
  BY DEF Typed, TypeOK, Shape
<1>1. CASE UNCHANGED kernel
  BY <1>1 DEF Fresh, kernel, Zero
<1>2. CASE Forward
  <2>1. PICK f \in Counted, p \in Pairs :
           /\ hook[f] # NoChain
           /\ count' = [count EXCEPT ![f][hook[f]][p] = @ + 1]
    BY <1>2 DEF Forward
  <2>2. UNCHANGED <<hook, built>> /\ f \in Families
    BY <1>0, <1>2, CountedMembers DEF Forward
  <2>3. ASSUME NEW g \in Families, built[g] \notin {NoChain, hook[g]}
        PROVE  count'[g][built'[g]] = Zero
    <3>1. count[g][built[g]] = Zero
      BY <2>3 DEF Fresh
    <3>2. count'[g][built[g]] = count[g][built[g]]
      BY <1>0, <2>1, <2>2, <2>3, <3>1 DEF KernelOK
    <3> QED
      BY <2>2, <3>1, <3>2
  <2> QED
    BY <2>2, <2>3 DEF Fresh, Zero
<1>3. CASE Flush
  <2>1. PICK f \in Counted, c \in Chains :
           count' = [count EXCEPT ![f][c] = Zero] /\ built' = [built EXCEPT ![f] = c]
    BY <1>3 DEF Flush
  <2>2. hook' = hook /\ f \in Families
    BY <1>0, <1>3, <2>1, CountedMembers DEF Flush
  <2>3. ASSUME NEW g \in Families, built'[g] \notin {NoChain, hook'[g]}
        PROVE  count'[g][built'[g]] = Zero
    BY <1>0, <2>1, <2>2, <2>3 DEF Fresh, KernelOK
  <2> QED
    BY <2>3 DEF Fresh, Zero
<1>4. CASE Publish
  <2>1. ASSUME NEW g \in Families, built'[g] \notin {NoChain, hook'[g]}
        PROVE  count'[g][built'[g]] = Zero
    BY <1>0, <1>4, <2>1, CountedMembers DEF Publish, Fresh, KernelOK
  <2> QED
    BY <2>1 DEF Fresh, Zero
<1>5. CASE Unhook
  <2>1. ASSUME NEW g \in Families, built'[g] \notin {NoChain, hook'[g]}
        PROVE  count'[g][built'[g]] = Zero
    BY <1>0, <1>5, <2>1, CountedMembers DEF Unhook, Fresh, KernelOK
  <2> QED
    BY <2>1 DEF Fresh, Zero
<1>6. CASE Run \/ Other \/ Elsewhere \/ Incoming \/ Restart
  BY <1>1, <1>6 DEF Run, Options, Phase, ReadHook, ReadList, OpenTaps, BindTaps, EndSample, JudgeRun,
     Other, Elsewhere, Incoming, Restart
<1>8. CASE Fill
  BY <1>8 DEF Fill, Fresh, Zero
<1>7. CASE UNCHANGED vars
  BY <1>1, <1>7 DEF vars
<1> QED
  BY <1>2, <1>3, <1>4, <1>5, <1>6, <1>7, <1>8 DEF Next, Traffic, Daemon

\* What packets and the daemon do to the counters: whatever counts more was
\* met, a hook that moves leads nowhere or to a chain that starts at zero, and
\* in a published chain that lasts the counters follow what is met.
Hooked(g) ==
    \/ hook'[g] = hook[g] /\ (g \in lasting' => g \in lasting)
    \/ g \notin lasting' /\ hook'[g] = NoChain
    \/ g \notin lasting' /\ hook'[g] \in Chains /\ count'[g][hook'[g]] = Zero
Follows(g) ==
    /\ hook[g] = NoChain => met'[g] = met[g]
    /\ hook[g] # NoChain => \A q \in Pairs :
          /\ count[g][hook[g]][q] <= count'[g][hook[g]][q]
          /\ q \in met'[g] => q \in met[g] \/ count[g][hook[g]][q] < count'[g][hook[g]][q]
Effects ==
    /\ UNCHANGED <<fams, todo, round, pc, before, after, evidence, chain, answered, complete>>
    /\ \A g \in Families :
          /\ met[g] \subseteq met'[g]
          /\ \A c \in Chains : \A q \in Pairs :
                count'[g][c][q] <= count[g][c][q] \/ q \in met'[g]
          /\ Hooked(g)
          /\ g \in lasting' => Follows(g)

LEMMA OutsideEffects == Typed /\ Fresh /\ (Traffic \/ Daemon) => Effects
<1> SUFFICES ASSUME Typed, Fresh, Traffic \/ Daemon PROVE Effects
  OBVIOUS
<1>0. KernelOK /\ SeenOK /\ Members(fams) \subseteq Families
  BY DEF Typed, TypeOK, Shape
<1> DEFINE Calm == UNCHANGED <<fams, todo, round, pc, before, after, evidence, chain, answered, complete>>
<1>1. CASE UNCHANGED <<hook, count, met, lasting>> /\ Calm
  BY <1>0, <1>1 DEF Effects, Hooked, Follows, KernelOK
<1>2. CASE Forward
  <2>1. PICK f \in Counted, p \in Pairs :
           /\ hook[f] # NoChain
           /\ count' = [count EXCEPT ![f][hook[f]][p] = @ + 1]
           /\ met' = [met EXCEPT ![f] = @ \cup {p}]
    BY <1>2 DEF Forward
  <2>2. Calm /\ UNCHANGED <<hook, lasting>>
    BY <1>2 DEF Forward, Outside, options, reading
  <2>3. f \in Families /\ hook[f] \in Chains
    BY <1>0, <2>1, CountedMembers DEF KernelOK
  <2>4. \A g \in Families : \A c \in Chains : \A q \in Pairs :
           count'[g][c][q] = IF g = f /\ c = hook[f] /\ q = p THEN count[g][c][q] + 1
                             ELSE count[g][c][q]
    BY <1>0, <2>1, <2>3 DEF KernelOK
  <2>5. \A g \in Families : met'[g] = IF g = f THEN met[g] \cup {p} ELSE met[g]
    BY <1>0, <2>1, <2>3 DEF SeenOK
  <2>6. \A g \in Families : \A c \in Chains : \A q \in Pairs : count[g][c][q] \in Nat
    BY <1>0 DEF KernelOK
  <2>7. ASSUME NEW g \in Families
        PROVE  /\ met[g] \subseteq met'[g]
               /\ \A c \in Chains : \A q \in Pairs :
                     count'[g][c][q] <= count[g][c][q] \/ q \in met'[g]
               /\ Hooked(g) /\ Follows(g)
    <3>1. hook[g] \in Chains \cup {NoChain}
      BY <1>0 DEF KernelOK
    <3>2. Hooked(g) /\ met[g] \subseteq met'[g]
      BY <2>2, <2>5 DEF Hooked
    <3>3. \A c \in Chains : \A q \in Pairs : count'[g][c][q] <= count[g][c][q] \/ q \in met'[g]
      <4> TAKE c \in Chains
      <4> TAKE q \in Pairs
      <4>1. CASE g = f /\ q = p
        BY <2>5, <4>1
      <4>2. CASE ~(g = f /\ q = p)
        BY <2>4, <2>6, <4>2
      <4> QED
        BY <4>1, <4>2
    <3>4. Follows(g)
      BY <2>1, <2>4, <2>5, <2>6, <3>1 DEF Follows
    <3> QED
      BY <3>2, <3>3, <3>4
  <2> QED
    BY <2>2, <2>7 DEF Effects
<1>3. CASE Flush
  <2>1. PICK f \in Counted, c \in Chains :
           /\ count' = [count EXCEPT ![f][c] = Zero]
           /\ lasting' = IF c = hook[f] THEN lasting \ {f} ELSE lasting
    BY <1>3 DEF Flush
  <2>2. Calm /\ UNCHANGED <<hook, met>>
    BY <1>3 DEF Flush, Inside, options, reading
  <2>3. \A g \in Families : \A d \in Chains : \A q \in Pairs :
           /\ count'[g][d][q] = IF g = f /\ d = c THEN 0 ELSE count[g][d][q]
           /\ count[g][d][q] \in Nat
    BY <1>0, <2>1 DEF KernelOK, Zero
  <2>4. \A g \in Families : hook[g] \in Chains \cup {NoChain}
    BY <1>0 DEF KernelOK
  <2> QED
    BY <2>1, <2>2, <2>3, <2>4 DEF Effects, Hooked, Follows
<1>4. CASE Publish
  <2>1. PICK f \in Counted :
           /\ built[f] # NoChain /\ hook' = [hook EXCEPT ![f] = built[f]]
           /\ lasting' = lasting \ {f}
    BY <1>4 DEF Publish
  <2>2. Calm /\ UNCHANGED <<count, met>>
    BY <1>4 DEF Publish, Inside, options, reading
  <2>3. \A g \in Families : hook'[g] = IF g = f THEN built[g] ELSE hook[g]
    BY <1>0, <2>1 DEF KernelOK
  <2>4. \A g \in Families :
           g = f => built[g] \in Chains /\ (built[g] = hook[g] \/ count[g][built[g]] = Zero)
    BY <1>0, <2>1 DEF KernelOK, Fresh
  <2>5. \A g \in Families : \A d \in Chains : \A q \in Pairs : count[g][d][q] \in Nat
    BY <1>0 DEF KernelOK
  <2>6. \A g \in Families : hook[g] \in Chains \cup {NoChain}
    BY <1>0 DEF KernelOK
  <2>7. \A g \in Families : Hooked(g)
    BY <2>1, <2>2, <2>3, <2>4 DEF Hooked, Zero
  <2> QED
    BY <2>2, <2>5, <2>6, <2>7 DEF Effects, Follows
<1>5. CASE Unhook
  <2>1. PICK f \in Counted :
           /\ hook' = [hook EXCEPT ![f] = NoChain]
           /\ count' = [count EXCEPT ![f] = [c \in Chains |-> Zero]]
           /\ lasting' = lasting \ {f}
    BY <1>5 DEF Unhook
  <2>2. Calm /\ met' = met
    BY <1>5 DEF Unhook, Inside, options, reading
  <2>3. \A g \in Families : \A d \in Chains : \A q \in Pairs :
           /\ count'[g][d][q] = IF g = f THEN 0 ELSE count[g][d][q]
           /\ count[g][d][q] \in Nat
    BY <1>0, <2>1 DEF KernelOK, Zero
  <2>4. \A g \in Families : hook'[g] = (IF g = f THEN NoChain ELSE hook[g])
                           /\ hook[g] \in Chains \cup {NoChain}
    BY <1>0, <2>1 DEF KernelOK
  <2> QED
    BY <2>1, <2>2, <2>3, <2>4 DEF Effects, Hooked, Follows
<1>6. CASE Fill \/ Other \/ Elsewhere \/ Incoming \/ Restart
  BY <1>1, <1>6 DEF Fill, Other, Elsewhere, Incoming, Restart, Outside, Inside, options, reading, kernel, seen
<1> QED
  BY <1>2, <1>3, <1>4, <1>5, <1>6 DEF Traffic, Daemon

LEMMA OutsideTraced == Typed /\ Typed' /\ Listing /\ Met /\ Effects => Listing' /\ Met'
<1> SUFFICES ASSUME Typed, Typed', Listing, Met, Effects PROVE Listing' /\ Met'
  OBVIOUS
<1>0. KernelOK /\ RunOK /\ SeenOK /\ Shape
  BY DEF Typed, TypeOK
<1>a. \A g \in Families : \A c \in Chains : \A q \in Pairs : count'[g][c][q] \in Nat
  BY DEF Typed, TypeOK, KernelOK
<1>b. \A g \in Families : \A q \in Pairs : before[g].count[q] \in Nat
  BY <1>0 DEF RunOK, SeenType
<1>1. UNCHANGED <<fams, todo, round, pc, before, after, evidence, chain, answered, complete>>
  BY DEF Effects
<1>2. \A f : Read(f)' <=> Read(f)
  BY <1>1, ReadSame
<1>3. ASSUME NEW g \in Families, NEW c \in Chains,
             Grew(before[g].count, count[g][c]) \subseteq met[g]
      PROVE  Grew(before'[g].count, count'[g][c]) \subseteq met'[g]
  <2> SUFFICES ASSUME NEW q \in Pairs, count'[g][c][q] > before[g].count[q], q \notin met'[g]
               PROVE  FALSE
    BY <1>1 DEF Grew
  <2>1. count'[g][c][q] <= count[g][c][q] /\ q \notin met[g]
    BY DEF Effects
  <2>2. ~(count[g][c][q] > before[g].count[q])
    BY <1>3, <2>1 DEF Grew
  <2>3. count[g][c][q] \in Nat /\ count'[g][c][q] \in Nat /\ before[g].count[q] \in Nat
    BY <1>0, <1>a, <1>b DEF KernelOK
  <2> QED
    BY <2>1, <2>2, <2>3
<1>4. Listing'
  <2> SUFFICES ASSUME pc = "list"
               PROVE  /\ Family \in lasting' => hook'[Family] = chain
                      /\ round = 1 /\ hook'[Family] \notin {chain, NoChain} =>
                            \A p \in Pairs : count'[Family][hook'[Family]][p] > 0 => p \in met'[Family]
                      /\ round = 2 /\ Family \in answered =>
                            Grew(before'[Family].count, count'[Family][chain]) \subseteq met'[Family]
    BY <1>1 DEF Listing, Family, Grew
  <2>1. Family \in Families /\ chain \in Chains
    BY <1>0 DEF RunOK, Shape, Family
  <2>2. Hooked(Family) /\ hook'[Family] \in Chains \cup {NoChain}
    BY <2>1 DEF Effects, Typed, TypeOK, KernelOK
  <2>3. Family \in lasting' => hook'[Family] = chain
    BY <2>2 DEF Listing, Hooked
  <2>4. ASSUME round = 1, hook'[Family] \notin {chain, NoChain},
               NEW p \in Pairs, count'[Family][hook'[Family]][p] > 0
        PROVE  p \in met'[Family]
    <3>1. CASE hook'[Family] = hook[Family]
      <4>1. hook[Family] \in Chains /\ count'[Family][hook[Family]][p] > 0
        BY <2>2, <2>4, <3>1
      <4>2. CASE p \notin met'[Family]
        <5>1. p \notin met[Family] /\ count'[Family][hook[Family]][p] <= count[Family][hook[Family]][p]
          BY <2>1, <4>1, <4>2 DEF Effects
        <5>2. count[Family][hook[Family]][p] > 0
          BY <1>0, <1>a, <2>1, <4>1, <5>1 DEF KernelOK
        <5> QED
          BY <2>4, <3>1, <5>1, <5>2 DEF Listing
      <4> QED
        BY <4>2
    <3>2. CASE count'[Family][hook'[Family]] = Zero
      BY <2>4, <3>2 DEF Zero
    <3> QED
      BY <2>2, <2>4, <3>1, <3>2 DEF Hooked
  <2>5. ASSUME round = 2, Family \in answered
        PROVE  Grew(before'[Family].count, count'[Family][chain]) \subseteq met'[Family]
    BY <1>3, <2>1, <2>5 DEF Listing
  <2> QED
    BY <2>3, <2>4, <2>5
<1>5. Met'
  <2> SUFFICES ASSUME NEW f \in answered
               PROVE  /\ Read(f) /\ hook'[f] # NoChain =>
                            Grew(before'[f].count, count'[f][hook'[f]]) \subseteq met'[f]
                      /\ Grew(before[f].count, after[f].count) \subseteq evidence[f]
    BY <1>1, <1>2 DEF Met, Grew
  <2>1. f \in Families
    BY <1>0 DEF SeenOK
  <2>2. Hooked(f) /\ hook'[f] \in Chains \cup {NoChain}
    BY <2>1 DEF Effects, Typed, TypeOK, KernelOK
  <2>3. ASSUME Read(f), hook'[f] # NoChain
        PROVE  Grew(before'[f].count, count'[f][hook'[f]]) \subseteq met'[f]
    <3>1. CASE hook'[f] = hook[f]
      <4>1. Grew(before[f].count, count[f][hook[f]]) \subseteq met[f] /\ hook[f] \in Chains
        BY <2>2, <2>3, <3>1 DEF Met
      <4> QED
        BY <1>3, <2>1, <3>1, <4>1
    <3>2. CASE count'[f][hook'[f]] = Zero
      BY <1>1, <1>b, <2>1, <3>2 DEF Zero, Grew
    <3> QED
      BY <2>2, <2>3, <3>1, <3>2 DEF Hooked
  <2> QED
    BY <2>3 DEF Met
<1> QED
  BY <1>4, <1>5

LEMMA GrewZero == \A old \in [Pairs -> Nat] : Grew(old, Zero) = {} /\ Grew(old, old) = {}
BY DEF Grew, Zero

\* A reading of the family at hand keeps the account, when it tells no more
\* than what was met since.
LEMMA FoundTraced ==
    ASSUME Typed, Unread, Met, pc \in {"hook", "list"}, NEW what \in SeenType, Found(what),
           UNCHANGED <<hook, count, fams, round>>, answered' \subseteq answered,
           \A g \in Families : g = Family \/ met'[g] = met[g],
           round = 2 => met' = met,
           round = 1 /\ Family \in answered' /\ hook[Family] # NoChain =>
               Grew(what.count, count[Family][hook[Family]]) \subseteq met'[Family],
           round = 2 /\ Family \in answered' =>
               Grew(before[Family].count, what.count) \subseteq met[Family]
    PROVE  Unread' /\ Met'
<1>0. RunOK /\ SeenOK /\ Shape
  BY DEF Typed, TypeOK
<1>1. Family \in Members(fams) /\ Family \in Families
  BY FoundTyped
<1>2. \A f : /\ Read(f)' <=> Read(f) \/ f = Family
             /\ f \in Members(todo)' <=> f \in Members(todo) /\ f # Family
             /\ round = 1 => ~Read(Family)
  BY FoundRead
<1>3. Members(fams)' = Members(fams)
  BY DEF Members
<1>4. ASSUME NEW g \in Families, g # Family
      PROVE  before'[g] = before[g] /\ after'[g] = after[g] /\ evidence'[g] = evidence[g]
  BY <1>0, <1>4 DEF Found, RunOK, SeenOK
<1>5. CASE round = 1
  <2>1. after' = after /\ evidence' = evidence /\ before'[Family] = what
    BY <1>0, <1>1, <1>5 DEF Found, RunOK
  <2>2. Unread'
    BY <1>5, <2>1 DEF Unread, Again
  <2>3. after[Family] = Nothing /\ what.count \in [Pairs -> Nat]
    BY <1>1, <1>5 DEF Unread, Again, SeenType
  <2>4. Grew(what.count, after[Family].count) = {}
    BY <2>3, GrewZero DEF Nothing
  <2>5. ASSUME NEW f \in answered'
        PROVE  /\ Read(f)' /\ hook'[f] # NoChain =>
                     Grew(before'[f].count, count'[f][hook'[f]]) \subseteq met'[f]
               /\ Grew(before'[f].count, after'[f].count) \subseteq evidence'[f]
    <3>1. f \in answered /\ f \in Families
      BY <1>0, <2>5 DEF SeenOK
    <3>2. CASE f = Family
      BY <1>5, <2>1, <2>4, <2>5, <3>2
    <3>3. CASE f # Family
      BY <1>2, <1>4, <2>1, <3>1, <3>3 DEF Met
    <3> QED
      BY <3>2, <3>3
  <2>6. Met'
    BY <2>5 DEF Met, Grew
  <2> QED
    BY <2>2, <2>6
<1>6. CASE round = 2
  <2>1. before' = before /\ after'[Family] = what /\ evidence'[Family] = met[Family]
    BY <1>0, <1>1, <1>6 DEF Found, RunOK, SeenOK
  <2>2. ASSUME NEW g \in Families, ~Again(g)' PROVE after'[g] = Nothing
    <3>1. g # Family /\ ~Again(g)
      BY <1>1, <1>2, <1>3, <1>6, <2>2 DEF Again
    <3> QED
      BY <1>4, <3>1 DEF Unread
  <2>3. Unread'
    BY <2>2 DEF Unread, Nothing, Zero
  <2>4. Read(Family)
    BY <1>1, <1>6 DEF Read
  <2>5. ASSUME NEW f \in answered'
        PROVE  /\ Read(f)' /\ hook'[f] # NoChain =>
                     Grew(before'[f].count, count'[f][hook'[f]]) \subseteq met'[f]
               /\ Grew(before'[f].count, after'[f].count) \subseteq evidence'[f]
    <3>1. f \in answered /\ f \in Families
      BY <1>0, <2>5 DEF SeenOK
    <3>2. CASE f = Family
      BY <1>6, <2>1, <2>4, <2>5, <3>1, <3>2 DEF Met
    <3>3. CASE f # Family
      BY <1>2, <1>4, <1>6, <2>1, <3>1, <3>3 DEF Met
    <3> QED
      BY <3>2, <3>3
  <2>6. Met'
    BY <2>5 DEF Met, Grew
  <2> QED
    BY <2>3, <2>6
<1> QED
  BY <1>0, <1>5, <1>6 DEF RunOK

LEMMA RunTraced == Typed /\ Unread /\ Listing /\ Met /\ Run => Unread' /\ Listing' /\ Met'
<1> SUFFICES ASSUME Typed, Unread, Listing, Met, Run PROVE Unread' /\ Listing' /\ Met'
  OBVIOUS
<1>0. KernelOK /\ RunOK /\ SeenOK /\ Shape
  BY DEF Typed, TypeOK
<1>1. ASSUME UNCHANGED <<kernel, before, after, evidence, met, answered>>, pc' # "list",
             \A f : (Read(f)' => Read(f)) /\ (Again(f) => Again(f)')
      PROVE  Unread' /\ Listing' /\ Met'
  <2>1. Unread'
    BY <1>1 DEF Unread, Nothing, Zero
  <2>2. Listing'
    BY <1>1 DEF Listing
  <2>3. Met'
    BY <1>1 DEF Met, Grew, kernel
  <2> QED
    BY <2>1, <2>2, <2>3
<1>2. CASE Options \/ OpenTaps \/ BindTaps \/ JudgeRun
  <2>1. UNCHANGED <<fams, todo, round>> /\ pc' # "list"
    BY <1>2 DEF Options, OpenTaps, BindTaps, JudgeRun, reading, options
  <2>2. UNCHANGED <<kernel, before, after, evidence, met, answered>>
    BY <1>2 DEF Options, OpenTaps, BindTaps, JudgeRun, reading, seen
  <2> QED
    BY <1>1, <2>1, <2>2, ReadSame
<1>3. CASE Phase
  <2>1. round = 1 /\ round' = 1 /\ pc' # "list" /\ (fams' = todo' \/ UNCHANGED <<fams, todo>>)
    BY <1>0, <1>3 DEF Phase, Shape
  <2>2. \A f : (Read(f)' => Read(f)) /\ (Again(f) => Again(f)')
    BY <2>1 DEF Read, Again, Members
  <2> QED
    BY <1>1, <1>3, <2>1, <2>2 DEF Phase, seen
<1>4. CASE EndSample
  <2>1. round = 1 /\ todo = <<>> /\ fams' = fams /\ pc' # "list"
    BY <1>0, <1>4 DEF EndSample, Shape, options
  <2>2. Members(fams)' = Members(fams) /\ Members(todo) = {}
    BY <2>1, Empty DEF Members
  <2>3. \A f : (Read(f)' => Read(f)) /\ (Again(f) => Again(f)')
    BY <2>1, <2>2 DEF Read, Again
  <2> QED
    BY <1>1, <1>4, <2>1, <2>3 DEF EndSample, seen
<1>5. CASE ReadHook
  <2>1. /\ UNCHANGED <<hook, count, fams, round, built>> /\ pc = "hook"
        /\ Family \in Families /\ Family \in Members(todo) /\ Family \in Members(fams)
    BY <1>0, <1>5, Lists DEF ReadHook, RunOK, Shape, Family, kernel, options
  <2>2. /\ \A g \in Families : g = Family \/ met'[g] = met[g]
        /\ round = 2 => met' = met /\ lasting' = lasting
    BY <1>0, <1>5, <2>1 DEF ReadHook, SeenOK
  <2>3. /\ answered' \subseteq answered
        /\ chain' # hook[Family] => round = 2 \/ Family \notin answered'
        /\ chain' # NoChain => chain' = hook[Family] /\ answered' = answered
    BY <1>0, <1>5 DEF ReadHook, Failed, RunOK
  <2>4. CASE chain' = NoChain
    <3>1. Found(Nothing)
      BY <1>5, <2>4 DEF ReadHook
    <3>2. /\ Nothing \in SeenType /\ Nothing.count = Zero
          /\ before[Family].count \in [Pairs -> Nat]
      BY <1>0, <2>1, ZeroType DEF Nothing, RunOK, SeenType
    <3>3. Unread' /\ Met'
      BY <2>1, <2>2, <2>3, <2>4, <3>1, <3>2, GrewZero, FoundTraced
    <3>4. pc' # "list"
      BY <2>1, <3>1, <3>2, FoundTyped
    <3> QED
      BY <3>3, <3>4 DEF Listing
  <2>5. CASE chain' # NoChain
    <3>1. UNCHANGED <<todo, before, after, evidence>> /\ pc' = "list"
      BY <1>5, <2>5 DEF ReadHook
    <3>2. \A f : (Read(f)' <=> Read(f)) /\ (Again(f)' <=> Again(f))
      BY <2>1, <3>1, ReadSame
    <3>3. Family' = Family /\ (round = 1 => ~Read(Family)) /\ (round = 2 => Read(Family))
      BY <2>1, <3>1 DEF Family, Read
    <3>4. Unread'
      BY <3>1, <3>2 DEF Unread, Nothing, Zero
    <3>5. Listing'
      <4>1. round = 2 /\ Family \in answered' =>
               Grew(before[Family].count, count[Family][chain']) \subseteq met'[Family]
        BY <2>2, <2>3, <2>5, <3>3 DEF Met
      <4> QED
        BY <2>1, <2>3, <2>5, <3>1, <3>3, <4>1 DEF Listing, Grew
    <3>6. Met'
      <4>1. ASSUME NEW f \in answered
            PROVE  /\ Read(f) /\ hook[f] # NoChain =>
                         Grew(before[f].count, count[f][hook[f]]) \subseteq met'[f]
                   /\ Grew(before[f].count, after[f].count) \subseteq evidence[f]
        <5>1. f \in Families
          BY <1>0 DEF SeenOK
        <5>2. Read(f) => met'[f] = met[f]
          BY <1>0, <2>2, <3>3, <5>1 DEF RunOK
        <5> QED
          BY <4>1, <5>2 DEF Met
      <4> QED
        BY <2>1, <2>3, <2>5, <3>1, <3>2, <4>1 DEF Met, Grew
    <3> QED
      BY <3>4, <3>5, <3>6
  <2> QED
    BY <2>4, <2>5
<1>6. CASE ReadList
  <2>1. /\ UNCHANGED <<hook, count, fams, round>> /\ pc = "list"
        /\ Family \in Families /\ chain \in Chains
    BY <1>0, <1>6 DEF ReadList, RunOK, Shape, Family, kernel, options
  <2>2. /\ \A g \in Families : g = Family \/ met'[g] = met[g]
        /\ round = 2 \/ Family \notin lasting => met' = met
    BY <1>0, <1>6, <2>1 DEF ReadList, SeenOK
  <2>3. PICK what \in SeenType :
           /\ Found(what) /\ answered' \subseteq answered
           /\ \/ what.count = count[Family][chain]
              \/ what.count = Zero /\ (round = 2 \/ Family \notin answered')
    <3>1. /\ [chain |-> chain, count |-> count[Family][chain]] \in SeenType
          /\ [chain |-> chain, count |-> Zero] \in SeenType
      BY <1>0, <2>1, ZeroType DEF KernelOK, SeenType
    <3> QED
      BY <1>0, <1>6, <3>1 DEF ReadList, Failed, RunOK
  <2>4. before[Family].count \in [Pairs -> Nat] /\ count[Family][chain] \in [Pairs -> Nat]
    BY <1>0, <2>1 DEF KernelOK, RunOK, SeenType
  <2>5. ASSUME round = 1, Family \in answered', hook[Family] # NoChain
        PROVE  Grew(what.count, count[Family][hook[Family]]) \subseteq met'[Family]
    <3>1. what.count = count[Family][chain]
      BY <2>3, <2>5
    <3>2. CASE hook[Family] = chain
      BY <2>4, <3>1, <3>2, GrewZero
    <3>3. CASE hook[Family] # chain
      <4>1. met' = met
        BY <2>1, <2>2, <3>3 DEF Listing
      <4>2. \A p \in Pairs : count[Family][hook[Family]][p] > 0 => p \in met[Family]
        BY <2>1, <2>5, <3>3 DEF Listing
      <4>3. \A p \in Pairs : count[Family][hook[Family]][p] \in Nat /\ count[Family][chain][p] \in Nat
        BY <1>0, <2>1, <2>5 DEF KernelOK
      <4> QED
        BY <3>1, <4>1, <4>2, <4>3 DEF Grew
    <3> QED
      BY <3>2, <3>3
  <2>6. ASSUME round = 2, Family \in answered'
        PROVE  Grew(before[Family].count, what.count) \subseteq met[Family]
    BY <2>1, <2>3, <2>4, <2>6, GrewZero DEF Listing
  <2>7. Unread' /\ Met'
    BY <2>1, <2>2, <2>3, <2>5, <2>6, FoundTraced
  <2>8. pc' # "list"
    BY <2>1, <2>3, FoundTyped
  <2> QED
    BY <2>7, <2>8 DEF Listing
<1> QED
  BY <1>2, <1>3, <1>4, <1>5, <1>6 DEF Run

LEMMA Invariance == Spec => [](Typed /\ Traced)
<1>1. Init => Traced
  <2> SUFFICES ASSUME Init PROVE Traced
    OBVIOUS
  <2>1. pc = "options" /\ \A f : ~Read(f) /\ ~Again(f)
    BY Empty DEF Init, Read, Again
  <2>2. \A f \in Families : built[f] = NoChain /\ before[f] = Nothing /\ after[f] = Nothing
    BY DEF Init
  <2>3. \A f \in Families : Grew(before[f].count, after[f].count) = {}
    <3>1. Grew(Zero, Zero) = {} /\ Nothing.count = Zero
      BY ZeroType, GrewZero DEF Nothing
    <3> QED
      BY <2>2, <3>1
  <2> QED
    BY <2>1, <2>2, <2>3 DEF Init, Traced, Fresh, Unread, Listing, Met
<1>2. Typed /\ Traced /\ [Next]_vars => Traced'
  <2> SUFFICES ASSUME Typed, Traced, [Next]_vars PROVE Traced'
    OBVIOUS
  <2>1. Fresh' /\ Typed'
    BY FreshNext, TypedNext DEF Traced
  <2>2. CASE Traffic \/ Daemon
    <3>1. Effects
      BY <2>2, OutsideEffects DEF Traced
    <3>2. Listing' /\ Met'
      BY <2>1, <3>1, OutsideTraced DEF Traced
    <3>3. Unread'
      BY <3>1, ReadSame DEF Effects, Traced, Unread, Nothing, Zero
    <3> QED
      BY <2>1, <3>2, <3>3 DEF Traced
  <2>3. CASE Run
    BY <2>1, <2>3, RunTraced DEF Traced
  <2>4. CASE UNCHANGED vars
    <3>1. /\ UNCHANGED <<hook, count, built, fams, todo, round, pc, before, after, evidence, chain>>
          /\ UNCHANGED <<answered, lasting, met>>
      BY <2>4 DEF vars, kernel, options, reading, seen
    <3>2. Listing'
      BY <3>1 DEF Traced, Listing, Family, Grew
    <3>3. Unread' /\ Met'
      BY <3>1, ReadSame DEF Traced, Unread, Met, Grew, Nothing, Zero
    <3> QED
      BY <2>1, <3>2, <3>3 DEF Traced
  <2> QED
    BY <2>2, <2>3, <2>4 DEF Next
<1> QED
  BY <1>1, <1>2, InitTyped, TypedNext, PTL DEF Spec

LEMMA InitTold == Init => Told
BY DEF Init, Told, Result

\* PASS by counters means that a packet matched since they were first read
\* (total_hits, judge), whatever the daemon published meanwhile and whatever
\* failed later.
THEOREM PassCorrect == Spec => []PassMeansMatched
<1>1. Typed /\ Traced /\ Told => PassMeansMatched
  <2> SUFFICES ASSUME Typed, Traced, Told, verdict.reason = "matched", answered = Families
               PROVE  \E f \in Counted : evidence[f] # {}
    BY DEF PassMeansMatched
  <2>1. PICK f \in Families : Hits(before[f], after[f]) # {}
    BY DEF Told, Matched
  <2>2. Grew(before[f].count, after[f].count) # {}
    BY <2>1 DEF Hits, Grew
  <2>3. evidence[f] # {}
    BY <2>2 DEF Traced, Met
  <2>4. before[f].count \in [Pairs -> Nat]
    BY DEF Typed, TypeOK, RunOK, SeenType
  <2>5. Again(f)
    BY <2>2, <2>4, GrewZero DEF Traced, Unread, Nothing
  <2> QED
    BY <2>3, <2>5, CountedMembers DEF Again
<1> QED
  BY <1>1, Invariance, InitTold, ToldNext, PTL DEF Spec

\* FAIL means that enough packets left with a TTL nobody chose (drain, judge).
THEOREM FailCorrect == Spec => []FailMeansStray
<1>1. Typed /\ Sound /\ Told => FailMeansStray
  BY VerifyAssumption DEF Sound, Told, FailMeansStray, Typed, TypeOK, RunOK, SeenOK
<1>2. Init => Sound
  BY DEF Init, Sound
<1> QED
  BY <1>1, <1>2, InitTyped, TypedNext, SoundNext, InitTold, ToldNext, PTL DEF Spec

-----------------------------------------------------------------------------
(* "No packet matched" is true                                              *)

LEMMA OutsideRecorded == Typed /\ Typed' /\ Recorded /\ Effects => Recorded'
<1> SUFFICES ASSUME Typed, Typed', Recorded, Effects, complete, NEW f \in lasting'
             PROVE  /\ Read(f)' =>
                          IF hook'[f] = NoChain THEN met'[f] = {}
                          ELSE /\ \A p \in Pairs : before'[f].count[p] <= count'[f][hook'[f]][p]
                               /\ met'[f] \subseteq Grew(before'[f].count, count'[f][hook'[f]])
                    /\ Again(f)' => evidence'[f] \subseteq Grew(before'[f].count, after'[f].count)
  BY DEF Recorded, Effects, Grew
<1>1. UNCHANGED <<fams, todo, round, before, after, evidence>>
  BY DEF Effects
<1>2. f \in Families
  BY DEF Typed, TypeOK, SeenOK
<1>3. f \in lasting /\ hook'[f] = hook[f] /\ Follows(f)
  BY <1>2 DEF Effects, Hooked
<1>4. (Read(f)' <=> Read(f)) /\ (Again(f)' <=> Again(f))
  BY <1>1, ReadSame
<1>5. CASE hook[f] = NoChain
  BY <1>1, <1>3, <1>4, <1>5 DEF Recorded, Follows
<1>6. CASE hook[f] # NoChain
  <2>1. /\ before[f].count \in [Pairs -> Nat] /\ hook[f] \in Chains
        /\ count[f][hook[f]] \in [Pairs -> Nat] /\ count'[f][hook[f]] \in [Pairs -> Nat]
    BY <1>2, <1>6 DEF Typed, TypeOK, KernelOK, RunOK, SeenType
  <2>2. met'[f] \subseteq Pairs
    BY <1>2 DEF Typed, TypeOK, SeenOK
  <2>3. ASSUME Read(f), NEW p \in Pairs
        PROVE  /\ before[f].count[p] <= count'[f][hook[f]][p]
               /\ p \in met'[f] => count'[f][hook[f]][p] > before[f].count[p]
    <3>1. /\ before[f].count[p] <= count[f][hook[f]][p]
          /\ p \in met[f] => count[f][hook[f]][p] > before[f].count[p]
      BY <1>3, <1>6, <2>3 DEF Recorded, Grew
    <3>2. /\ count[f][hook[f]][p] <= count'[f][hook[f]][p]
          /\ p \in met'[f] => p \in met[f] \/ count[f][hook[f]][p] < count'[f][hook[f]][p]
      BY <1>3, <1>6 DEF Follows
    <3> QED
      BY <2>1, <3>1, <3>2
  <2> QED
    BY <1>1, <1>3, <1>4, <1>6, <2>2, <2>3 DEF Recorded, Grew
<1> QED
  BY <1>5, <1>6

\* A reading of the family at hand keeps the record, when it tells what the
\* published chain counts.
LEMMA FoundRecorded ==
    ASSUME Typed, Unread, Recorded, pc \in {"hook", "list"}, NEW what \in SeenType, Found(what),
           UNCHANGED <<hook, count, fams, round, complete>>,
           lasting' \subseteq lasting \cup {Family},
           \A g \in Families : g = Family \/ met'[g] = met[g],
           round = 2 => met' = met /\ lasting' = lasting,
           round = 1 => met'[Family] = {} \/ Family \notin lasting',
           Family \in lasting' /\ hook[Family] # NoChain =>
               what.count = count[Family][hook[Family]]
    PROVE  Recorded'
<1> SUFFICES ASSUME complete, NEW f \in lasting'
             PROVE  /\ Read(f)' =>
                          IF hook[f] = NoChain THEN met'[f] = {}
                          ELSE /\ \A p \in Pairs : before'[f].count[p] <= count[f][hook[f]][p]
                               /\ met'[f] \subseteq Grew(before'[f].count, count[f][hook[f]])
                    /\ Again(f)' => evidence'[f] \subseteq Grew(before'[f].count, after'[f].count)
  BY DEF Recorded, Grew
<1>0. KernelOK /\ RunOK /\ SeenOK /\ Shape
  BY DEF Typed, TypeOK
<1>1. Family \in Members(fams) /\ Family \in Families
  BY FoundTyped
<1>2. \A g : /\ Read(g)' <=> Read(g) \/ g = Family
             /\ g \in Members(todo)' <=> g \in Members(todo) /\ g # Family
             /\ round = 1 => ~Read(Family)
  BY FoundRead
<1>3. Members(fams)' = Members(fams)
  BY DEF Members
<1>4. CASE f # Family
  <2>1. f \in lasting /\ f \in Families
    BY <1>0, <1>4 DEF SeenOK
  <2>2. before'[f] = before[f] /\ after'[f] = after[f] /\ evidence'[f] = evidence[f] /\ met'[f] = met[f]
    BY <1>0, <1>4, <2>1 DEF Found, RunOK, SeenOK
  <2>3. (Read(f)' <=> Read(f)) /\ (Again(f)' <=> Again(f))
    BY <1>2, <1>3, <1>4 DEF Again
  <2> QED
    BY <2>1, <2>2, <2>3 DEF Recorded
<1>5. CASE f = Family /\ round = 1
  <2>1. before'[f] = what /\ met'[f] = {} /\ ~Again(f)'
    BY <1>0, <1>1, <1>5 DEF Found, RunOK, Again
  <2>2. hook[f] # NoChain => count[f][hook[f]] \in [Pairs -> Nat]
    BY <1>0, <1>1, <1>5 DEF KernelOK
  <2> QED
    BY <1>5, <2>1, <2>2
<1>6. CASE f = Family /\ round = 2
  <2>1. /\ before' = before /\ after'[f] = what /\ evidence'[f] = met[f] /\ met' = met
        /\ f \in lasting /\ Read(f)
    BY <1>0, <1>1, <1>6 DEF Found, RunOK, SeenOK, Read
  <2> QED
    BY <1>6, <2>1 DEF Recorded
<1> QED
  BY <1>0, <1>4, <1>5, <1>6 DEF RunOK

LEMMA RunRecorded == Typed /\ Unread /\ Listing /\ Recorded /\ Run => Recorded'
<1> SUFFICES ASSUME Typed, Unread, Listing, Recorded, Run PROVE Recorded'
  OBVIOUS
<1>0. KernelOK /\ RunOK /\ SeenOK /\ Shape
  BY DEF Typed, TypeOK
<1>1. ASSUME UNCHANGED <<kernel, before, after, evidence, met, lasting, complete>>,
             \A f : (Read(f)' => Read(f)) /\ (Again(f)' => Again(f))
      PROVE  Recorded'
  BY <1>1 DEF Recorded, Grew, kernel
<1>2. CASE Options \/ OpenTaps \/ BindTaps \/ JudgeRun
  <2>1. UNCHANGED <<fams, todo, round>>
    BY <1>2 DEF Options, OpenTaps, BindTaps, JudgeRun, reading, options
  <2>2. UNCHANGED <<kernel, before, after, evidence, met, lasting, complete>>
    BY <1>2 DEF Options, OpenTaps, BindTaps, JudgeRun, reading, seen
  <2> QED
    BY <1>1, <2>1, <2>2, ReadSame
<1>3. CASE Phase
  <2>1. round = 1 /\ round' = 1 /\ (fams' = todo' \/ UNCHANGED <<fams, todo>>)
    BY <1>0, <1>3 DEF Phase, Shape
  <2>2. \A f : (Read(f)' => Read(f)) /\ (Again(f)' => Again(f))
    BY <2>1 DEF Read, Again, Members
  <2> QED
    BY <1>1, <1>3, <2>2 DEF Phase, seen
<1>4. CASE EndSample
  <2>1. round = 1 /\ todo = <<>> /\ fams' = fams /\ todo' = fams
    BY <1>0, <1>4 DEF EndSample, Shape, options
  <2>2. Members(fams)' = Members(fams) /\ Members(todo)' = Members(fams) /\ Members(todo) = {}
    BY <2>1, Empty DEF Members
  <2>3. \A f : (Read(f)' => Read(f)) /\ (Again(f)' => Again(f))
    BY <2>1, <2>2 DEF Read, Again
  <2> QED
    BY <1>1, <1>4, <2>3 DEF EndSample, seen
<1>5. CASE ReadHook /\ ~Failed
  <2>1. /\ UNCHANGED <<hook, count, fams, round, complete>> /\ pc = "hook"
        /\ chain' = hook[Family] /\ Family \in Families
    BY <1>0, <1>5 DEF ReadHook, RunOK, Family, kernel, options
  <2>2. /\ \A g \in Families : g = Family \/ met'[g] = met[g]
        /\ round = 2 => met' = met /\ lasting' = lasting
        /\ round = 1 => met'[Family] = {}
        /\ lasting' \subseteq lasting \cup {Family}
    BY <1>0, <1>5, <2>1 DEF ReadHook, SeenOK
  <2>3. CASE chain' = NoChain
    <3>1. Found(Nothing) /\ Nothing \in SeenType
      BY <1>5, <2>3, ZeroType DEF ReadHook
    <3> QED
      BY <2>1, <2>2, <2>3, <3>1, FoundRecorded
  <2>4. CASE chain' # NoChain
    <3>1. UNCHANGED <<todo, before, after, evidence>>
      BY <1>5, <2>4 DEF ReadHook
    <3>2. \A f : (Read(f)' <=> Read(f)) /\ (Again(f)' <=> Again(f))
      BY <2>1, <3>1, ReadSame
    <3>3. Family \in Members(todo) /\ (round = 1 => ~Read(Family))
      BY <1>0, <2>1, Lists DEF RunOK, Shape, Family, Read
    <3>4. ASSUME NEW f \in lasting', Read(f) PROVE f \in lasting /\ f \in Families /\ met'[f] = met[f]
      BY <1>0, <2>2, <3>3, <3>4 DEF RunOK, SeenOK
    <3>5. ASSUME NEW f, Again(f) PROVE Read(f)
      BY <3>5 DEF Again, Read
    <3> QED
      BY <2>1, <3>1, <3>2, <3>4, <3>5 DEF Recorded, Grew
  <2> QED
    BY <2>3, <2>4
<1>6. CASE ReadList /\ ~Failed
  <2>1. /\ UNCHANGED <<hook, count, fams, round, complete, lasting>> /\ pc = "list"
        /\ Family \in Families /\ chain \in Chains
    BY <1>0, <1>6 DEF ReadList, RunOK, Shape, Family, kernel, options
  <2>2. /\ \A g \in Families : g = Family \/ met'[g] = met[g]
        /\ round = 2 => met' = met
        /\ round = 1 => met'[Family] = {} \/ Family \notin lasting'
    BY <1>0, <1>6, <2>1 DEF ReadList, SeenOK
  <2>3. PICK what \in SeenType : Found(what) /\ what.count = count[Family][chain]
    <3>1. [chain |-> chain, count |-> count[Family][chain]] \in SeenType
      BY <1>0, <2>1 DEF KernelOK, SeenType
    <3> QED
      BY <1>6, <3>1 DEF ReadList
  <2>4. Family \in lasting' => hook[Family] = chain
    BY <2>1 DEF Listing
  <2> QED
    BY <2>1, <2>2, <2>3, <2>4, FoundRecorded
<1>7. CASE Failed
  BY <1>7 DEF Failed, Recorded
<1> QED
  BY <1>2, <1>3, <1>4, <1>5, <1>6, <1>7 DEF Run

\* "No rule matched" means that none did (judge), if every command succeeded
\* and the published chains stayed.
THEOREM UnmatchedCorrect == Spec => []UnmatchedIsTrue
<1>1. Init => Recorded
  BY Empty DEF Init, Recorded, Read
<1>2. Typed /\ Typed' /\ Traced /\ Recorded /\ [Next]_vars => Recorded'
  <2> SUFFICES ASSUME Typed, Typed', Traced, Recorded, [Next]_vars PROVE Recorded'
    OBVIOUS
  <2>1. CASE Traffic \/ Daemon
    BY <2>1, OutsideEffects, OutsideRecorded DEF Traced
  <2>2. CASE Run
    BY <2>2, RunRecorded DEF Traced
  <2>3. CASE UNCHANGED vars
    <3>1. /\ UNCHANGED <<hook, count, fams, todo, round, before, after, evidence>>
          /\ UNCHANGED <<complete, lasting, met>>
      BY <2>3 DEF vars, kernel, options, reading, seen
    <3> QED
      BY <3>1, ReadSame DEF Recorded, Grew
  <2> QED
    BY <2>1, <2>2, <2>3 DEF Next
<1>3. Typed /\ Recorded /\ Told => UnmatchedIsTrue
  <2> SUFFICES ASSUME Typed, Recorded, Told, verdict.reason \in {"bypass", "unmatched"},
                      complete, Counted \subseteq lasting, NEW f \in Counted
               PROVE  evidence[f] = {}
    BY DEF UnmatchedIsTrue
  <2>1. f \in Families /\ f \in Members(fams) /\ f \in lasting
    BY CountedMembers DEF Typed, Shape
  <2>2. Hits(before[f], after[f]) = {} /\ Again(f)
    BY <2>1, Empty DEF Told, Matched, Again
  <2>3. evidence[f] \subseteq Grew(before[f].count, after[f].count)
    BY <2>1, <2>2 DEF Recorded
  <2> QED
    BY <2>2, <2>3 DEF Hits, Grew
<1> QED
  BY <1>1, <1>2, <1>3, InitTyped, TypedNext, Invariance, InitTold, ToldNext, PTL DEF Spec
===============================================================================
