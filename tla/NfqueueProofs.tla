----------------------------- MODULE NfqueueProofs -----------------------------
(***************************************************************************)
(* Proofs about Packet and NfqueueWorker, for any byte, any packets, any   *)
(* sizes and every fault.                                                  *)
(***************************************************************************)
EXTENDS NfqueueWorker, TLAPS

-----------------------------------------------------------------------------
(* The checksum                                                             *)

LEMMA Unique ==
    ASSUME NEW w \in Nat \ {0}, NEW q \in Nat, NEW r \in 0 .. (w - 1)
    PROVE  (q * w + r) \div w = q /\ (q * w + r) % w = r
<1> DEFINE s == q * w + r
<1>1. s \in Int
  OBVIOUS
<1>2. s \div w \in Int /\ s % w \in 0 .. (w - 1) /\ s = w * (s \div w) + (s % w)
  BY <1>1, Z3
<1>3. w * (s \div w - q) = r - (s % w)
  BY <1>2
<1>4. s \div w - q = 0
  BY <1>2, <1>3, Z3
<1> QED
  BY <1>2, <1>3, <1>4

LEMMA Split ==
    ASSUME NEW w \in Nat \ {0}, NEW s \in Nat
    PROVE  s \div w \in Nat /\ s % w \in 0 .. (w - 1) /\ s = (s \div w) * w + (s % w)
<1>1. s \div w \in Int /\ s % w \in 0 .. (w - 1) /\ s = w * (s \div w) + (s % w)
  BY Z3
<1>2. s \div w >= 0
  BY <1>1, Z3
<1>3. ASSUME NEW d \in Int, NEW m \in Int, s = w * d + m
      PROVE  s = d * w + m
  BY <1>3, Z3
<1> QED
  BY <1>1, <1>2, <1>3

\* How often a sum is carried, for any word.
LEMMA CarryTwice ==
    ASSUME NEW w \in Nat \ {0}, NEW c \in 0 .. (2 * w - 2)
    PROVE  (c % w) + (c \div w) = IF c < w THEN c ELSE c - w + 1
<1>1. CASE c < w
  <2>1. c = 0 * w + c /\ 0 \in Nat /\ c \in 0 .. (w - 1)
    BY <1>1
  <2>2. (0 * w + c) \div w = 0 /\ (0 * w + c) % w = c
    BY <2>1, Unique
  <2> QED
    BY <1>1, <2>1, <2>2
<1>2. CASE c >= w
  <2> DEFINE r == c - w
  <2>1. c = 1 * w + r /\ 1 \in Nat /\ r \in 0 .. (w - 1)
    BY <1>2
  <2> HIDE DEF r
  <2>2. (1 * w + r) \div w = 1 /\ (1 * w + r) % w = r
    BY <2>1, Unique
  <2> QED
    BY <1>2, <2>1, <2>2
<1> QED
  BY <1>1, <1>2

LEMMA ProductFits ==
    ASSUME NEW w \in Nat, NEW q \in Nat, NEW r \in Nat,
           q * w + r <= (w - 1) * (w - 1)
    PROVE  q <= w - 2 \/ w <= 1
  BY Z3

LEMMA WordFits == Word \in Nat \ {0} /\ Word >= Byte /\ (Byte >= 2 => Word >= 2)
<1>1. Byte \in Nat \ {0}
  BY PacketAssumption
<1>2. ASSUME NEW b \in Nat, b >= 1
      PROVE  b * b \in Nat /\ b * b >= b
  BY <1>2, Z3
<1> QED
  BY <1>1, <1>2 DEF Word

\* The sum of a header without its checksum is less than Word squared, so the
\* carry fits a word and is added at most twice.
LEMMA FoldIsAWord ==
    ASSUME NEW s \in Nat, NEW q \in Nat, NEW r \in 0 .. (Word - 1),
           s = q * Word + r, q <= Word - 1
    PROVE  Fold(s) \in 0 .. (Word - 1) /\ Fold(s) = IF q + r < Word THEN q + r ELSE q + r - Word + 1
<1>1. Carry(s) = q + r
  <2>1. (q * Word + r) \div Word = q /\ (q * Word + r) % Word = r
    BY WordFits, Unique
  <2>2. q + r = r + q
    BY WordFits
  <2> QED
    BY <2>1, <2>2 DEF Carry
<1>2. q + r \in 0 .. (2 * Word - 2)
  BY WordFits
<1>3. Fold(s) = IF q + r < Word THEN q + r ELSE q + r - Word + 1
  BY <1>1, <1>2, WordFits, CarryTwice DEF Fold, Carry
<1> QED
  BY <1>2, <1>3, WordFits

LEMMA ChecksumSums ==
    ASSUME NEW s \in Nat, NEW q \in Nat, NEW r \in 0 .. (Word - 1),
           s = q * Word + r, q <= Word - 2
    PROVE  Fold(s + Complement(Fold(s))) = Word - 1
<1> DEFINE t == s + Complement(Fold(s))
<1>1. Fold(s) = IF q + r < Word THEN q + r ELSE q + r - Word + 1
  <2>1. q <= Word - 1
    BY WordFits
  <2> QED
    BY <2>1, FoldIsAWord
<1>2. (q + 1) * Word = q * Word + Word /\ q * Word \in Nat
  BY WordFits
<1>3. PICK p \in Nat : p <= Word - 1 /\ t = p * Word + (Word - 1 - p)
  <2>1. CASE q + r < Word
    <3>1. t = q * Word + (Word - 1 - q)
      BY <1>1, <1>2, <2>1, WordFits DEF Complement
    <3>2. q <= Word - 1
      BY WordFits
    <3> HIDE DEF t
    <3> QED
      BY <3>1, <3>2
  <2>2. CASE q + r >= Word
    <3>1. t = (q + 1) * Word + (Word - 1 - (q + 1))
      BY <1>1, <1>2, <2>2, WordFits DEF Complement
    <3>2. q + 1 \in Nat /\ q + 1 <= Word - 1
      BY WordFits
    <3> HIDE DEF t
    <3> QED
      BY <3>1, <3>2
  <2> QED
    BY <2>1, <2>2, WordFits
<1>4. Word - 1 - p \in 0 .. (Word - 1) /\ p + (Word - 1 - p) = Word - 1
  BY <1>3, WordFits
<1>5. t \in Nat
  BY <1>3, <1>4, WordFits
<1> HIDE DEF t
<1>6. Fold(t) = Word - 1
  <2> DEFINE r2 == Word - 1 - p
  <2>1. r2 \in 0 .. (Word - 1) /\ p + r2 = Word - 1 /\ p + r2 < Word /\ t = p * Word + r2
    BY <1>3, <1>4, WordFits
  <2> HIDE DEF r2
  <2> QED
    BY <1>3, <1>5, <2>1, FoldIsAWord
<1> QED
  BY <1>6 DEF t

LEMMA RewriteRight ==
    ASSUME NEW p \in PacketType, NEW ttl \in 1 .. (Byte - 1)
    PROVE  /\ Rewrite(p, ttl) \in PacketType
           /\ Rewrite(p, ttl) = [p EXCEPT !.ttl = ttl, !.check = Rewrite(p, ttl).check]
           /\ ChecksumValid(Rewrite(p, ttl))
<1> DEFINE cleared == [p EXCEPT !.ttl = ttl, !.check = 0]
           s == HeaderSum(cleared)
<1>1. /\ p.rest \in 0 .. (HeaderMax - 2) * (Word - 1) /\ p.proto \in 0 .. (Byte - 1)
      /\ p.check \in 0 .. (Word - 1) /\ Byte \in Nat
  BY PacketAssumption DEF PacketType
<1>2. cleared \in PacketType
  <2>1. 0 \in 0 .. (Word - 1) /\ ttl \in 0 .. (Byte - 1)
    BY <1>1, WordFits
  <2> QED
    BY <2>1 DEF PacketType
<1>3. s = p.rest + ttl * Byte + p.proto + 0
  BY DEF HeaderSum, PacketType
<1>4. ttl * Byte + p.proto \in Nat /\ ttl * Byte + p.proto <= Word - 1 /\ ttl * Byte \in Nat
  <2>1. ASSUME NEW b \in Nat, NEW x \in 1 .. (b - 1), NEW o \in 0 .. (b - 1)
        PROVE  x * b + o \in Nat /\ x * b + o <= b * b - 1 /\ x * b \in Nat
    BY Z3
  <2> QED
    BY <1>1, <2>1 DEF Word
<1>5. HeaderMax \in Nat /\ HeaderMax - 2 \in Nat /\ HeaderMax <= Word
  BY PacketAssumption DEF HeaderMax
<1>6. s \in Nat /\ s <= (Word - 1) * (Word - 1)
  <2>1. ASSUME NEW w \in Nat \ {0}, NEW h \in Nat, h - 2 \in Nat, h <= w,
               NEW x \in 0 .. (h - 2) * (w - 1), NEW y \in Nat, y <= w - 1
        PROVE  x + y \in Nat /\ x + y <= (w - 1) * (w - 1)
    <3>1. (h - 2) * (w - 1) + (w - 1) = (h - 1) * (w - 1) /\ (h - 2) * (w - 1) \in Int
      BY <2>1, Z3
    <3>2. (h - 1) * (w - 1) <= (w - 1) * (w - 1)
      BY <2>1, Z3
    <3> QED
      BY <2>1, <3>1, <3>2
  <2>2. p.rest + (ttl * Byte + p.proto) \in Nat
        /\ p.rest + (ttl * Byte + p.proto) <= (Word - 1) * (Word - 1)
    BY <1>1, <1>4, <1>5, <2>1, WordFits
  <2> QED
    BY <1>1, <1>3, <1>4, <2>2
<1> DEFINE q == s \div Word
           r == s % Word
<1> HIDE DEF s
<1>7. q \in Nat /\ r \in 0 .. (Word - 1) /\ s = q * Word + r
  BY <1>6, WordFits, Split
<1> HIDE DEF q, r
<1>8. q <= Word - 2 /\ q <= Word - 1
  <2>1. Word >= 2
    BY <1>1, WordFits
  <2> QED
    BY <1>6, <1>7, <2>1, WordFits, ProductFits
<1>9. Fold(s) \in 0 .. (Word - 1) /\ Fold(s + Complement(Fold(s))) = Word - 1
  BY <1>6, <1>7, <1>8, FoldIsAWord, ChecksumSums
<1>10. Rewrite(p, ttl) = [p EXCEPT !.ttl = ttl, !.check = Complement(Fold(s))]
  BY DEF Rewrite, PacketType, s
<1>11. Complement(Fold(s)) \in 0 .. (Word - 1)
  BY <1>9, WordFits DEF Complement
<1>12. HeaderSum(Rewrite(p, ttl)) = s + Complement(Fold(s))
  BY <1>1, <1>3, <1>4, <1>10, <1>11, WordFits DEF HeaderSum, PacketType
<1> QED
  BY <1>2, <1>9, <1>10, <1>11, <1>12 DEF PacketType, ChecksumValid

-----------------------------------------------------------------------------
(* The socket                                                               *)

LEMMA InboxAppends ==
    ASSUME inbox \in Seq(DatagramType), NEW d \in DatagramType, inbox' = Append(inbox, d)
    PROVE  /\ inbox' \in Seq(DatagramType) /\ DOMAIN inbox' = 1 .. (Len(inbox) + 1)
           /\ DOMAIN inbox = 1 .. Len(inbox) /\ Len(inbox) \in Nat
           /\ \A k \in DOMAIN inbox : inbox'[k] = inbox[k]
           /\ inbox'[Len(inbox) + 1] = d
OBVIOUS

LEMMA InboxTails ==
    ASSUME inbox \in Seq(DatagramType), inbox # <<>>, inbox' = Tail(inbox)
    PROVE  /\ inbox' \in Seq(DatagramType) /\ DOMAIN inbox' = 1 .. (Len(inbox) - 1)
           /\ DOMAIN inbox = 1 .. Len(inbox) /\ Len(inbox) \in Nat \ {0}
           /\ \A k \in DOMAIN inbox' : inbox'[k] = inbox[k + 1]
           /\ Head(inbox) = inbox[1] /\ inbox[1] \in DatagramType
OBVIOUS

\* What a message of a packet does to the socket.
Extends(f) ==
    /\ inbox' \in Seq(DatagramType)
    /\ \A k \in DOMAIN inbox :
          /\ k \in DOMAIN inbox' /\ inbox'[k].stranger = inbox[k].stranger
          /\ \A j \in DOMAIN inbox[k].frames : /\ j \in DOMAIN inbox'[k].frames
                                             /\ inbox'[k].frames[j] = inbox[k].frames[j]
          /\ AllPackets(inbox[k]) => \A j \in DOMAIN inbox'[k].frames :
                 j \in DOMAIN inbox[k].frames \/ inbox'[k].frames[j] = f
          /\ ~AllPackets(inbox[k]) => inbox'[k] = inbox[k]
    /\ \A k \in DOMAIN inbox' : k \notin DOMAIN inbox => inbox'[k] = Datagram(f)
    /\ \E k \in DOMAIN inbox' : \E j \in DOMAIN inbox'[k].frames : inbox'[k].frames[j] = f

LEMMA DatagramFits ==
    ASSUME NEW f \in FrameType
    PROVE  /\ Datagram(f) \in DatagramType /\ ~Datagram(f).stranger
           /\ Datagram(f).frames = <<f>> /\ Len(Datagram(f).frames) = 1
           /\ DOMAIN Datagram(f).frames = {1} /\ Datagram(f).frames[1] = f
BY DEF Datagram, DatagramType

LEMMA DeliverExtends ==
    ASSUME inbox \in Seq(DatagramType), NEW f \in FrameType, Deliver(f)
    PROVE  Extends(f)
<1>1. CASE inbox' = Append(inbox, Datagram(f))
  <2> DEFINE d == Datagram(f)
  <2>1. /\ d \in DatagramType /\ DOMAIN d.frames = {1} /\ d.frames[1] = f
    BY DatagramFits
  <2>2. inbox' = Append(inbox, d)
    BY <1>1
  <2>3. /\ inbox' \in Seq(DatagramType) /\ DOMAIN inbox' = 1 .. (Len(inbox) + 1)
        /\ DOMAIN inbox = 1 .. Len(inbox) /\ Len(inbox) \in Nat
        /\ \A k \in DOMAIN inbox : inbox'[k] = inbox[k]
        /\ inbox'[Len(inbox) + 1] = d
    BY <2>1, <2>2, InboxAppends
  <2> HIDE DEF d
  <2>4. \A k \in DOMAIN inbox' : k \notin DOMAIN inbox => inbox'[k] = d
    BY <2>3
  <2>5. \E k \in DOMAIN inbox' : \E j \in DOMAIN inbox'[k].frames : inbox'[k].frames[j] = f
    <3>1. Len(inbox) + 1 \in DOMAIN inbox' /\ 1 \in DOMAIN inbox'[Len(inbox) + 1].frames
          /\ inbox'[Len(inbox) + 1].frames[1] = f
      BY <2>1, <2>3
    <3> QED
      BY <3>1
  <2>6. \A k \in DOMAIN inbox : k \in DOMAIN inbox' /\ inbox'[k] = inbox[k]
    BY <2>3
  <2> QED
    BY <2>3, <2>4, <2>5, <2>6 DEF Extends, d
<1>2. CASE /\ inbox # <<>> /\ AllPackets(inbox[Len(inbox)])
           /\ inbox' = [inbox EXCEPT ![Len(inbox)].frames = Append(@, f)]
  <2> DEFINE n == Len(inbox)
             d == inbox[n]
  <2>1. n \in Nat \ {0} /\ DOMAIN inbox = 1 .. n /\ d \in DatagramType
    BY <1>2
  <2>2. d.frames \in Seq(FrameType) /\ d.stranger \in BOOLEAN
    BY <2>1 DEF DatagramType
  <2>3. /\ Append(d.frames, f) \in Seq(FrameType)
        /\ DOMAIN Append(d.frames, f) = 1 .. (Len(d.frames) + 1)
        /\ DOMAIN d.frames = 1 .. Len(d.frames) /\ Len(d.frames) \in Nat
        /\ \A j \in DOMAIN d.frames : Append(d.frames, f)[j] = d.frames[j]
        /\ Append(d.frames, f)[Len(d.frames) + 1] = f
    BY <2>2
  <2>4. /\ DOMAIN inbox' = 1 .. n
        /\ \A k \in 1 .. n : k # n => inbox'[k] = inbox[k]
        /\ inbox'[n] = [d EXCEPT !.frames = Append(d.frames, f)]
    <3>1. inbox' = [inbox EXCEPT ![n] = [inbox[n] EXCEPT !.frames = Append(inbox[n].frames, f)]]
      BY <1>2
    <3> QED
      BY <2>1, <3>1
  <2>5. /\ inbox'[n].stranger = d.stranger /\ inbox'[n].frames = Append(d.frames, f)
        /\ inbox'[n] \in DatagramType
    BY <2>1, <2>2, <2>3, <2>4 DEF DatagramType
  <2>6. inbox' \in Seq(DatagramType)
    BY <1>2, <2>1, <2>4, <2>5
  <2> HIDE DEF n, d
  <2>7. n = Len(inbox) /\ d = inbox[n]
    BY DEF n, d
  <2>8. n \in DOMAIN inbox' /\ Len(d.frames) + 1 \in DOMAIN inbox'[n].frames
        /\ inbox'[n].frames[Len(d.frames) + 1] = f
    BY <2>1, <2>3, <2>4, <2>5
  <2>9. \A j \in DOMAIN inbox'[n].frames : j \in DOMAIN d.frames \/ inbox'[n].frames[j] = f
    BY <2>3, <2>5
  <2>10. AllPackets(d)
    BY <1>2, <2>7
  <2>11. \A k \in DOMAIN inbox' : k \in DOMAIN inbox
    BY <2>1, <2>4
  <2>12. \E k \in DOMAIN inbox' : \E j \in DOMAIN inbox'[k].frames : inbox'[k].frames[j] = f
    BY <2>8
  <2>13. ASSUME NEW k \in DOMAIN inbox
         PROVE  /\ k \in DOMAIN inbox' /\ inbox'[k].stranger = inbox[k].stranger
                /\ \A j \in DOMAIN inbox[k].frames : /\ j \in DOMAIN inbox'[k].frames
                                                   /\ inbox'[k].frames[j] = inbox[k].frames[j]
                /\ AllPackets(inbox[k]) => \A j \in DOMAIN inbox'[k].frames :
                       j \in DOMAIN inbox[k].frames \/ inbox'[k].frames[j] = f
                /\ ~AllPackets(inbox[k]) => inbox'[k] = inbox[k]
    <3>1. CASE k = n
      <4>1. inbox[k] = d /\ inbox'[k] = inbox'[n] /\ n \in DOMAIN inbox'
        BY <2>8, <2>7, <3>1
      <4>2. \A j \in DOMAIN d.frames : /\ j \in DOMAIN inbox'[n].frames
                                     /\ inbox'[n].frames[j] = d.frames[j]
        BY <2>3, <2>5
      <4> QED
        BY <2>5, <2>9, <2>10, <3>1, <4>1, <4>2
    <3>2. CASE k # n
      BY <2>1, <2>4, <3>2
    <3> QED
      BY <3>1, <3>2
  <2> QED
    BY <2>6, <2>11, <2>12, <2>13 DEF Extends
<1> QED
  BY <1>1, <1>2 DEF Deliver

-----------------------------------------------------------------------------
(* Type correctness                                                         *)

\* A frame of a packet names one that came; an answer is alone in its datagram
\* and is one to a request that was made.
Shape(d, ids, last) ==
    /\ d.stranger => d.frames = <<>>
    /\ \A j \in DOMAIN d.frames :
          IF d.frames[j].type = "packet" THEN d.frames[j].n \in ids
          ELSE Len(d.frames) = 1 /\ d.frames[j].n \in 0 .. last
Shaped == \A k \in DOMAIN inbox : Shape(inbox[k], DOMAIN fate, seq)
Batched == /\ \A j \in DOMAIN batch : batch[j].type = "packet" => batch[j].n \in DOMAIN fate
           /\ pc \notin {"frames", "send", "exit", "off"} => batch = <<>>
           /\ pc = "send" => tx.id \in DOMAIN fate /\ tx = Verdict(tx.id)
Requests == /\ pc \in {"begin", "arm", "check", "bind"} => seq = 0
            /\ pc = "params" => seq \in 1 .. 3
            /\ pc = "ack" => seq \in 1 .. 4
            /\ pc = "ack" /\ seq >= 2 => flags = Asked(seq)
Typed == TypeOK /\ Shaped /\ Batched /\ Requests

LEMMA AskedFlags == \A n : Asked(n) \subseteq Flags
BY DEF Asked, Flags

LEMMA FineKeeps == ASSUME LifeOK, Fine PROVE budget' \in Nat /\ faulted' \in BOOLEAN
BY DEF LifeOK, Fine
LEMMA SpendKeeps == ASSUME LifeOK, Spend PROVE budget' \in Nat
<1>1. budget \in Nat /\ budget > 0 /\ budget' = budget - 1
  BY DEF LifeOK, Spend
<1> QED
  BY <1>1
LEMMA FaultKeeps == ASSUME LifeOK, NEW kind, Fault(kind)
                    PROVE  budget' \in Nat /\ faulted' \in BOOLEAN
<1>1. Spend /\ faulted' = TRUE
  BY DEF Fault
<1> QED
  BY <1>1, SpendKeeps

LEMMA LifeNext ==
    ASSUME LifeOK, Requests, [Next]_vars
    PROVE  LifeOK' /\ Requests'
<1> USE DEF LifeOK, Requests, Control
<1>1. CASE UNCHANGED vars
  BY <1>1 DEF vars, sys, life, work
<1>2. CASE Begin
  BY <1>2 DEF Begin, Goto, Fine, sys, work
<1>3. CASE Arm
  <2>1. budget' \in Nat /\ faulted' \in BOOLEAN
    BY <1>3, FineKeeps, FaultKeeps DEF Arm
  <2>2. pc' \in {"check", "exit"} /\ kernel' = kernel /\ armed' \in BOOLEAN
    BY <1>3 DEF Arm, Goto
  <2>3. seq' = seq /\ (pc = "arm" => seq = 0)
    BY <1>3 DEF Arm, work
  <2> QED
    BY <1>3, <2>1, <2>2, <2>3 DEF Arm, sys, work
<1>4. CASE Check
  <2>1. budget' \in Nat /\ faulted' \in BOOLEAN
    BY <1>4, FineKeeps, FaultKeeps DEF Check
  <2>2. pc' \in {"bind", "exit"} /\ kernel' = kernel
    BY <1>4 DEF Check, Goto
  <2>3. seq' = seq /\ (pc = "check" => seq = 0)
    BY <1>4 DEF Check, work
  <2> QED
    BY <1>4, <2>1, <2>2, <2>3 DEF Check, sys, work, life
<1>5. CASE Bind
  <2>1. pc' = "ack" /\ seq' = 1 /\ flags' = flags /\ supports' = supports /\ parent' = parent
    BY <1>5 DEF Bind, sys
  <2>2. kernel' \in [bound : BOOLEAN, copying : BOOLEAN, flags : SUBSET Flags]
    BY <1>5 DEF Bind
  <2>4. budget' \in Nat /\ faulted' \in BOOLEAN
    BY <1>5, FineKeeps, FaultKeeps DEF Bind, Answered
  <2> QED
    BY <1>5, <2>1, <2>2, <2>4 DEF Bind, life
<1>6. CASE ConfigureParams
  <2>1. /\ pc = "params" /\ pc' = "ack" /\ seq' = seq + 1 /\ flags' = Asked(seq')
        /\ supports' = supports /\ parent' = parent
    BY <1>6 DEF ConfigureParams, sys
  <2>2. \/ kernel' = kernel
        \/ kernel' = [kernel EXCEPT !.copying = TRUE, !.flags = @ \cup Asked(seq')]
    BY <1>6 DEF ConfigureParams
  <2>3. budget' \in Nat /\ faulted' \in BOOLEAN
    BY <1>6, FineKeeps, FaultKeeps DEF ConfigureParams, Answered
  <2>4. flags' \subseteq Flags /\ seq' \in 2 .. 4
    BY <2>1, AskedFlags
  <2>5. kernel' \in [bound : BOOLEAN, copying : BOOLEAN, flags : SUBSET Flags]
    BY <2>2, AskedFlags
  <2> QED
    BY <1>6, <2>1, <2>3, <2>4, <2>5 DEF ConfigureParams, life
<1>7. CASE Ack
  <2>1. pc' \in {"params", "ready", "exit"} /\ seq' = seq /\ flags' = flags
        /\ (pc' = "params" => seq \in 1 .. 3)
    BY <1>7 DEF Ack, Acked, NotAcked, work
  <2>2. budget' \in Nat /\ faulted' \in BOOLEAN
    BY <1>7, FineKeeps, FaultKeeps DEF Ack
  <2> QED
    BY <1>7, <2>1, <2>2 DEF Ack, sys, life
<1>8. CASE Ready
  BY <1>8 DEF Ready, Goto, Fine, sys, work, life
<1>9. CASE Loop
  BY <1>9 DEF Loop, Goto, Fine, sys, work, life
<1>10. CASE Receive
  <2>1. pc' \in {"loop", "frames", "exit"}
    BY <1>10 DEF Receive
  <2>2. budget' \in Nat /\ faulted' \in BOOLEAN
    BY <1>10, FineKeeps, FaultKeeps DEF Receive
  <2> QED
    BY <1>10, <2>1, <2>2 DEF Receive, sys, life
<1>11. CASE Handle
  <2>1. pc' \in {"loop", "send", "exit"}
    BY <1>11 DEF Handle, Goto
  <2>2. kernel' = kernel
    BY <1>11 DEF Handle, Goto
  <2> QED
    BY <1>11, <2>1, <2>2 DEF Handle, Fine, sys, life
<1>12. CASE Send
  <2>1. pc' \in {"frames", "exit"} /\ kernel' = kernel
    BY <1>12 DEF Send, Goto
  <2>2. budget' \in Nat /\ faulted' \in BOOLEAN
    BY <1>12, FineKeeps, FaultKeeps DEF Send
  <2> QED
    BY <1>12, <2>1, <2>2 DEF Send, sys, life
<1>13. CASE Exit
  BY <1>13 DEF Exit, Fine, sys, work, life
<1>14. CASE Arrive
  BY <1>14 DEF Arrive, sys, work, life
<1>15. CASE DeviceDown
  BY <1>15, FaultKeeps DEF DeviceDown, sys, work, life
<1>16. CASE Stranger
  BY <1>16, FaultKeeps DEF Stranger, sys, work, life
<1>17. CASE Signal
  <2>1. budget' \in Nat
    BY <1>17, SpendKeeps DEF Signal
  <2>2. pc' = "exit" \/ pc' = pc
    BY <1>17 DEF Signal
  <2>3. stop' \in BOOLEAN
    BY <1>17 DEF Signal
  <2>4. UNCHANGED <<sys, kernel, spawned, armed, work, ready, faulted>>
    BY <1>17 DEF Signal
  <2> QED
    BY <2>1, <2>2, <2>3, <2>4 DEF sys, work
<1>18. CASE ParentDies
  <2>1. budget' \in Nat
    BY <1>18, SpendKeeps DEF ParentDies
  <2>2. stop' \in BOOLEAN
    BY <1>18 DEF ParentDies
  <2>3. parent' \in BOOLEAN
    BY <1>18 DEF ParentDies
  <2>4. UNCHANGED <<flow, supports, kernel, pc, spawned, armed, work, ready, faulted>>
    BY <1>18 DEF ParentDies
  <2> QED
    BY <2>1, <2>2, <2>3, <2>4 DEF work
<1> QED
  BY <1>1, <1>2, <1>3, <1>4, <1>5, <1>6, <1>7, <1>8, <1>9, <1>10, <1>11, <1>12, <1>13, <1>14,
     <1>15, <1>16, <1>17, <1>18 DEF Next, Worker, Environment

LEMMA FlowData ==
    ASSUME NetOK
    PROVE  /\ DOMAIN flow = 1 .. Len(flow) /\ DOMAIN fate = 1 .. Len(fate)
           /\ Len(flow) \in Nat /\ Len(fate) \in Nat /\ Len(fate) <= Len(flow)
           /\ \A i \in DOMAIN flow : flow[i].data \in PacketType
<1>1. flow \in Seq([forwarded : BOOLEAN, data : PacketType])
  BY NfqueueAssumption DEF NetOK
<1>2. \A i \in DOMAIN flow : flow[i] \in [forwarded : BOOLEAN, data : PacketType]
  <2>1. ASSUME NEW S, NEW q \in Seq(S), NEW i \in DOMAIN q PROVE q[i] \in S
    OBVIOUS
  <2> QED
    BY <1>1, <2>1
<1> QED
  BY <1>1, <1>2 DEF NetOK

\* The verdict of a packet: what goes back is what came, or it rewritten.
LEMMA VerdictRight ==
    ASSUME NetOK, NEW i \in DOMAIN fate
    PROVE  /\ Verdict(i) \in [id : Nat, data : PacketType] /\ Verdict(i).id = i
           /\ Verdict(i).data # flow[i].data =>
                 /\ flow[i].forwarded /\ ChecksumValid(Verdict(i).data)
                 /\ Verdict(i).data = [flow[i].data EXCEPT !.ttl = TtlConf,
                                                        !.check = Verdict(i).data.check]
<1> DEFINE a == flow[i]
<1>1. i \in Nat /\ a.data \in PacketType /\ TtlConf \in 1 .. (Byte - 1)
  <2>1. i \in Nat /\ i \in DOMAIN flow
    BY FlowData
  <2> QED
    BY <2>1, FlowData, NfqueueAssumption
<1>2. CASE a.forwarded /\ Copy(a) = a.data /\ Rewritable(Copy(a), TtlConf)
  <2>1. Verdict(i) = [id |-> i, data |-> Rewrite(a.data, TtlConf)]
    BY <1>2 DEF Verdict
  <2>2. /\ Rewrite(a.data, TtlConf) \in PacketType /\ ChecksumValid(Rewrite(a.data, TtlConf))
        /\ Rewrite(a.data, TtlConf)
              = [a.data EXCEPT !.ttl = TtlConf, !.check = Rewrite(a.data, TtlConf).check]
    BY <1>1, RewriteRight
  <2> QED
    BY <1>1, <1>2, <2>1, <2>2
<1>3. CASE ~(a.forwarded /\ Copy(a) = a.data /\ Rewritable(Copy(a), TtlConf))
  <2>1. Verdict(i) = [id |-> i, data |-> a.data]
    BY <1>3 DEF Verdict
  <2> QED
    BY <1>1, <2>1
<1> QED
  BY <1>2, <1>3

LEMMA NetNext ==
    ASSUME Typed, [Next]_vars
    PROVE  NetOK' /\ DOMAIN fate \subseteq DOMAIN fate' /\ flow' = flow
<1> SUFFICES ASSUME NetOK, Batched PROVE NetOK' /\ DOMAIN fate \subseteq DOMAIN fate' /\ flow' = flow
  BY DEF Typed, TypeOK
<1>1. flow' = flow
  BY DEF Next, Worker, Environment, vars, sys, Begin, Arm, Check, Bind, ConfigureParams, Ack, Ready,
     Loop, Receive, Handle, Send, Exit, Arrive, DeviceDown, Stranger, Signal, ParentDies
<1>2. CASE UNCHANGED net
  BY <1>1, <1>2 DEF NetOK, net
<1>3. CASE Exit
  <2>1. /\ fate' = [i \in DOMAIN fate |-> IF fate[i] = "waiting" THEN "flushed" ELSE fate[i]]
        /\ out' = out
    BY <1>3 DEF Exit
  <2>2. fate' \in Seq(Fates) /\ Len(fate') = Len(fate) /\ DOMAIN fate' = DOMAIN fate
    <3>1. DOMAIN fate' = 1 .. Len(fate) /\ Len(fate) \in Nat
      BY <2>1 DEF NetOK
    <3>2. \A i \in 1 .. Len(fate) : fate'[i] \in Fates
      BY <2>1 DEF NetOK, Fates
    <3>3. fate' = [i \in 1 .. Len(fate) |-> fate'[i]]
      BY <2>1, <3>1
    <3> HIDE DEF Fates
    <3> QED
      BY <3>1, <3>2, <3>3
  <2> QED
    BY <1>1, <2>1, <2>2 DEF NetOK
<1>4. CASE Send
  <2>1. CASE tx.id \in Waiting /\ fate' = [fate EXCEPT ![tx.id] = "accepted"]
             /\ out' = [out EXCEPT ![tx.id] = tx.data]
    <3>1. pc = "send" /\ tx.id \in DOMAIN fate /\ tx = Verdict(tx.id)
      BY <1>4, <2>1 DEF Send, Batched
    <3>2. tx.data \in PacketType
      BY <3>1, VerdictRight
    <3> DEFINE i == tx.id
    <3> HIDE DEF i
    <3>3. /\ fate' = [fate EXCEPT ![i] = "accepted"] /\ out' = [out EXCEPT ![i] = tx.data]
          /\ i \in DOMAIN fate
      BY <2>1, <3>1 DEF i
    <3>4. fate' \in Seq(Fates) /\ Len(fate') = Len(fate) /\ DOMAIN fate' = DOMAIN fate
      BY <3>3 DEF NetOK, Fates
    <3>5. out' \in Seq(PacketType) /\ Len(out') = Len(out)
      BY <3>2, <3>3 DEF NetOK
    <3> QED
      BY <1>1, <3>4, <3>5 DEF NetOK
  <2>2. CASE UNCHANGED net
    BY <1>2, <2>2
  <2> QED
    BY <1>4, <2>1, <2>2 DEF Send, Goto
<1>5. CASE Arrive
  <2>1. /\ Len(fate) < Len(flow) /\ out' = Append(out, flow[Len(fate) + 1].data)
        /\ \E f \in Fates : fate' = Append(fate, f)
    BY <1>5 DEF Arrive, Fates, Unqueued
  <2>2. Len(fate) + 1 \in DOMAIN flow /\ flow[Len(fate) + 1].data \in PacketType
    BY <2>1, FlowData
  <2>3. /\ fate' \in Seq(Fates) /\ Len(fate') = Len(fate) + 1 /\ DOMAIN fate \subseteq DOMAIN fate'
        /\ out' \in Seq(PacketType) /\ Len(out') = Len(out) + 1
    BY <2>1, <2>2 DEF NetOK
  <2>4. Len(fate') <= Len(flow') /\ Len(out') = Len(fate')
    <3>1. Len(fate) \in Nat /\ Len(flow) \in Nat
      BY NfqueueAssumption DEF NetOK
    <3> QED
      BY <1>1, <2>1, <2>3, <3>1 DEF NetOK
  <2> QED
    BY <1>1, <2>3, <2>4 DEF NetOK
<1>6. CASE DeviceDown
  <2>1. PICK i \in Waiting : fate' = [fate EXCEPT ![i] = "dropped"]
    BY <1>6 DEF DeviceDown
  <2>2. fate' \in Seq(Fates) /\ Len(fate') = Len(fate) /\ DOMAIN fate' = DOMAIN fate
    BY <2>1 DEF NetOK, Fates, Waiting
  <2> QED
    BY <1>1, <1>6, <2>2 DEF NetOK, DeviceDown
<1> QED
  BY <1>2, <1>3, <1>4, <1>5, <1>6 DEF Next, Worker, Environment, vars, net, Goto, Begin, Arm, Check,
     Bind, ConfigureParams, Ack, Ready, Loop, Receive, Handle, Stranger, Signal, ParentDies

LEMMA ShapeStays ==
    ASSUME NEW d, NEW a, NEW b, NEW m \in Nat, NEW n \in Nat, a \subseteq b, m <= n, Shape(d, a, m)
    PROVE  Shape(d, b, n)
BY DEF Shape

LEMMA ShapedNext ==
    ASSUME Typed, [Next]_vars
    PROVE  inbox' \in Seq(DatagramType) /\ Shaped'
<1> SUFFICES ASSUME inbox \in Seq(DatagramType), Shaped PROVE inbox' \in Seq(DatagramType) /\ Shaped'
  BY DEF Typed, TypeOK, SocketOK
<1> DEFINE ids == DOMAIN fate
           ids2 == DOMAIN fate'
<1>1. ids \subseteq ids2
  BY NetNext
<1>2. seq \in Nat /\ seq' \in Nat /\ seq <= seq'
  <2>1. seq \in 0 .. 4 /\ seq' \in 0 .. 4
    BY LifeNext DEF Typed, TypeOK, LifeOK
  <2>2. seq' = seq \/ Bind \/ ConfigureParams
    BY DEF Next, Worker, Environment, vars, work, Begin, Arm, Check, Ack, Ready, Loop, Receive,
       Handle, Send, Exit, Arrive, DeviceDown, Stranger, Signal, ParentDies
  <2>3. Bind => seq = 0
    BY DEF Bind, Typed, Requests
  <2>4. ConfigureParams => seq' = seq + 1
    BY DEF ConfigureParams
  <2> QED
    BY <2>1, <2>2, <2>3, <2>4
<1>3. \A k \in DOMAIN inbox : Shape(inbox[k], ids2, seq')
  BY <1>1, <1>2, ShapeStays DEF Shaped
<1> HIDE DEF ids, ids2
<1>4. Shaped' <=> \A k \in DOMAIN inbox' : Shape(inbox'[k], ids2, seq')
  BY DEF Shaped, ids2
<1>5. CASE inbox' = inbox
  BY <1>3, <1>4, <1>5
<1>6. CASE inbox # <<>> /\ inbox' = Tail(inbox)
  <2>1. /\ inbox' \in Seq(DatagramType) /\ DOMAIN inbox' = 1 .. (Len(inbox) - 1)
        /\ DOMAIN inbox = 1 .. Len(inbox) /\ Len(inbox) \in Nat \ {0}
        /\ \A k \in DOMAIN inbox' : inbox'[k] = inbox[k + 1]
    BY <1>6, InboxTails
  <2>2. \A k \in DOMAIN inbox' : k + 1 \in DOMAIN inbox
    BY <2>1
  <2> QED
    BY <1>3, <1>4, <2>1, <2>2
<1>7. ASSUME NEW d \in DatagramType, Shape(d, ids2, seq'), inbox' = Append(inbox, d)
      PROVE  inbox' \in Seq(DatagramType) /\ Shaped'
  <2>1. /\ inbox' \in Seq(DatagramType) /\ DOMAIN inbox' = 1 .. (Len(inbox) + 1)
        /\ DOMAIN inbox = 1 .. Len(inbox) /\ Len(inbox) \in Nat
        /\ \A k \in DOMAIN inbox : inbox'[k] = inbox[k]
        /\ inbox'[Len(inbox) + 1] = d
    BY <1>7, InboxAppends
  <2>2. \A k \in DOMAIN inbox' : k \in DOMAIN inbox \/ inbox'[k] = d
    BY <2>1
  <2> QED
    BY <1>3, <1>4, <1>7, <2>1, <2>2
<1>8. ASSUME NEW type \in {"ack", "error"}, NEW n \in 0 .. seq', inbox' = Append(inbox, Datagram(Frame(type, n)))
      PROVE  inbox' \in Seq(DatagramType) /\ Shaped'
  <2> DEFINE f == Frame(type, n)
  <2>1. f \in FrameType /\ f.type # "packet" /\ f.n = n
    BY <1>2 DEF Frame, FrameType
  <2> HIDE DEF f
  <2>2. Shape(Datagram(f), ids2, seq') /\ Datagram(f) \in DatagramType
    BY <2>1, DatagramFits DEF Shape
  <2> QED
    BY <1>7, <1>8, <2>2 DEF f
<1>9. CASE Bind
  <2>1. seq' = 1
    BY <1>9 DEF Bind
  <2> QED
    BY <1>5, <1>8, <1>9, <2>1 DEF Bind, Answered
<1>10. CASE ConfigureParams
  <2>1. seq' \in 0 .. seq'
    BY <1>2
  <2> QED
    BY <1>5, <1>8, <1>10, <2>1 DEF ConfigureParams, Answered
<1>11. CASE Ack
  BY <1>5, <1>6, <1>11 DEF Ack, socket
<1>12. CASE Receive
  BY <1>5, <1>6, <1>12 DEF Receive, socket
<1>13. CASE Send
  <2>1. 0 \in 0 .. seq'
    BY <1>2
  <2> QED
    BY <1>5, <1>8, <1>13, <2>1 DEF Send, socket, Goto
<1>14. CASE Exit
  <2>1. inbox' = <<>>
    BY <1>14 DEF Exit
  <2> QED
    BY <1>4, <2>1
<1>15. CASE Stranger
  <2> DEFINE d == [stranger |-> TRUE, frames |-> <<>>]
  <2>1. inbox' = Append(inbox, d)
    BY <1>15 DEF Stranger
  <2>2. d \in DatagramType /\ Shape(d, ids2, seq')
    BY DEF DatagramType, Shape
  <2> QED
    BY <1>7, <2>1, <2>2
<1>16. CASE Arrive
  <2>1. CASE inbox' = inbox
    BY <1>5, <2>1
  <2> DEFINE f == Frame("packet", Len(fate) + 1)
  <2>2. CASE Deliver(f) /\ fate' = Append(fate, "waiting")
    <3>1. f \in FrameType /\ f.type = "packet" /\ f.n \in ids2
      <4>1. Len(fate) \in Nat /\ fate \in Seq(Fates)
        BY DEF Typed, TypeOK, NetOK
      <4>2. DOMAIN fate' = 1 .. (Len(fate) + 1)
        BY <2>2, <4>1
      <4> QED
        BY <4>1, <4>2 DEF Frame, FrameType, ids2
    <3> HIDE DEF f
    <3>2. Extends(f)
      BY <2>2, <3>1, DeliverExtends
    <3>3. ASSUME NEW k \in DOMAIN inbox'
          PROVE  Shape(inbox'[k], ids2, seq')
      <4>1. CASE k \notin DOMAIN inbox
        <5>1. inbox'[k] = Datagram(f)
          BY <3>2, <4>1 DEF Extends
        <5> QED
          BY <3>1, <5>1, DatagramFits DEF Shape
      <4>2. CASE k \in DOMAIN inbox /\ ~AllPackets(inbox[k])
        BY <1>3, <3>2, <4>2 DEF Extends
      <4>3. CASE k \in DOMAIN inbox /\ AllPackets(inbox[k])
        <5>1. ~inbox'[k].stranger
          BY <3>2, <4>3 DEF Extends, AllPackets
        <5>2. ASSUME NEW j \in DOMAIN inbox'[k].frames
              PROVE  inbox'[k].frames[j].type = "packet" /\ inbox'[k].frames[j].n \in ids2
          <6>1. CASE inbox'[k].frames[j] = f
            BY <3>1, <6>1
          <6>2. CASE j \in DOMAIN inbox[k].frames
            BY <1>3, <3>2, <4>3, <6>2 DEF Extends, AllPackets, Shape
          <6> QED
            BY <3>2, <4>3, <6>1, <6>2 DEF Extends
        <5> QED
          BY <5>1, <5>2 DEF Shape
      <4> QED
        BY <4>1, <4>2, <4>3
    <3> QED
      BY <1>4, <3>2, <3>3 DEF Extends
  <2> QED
    BY <1>16, <2>1, <2>2 DEF Arrive
<1> QED
  BY <1>5, <1>9, <1>10, <1>11, <1>12, <1>13, <1>14, <1>15, <1>16 DEF Next, Worker, Environment, vars,
     socket, Goto, Begin, Arm, Check, Ready, Loop, Handle, DeviceDown, Signal, ParentDies

LEMMA BatchedNext ==
    ASSUME Typed, [Next]_vars
    PROVE  /\ batch' \in Seq(FrameType) /\ (tx' = NoVerdict \/ tx' \in [id : Nat, data : PacketType])
           /\ Batched'
<1> DEFINE TxOK == tx = NoVerdict \/ tx \in [id : Nat, data : PacketType]
           Named == \A j \in DOMAIN batch : batch[j].type = "packet" => batch[j].n \in DOMAIN fate
<1>1. /\ batch \in Seq(FrameType) /\ TxOK /\ Batched /\ NetOK /\ Shaped
      /\ inbox \in Seq(DatagramType) /\ Named /\ DOMAIN fate \subseteq DOMAIN fate' /\ flow' = flow
  BY NetNext DEF Typed, TypeOK, SocketOK, Batched
<1>2. \A i : Verdict(i)' = Verdict(i)
  BY <1>1 DEF Verdict
<1>3. CASE UNCHANGED <<batch, tx, pc>>
  BY <1>1, <1>2, <1>3 DEF Batched
<1>4. CASE UNCHANGED <<batch, tx>> /\ pc' # "send" /\ (pc \in {"frames", "send", "exit", "off"} => pc' \in {"exit", "off"})
  BY <1>1, <1>4 DEF Batched
<1>5. CASE Receive
  <2>1. UNCHANGED tx
    BY <1>5 DEF Receive
  <2>2. CASE UNCHANGED batch /\ pc' \in {"loop", "exit"}
    <3>1. pc = "poll"
      BY <1>5 DEF Receive
    <3> QED
      BY <1>1, <2>1, <2>2, <3>1 DEF Batched
  <2>3. CASE inbox # <<>> /\ batch' = Head(inbox).frames /\ pc' = "frames"
    <3>1. Head(inbox) = inbox[1] /\ 1 \in DOMAIN inbox /\ inbox[1] \in DatagramType
      BY <1>1, <2>3
    <3>2. Shape(inbox[1], DOMAIN fate, seq) /\ batch' = inbox[1].frames /\ batch' \in Seq(FrameType)
      BY <1>1, <2>3, <3>1 DEF Shaped, DatagramType
    <3> QED
      BY <1>1, <2>1, <2>3, <3>2 DEF Batched, Shape
  <2> QED
    BY <1>5, <2>2, <2>3 DEF Receive
<1>6. CASE Handle
  <2>1. pc = "frames"
    BY <1>6 DEF Handle
  <2>2. CASE UNCHANGED <<batch, tx>> /\ pc' = "loop" /\ batch = <<>>
    BY <1>1, <2>2 DEF Batched
  <2>3. CASE UNCHANGED <<batch, tx>> /\ pc' = "exit"
    BY <1>1, <2>3 DEF Batched
  <2>4. CASE batch # <<>> /\ Head(batch).type = "packet" /\ tx' = Verdict(Head(batch).n)
             /\ batch' = Tail(batch) /\ pc' = "send"
    <3> DEFINE i == Head(batch).n
    <3>1. i \in DOMAIN fate /\ Verdict(i) \in [id : Nat, data : PacketType] /\ Verdict(i).id = i
      <4>1. Head(batch) = batch[1] /\ 1 \in DOMAIN batch
        BY <1>1, <2>4
      <4> QED
        BY <1>1, <2>4, <4>1, VerdictRight
    <3>2. /\ batch' \in Seq(FrameType) /\ DOMAIN batch' = 1 .. (Len(batch) - 1)
          /\ DOMAIN batch = 1 .. Len(batch) /\ Len(batch) \in Nat
          /\ \A j \in DOMAIN batch' : batch'[j] = batch[j + 1]
      BY <1>1, <2>4
    <3>3. \A j \in DOMAIN batch' : j + 1 \in DOMAIN batch
      BY <3>2
    <3>4. tx' = Verdict(i)
      BY <2>4
    <3> HIDE DEF i
    <3>5. tx'.id = i /\ tx' = Verdict(tx'.id) /\ tx'.id \in DOMAIN fate'
      BY <1>1, <3>1, <3>4
    <3> QED
      BY <1>1, <1>2, <2>4, <3>1, <3>2, <3>3, <3>4, <3>5 DEF Batched
  <2> QED
    BY <1>6, <2>2, <2>3, <2>4 DEF Handle, Goto
<1>7. CASE Send
  <2>1. batch' = batch /\ tx' = NoVerdict /\ pc' \in {"frames", "exit"}
    BY <1>7 DEF Send, Goto
  <2> QED
    BY <1>1, <2>1 DEF Batched
<1>8. CASE Bind
  <2>1. UNCHANGED <<batch, tx>> /\ pc = "bind" /\ pc' = "ack"
    BY <1>8 DEF Bind
  <2> QED
    BY <1>4, <2>1
<1>9. CASE Ack
  <2>1. UNCHANGED <<batch, tx>> /\ pc = "ack" /\ pc' \in {"params", "ready", "exit"}
    BY <1>9 DEF Ack, work, Acked, NotAcked
  <2> QED
    BY <1>4, <2>1
<1>10. CASE Signal
  <2>1. UNCHANGED <<batch, tx>> /\ (pc' = pc \/ pc' = "exit")
    BY <1>10 DEF Signal, work
  <2> QED
    BY <1>3, <1>4, <2>1
<1>11. CASE Begin \/ Arm \/ Check \/ ConfigureParams \/ Ready \/ Loop \/ Exit
  BY <1>4, <1>11 DEF Begin, Arm, Check, ConfigureParams, Ready, Loop, Exit, Goto, work
<1>12. CASE Arrive \/ DeviceDown \/ Stranger \/ ParentDies \/ UNCHANGED vars
  BY <1>3, <1>12 DEF Arrive, DeviceDown, Stranger, ParentDies, work, vars
<1> QED
  BY <1>5, <1>6, <1>7, <1>8, <1>9, <1>10, <1>11, <1>12 DEF Next, Worker, Environment

LEMMA TypedInit == Init => Typed
<1> SUFFICES ASSUME Init PROVE Typed
  OBVIOUS
<1>1. NetOK
  BY NfqueueAssumption DEF Init, NetOK
<1>2. SocketOK /\ Shaped /\ Batched
  <2>1. inbox = <<>> /\ batch = <<>> /\ tx = NoVerdict /\ pc = "begin" /\ overrun = FALSE
    BY DEF Init
  <2>2. inbox \in Seq(DatagramType) /\ batch \in Seq(FrameType) /\ overrun \in BOOLEAN
    <3>1. ASSUME NEW S PROVE <<>> \in Seq(S)
      OBVIOUS
    <3> QED
      BY <2>1, <3>1
  <2>3. \A k \in DOMAIN <<>> : FALSE
    OBVIOUS
  <2>4. Shaped /\ Batched
    BY <2>1, <2>3 DEF Shaped, Batched
  <2> QED
    BY <2>1, <2>2, <2>4 DEF SocketOK
<1>3. LifeOK /\ Requests
  <2>1. budget \in Nat /\ supports \subseteq Flags
    BY NfqueueAssumption DEF Init
  <2>2. kernel \in [bound : BOOLEAN, copying : BOOLEAN, flags : SUBSET Flags]
    BY DEF Init
  <2>3. /\ parent \in BOOLEAN /\ spawned \in BOOLEAN /\ armed \in BOOLEAN /\ stop \in BOOLEAN
        /\ ready \in BOOLEAN /\ faulted \in BOOLEAN
    BY DEF Init
  <2>4. pc = "begin" /\ seq = 0 /\ flags = {}
    BY DEF Init
  <2> QED
    BY <2>1, <2>2, <2>3, <2>4 DEF LifeOK, Requests, Control
<1> QED
  BY <1>1, <1>2, <1>3 DEF Typed, TypeOK

LEMMA TypedNext == Typed /\ [Next]_vars => Typed'
<1> SUFFICES ASSUME Typed, [Next]_vars PROVE Typed'
  OBVIOUS
<1>1. overrun' \in BOOLEAN
  <2>1. overrun \in BOOLEAN
    BY DEF Typed, TypeOK, SocketOK
  <2>2. CASE Arrive
    <3>1. overrun' = overrun \/ overrun' = (overrun \/ (kernel.copying /\ Cardinality(Waiting) < Maxlen))
      BY <2>2 DEF Arrive
    <3> QED
      BY <2>1, <3>1
  <2>3. CASE ~Arrive
    <3>1. overrun' = overrun \/ overrun' = TRUE \/ overrun' = FALSE
      BY <2>3 DEF Next, Worker, Environment, vars, socket, Goto, Begin, Arm, Check, Bind, ConfigureParams,
         Answered, Ack, Ready, Loop, Receive, Handle, Send, Exit, DeviceDown, Stranger, Signal, ParentDies
    <3> QED
      BY <2>1, <3>1
  <2> QED
    BY <2>2, <2>3
<1> QED
  BY <1>1, LifeNext, NetNext, ShapedNext, BatchedNext DEF Typed, TypeOK, SocketOK

\* Every variable has its type.
THEOREM TypeCorrect == Spec => []TypeOK
<1>1. Spec => []Typed
  BY TypedInit, TypedNext, PTL DEF Spec
<1>2. Typed => TypeOK
  BY DEF Typed
<1> QED
  BY <1>1, <1>2, PTL

-----------------------------------------------------------------------------
(* Packets                                                                  *)

Right(i, x) ==
    /\ flow[i].forwarded /\ ChecksumValid(x)
    /\ x = [flow[i].data EXCEPT !.ttl = TtlConf, !.check = x.check]
\* What a packet becomes is decided when its verdict is taken.
Undamaged == \A i \in DOMAIN fate :
                out[i] = flow[i].data \/ (fate[i] = "accepted" /\ Right(i, out[i]))

LEMMA UndamagedNext == Typed /\ Undamaged /\ [Next]_vars => Undamaged'
<1> SUFFICES ASSUME Typed, Undamaged, [Next]_vars PROVE Undamaged'
  OBVIOUS
<1>1. /\ NetOK /\ Batched /\ flow' = flow /\ DOMAIN fate = 1 .. Len(fate) /\ Len(fate) \in Nat
      /\ DOMAIN out = DOMAIN fate /\ fate \in Seq(Fates) /\ out \in Seq(PacketType)
  BY NetNext, FlowData DEF Typed, TypeOK, NetOK
<1>2. \A i, x : Right(i, x)' <=> Right(i, x)
  BY <1>1 DEF Right
<1>3. CASE UNCHANGED net
  BY <1>1, <1>2, <1>3 DEF Undamaged, net, Right
<1>4. CASE Exit
  <2>1. /\ fate' = [i \in DOMAIN fate |-> IF fate[i] = "waiting" THEN "flushed" ELSE fate[i]]
        /\ out' = out
    BY <1>4 DEF Exit
  <2>2. \A i \in DOMAIN fate : fate[i] = "accepted" => fate'[i] = "accepted"
    BY <2>1
  <2> QED
    BY <1>1, <2>1, <2>2 DEF Undamaged, Right
<1>5. CASE Send
  <2>1. CASE tx.id \in Waiting /\ fate' = [fate EXCEPT ![tx.id] = "accepted"]
             /\ out' = [out EXCEPT ![tx.id] = tx.data]
    <3> DEFINE i == tx.id
               x == tx.data
    <3>1. i \in DOMAIN fate /\ x = Verdict(i).data
      BY <1>1, <1>5 DEF Send, Batched
    <3>2. x = flow[i].data \/ Right(i, x)
      BY <1>1, <3>1, VerdictRight DEF Right
    <3> HIDE DEF i, x
    <3>3. fate' = [fate EXCEPT ![i] = "accepted"] /\ out' = [out EXCEPT ![i] = x]
      BY <2>1 DEF i, x
    <3>4. /\ DOMAIN fate' = DOMAIN fate /\ fate'[i] = "accepted" /\ out'[i] = x
          /\ \A k \in DOMAIN fate : k # i => fate'[k] = fate[k] /\ out'[k] = out[k]
      BY <1>1, <3>1, <3>3
    <3>5. ASSUME NEW k \in DOMAIN fate'
          PROVE  out'[k] = flow'[k].data \/ (fate'[k] = "accepted" /\ Right(k, out'[k]))
      <4>1. CASE k = i
        BY <1>1, <3>2, <3>4, <4>1
      <4>2. CASE k # i
        BY <1>1, <3>4, <4>2 DEF Undamaged
      <4> QED
        BY <4>1, <4>2
    <3> QED
      BY <1>1, <3>5 DEF Undamaged, Right
  <2>2. CASE UNCHANGED net
    BY <1>3, <2>2
  <2> QED
    BY <1>5, <2>1, <2>2 DEF Send, Goto
<1>6. CASE Arrive
  <2>1. PICK f : fate' = Append(fate, f)
    BY <1>6 DEF Arrive
  <2>2. out' = Append(out, flow[Len(fate) + 1].data)
    BY <1>6 DEF Arrive
  <2>3. Len(out) = Len(fate)
    BY DEF Typed, TypeOK, NetOK
  <2>4. /\ DOMAIN fate' = 1 .. (Len(fate) + 1)
        /\ \A k \in DOMAIN fate : fate'[k] = fate[k] /\ out'[k] = out[k]
        /\ out'[Len(fate) + 1] = flow[Len(fate) + 1].data
    BY <1>1, <2>1, <2>2, <2>3
  <2>5. ASSUME NEW k \in DOMAIN fate'
        PROVE  out'[k] = flow'[k].data \/ (fate'[k] = "accepted" /\ Right(k, out'[k]))
    <3>1. CASE k = Len(fate) + 1
      BY <1>1, <2>4, <3>1
    <3>2. CASE k # Len(fate) + 1
      <4>1. k \in DOMAIN fate
        BY <1>1, <2>4, <3>2
      <4> QED
        BY <1>1, <2>4, <4>1 DEF Undamaged
    <3> QED
      BY <3>1, <3>2
  <2> QED
    BY <1>1, <2>5 DEF Undamaged, Right
<1>7. CASE DeviceDown
  <2>1. PICK i \in Waiting : fate' = [fate EXCEPT ![i] = "dropped"]
    BY <1>7 DEF DeviceDown
  <2>2. /\ DOMAIN fate' = DOMAIN fate /\ out' = out
        /\ \A k \in DOMAIN fate : fate[k] = "accepted" => fate'[k] = "accepted"
    BY <1>1, <1>7, <2>1 DEF DeviceDown, Waiting
  <2> QED
    BY <1>1, <2>2 DEF Undamaged, Right
<1> QED
  BY <1>3, <1>4, <1>5, <1>6, <1>7 DEF Next, Worker, Environment, vars, net, Goto, Begin, Arm, Check,
     Bind, ConfigureParams, Ack, Ready, Loop, Receive, Handle, Stranger, Signal, ParentDies

\* A packet that does not leave as it came is a whole forwarded packet with the
\* configured TTL and a right checksum (packet.rs:1, nfqueue.rs:204).
THEOREM PacketsWhole == Spec => []NeverDamaged
<1>1. Init => Undamaged
  <2>1. \A k \in DOMAIN <<>> : FALSE
    OBVIOUS
  <2> QED
    BY <2>1 DEF Init, Undamaged
<1>2. Spec => [](Typed /\ Undamaged)
  BY <1>1, TypedInit, TypedNext, UndamagedNext, PTL DEF Spec
<1>3. Undamaged => NeverDamaged
  BY DEF Undamaged, NeverDamaged, Right
<1> QED
  BY <1>2, <1>3, PTL

-----------------------------------------------------------------------------
(* READY                                                                    *)

\* An answer tells what the queue is now, for the queue only gains flags.
Confirmed(f, q) == f.type = "ack" /\ f.n >= 1 =>
                      q.bound /\ (f.n >= 2 => q.copying /\ Asked(f.n) \subseteq q.flags)
Confirming == \A k \in DOMAIN inbox : \A j \in DOMAIN inbox[k].frames : Confirmed(inbox[k].frames[j], kernel)
Configured ==
    /\ pc = "params" \/ (pc = "ack" /\ seq >= 2) => kernel.bound
    /\ Serving => kernel.bound /\ kernel.copying /\ flags \subseteq kernel.flags
Honest == Confirming /\ Configured

LEMMA HonestNext == Typed /\ Honest /\ [Next]_vars => Honest'
<1> SUFFICES ASSUME Typed, Honest, [Next]_vars PROVE Honest'
  OBVIOUS
<1>1. /\ inbox \in Seq(DatagramType) /\ seq \in 0 .. 4 /\ Requests
      /\ kernel \in [bound : BOOLEAN, copying : BOOLEAN, flags : SUBSET Flags]
  BY DEF Typed, TypeOK, SocketOK, LifeOK
<1> DEFINE Gains == /\ kernel.bound => kernel'.bound
                    /\ kernel.copying => kernel'.copying
                    /\ kernel.flags \subseteq kernel'.flags
<1>2. ASSUME Gains, NEW f, Confirmed(f, kernel)
      PROVE  Confirmed(f, kernel')
  BY <1>2 DEF Confirmed
<1>3. CASE Exit
  <2>1. inbox' = <<>> /\ pc' = "off"
    BY <1>3 DEF Exit
  <2>2. \A k \in DOMAIN <<>> : FALSE
    OBVIOUS
  <2> QED
    BY <2>1, <2>2 DEF Honest, Confirming, Configured, Serving
<1>4. ASSUME ~Exit PROVE Gains
  BY <1>1, <1>4 DEF Next, Worker, Environment, vars, Goto, Begin, Arm, Check, Bind, ConfigureParams, Ack,
     Ready, Loop, Receive, Handle, Send, Arrive, DeviceDown, Stranger, Signal, ParentDies
<1> HIDE DEF Gains
<1>5. ASSUME Gains, inbox' = inbox \/ (inbox # <<>> /\ inbox' = Tail(inbox))
      PROVE  Confirming'
  <2>1. CASE inbox' = inbox
    BY <1>2, <1>5, <2>1 DEF Honest, Confirming
  <2>2. CASE inbox # <<>> /\ inbox' = Tail(inbox)
    <3>1. /\ DOMAIN inbox' = 1 .. (Len(inbox) - 1) /\ DOMAIN inbox = 1 .. Len(inbox)
          /\ Len(inbox) \in Nat /\ \A k \in DOMAIN inbox' : inbox'[k] = inbox[k + 1]
      BY <1>1, <2>2, InboxTails
    <3>2. \A k \in DOMAIN inbox' : k + 1 \in DOMAIN inbox
      BY <3>1
    <3> QED
      BY <1>2, <1>5, <3>1, <3>2 DEF Honest, Confirming
  <2> QED
    BY <1>5, <2>1, <2>2
<1>6. ASSUME Gains, NEW d \in DatagramType, inbox' = Append(inbox, d),
             \A j \in DOMAIN d.frames : Confirmed(d.frames[j], kernel')
      PROVE  Confirming'
  <2>1. \A k \in DOMAIN inbox' : (k \in DOMAIN inbox /\ inbox'[k] = inbox[k]) \/ inbox'[k] = d
    <3>1. /\ DOMAIN inbox' = 1 .. (Len(inbox) + 1) /\ DOMAIN inbox = 1 .. Len(inbox)
          /\ Len(inbox) \in Nat /\ \A k \in DOMAIN inbox : inbox'[k] = inbox[k]
          /\ inbox'[Len(inbox) + 1] = d
      BY <1>1, <1>6, InboxAppends
    <3> QED
      BY <3>1
  <2> QED
    BY <1>2, <1>6, <2>1 DEF Honest, Confirming
<1>7. ASSUME Gains, NEW f \in FrameType, Confirmed(f, kernel'), inbox' = Append(inbox, Datagram(f))
      PROVE  Confirming'
  BY <1>6, <1>7, DatagramFits
<1>8. CASE Bind
  <2>1. seq' = 1 /\ pc' = "ack" /\ (kernel'.bound \/ UNCHANGED kernel)
    BY <1>1, <1>8 DEF Bind
  <2>2. Gains
    BY <1>4, <1>8 DEF Bind, Exit
  <2>3. Confirmed(Frame("error", 1), kernel') /\ Frame("error", 1) \in FrameType
    BY DEF Confirmed, Frame, FrameType
  <2>4. ASSUME kernel' = [kernel EXCEPT !.bound = TRUE] PROVE Confirming'
    <3>1. Confirmed(Frame("ack", 1), kernel') /\ Frame("ack", 1) \in FrameType
      BY <1>1, <2>4 DEF Confirmed, Frame, FrameType
    <3>2. inbox' = inbox \/ inbox' = Append(inbox, Datagram(Frame("ack", 1)))
                         \/ inbox' = Append(inbox, Datagram(Frame("error", 1)))
      BY <1>8, <2>1 DEF Bind, Answered
    <3> QED
      BY <1>5, <1>7, <2>2, <2>3, <3>1, <3>2
  <2>5. ASSUME inbox' = Append(inbox, Datagram(Frame("error", 1))) PROVE Confirming'
    BY <1>7, <2>2, <2>3, <2>5
  <2>6. Confirming'
    BY <1>8, <2>4, <2>5 DEF Bind
  <2>7. Configured'
    BY <2>1 DEF Configured, Serving
  <2> QED
    BY <2>6, <2>7 DEF Honest
<1>9. CASE ConfigureParams
  <2>1. seq \in 1 .. 3 /\ seq' = seq + 1 /\ pc = "params" /\ pc' = "ack" /\ kernel.bound
    BY <1>1, <1>9 DEF ConfigureParams, Requests, Honest, Configured
  <2>2. Gains
    BY <1>4, <1>9, <2>1 DEF Exit
  <2>3. Confirmed(Frame("error", seq'), kernel') /\ Frame("error", seq') \in FrameType /\ Frame("ack", seq') \in FrameType
    BY <2>1 DEF Confirmed, Frame, FrameType
  <2>4. inbox' = inbox \/ inbox' = Append(inbox, Datagram(Frame("error", seq')))
                       \/ inbox' = Append(inbox, Datagram(Frame("ack", seq')))
    BY <1>9 DEF ConfigureParams, Answered
  <2>5. ASSUME Asked(seq') \subseteq supports PROVE Confirming'
    <3>1. kernel' = [kernel EXCEPT !.copying = TRUE, !.flags = @ \cup Asked(seq')]
      BY <1>9, <2>5 DEF ConfigureParams
    <3>2. kernel'.bound /\ kernel'.copying /\ Asked(seq') \subseteq kernel'.flags
      BY <1>1, <2>1, <3>1
    <3>3. Confirmed(Frame("ack", seq'), kernel')
      BY <3>2 DEF Confirmed, Frame
    <3> QED
      BY <1>5, <1>7, <2>2, <2>3, <2>4, <3>3
  <2>6. ASSUME ~(Asked(seq') \subseteq supports) PROVE Confirming'
    <3>1. inbox' = inbox \/ inbox' = Append(inbox, Datagram(Frame("error", seq')))
      BY <1>9, <2>6 DEF ConfigureParams, Answered
    <3> QED
      BY <1>5, <1>7, <2>2, <2>3, <3>1
  <2>7. Configured'
    BY <2>1, <2>2 DEF Configured, Serving, Gains
  <2> QED
    BY <2>5, <2>6, <2>7 DEF Honest
<1>10. CASE Ack
  <2>1. /\ pc = "ack" /\ UNCHANGED <<kernel, seq, flags>> /\ pc' \in {"params", "ready", "exit"}
    BY <1>10 DEF Ack, Acked, NotAcked, work
  <2>2. Gains /\ (inbox' = inbox \/ (inbox # <<>> /\ inbox' = Tail(inbox)))
    BY <1>10, <2>1 DEF Ack, socket, Gains
  <2>3. ASSUME ~overrun /\ inbox # <<>> /\ Answer /\ Acked PROVE Configured'
    <3>1. Head(inbox) = inbox[1] /\ 1 \in DOMAIN inbox
      BY <1>1, <2>3
    <3>2. Confirmed(Frame("ack", seq), kernel)
      BY <2>3, <3>1 DEF Answer, Honest, Confirming
    <3>3. seq \in 1 .. 4 /\ (seq >= 2 => flags = Asked(seq))
      BY <1>1, <2>1 DEF Requests
    <3>4. kernel.bound /\ (seq >= 2 => kernel.copying /\ Asked(seq) \subseteq kernel.flags)
      BY <3>2, <3>3 DEF Confirmed, Frame
    <3> QED
      BY <2>1, <2>3, <3>3, <3>4 DEF Acked, Configured, Serving
  <2>4. ASSUME NotAcked PROVE Configured'
    <3>1. seq \in {2, 3} => kernel.bound
      BY <2>1 DEF Honest, Configured
    <3> QED
      BY <2>1, <2>4, <3>1 DEF NotAcked, Configured, Serving
  <2>5. Configured'
    BY <1>10, <2>3, <2>4 DEF Ack
  <2> QED
    BY <1>5, <2>2, <2>5 DEF Honest
<1>11. CASE Arrive
  <2>1. Gains
    BY <1>4, <1>11 DEF Arrive, Exit, Gains
  <2>2. ASSUME inbox' = inbox PROVE Confirming'
    BY <1>5, <2>1, <2>2
  <2> DEFINE f == Frame("packet", Len(fate) + 1)
  <2>3. ASSUME Deliver(f) PROVE Confirming'
    <3>1. f \in FrameType /\ Confirmed(f, kernel')
      <4>1. Len(fate) \in Nat
        BY DEF Typed, TypeOK, NetOK
      <4> QED
        BY <4>1 DEF Frame, FrameType, Confirmed
    <3> HIDE DEF f
    <3>2. Extends(f)
      BY <1>1, <2>3, <3>1, DeliverExtends
    <3>3. Datagram(f).frames[1] = f /\ DOMAIN Datagram(f).frames = {1}
      BY <3>1, DatagramFits
    <3>4. ASSUME NEW k \in DOMAIN inbox', NEW j \in DOMAIN inbox'[k].frames
          PROVE  \/ inbox'[k].frames[j] = f
                 \/ /\ k \in DOMAIN inbox /\ j \in DOMAIN inbox[k].frames
                    /\ inbox'[k].frames[j] = inbox[k].frames[j]
      BY <3>2, <3>3 DEF Extends
    <3> QED
      BY <1>2, <2>1, <3>1, <3>4 DEF Honest, Confirming
  <2>4. Confirming'
    BY <1>11, <2>2, <2>3 DEF Arrive
  <2>5. Configured'
    BY <1>11 DEF Arrive, work, Honest, Configured, Serving
  <2> QED
    BY <2>4, <2>5 DEF Honest
<1>12. CASE Stranger
  <2>1. Gains
    BY <1>4, <1>12 DEF Stranger, Exit, Gains
  <2> DEFINE d == [stranger |-> TRUE, frames |-> <<>>]
  <2>2. d \in DatagramType /\ inbox' = Append(inbox, d) /\ \A j \in DOMAIN d.frames : FALSE
    BY <1>12 DEF Stranger, DatagramType
  <2>3. Confirming'
    BY <1>6, <2>1, <2>2
  <2>4. Configured'
    BY <1>12 DEF Stranger, work, Honest, Configured, Serving
  <2> QED
    BY <2>3, <2>4 DEF Honest
<1>13. CASE Send
  <2>1. pc = "send" /\ UNCHANGED <<kernel, flags>> /\ pc' \in {"frames", "exit"}
    BY <1>13 DEF Send, Goto
  <2>2. Gains
    BY <2>1 DEF Gains
  <2>3. Frame("error", 0) \in FrameType /\ Confirmed(Frame("error", 0), kernel')
    BY DEF Confirmed, Frame, FrameType
  <2>4. inbox' = inbox \/ inbox' = Append(inbox, Datagram(Frame("error", 0)))
    BY <1>13 DEF Send, socket, Goto
  <2>5. Configured'
    BY <2>1 DEF Honest, Configured, Serving
  <2> QED
    BY <1>5, <1>7, <2>2, <2>3, <2>4, <2>5 DEF Honest
<1>14. CASE Receive
  <2>1. pc = "poll" /\ UNCHANGED <<kernel, flags>> /\ pc' \in {"loop", "frames", "exit"}
    BY <1>14 DEF Receive
  <2>2. Gains
    BY <2>1 DEF Gains
  <2>3. inbox' = inbox \/ (inbox # <<>> /\ inbox' = Tail(inbox))
    BY <1>14 DEF Receive, socket
  <2>4. Configured'
    BY <2>1 DEF Honest, Configured, Serving
  <2> QED
    BY <1>5, <2>2, <2>3, <2>4 DEF Honest
<1>15. CASE Begin \/ Arm \/ Check \/ Ready \/ Loop \/ Handle \/ DeviceDown \/ Signal \/ ParentDies \/ UNCHANGED vars
  <2>1. UNCHANGED <<inbox, kernel, flags>>
    BY <1>15 DEF Begin, Arm, Check, Ready, Loop, Handle, DeviceDown, Signal, ParentDies, vars, Goto, work, socket
  <2>2. Gains
    BY <2>1 DEF Gains
  <2>3. \/ UNCHANGED <<pc, seq>> \/ (pc \in {"ready", "loop", "frames"} /\ pc' \in {"loop", "poll", "frames", "send", "exit"})
        \/ pc' \in {"arm", "check", "bind", "exit"}
    BY <1>15 DEF Begin, Arm, Check, Ready, Loop, Handle, DeviceDown, Signal, ParentDies, vars, Goto, work
  <2>4. Configured'
    BY <2>1, <2>3 DEF Honest, Configured, Serving
  <2> QED
    BY <1>5, <2>1, <2>2, <2>4 DEF Honest
<1> QED
  BY <1>3, <1>8, <1>9, <1>10, <1>11, <1>12, <1>13, <1>14, <1>15 DEF Next, Worker, Environment

\* READY, and everything after it, is about a queue that is bound to the worker,
\* copies packets and has the flags it reports (nfqueue.rs:186, 352).
THEOREM ReadyTrue == Spec => []ReadyMeansServed
<1>1. ASSUME Init PROVE Honest
  <2>1. \A k \in DOMAIN <<>> : FALSE
    OBVIOUS
  <2>2. inbox = <<>> /\ pc = "begin" /\ seq = 0
    BY <1>1 DEF Init
  <2> QED
    BY <2>1, <2>2 DEF Honest, Confirming, Configured, Serving
<1> QED
  <2>1. Spec => [](Typed /\ Honest)
    BY <1>1, TypedInit, TypedNext, HonestNext, PTL DEF Spec
  <2>2. Honest => ReadyMeansServed
    BY DEF Honest, Configured, Serving, ReadyMeansServed
  <2> QED
    BY <2>1, <2>2, PTL

-----------------------------------------------------------------------------
(* Packets and answers in one socket                                        *)

IsAnswer(d, n) == /\ ~d.stranger /\ Len(d.frames) = 1
                  /\ d.frames[1].type # "packet" /\ d.frames[1].n = n
Due(q, n) == \E k \in DOMAIN q : IsAnswer(q[k], n)
\* The answer comes before every packet.
First(q, n) == \E k \in DOMAIN q : /\ IsAnswer(q[k], n)
                                   /\ \A m \in DOMAIN q : m < k => ~AllPackets(q[m])
\* An answer stands in the way of the one that is waited for.
Behind(q, n, o) == \E k \in DOMAIN q : /\ IsAnswer(q[k], n)
                                       /\ \A m \in DOMAIN q : m < k => ~IsAnswer(q[m], o)
Holds(q, i) == \E k \in DOMAIN q : \E j \in DOMAIN q[k].frames : q[k].frames[j] = Frame("packet", i)

\* Before the first configuration the queue keeps nothing.
Quiet == /\ ~kernel.copying => Waiting = {} /\ \A k \in DOMAIN inbox : ~AllPackets(inbox[k])
         /\ seq <= 1 => ~kernel.copying
\* While an answer is waited for it is in the socket, or ENOBUFS is.
Awaited == pc = "ack" /\ ~overrun => Due(inbox, seq) /\ (seq = 2 => First(inbox, 2))
\* A start that lost a packet does not become ready: of the three attempts at
\* most one is left, and the answer to the one before it is still unread.
Lost == \/ pc \in {"exit", "off"}
        \/ pc = "params" /\ seq = 3 /\ Due(inbox, 3)
        \/ pc = "ack" /\ seq = 4 /\ Behind(inbox, 3, 4)
Held(i) == Holds(inbox, i) \/ InBatch(i) \/ (pc = "send" /\ tx.id = i)
Keeping == \A i \in Waiting : Held(i) \/ Lost
Kept == Quiet /\ Awaited /\ Keeping

\* Datagrams are added and packets join others; nothing else changes.
Grown(q, r) ==
    /\ \A k \in DOMAIN q :
          /\ k \in DOMAIN r
          /\ ~AllPackets(q[k]) => r[k] = q[k]
          /\ AllPackets(q[k]) => AllPackets(r[k])
          /\ \A j \in DOMAIN q[k].frames : /\ j \in DOMAIN r[k].frames
                                           /\ r[k].frames[j] = q[k].frames[j]
    /\ \A k \in DOMAIN q : \A m \in DOMAIN r : m < k => m \in DOMAIN q

LEMMA AnswersArePlain == \A d, n : IsAnswer(d, n) => ~AllPackets(d)
<1> SUFFICES ASSUME NEW d, NEW n, IsAnswer(d, n), AllPackets(d) PROVE FALSE
  OBVIOUS
<1> QED
  BY DEF IsAnswer, AllPackets

LEMMA GrownKeeps ==
    ASSUME NEW q, NEW r, Grown(q, r), NEW n, NEW o
    PROVE  /\ Due(q, n) => Due(r, n)
           /\ First(q, n) => First(r, n)
           /\ Behind(q, n, o) => Behind(r, n, o)
           /\ Holds(q, o) => Holds(r, o)
<1>1. \A k \in DOMAIN q : k \in DOMAIN r /\ (IsAnswer(q[k], n) => IsAnswer(r[k], n))
  BY AnswersArePlain DEF Grown
<1>2. ASSUME NEW k \in DOMAIN q, NEW m \in DOMAIN r, m < k
      PROVE  /\ m \in DOMAIN q
             /\ ~AllPackets(q[m]) => ~AllPackets(r[m])
             /\ ~IsAnswer(q[m], o) => ~IsAnswer(r[m], o)
  BY <1>2, AnswersArePlain DEF Grown
<1>3. Due(q, n) => Due(r, n)
  BY <1>1 DEF Due
<1>4. First(q, n) => First(r, n)
  BY <1>1, <1>2 DEF First
<1>5. Behind(q, n, o) => Behind(r, n, o)
  BY <1>1, <1>2 DEF Behind
<1>6. Holds(q, o) => Holds(r, o)
  BY DEF Grown, Holds
<1> QED
  BY <1>3, <1>4, <1>5, <1>6

LEMMA AppendGrows ==
    ASSUME inbox \in Seq(DatagramType), NEW d \in DatagramType, inbox' = Append(inbox, d)
    PROVE  /\ Grown(inbox, inbox')
           /\ \A k \in DOMAIN inbox' : k \in DOMAIN inbox \/ inbox'[k] = d
           /\ \E k \in DOMAIN inbox' : inbox'[k] = d /\ \A m \in DOMAIN inbox' : m < k => m \in DOMAIN inbox
           /\ \A k \in DOMAIN inbox : inbox'[k] = inbox[k]
<1>1. /\ DOMAIN inbox' = 1 .. (Len(inbox) + 1) /\ DOMAIN inbox = 1 .. Len(inbox)
      /\ Len(inbox) \in Nat /\ \A k \in DOMAIN inbox : inbox'[k] = inbox[k]
      /\ inbox'[Len(inbox) + 1] = d
  BY InboxAppends
<1>2. Len(inbox) + 1 \in DOMAIN inbox' /\ \A m \in DOMAIN inbox' : m < Len(inbox) + 1 => m \in DOMAIN inbox
  BY <1>1
<1>3. \A k \in DOMAIN inbox : k \in DOMAIN inbox' /\ \A m \in DOMAIN inbox' : m < k => m \in DOMAIN inbox
  BY <1>1
<1>4. \A k \in DOMAIN inbox' : k \in DOMAIN inbox \/ inbox'[k] = d
  BY <1>1
<1> QED
  BY <1>1, <1>2, <1>3, <1>4 DEF Grown

LEMMA ExtendsGrows ==
    ASSUME inbox \in Seq(DatagramType), NEW f \in FrameType, f.type = "packet", Deliver(f)
    PROVE  /\ Grown(inbox, inbox')
           /\ \E k \in DOMAIN inbox' : \E j \in DOMAIN inbox'[k].frames : inbox'[k].frames[j] = f
<1>1. Extends(f)
  BY DeliverExtends
<1>2. ASSUME NEW k \in DOMAIN inbox, AllPackets(inbox[k]) PROVE AllPackets(inbox'[k])
  BY <1>1, <1>2 DEF Extends, AllPackets
<1>3. \A k \in DOMAIN inbox : \A m \in DOMAIN inbox' : m < k => m \in DOMAIN inbox
  <2>1. DOMAIN inbox = 1 .. Len(inbox) /\ Len(inbox) \in Nat
    OBVIOUS
  <2>2. \A m \in DOMAIN inbox' : m \in Nat \ {0}
    BY <1>1 DEF Extends
  <2> QED
    BY <2>1, <2>2
<1> QED
  BY <1>1, <1>2, <1>3 DEF Extends, Grown

LEMMA TailKeeps ==
    ASSUME inbox \in Seq(DatagramType), inbox # <<>>, inbox' = Tail(inbox), NEW n, NEW i
    PROVE  /\ Due(inbox, n) => IsAnswer(inbox[1], n) \/ Due(inbox', n)
           /\ \/ ~Holds(inbox, i) \/ Holds(inbox', i)
              \/ \E j \in DOMAIN inbox[1].frames : inbox[1].frames[j] = Frame("packet", i)
<1>1. /\ DOMAIN inbox' = 1 .. (Len(inbox) - 1) /\ DOMAIN inbox = 1 .. Len(inbox)
      /\ Len(inbox) \in Nat \ {0} /\ \A k \in DOMAIN inbox' : inbox'[k] = inbox[k + 1]
  BY InboxTails
<1>2. ASSUME NEW k \in DOMAIN inbox, k # 1 PROVE \E l \in DOMAIN inbox' : inbox'[l] = inbox[k]
  <2>1. k - 1 \in DOMAIN inbox' /\ (k - 1) + 1 = k
    BY <1>1, <1>2
  <2> QED
    BY <1>1, <2>1
<1>3. Due(inbox, n) => IsAnswer(inbox[1], n) \/ Due(inbox', n)
  BY <1>2 DEF Due
<1>4. ASSUME Holds(inbox, i), ~(\E j \in DOMAIN inbox[1].frames : inbox[1].frames[j] = Frame("packet", i))
      PROVE  Holds(inbox', i)
  BY <1>2, <1>4 DEF Holds
<1> QED
  BY <1>3, <1>4

\* An answer, and a message of somebody else, carry no packet.
LEMMA AnswerArrives ==
    ASSUME inbox \in Seq(DatagramType), NEW f \in FrameType, f.type # "packet",
           inbox' = Append(inbox, Datagram(f))
    PROVE  /\ Grown(inbox, inbox') /\ Due(inbox', f.n)
           /\ (\A k \in DOMAIN inbox : ~AllPackets(inbox[k])) =>
                 First(inbox', f.n) /\ \A k \in DOMAIN inbox' : ~AllPackets(inbox'[k])
<1> DEFINE d == Datagram(f)
<1>1. d \in DatagramType /\ IsAnswer(d, f.n) /\ inbox' = Append(inbox, d)
  BY DatagramFits DEF IsAnswer
<1>2. ~AllPackets(d)
  BY <1>1, AnswersArePlain
<1> HIDE DEF d
<1>3. /\ Grown(inbox, inbox')
      /\ \A k \in DOMAIN inbox' : k \in DOMAIN inbox \/ inbox'[k] = d
      /\ \E k \in DOMAIN inbox' : inbox'[k] = d /\ \A m \in DOMAIN inbox' : m < k => m \in DOMAIN inbox
      /\ \A k \in DOMAIN inbox : inbox'[k] = inbox[k]
  BY <1>1, AppendGrows
<1>4. Due(inbox', f.n)
  BY <1>1, <1>3 DEF Due
<1>5. ASSUME \A k \in DOMAIN inbox : ~AllPackets(inbox[k])
      PROVE  First(inbox', f.n) /\ \A k \in DOMAIN inbox' : ~AllPackets(inbox'[k])
  <2>1. First(inbox', f.n)
    BY <1>1, <1>3, <1>5 DEF First
  <2>2. \A k \in DOMAIN inbox' : ~AllPackets(inbox'[k])
    BY <1>2, <1>3, <1>5
  <2> QED
    BY <2>1, <2>2
<1> QED
  BY <1>3, <1>4, <1>5

\* What a step that only lets the socket grow leaves true.
LEMMA GrowthKeeps ==
    ASSUME Keeping, inbox' = inbox \/ Grown(inbox, inbox'), UNCHANGED <<pc, seq, batch, tx>>,
           NEW i \in Waiting
    PROVE  Held(i)' \/ Lost'
<1>1. ASSUME NEW n, NEW o PROVE /\ Due(inbox, n) => Due(inbox', n)
                                /\ Behind(inbox, n, o) => Behind(inbox', n, o)
                                /\ Holds(inbox, o) => Holds(inbox', o)
  BY GrownKeeps
<1>2. Held(i) => Held(i)'
  BY <1>1 DEF Held, InBatch
<1>3. Lost => Lost'
  BY <1>1 DEF Lost
<1> QED
  BY <1>2, <1>3 DEF Keeping

LEMMA ConfigureKeeps ==
    ASSUME Typed, Kept, ConfigureParams
    PROVE  Kept'
<1>1. /\ pc = "params" /\ pc' = "ack" /\ seq \in 1 .. 3 /\ seq' = seq + 1
      /\ inbox \in Seq(DatagramType) /\ Quiet /\ Keeping
      /\ UNCHANGED <<fate, batch, tx>>
  BY DEF ConfigureParams, Typed, TypeOK, SocketOK, Requests, Kept, net
<1>2. kernel \in [bound : BOOLEAN, copying : BOOLEAN, flags : SUBSET Flags]
  BY DEF Typed, TypeOK, LifeOK
<1> DEFINE a == Frame("ack", seq')
           e == Frame("error", seq')
<1>3. /\ a \in FrameType /\ e \in FrameType /\ a.type # "packet" /\ e.type # "packet"
      /\ a.n = seq' /\ e.n = seq'
  BY <1>1 DEF Frame, FrameType
<1>4. \/ inbox' = inbox /\ overrun'
      \/ inbox' = Append(inbox, Datagram(a))
      \/ inbox' = Append(inbox, Datagram(e))
  BY DEF ConfigureParams, Answered
<1>5. kernel'.copying \/ (UNCHANGED kernel)
  BY <1>2 DEF ConfigureParams
<1> HIDE DEF a, e
<1>6. \/ inbox' = inbox /\ overrun'
      \/ /\ Grown(inbox, inbox') /\ Due(inbox', seq')
         /\ (\A k \in DOMAIN inbox : ~AllPackets(inbox[k])) =>
               First(inbox', seq') /\ \A k \in DOMAIN inbox' : ~AllPackets(inbox'[k])
  BY <1>1, <1>3, <1>4, AnswerArrives
<1>7. Quiet'
  <2>1. seq' >= 2
    BY <1>1
  <2>2. Waiting' = Waiting
    BY <1>1 DEF Waiting
  <2> QED
    BY <1>1, <1>5, <1>6, <2>1, <2>2 DEF Quiet
<1>8. Awaited'
  <2>1. ASSUME ~overrun' PROVE Due(inbox', seq')
    BY <1>6, <2>1
  <2>2. ASSUME ~overrun', seq' = 2 PROVE First(inbox', 2)
    <3>1. seq <= 1
      BY <1>1, <2>2
    <3>2. \A k \in DOMAIN inbox : ~AllPackets(inbox[k])
      BY <1>1, <3>1 DEF Quiet
    <3> QED
      BY <1>6, <2>2, <3>2
  <2> QED
    BY <2>1, <2>2 DEF Awaited
<1>9. ASSUME NEW i \in Waiting' PROVE Held(i)' \/ Lost'
  <2>1. i \in Waiting
    BY <1>1 DEF Waiting
  <2>2. CASE Held(i)
    <3>1. Holds(inbox, i) => Holds(inbox', i)
      BY <1>6, GrownKeeps
    <3> QED
      BY <1>1, <2>2, <3>1 DEF Held, InBatch
  <2>3. CASE Lost
    <3>1. seq = 3 /\ Due(inbox, 3) /\ seq' = 4
      BY <1>1, <2>3 DEF Lost
    <3>2. PICK k \in DOMAIN inbox : IsAnswer(inbox[k], 3)
      BY <3>1 DEF Due
    <3>3. \A m \in DOMAIN inbox : ~IsAnswer(inbox[m], 4)
      BY <3>1 DEF Typed, Shaped, Shape, IsAnswer
    <3>4. Behind(inbox, 3, 4)
      BY <3>2, <3>3 DEF Behind
    <3>5. Behind(inbox', 3, 4)
      BY <1>6, <3>4, GrownKeeps
    <3> QED
      BY <1>1, <3>1, <3>5 DEF Lost
  <2> QED
    BY <1>1, <2>1, <2>2, <2>3 DEF Keeping
<1> QED
  BY <1>7, <1>8, <1>9 DEF Kept, Keeping

LEMMA AckKeeps ==
    ASSUME Typed, Kept, Ack
    PROVE  Kept'
<1>1. /\ pc = "ack" /\ seq \in 1 .. 4 /\ pc' \in {"params", "ready", "exit"}
      /\ inbox \in Seq(DatagramType) /\ Quiet /\ Awaited /\ Keeping /\ batch = <<>>
      /\ UNCHANGED <<kernel, fate, seq, batch, tx>>
  BY DEF Ack, Acked, NotAcked, Typed, TypeOK, SocketOK, Requests, Batched, Kept, net, work
<1>2. inbox' = inbox \/ (inbox # <<>> /\ inbox' = Tail(inbox))
  BY DEF Ack, socket
<1>3. Waiting' = Waiting
  BY <1>1 DEF Waiting
<1>4. Quiet'
  <2>1. ASSUME NEW k \in DOMAIN inbox' PROVE \E m \in DOMAIN inbox : inbox'[k] = inbox[m]
    <3>1. CASE inbox' = inbox
      BY <2>1, <3>1
    <3>2. CASE inbox # <<>> /\ inbox' = Tail(inbox)
      <4>1. /\ DOMAIN inbox' = 1 .. (Len(inbox) - 1) /\ DOMAIN inbox = 1 .. Len(inbox)
            /\ Len(inbox) \in Nat /\ \A l \in DOMAIN inbox' : inbox'[l] = inbox[l + 1]
        BY <1>1, <3>2, InboxTails
      <4>2. k + 1 \in DOMAIN inbox
        BY <4>1
      <4> QED
        BY <4>1, <4>2
    <3> QED
      BY <1>2, <3>1, <3>2
  <2> QED
    BY <1>1, <1>3, <2>1 DEF Quiet
<1>5. Awaited'
  BY <1>1 DEF Awaited
<1>6. ASSUME NEW i \in Waiting PROVE Held(i)' \/ Lost'
  <2>1. \A j \in DOMAIN batch : FALSE
    BY <1>1
  <2>2. Holds(inbox, i) \/ Lost
    BY <1>1, <2>1 DEF Keeping, Held, InBatch
  <2>3. seq >= 2
    BY <1>1 DEF Quiet
  <2>4. pc' = "exit" => Lost'
    BY DEF Lost
  <2>5. CASE NotAcked /\ inbox' = inbox
    <3>1. seq = 4 => pc' = "exit"
      BY <2>5 DEF NotAcked
    <3> QED
      BY <1>1, <2>2, <2>4, <2>5, <3>1 DEF Held, Lost
  <2>6. CASE ~overrun /\ inbox # <<>> /\ inbox' = Tail(inbox) /\ (IF Answer THEN Acked ELSE NotAcked)
    <3>1. /\ DOMAIN inbox = 1 .. Len(inbox) /\ 1 \in DOMAIN inbox /\ Head(inbox) = inbox[1]
          /\ inbox[1] \in DatagramType
      BY <1>1, <2>6, InboxTails
    <3>2. inbox[1].frames \in Seq(FrameType) /\ Shape(inbox[1], DOMAIN fate, seq)
      BY <3>1 DEF DatagramType, Typed, Shaped
    <3>3. Answer => IsAnswer(inbox[1], seq)
      <4> SUFFICES ASSUME NEW j \in DOMAIN inbox[1].frames, inbox[1].frames[j] = Frame("ack", seq)
                   PROVE  IsAnswer(inbox[1], seq)
        BY <3>1 DEF Answer
      <4>1. inbox[1].frames[j].type = "ack" /\ inbox[1].frames[j].n = seq
        BY DEF Frame
      <4>2. Len(inbox[1].frames) = 1 /\ ~inbox[1].stranger
        BY <3>2, <4>1 DEF Shape
      <4>3. j = 1
        BY <3>2, <4>2
      <4> QED
        BY <4>1, <4>2, <4>3 DEF IsAnswer
    <3>4. CASE Lost
      <4>1. seq = 4 /\ Behind(inbox, 3, 4)
        BY <1>1, <3>4 DEF Lost
      <4>2. ~IsAnswer(inbox[1], 4)
        <5>1. PICK k \in DOMAIN inbox : /\ IsAnswer(inbox[k], 3)
                                        /\ \A m \in DOMAIN inbox : m < k => ~IsAnswer(inbox[m], 4)
          BY <4>1 DEF Behind
        <5>2. k = 1 \/ 1 < k
          BY <3>1
        <5> QED
          BY <3>1, <5>1, <5>2 DEF IsAnswer
      <4> QED
        BY <2>4, <2>6, <3>3, <4>1, <4>2 DEF NotAcked
    <3>5. CASE Holds(inbox', i)
      BY <3>5 DEF Held
    <3>6. CASE Holds(inbox, i) /\ ~Holds(inbox', i)
      <4>1. PICK j \in DOMAIN inbox[1].frames : inbox[1].frames[j] = Frame("packet", i)
        BY <1>1, <2>6, <3>6, TailKeeps
      <4>2. inbox[1].frames[j].type = "packet"
        BY <4>1 DEF Frame
      <4>3. \A n : ~IsAnswer(inbox[1], n)
        <5> SUFFICES ASSUME NEW n, IsAnswer(inbox[1], n) PROVE FALSE
          OBVIOUS
        <5>1. j = 1
          BY <3>2 DEF IsAnswer
        <5> QED
          BY <4>2, <5>1 DEF IsAnswer
      <4>4. NotAcked
        BY <2>6, <3>3, <4>3
      <4>5. seq # 2
        <5>1. ASSUME seq = 2 PROVE FALSE
          <6>1. PICK k \in DOMAIN inbox : /\ IsAnswer(inbox[k], 2)
                                          /\ \A m \in DOMAIN inbox : m < k => ~AllPackets(inbox[m])
            BY <1>1, <2>6, <5>1 DEF Awaited, First
          <6>2. 1 < k
            BY <3>1, <4>3, <6>1
          <6>3. AllPackets(inbox[1])
            <7>1. ~inbox[1].stranger
              BY <3>2, <4>1 DEF Shape
            <7>2. ASSUME NEW l \in DOMAIN inbox[1].frames, inbox[1].frames[l].type # "packet" PROVE FALSE
              <8>1. Len(inbox[1].frames) = 1
                BY <3>2, <7>2 DEF Shape
              <8>2. l = 1 /\ j = 1
                BY <3>2, <8>1
              <8> QED
                BY <4>2, <7>2, <8>2
            <7> QED
              BY <7>1, <7>2 DEF AllPackets
          <6> QED
            BY <3>1, <6>1, <6>2, <6>3
        <5> QED
          BY <5>1
      <4>6. CASE seq = 3
        <5>1. Due(inbox', 3)
          BY <1>1, <2>6, <4>3, <4>6, TailKeeps DEF Awaited
        <5>2. pc' = "params" /\ seq' = 3
          BY <1>1, <4>4, <4>6 DEF NotAcked
        <5> QED
          BY <5>1, <5>2 DEF Lost
      <4>7. CASE seq = 4
        BY <2>4, <4>4, <4>7 DEF NotAcked
      <4> QED
        BY <1>1, <2>3, <4>5, <4>6, <4>7
    <3> QED
      BY <2>2, <3>4, <3>5, <3>6
  <2> QED
    BY <2>5, <2>6 DEF Ack, socket
<1> QED
  BY <1>3, <1>4, <1>5, <1>6 DEF Kept, Keeping

LEMMA ReceiveKeeps ==
    ASSUME Typed, Kept, Receive
    PROVE  Kept'
<1>1. /\ pc = "poll" /\ pc' \in {"loop", "frames", "exit"} /\ batch = <<>>
      /\ inbox \in Seq(DatagramType) /\ Quiet /\ Keeping
      /\ UNCHANGED <<kernel, fate, seq, tx>>
  BY DEF Receive, Typed, TypeOK, SocketOK, Batched, Kept, net
<1>2. Waiting' = Waiting
  BY <1>1 DEF Waiting
<1>3. \/ inbox' = inbox /\ UNCHANGED batch
      \/ inbox' = inbox /\ pc' = "exit"
      \/ /\ inbox # <<>> /\ inbox' = Tail(inbox)
         /\ Head(inbox).stranger \/ (batch' = Head(inbox).frames /\ pc' = "frames")
  BY DEF Receive, socket
<1>4. Quiet'
  <2>1. CASE inbox' = inbox
    BY <1>1, <1>2, <2>1 DEF Quiet
  <2>2. CASE inbox # <<>> /\ inbox' = Tail(inbox)
    <3>1. /\ DOMAIN inbox' = 1 .. (Len(inbox) - 1) /\ DOMAIN inbox = 1 .. Len(inbox)
          /\ Len(inbox) \in Nat /\ \A k \in DOMAIN inbox' : inbox'[k] = inbox[k + 1]
      BY <1>1, <2>2, InboxTails
    <3>2. \A k \in DOMAIN inbox' : k + 1 \in DOMAIN inbox
      BY <3>1
    <3> QED
      BY <1>1, <1>2, <3>1, <3>2 DEF Quiet
  <2> QED
    BY <1>3, <2>1, <2>2
<1>5. Awaited'
  BY <1>1 DEF Awaited
<1>6. ASSUME NEW i \in Waiting PROVE Held(i)' \/ Lost'
  <2>1. \A j \in DOMAIN batch : FALSE
    BY <1>1
  <2>2. Holds(inbox, i)
    BY <1>1, <2>1 DEF Keeping, Held, InBatch, Lost
  <2>3. CASE inbox' = inbox
    BY <2>2, <2>3 DEF Held
  <2>4. CASE /\ inbox # <<>> /\ inbox' = Tail(inbox)
             /\ Head(inbox).stranger \/ (batch' = Head(inbox).frames /\ pc' = "frames")
    <3>1. 1 \in DOMAIN inbox /\ Head(inbox) = inbox[1] /\ Shape(inbox[1], DOMAIN fate, seq)
      BY <1>1, <2>4, InboxTails DEF Typed, Shaped
    <3>2. CASE \E j \in DOMAIN inbox[1].frames : inbox[1].frames[j] = Frame("packet", i)
      <4>1. ~inbox[1].stranger
        <5>1. \A j \in DOMAIN <<>> : FALSE
          OBVIOUS
        <5> QED
          BY <3>1, <3>2, <5>1 DEF Shape
      <4>2. batch' = inbox[1].frames
        BY <2>4, <3>1, <4>1
      <4> QED
        BY <3>2, <4>2 DEF Held, InBatch
    <3>3. CASE Holds(inbox', i)
      BY <3>3 DEF Held
    <3> QED
      BY <1>1, <2>2, <2>4, <3>2, <3>3, TailKeeps
  <2> QED
    BY <1>3, <2>3, <2>4
<1> QED
  BY <1>2, <1>4, <1>5, <1>6 DEF Kept, Keeping

LEMMA HandleKeeps ==
    ASSUME Typed, Kept, Handle
    PROVE  Kept'
<1>1. /\ pc = "frames" /\ pc' \in {"loop", "send", "exit"} /\ batch \in Seq(FrameType)
      /\ Quiet /\ Keeping /\ UNCHANGED <<kernel, fate, seq, inbox>>
  BY DEF Handle, Goto, Typed, TypeOK, SocketOK, Kept, net, socket
<1>2. Waiting' = Waiting
  BY <1>1 DEF Waiting
<1>3. Quiet' /\ Awaited'
  BY <1>1, <1>2 DEF Quiet, Awaited
<1>4. ASSUME NEW i \in Waiting PROVE Held(i)' \/ Lost'
  <2>1. Holds(inbox, i) \/ InBatch(i)
    BY <1>1 DEF Keeping, Held, Lost
  <2>2. CASE Holds(inbox, i)
    BY <1>1, <2>2 DEF Held
  <2>3. CASE InBatch(i)
    <3>1. PICK j \in DOMAIN batch : batch[j] = Frame("packet", i)
      BY <2>3 DEF InBatch
    <3>2. batch # <<>> /\ Head(batch) = batch[1] /\ j \in 1 .. Len(batch) /\ Len(batch) \in Nat
      BY <1>1, <3>1
    <3>3. CASE pc' = "exit"
      BY <3>3 DEF Lost
    <3>4. CASE tx' = Verdict(Head(batch).n) /\ batch' = Tail(batch) /\ pc' = "send"
      <4>1. CASE j = 1
        <5>1. Head(batch).n = i
          BY <3>1, <3>2, <4>1 DEF Frame
        <5>2. tx'.id = i
          BY <3>4, <5>1 DEF Verdict
        <5> QED
          BY <3>4, <5>2 DEF Held
      <4>2. CASE j # 1
        <5>1. j - 1 \in DOMAIN batch' /\ batch'[j - 1] = batch[j]
          BY <1>1, <3>2, <3>4, <4>2
        <5> QED
          BY <3>1, <5>1 DEF Held, InBatch
      <4> QED
        BY <4>1, <4>2
    <3> QED
      BY <3>2, <3>3, <3>4 DEF Handle, Goto
  <2> QED
    BY <2>1, <2>2, <2>3
<1> QED
  BY <1>2, <1>3, <1>4 DEF Kept, Keeping

LEMMA SendKeeps ==
    ASSUME Typed, Kept, Send
    PROVE  Kept'
<1>1. /\ pc = "send" /\ pc' \in {"frames", "exit"} /\ inbox \in Seq(DatagramType)
      /\ Quiet /\ Keeping /\ UNCHANGED <<kernel, seq, batch>>
  BY DEF Send, Goto, Typed, TypeOK, SocketOK, Kept
<1> DEFINE e == Frame("error", 0)
<1>2. inbox' = inbox \/ inbox' = Append(inbox, Datagram(e))
  BY DEF Send, Goto, socket
<1>3. e \in FrameType /\ e.type # "packet"
  BY DEF Frame, FrameType
<1> HIDE DEF e
<1>4. \/ inbox' = inbox
      \/ /\ Grown(inbox, inbox')
         /\ (\A k \in DOMAIN inbox : ~AllPackets(inbox[k])) => \A k \in DOMAIN inbox' : ~AllPackets(inbox'[k])
  BY <1>1, <1>2, <1>3, AnswerArrives
<1>5. \/ pc' = "exit" /\ UNCHANGED fate
      \/ tx.id \notin Waiting /\ UNCHANGED fate
      \/ tx.id \in Waiting /\ fate' = [fate EXCEPT ![tx.id] = "accepted"]
  BY DEF Send, Goto, net
<1>6. /\ Waiting' \subseteq Waiting
      /\ pc' = "exit" \/ tx.id \notin Waiting'
  <2>1. CASE UNCHANGED fate
    BY <1>5, <2>1 DEF Waiting
  <2>2. CASE tx.id \in Waiting /\ fate' = [fate EXCEPT ![tx.id] = "accepted"]
    <3> DEFINE i == tx.id
    <3> HIDE DEF i
    <3>1. fate' = [fate EXCEPT ![i] = "accepted"] /\ i \in DOMAIN fate
      BY <2>2 DEF i, Waiting
    <3>2. i \notin Waiting' /\ Waiting' \subseteq Waiting
      BY <3>1 DEF Waiting
    <3> QED
      BY <3>2 DEF i
  <2> QED
    BY <1>5, <2>1, <2>2
<1>7. Quiet' /\ Awaited'
  BY <1>1, <1>4, <1>6 DEF Quiet, Awaited
<1>8. ASSUME NEW i \in Waiting' PROVE Held(i)' \/ Lost'
  <2>1. CASE pc' = "exit"
    BY <2>1 DEF Lost
  <2>2. CASE pc' # "exit"
    <3>1. Held(i) /\ tx.id # i
      BY <1>1, <1>6, <2>2 DEF Keeping, Lost
    <3>2. Holds(inbox, i) => Holds(inbox', i)
      BY <1>4, GrownKeeps
    <3> QED
      BY <1>1, <3>1, <3>2 DEF Held, InBatch
  <2> QED
    BY <2>1, <2>2
<1> QED
  BY <1>7, <1>8 DEF Kept, Keeping

LEMMA ArriveKeeps ==
    ASSUME Typed, Kept, Arrive
    PROVE  Kept'
<1>1. /\ inbox \in Seq(DatagramType) /\ Quiet /\ Keeping /\ Awaited
      /\ UNCHANGED <<kernel, pc, seq, batch, tx>> /\ (overrun => overrun')
      /\ fate \in Seq(Fates) /\ Len(fate) \in Nat
  BY DEF Arrive, Typed, TypeOK, SocketOK, NetOK, Kept, work
<1> DEFINE n == Len(fate) + 1
           f == Frame("packet", n)
<1>2. f \in FrameType /\ f.type = "packet"
  BY <1>1 DEF Frame, FrameType
<1>3. \/ kernel.copying /\ fate' = Append(fate, "waiting") /\ Deliver(f)
      \/ inbox' = inbox /\ \E x : x # "waiting" /\ fate' = Append(fate, x)
  BY DEF Arrive, Queued, Unqueued
<1>4. \/ /\ kernel.copying /\ Waiting' = Waiting \cup {n} /\ Grown(inbox, inbox')
         /\ Holds(inbox', n)
      \/ inbox' = inbox /\ Waiting' = Waiting
  <2>1. CASE kernel.copying /\ fate' = Append(fate, "waiting") /\ Deliver(f)
    <3>1. /\ Grown(inbox, inbox')
          /\ \E k \in DOMAIN inbox' : \E j \in DOMAIN inbox'[k].frames : inbox'[k].frames[j] = f
      BY <1>1, <1>2, <2>1, ExtendsGrows
    <3>2. Holds(inbox', n)
      BY <3>1 DEF Holds
    <3>3. Waiting' = Waiting \cup {n}
      BY <1>1, <2>1 DEF Waiting
    <3> QED
      BY <2>1, <3>1, <3>2, <3>3
  <2>2. CASE inbox' = inbox /\ \E x : x # "waiting" /\ fate' = Append(fate, x)
    <3>1. PICK x : x # "waiting" /\ fate' = Append(fate, x)
      BY <2>2
    <3>2. Waiting' = Waiting
      BY <1>1, <3>1 DEF Waiting
    <3> QED
      BY <2>2, <3>2
  <2> QED
    BY <1>3, <2>1, <2>2
<1> HIDE DEF n, f
<1>5. Quiet'
  BY <1>1, <1>4 DEF Quiet
<1>6. inbox' = inbox \/ Grown(inbox, inbox')
  BY <1>4
<1>7. Awaited'
  <2>1. \A a : (Due(inbox, a) => Due(inbox', a)) /\ (First(inbox, a) => First(inbox', a))
    BY <1>6, GrownKeeps
  <2> QED
    BY <1>1, <2>1 DEF Awaited
<1>8. ASSUME NEW i \in Waiting' PROVE Held(i)' \/ Lost'
  <2>1. CASE i \in Waiting
    BY <1>1, <1>6, <2>1, GrowthKeeps
  <2>2. CASE i \notin Waiting
    BY <1>4, <2>2 DEF Held
  <2> QED
    BY <2>1, <2>2
<1> QED
  BY <1>5, <1>7, <1>8 DEF Kept, Keeping

LEMMA KeptNext == Typed /\ Kept /\ [Next]_vars => Kept'
<1> SUFFICES ASSUME Typed, Kept, [Next]_vars PROVE Kept'
  OBVIOUS
<1>1. inbox \in Seq(DatagramType) /\ Quiet /\ Keeping /\ Awaited
  BY DEF Typed, TypeOK, SocketOK, Kept
<1>2. CASE Exit
  <2>1. /\ pc' = "off" /\ inbox' = <<>>
        /\ fate' = [i \in DOMAIN fate |-> IF fate[i] = "waiting" THEN "flushed" ELSE fate[i]]
        /\ kernel'.copying = FALSE
    BY <1>2 DEF Exit
  <2>2. Waiting' = {}
    BY <2>1 DEF Waiting
  <2>3. \A k \in DOMAIN inbox' : FALSE
    BY <2>1
  <2> QED
    BY <2>1, <2>2, <2>3 DEF Kept, Quiet, Awaited, Keeping
<1>3. CASE Bind
  <2>1. /\ seq' = 1 /\ seq = 0 /\ UNCHANGED fate /\ kernel'.copying = kernel.copying
    <3>1. pc = "bind" /\ seq = 0
      BY <1>3 DEF Bind, Typed, Requests
    <3>2. kernel \in [bound : BOOLEAN, copying : BOOLEAN, flags : SUBSET Flags]
      BY DEF Typed, TypeOK, LifeOK
    <3> QED
      BY <1>3, <3>1, <3>2 DEF Bind, net
  <2>2. ~kernel.copying /\ Waiting = {} /\ \A k \in DOMAIN inbox : ~AllPackets(inbox[k])
    BY <1>1, <2>1 DEF Quiet
  <2>3. Waiting' = {}
    BY <2>1, <2>2 DEF Waiting
  <2> DEFINE a == Frame("ack", 1)
             e == Frame("error", 1)
  <2>4. /\ a \in FrameType /\ e \in FrameType /\ a.type # "packet" /\ e.type # "packet"
        /\ a.n = 1 /\ e.n = 1
    BY DEF Frame, FrameType
  <2>5. \/ inbox' = inbox /\ overrun'
        \/ inbox' = Append(inbox, Datagram(a))
        \/ inbox' = Append(inbox, Datagram(e))
    BY <1>3, <2>1 DEF Bind, Answered
  <2> HIDE DEF a, e
  <2>6. /\ overrun' \/ Due(inbox', 1)
        /\ \A k \in DOMAIN inbox' : ~AllPackets(inbox'[k])
    BY <1>1, <2>2, <2>4, <2>5, AnswerArrives
  <2> QED
    BY <2>1, <2>2, <2>3, <2>6 DEF Kept, Quiet, Awaited, Keeping
<1>4. CASE DeviceDown
  <2>1. PICK i \in Waiting : fate' = [fate EXCEPT ![i] = "dropped"]
    BY <1>4 DEF DeviceDown
  <2>2. Waiting' \subseteq Waiting
    BY <2>1 DEF Waiting
  <2>3. UNCHANGED <<kernel, inbox, overrun, pc, seq, batch, tx>>
    BY <1>4 DEF DeviceDown, socket, work
  <2>4. \A k \in Waiting' : Held(k)' \/ Lost'
    BY <1>1, <2>2, <2>3, GrowthKeeps
  <2> QED
    BY <1>1, <2>2, <2>3, <2>4 DEF Kept, Quiet, Awaited, Keeping
<1>5. CASE Stranger
  <2> DEFINE d == [stranger |-> TRUE, frames |-> <<>>]
  <2>1. d \in DatagramType /\ ~AllPackets(d)
    BY DEF DatagramType, AllPackets
  <2>2. inbox' = Append(inbox, d) /\ UNCHANGED <<kernel, fate, overrun, pc, seq, batch, tx>>
    BY <1>5 DEF Stranger, net, work
  <2> HIDE DEF d
  <2>3. Grown(inbox, inbox') /\ \A k \in DOMAIN inbox' : k \in DOMAIN inbox \/ inbox'[k] = d
    BY <1>1, <2>1, <2>2, AppendGrows
  <2>4. \A k \in DOMAIN inbox : inbox'[k] = inbox[k]
    BY <1>1, <2>1, <2>2, AppendGrows
  <2>5. Waiting' = Waiting
    BY <2>2 DEF Waiting
  <2>6. \A k \in Waiting : Held(k)' \/ Lost'
    BY <1>1, <2>2, <2>3, GrowthKeeps
  <2>7. Quiet'
    BY <1>1, <2>1, <2>2, <2>3, <2>4, <2>5 DEF Quiet
  <2>8. \A a : (Due(inbox, a) => Due(inbox', a)) /\ (First(inbox, a) => First(inbox', a))
    BY <2>3, GrownKeeps
  <2> QED
    BY <1>1, <2>2, <2>5, <2>6, <2>7, <2>8 DEF Kept, Awaited, Keeping
<1>6. CASE Begin \/ Arm \/ Check \/ Ready \/ Loop \/ Signal \/ ParentDies \/ UNCHANGED vars
  <2>1. UNCHANGED <<kernel, fate, inbox, overrun, seq, batch, tx>>
    BY <1>6 DEF Begin, Arm, Check, Ready, Loop, Signal, ParentDies, vars, Goto, work, net, socket
  <2>2. pc' = pc \/ (pc \in {"begin", "arm", "check", "ready", "loop"} /\ pc' # "ack")
    BY <1>6 DEF Begin, Arm, Check, Ready, Loop, Signal, ParentDies, vars, Goto
  <2>3. Waiting' = Waiting
    BY <2>1 DEF Waiting
  <2>4. \A k \in Waiting : Held(k)' \/ Lost'
    BY <1>1, <2>1, <2>2 DEF Keeping, Held, InBatch, Lost
  <2> QED
    BY <1>1, <2>1, <2>2, <2>3, <2>4 DEF Kept, Quiet, Awaited, Keeping
<1> QED
  BY <1>2, <1>3, <1>4, <1>5, <1>6, ConfigureKeeps, AckKeeps, ReceiveKeeps, HandleKeeps, SendKeeps,
     ArriveKeeps DEF Next, Worker, Environment

\* Once the worker serves, every packet the kernel keeps is one it still knows
\* of, whatever went wrong while it was configured (nfqueue.rs:125, 186, 361).
THEOREM NothingLost == Spec => []Accounted
<1>1. ASSUME Init PROVE Kept
  <2>1. /\ inbox = <<>> /\ pc = "begin" /\ fate = <<>> /\ kernel.copying = FALSE
    BY <1>1 DEF Init
  <2>2. \A k \in DOMAIN <<>> : FALSE
    OBVIOUS
  <2>3. Waiting = {}
    BY <2>1, <2>2 DEF Waiting
  <2> QED
    BY <2>1, <2>2, <2>3 DEF Kept, Quiet, Awaited, Keeping
<1>2. Spec => [](Typed /\ Kept)
  BY <1>1, TypedInit, TypedNext, KeptNext, PTL DEF Spec
<1>3. Kept => Accounted
  BY DEF Kept, Keeping, Held, Holds, InInbox, Lost, Serving, Accounted
<1> QED
  BY <1>2, <1>3, PTL

-----------------------------------------------------------------------------
(* Bursts                                                                   *)

\* Nothing went wrong yet.
Alive == ~faulted /\ pc \notin {"exit", "off"}
At(q, k, j, i) == k \in DOMAIN q /\ j \in DOMAIN q[k].frames /\ q[k].frames[j] = Frame("packet", i)

\* Answers stand in the socket in the order of their requests, and the one that
\* ends the configuration was the last.
InOrder == \A k, l \in DOMAIN inbox : \A m, n \in Nat :
               IsAnswer(inbox[k], m) /\ IsAnswer(inbox[l], n) /\ k < l => m < n
Cleared == Serving => \A k \in DOMAIN inbox : \A n \in Nat : ~IsAnswer(inbox[k], n)
OnlyPackets == \A j \in DOMAIN batch : batch[j].type = "packet"
Replies == InOrder /\ Cleared /\ OnlyPackets

\* A packet is read once, and the kernel keeps it until its verdict is sent.
Distinct(q) == \A i, k, l, j, m : At(q, k, j, i) /\ At(q, l, m, i) => k = l /\ j = m
Apart == \A j, m \in DOMAIN batch : \A i :
             batch[j] = Frame("packet", i) /\ batch[m] = Frame("packet", i) => j = m
Once == /\ Distinct(inbox) /\ Apart
        /\ \A i : InBatch(i) => ~Holds(inbox, i)
        /\ pc = "send" => ~InBatch(tx.id) /\ ~Holds(inbox, tx.id)
Promised == \A i : Held(i) => i \in Waiting

Started == ready => Serving \/ pc \in {"exit", "off"}
Smooth == Started /\ BurstsSurvived /\ (Alive => Replies /\ Once /\ Promised)

LEMMA AliveBefore == Typed /\ [Next]_vars /\ Alive' => Alive
<1> SUFFICES ASSUME Typed, [Next]_vars, Alive' PROVE Alive
  OBVIOUS
<1>1. faulted' = FALSE /\ faulted \in BOOLEAN /\ pc' \notin {"exit", "off"}
  BY DEF Alive, Typed, TypeOK, LifeOK
<1>2. CASE Worker
  BY <1>1, <1>2 DEF Worker, Begin, Arm, Check, Bind, ConfigureParams, Ack, Ready, Loop, Receive,
     Handle, Send, Exit, Answered, NotAcked, Acked, Goto, Fine, Fault, Alive
<1>3. CASE Environment
  BY <1>1, <1>3 DEF Environment, Arrive, DeviceDown, Stranger, Signal, ParentDies, Fault, Alive
<1>4. CASE UNCHANGED vars
  BY <1>1, <1>4 DEF vars, Alive
<1> QED
  BY <1>2, <1>3, <1>4 DEF Next

LEMMA StrayIsAnswer ==
    ASSUME NEW d \in DatagramType, NEW ids, NEW last \in Nat, Shape(d, ids, last),
           NEW j \in DOMAIN d.frames, d.frames[j].type # "packet"
    PROVE  IsAnswer(d, d.frames[j].n) /\ j = 1 /\ d.frames[j].n \in 0 .. last
<1>1. Len(d.frames) = 1 /\ d.frames \in Seq(FrameType) /\ d.frames[j].n \in 0 .. last
  BY DEF Shape, DatagramType
<1>2. j = 1
  BY <1>1
<1>3. ~d.stranger
  <2>1. \A k \in DOMAIN <<>> : FALSE
    OBVIOUS
  <2> QED
    BY <2>1 DEF Shape
<1> QED
  BY <1>1, <1>2, <1>3 DEF IsAnswer

LEMMA AnswersRequested ==
    ASSUME Typed, NEW k \in DOMAIN inbox, NEW n, IsAnswer(inbox[k], n)
    PROVE  n \in 0 .. seq
<1>1. Shape(inbox[k], DOMAIN fate, seq) /\ inbox[k] \in DatagramType
  BY DEF Typed, Shaped, TypeOK, SocketOK
<1>2. 1 \in DOMAIN inbox[k].frames
  BY <1>1 DEF IsAnswer, DatagramType
<1> QED
  BY <1>1, <1>2 DEF IsAnswer, Shape

LEMMA PacketsCame ==
    ASSUME Typed, NEW i, Held(i)
    PROVE  i \in DOMAIN fate
<1>1. \A x : Frame("packet", x).type = "packet" /\ Frame("packet", x).n = x
  BY DEF Frame
<1>2. CASE Holds(inbox, i)
  BY <1>1, <1>2 DEF Holds, Typed, Shaped, Shape
<1>3. CASE InBatch(i)
  BY <1>1, <1>3 DEF InBatch, Typed, Batched
<1>4. CASE pc = "send" /\ tx.id = i
  BY <1>4 DEF Typed, Batched
<1> QED
  BY <1>2, <1>3, <1>4 DEF Held

\* What reading a datagram does to the answers and the packets in the socket.
LEMMA TailOrders ==
    ASSUME inbox \in Seq(DatagramType), inbox # <<>>, inbox' = Tail(inbox)
    PROVE  /\ InOrder => InOrder'
           /\ \A k, j, i : At(inbox', k, j, i) => k \in DOMAIN inbox' /\ At(inbox, k + 1, j, i)
           /\ \A k \in DOMAIN inbox' : /\ k + 1 \in DOMAIN inbox /\ 1 < k + 1
                                       /\ inbox'[k] = inbox[k + 1]
           /\ Distinct(inbox) => Distinct(inbox')
           /\ \A i : Holds(inbox', i) => Holds(inbox, i)
           /\ Distinct(inbox) => \A i : \A j \in DOMAIN inbox[1].frames :
                 inbox[1].frames[j] = Frame("packet", i) => Holds(inbox, i) /\ ~Holds(inbox', i)
<1>1. /\ DOMAIN inbox' = 1 .. (Len(inbox) - 1) /\ DOMAIN inbox = 1 .. Len(inbox)
      /\ Len(inbox) \in Nat \ {0} /\ \A k \in DOMAIN inbox' : inbox'[k] = inbox[k + 1]
  BY InboxTails
<1>2. \A k \in DOMAIN inbox' : k \in Nat /\ k + 1 \in DOMAIN inbox /\ 1 < k + 1 /\ inbox'[k] = inbox[k + 1]
  BY <1>1
<1>3. InOrder => InOrder'
  <2> SUFFICES ASSUME InOrder, NEW k \in DOMAIN inbox', NEW l \in DOMAIN inbox', NEW m \in Nat,
                      NEW n \in Nat, IsAnswer(inbox'[k], m), IsAnswer(inbox'[l], n), k < l
               PROVE  m < n
    BY DEF InOrder
  <2>1. k + 1 \in DOMAIN inbox /\ l + 1 \in DOMAIN inbox /\ k + 1 < l + 1
    BY <1>2
  <2> QED
    BY <1>2, <2>1 DEF InOrder
<1>4. \A k, j, i : At(inbox', k, j, i) => k \in DOMAIN inbox' /\ At(inbox, k + 1, j, i)
  BY <1>2 DEF At
<1>5. Distinct(inbox) => Distinct(inbox')
  <2> SUFFICES ASSUME Distinct(inbox), NEW i, NEW k, NEW l, NEW j, NEW m,
                      At(inbox', k, j, i), At(inbox', l, m, i)
               PROVE  k = l /\ j = m
    BY DEF Distinct
  <2>1. At(inbox, k + 1, j, i) /\ At(inbox, l + 1, m, i) /\ k \in DOMAIN inbox' /\ l \in DOMAIN inbox'
    BY <1>4
  <2>2. k + 1 = l + 1 /\ j = m
    BY <2>1 DEF Distinct
  <2> QED
    BY <1>2, <2>1, <2>2
<1>6. \A i : Holds(inbox', i) => Holds(inbox, i)
  BY <1>2 DEF Holds
<1>7. ASSUME Distinct(inbox), NEW i, NEW j \in DOMAIN inbox[1].frames,
             inbox[1].frames[j] = Frame("packet", i)
      PROVE  Holds(inbox, i) /\ ~Holds(inbox', i)
  <2>1. 1 \in DOMAIN inbox /\ At(inbox, 1, j, i)
    BY <1>1, <1>7 DEF At
  <2>2. Holds(inbox, i)
    BY <2>1 DEF Holds, At
  <2>3. ASSUME Holds(inbox', i) PROVE FALSE
    <3>1. PICK k \in DOMAIN inbox' : \E m \in DOMAIN inbox'[k].frames : inbox'[k].frames[m] = Frame("packet", i)
      BY <2>3 DEF Holds
    <3>2. PICK m : At(inbox, k + 1, m, i)
      BY <1>2, <3>1 DEF At
    <3>3. k + 1 = 1
      BY <1>7, <2>1, <3>2 DEF Distinct
    <3> QED
      BY <1>2, <3>3
  <2> QED
    BY <2>2, <2>3
<1> QED
  BY <1>2, <1>3, <1>4, <1>5, <1>6, <1>7

\* What an answer does to them.
LEMMA AnswerOrders ==
    ASSUME inbox \in Seq(DatagramType), NEW f \in FrameType, f.type # "packet",
           inbox' = Append(inbox, Datagram(f)),
           \A k \in DOMAIN inbox : \A n \in Nat : IsAnswer(inbox[k], n) => n < f.n
    PROVE  /\ InOrder => InOrder'
           /\ Distinct(inbox) => Distinct(inbox')
           /\ \A i : Holds(inbox', i) => Holds(inbox, i)
<1> DEFINE d == Datagram(f)
<1>1. d \in DatagramType /\ DOMAIN d.frames = {1} /\ d.frames[1] = f /\ inbox' = Append(inbox, d)
  BY DatagramFits
<1> HIDE DEF d
<1>2. /\ DOMAIN inbox' = 1 .. (Len(inbox) + 1) /\ DOMAIN inbox = 1 .. Len(inbox)
      /\ Len(inbox) \in Nat /\ \A k \in DOMAIN inbox : inbox'[k] = inbox[k]
      /\ inbox'[Len(inbox) + 1] = d
  BY <1>1, InboxAppends
<1>3. InOrder => InOrder'
  <2> SUFFICES ASSUME InOrder, NEW k \in DOMAIN inbox', NEW l \in DOMAIN inbox', NEW m \in Nat,
                      NEW n \in Nat, IsAnswer(inbox'[k], m), IsAnswer(inbox'[l], n), k < l
               PROVE  m < n
    BY DEF InOrder
  <2>1. k \in DOMAIN inbox
    BY <1>2
  <2>2. CASE l \in DOMAIN inbox
    BY <1>2, <2>1, <2>2 DEF InOrder
  <2>3. CASE l \notin DOMAIN inbox
    <3>1. inbox'[l] = d
      BY <1>2, <2>3
    <3>2. n = f.n
      BY <1>1, <3>1 DEF IsAnswer
    <3> QED
      BY <1>2, <2>1, <3>2
  <2> QED
    BY <2>2, <2>3
<1>4. ASSUME NEW k, NEW j, NEW i, At(inbox', k, j, i) PROVE At(inbox, k, j, i)
  <2>1. Frame("packet", i).type = "packet"
    BY DEF Frame
  <2>2. k \in DOMAIN inbox \/ inbox'[k] = d
    BY <1>2, <1>4 DEF At
  <2>3. inbox'[k] # d
    BY <1>1, <1>4, <2>1 DEF At
  <2> QED
    BY <1>2, <1>4, <2>2, <2>3 DEF At
<1>5. \A i : Holds(inbox', i) => Holds(inbox, i)
  BY <1>4 DEF Holds, At
<1> QED
  BY <1>3, <1>4, <1>5 DEF Distinct

\* What a message of a packet does to them.
LEMMA DeliverOrders ==
    ASSUME inbox \in Seq(DatagramType), NEW p \in Nat, Deliver(Frame("packet", p)),
           ~Holds(inbox, p)
    PROVE  /\ \A k \in DOMAIN inbox' : \A n : IsAnswer(inbox'[k], n) =>
                  k \in DOMAIN inbox /\ IsAnswer(inbox[k], n)
           /\ Distinct(inbox) => Distinct(inbox')
           /\ \A i : Holds(inbox', i) => Holds(inbox, i) \/ i = p
<1> DEFINE f == Frame("packet", p)
<1>1. f \in FrameType /\ f.type = "packet" /\ \A i : Frame("packet", i) = f => i = p
  BY DEF Frame, FrameType
<1>2. Deliver(f)
  OBVIOUS
<1> HIDE DEF f
<1>3. Extends(f)
  BY <1>1, <1>2, DeliverExtends
<1>4. ASSUME NEW k \in DOMAIN inbox', NEW n, IsAnswer(inbox'[k], n)
      PROVE  k \in DOMAIN inbox /\ IsAnswer(inbox[k], n)
  <2>1. inbox'[k] \in DatagramType
    BY <1>3 DEF Extends
  <2>2. 1 \in DOMAIN inbox'[k].frames
    BY <1>4, <2>1 DEF IsAnswer, DatagramType
  <2>3. k \in DOMAIN inbox
    <3>1. Datagram(f).frames[1].type = "packet"
      BY <1>1, DatagramFits
    <3> QED
      BY <1>3, <1>4, <3>1 DEF Extends, IsAnswer
  <2>4. CASE AllPackets(inbox[k])
    <3>1. 1 \in DOMAIN inbox[k].frames \/ inbox'[k].frames[1] = f
      BY <1>3, <2>2, <2>3, <2>4 DEF Extends
    <3>2. inbox'[k].frames[1].type = "packet"
      BY <1>1, <1>3, <2>3, <2>4, <3>1 DEF Extends, AllPackets
    <3> QED
      BY <1>4, <3>2 DEF IsAnswer
  <2> QED
    BY <1>3, <1>4, <2>3, <2>4 DEF Extends
<1>5. \E x, y \in Nat : \A k, j, i : At(inbox', k, j, i) => At(inbox, k, j, i) \/ (i = p /\ k = x /\ j = y)
  <2>1. CASE inbox' = Append(inbox, Datagram(f))
    <3> DEFINE d == Datagram(f)
    <3>1. d \in DatagramType /\ DOMAIN d.frames = {1} /\ d.frames[1] = f /\ inbox' = Append(inbox, d)
      BY <1>1, <2>1, DatagramFits
    <3> HIDE DEF d
    <3>2. /\ DOMAIN inbox' = 1 .. (Len(inbox) + 1) /\ DOMAIN inbox = 1 .. Len(inbox)
          /\ Len(inbox) \in Nat /\ \A k \in DOMAIN inbox : inbox'[k] = inbox[k]
          /\ inbox'[Len(inbox) + 1] = d
      BY <3>1, InboxAppends
    <3>3. ASSUME NEW k, NEW j, NEW i, At(inbox', k, j, i)
          PROVE  At(inbox, k, j, i) \/ (i = p /\ k = Len(inbox) + 1 /\ j = 1)
      <4>1. CASE k \in DOMAIN inbox
        BY <3>2, <3>3, <4>1 DEF At
      <4>2. CASE k \notin DOMAIN inbox
        <5>1. k = Len(inbox) + 1 /\ inbox'[k] = d
          BY <3>2, <3>3, <4>2 DEF At
        <5>2. j = 1 /\ Frame("packet", i) = f
          BY <3>1, <3>3, <5>1 DEF At
        <5> QED
          BY <1>1, <5>1, <5>2
      <4> QED
        BY <4>1, <4>2
    <3>4. Len(inbox) + 1 \in Nat /\ 1 \in Nat
      BY <3>2
    <3> QED
      BY <3>3, <3>4
  <2>2. CASE /\ inbox # <<>> /\ AllPackets(inbox[Len(inbox)])
             /\ inbox' = [inbox EXCEPT ![Len(inbox)].frames = Append(@, f)]
    <3> DEFINE c == Len(inbox)
               s == inbox[c].frames
    <3>1. c \in DOMAIN inbox /\ inbox[c] \in DatagramType /\ s \in Seq(FrameType)
      <4>1. c \in DOMAIN inbox /\ inbox[c] \in DatagramType
        BY <2>2
      <4> QED
        BY <4>1 DEF DatagramType
    <3>2. /\ DOMAIN inbox' = DOMAIN inbox
          /\ \A k \in DOMAIN inbox : k # c => inbox'[k] = inbox[k]
          /\ inbox'[c].frames = Append(s, f)
      <4>1. inbox' = [inbox EXCEPT ![c] = [inbox[c] EXCEPT !.frames = Append(s, f)]]
        BY <2>2
      <4>2. inbox'[c] = [inbox[c] EXCEPT !.frames = Append(s, f)]
        BY <3>1, <4>1
      <4>3. inbox'[c].frames = Append(s, f)
        BY <3>1, <4>2 DEF DatagramType
      <4> QED
        BY <3>1, <4>1, <4>3
    <3> HIDE DEF c, s
    <3>3. /\ DOMAIN Append(s, f) = 1 .. (Len(s) + 1) /\ DOMAIN s = 1 .. Len(s) /\ Len(s) \in Nat
          /\ \A j \in DOMAIN s : Append(s, f)[j] = s[j]
          /\ Append(s, f)[Len(s) + 1] = f
      BY <1>1, <3>1
    <3>4. ASSUME NEW k, NEW j, NEW i, At(inbox', k, j, i)
          PROVE  At(inbox, k, j, i) \/ (i = p /\ k = c /\ j = Len(s) + 1)
      <4>1. CASE k # c
        BY <3>2, <3>4, <4>1 DEF At
      <4>2. CASE k = c
        <5>1. j \in DOMAIN Append(s, f) /\ Append(s, f)[j] = Frame("packet", i)
          BY <3>2, <3>4, <4>2 DEF At
        <5>2. CASE j \in DOMAIN s
          BY <3>1, <3>3, <4>2, <5>1, <5>2 DEF At, s
        <5>3. CASE j \notin DOMAIN s
          <6>1. j = Len(s) + 1
            BY <3>3, <5>1, <5>3
          <6> QED
            BY <1>1, <3>3, <4>2, <5>1, <6>1
        <5> QED
          BY <5>2, <5>3
      <4> QED
        BY <4>1, <4>2
    <3>5. c \in Nat /\ Len(s) + 1 \in Nat
      BY <3>1, <3>3
    <3> QED
      BY <3>4, <3>5
  <2> QED
    BY <1>2, <2>1, <2>2 DEF Deliver
<1>6. PICK x, y \in Nat : \A k, j, i : At(inbox', k, j, i) => At(inbox, k, j, i) \/ (i = p /\ k = x /\ j = y)
  BY <1>5
<1>7. \A k, j : ~At(inbox, k, j, p)
  BY DEF At, Holds
<1>8. Distinct(inbox) => Distinct(inbox')
  BY <1>6, <1>7 DEF Distinct
<1>9. \A i : Holds(inbox', i) => Holds(inbox, i) \/ i = p
  BY <1>6 DEF Holds, At
<1> QED
  BY <1>4, <1>8, <1>9

-----------------------------------------------------------------------------
(* The steps that keep what is read once, and answered, in its place        *)

\* A step that leaves the packets alone.
LEMMA OnceStays ==
    ASSUME Once, Promised, Distinct(inbox'), \A i : Holds(inbox', i) => Holds(inbox, i),
           UNCHANGED <<batch, tx, fate>>, pc' = "send" => pc = "send"
    PROVE  Once' /\ Promised'
<1>1. \A i : InBatch(i)' = InBatch(i)
  BY DEF InBatch
<1>2. Waiting' = Waiting
  BY DEF Waiting
<1>3. Apart'
  BY DEF Once, Apart
<1>4. Once'
  BY <1>1, <1>3 DEF Once
<1>5. Promised'
  BY <1>1, <1>2 DEF Promised, Held
<1> QED
  BY <1>4, <1>5

LEMMA BurstConfigure ==
    ASSUME Typed, Replies, Once, Promised, Alive', Bind \/ ConfigureParams
    PROVE  Replies' /\ Once' /\ Promised'
<1>1. /\ inbox \in Seq(DatagramType) /\ seq \in Nat /\ seq' = seq + 1 /\ pc' = "ack"
      /\ UNCHANGED <<fate, batch, tx>>
  <2>1. CASE Bind
    BY <2>1 DEF Bind, Typed, TypeOK, SocketOK, Requests, net
  <2>2. CASE ConfigureParams
    BY <2>2 DEF ConfigureParams, Typed, TypeOK, SocketOK, Requests, net
  <2> QED
    BY <2>1, <2>2
<1>2. PICK type \in {"ack", "error"} : inbox' = Append(inbox, Datagram(Frame(type, seq')))
  BY <1>1 DEF Bind, ConfigureParams, Answered, Fault, Alive
<1> DEFINE f == Frame(type, seq')
<1>3. f \in FrameType /\ f.type # "packet" /\ f.n = seq + 1 /\ inbox' = Append(inbox, Datagram(f))
  BY <1>1, <1>2 DEF Frame, FrameType
<1> HIDE DEF f
<1>4. \A k \in DOMAIN inbox : \A n \in Nat : IsAnswer(inbox[k], n) => n < f.n
  <2>1. \A k \in DOMAIN inbox : \A n \in Nat : IsAnswer(inbox[k], n) => n \in 0 .. seq
    BY AnswersRequested
  <2> QED
    BY <1>1, <1>3, <2>1
<1>5. InOrder' /\ Distinct(inbox') /\ \A i : Holds(inbox', i) => Holds(inbox, i)
  BY <1>1, <1>3, <1>4, AnswerOrders DEF Replies, Once
<1>6. Once' /\ Promised'
  BY <1>1, <1>5, OnceStays
<1> QED
  BY <1>1, <1>5, <1>6 DEF Replies, OnlyPackets, Cleared, Serving

LEMMA BurstAck ==
    ASSUME Typed, Replies, Once, Promised, Alive', Ack
    PROVE  Replies' /\ Once' /\ Promised'
<1>1. /\ inbox \in Seq(DatagramType) /\ pc = "ack" /\ seq \in Nat
      /\ UNCHANGED <<fate, seq, batch, tx>>
  BY DEF Ack, Typed, TypeOK, SocketOK, Requests, net, work
<1>2. \/ inbox' = inbox /\ pc' = "params"
      \/ inbox # <<>> /\ inbox' = Tail(inbox) /\ (pc' = "params" \/ (pc' = "ready" /\ Answer))
  BY DEF Ack, NotAcked, Acked, Fault, Alive
<1>3. InOrder' /\ Distinct(inbox') /\ \A i : Holds(inbox', i) => Holds(inbox, i)
  <2>1. CASE inbox' = inbox
    BY <2>1 DEF Replies, InOrder, Once
  <2>2. CASE inbox # <<>> /\ inbox' = Tail(inbox)
    BY <1>1, <2>2, TailOrders DEF Replies, Once
  <2> QED
    BY <1>2, <2>1, <2>2
<1>4. Once' /\ Promised'
  BY <1>1, <1>2, <1>3, OnceStays
<1>5. Cleared'
  <2>1. CASE pc' = "params"
    BY <2>1 DEF Cleared, Serving
  <2>2. CASE inbox # <<>> /\ inbox' = Tail(inbox) /\ Answer
    <3>1. 1 \in DOMAIN inbox /\ inbox[1] \in DatagramType /\ Head(inbox) = inbox[1]
      BY <1>1, <2>2, InboxTails
    <3>2. IsAnswer(inbox[1], seq)
      <4>1. PICK j \in DOMAIN inbox[1].frames : inbox[1].frames[j] = Frame("ack", seq)
        BY <2>2, <3>1 DEF Answer
      <4>2. inbox[1].frames[j].type # "packet" /\ inbox[1].frames[j].n = seq
        BY <4>1 DEF Frame
      <4>3. Shape(inbox[1], DOMAIN fate, seq)
        BY <3>1 DEF Typed, Shaped
      <4> QED
        BY <1>1, <3>1, <4>2, <4>3, StrayIsAnswer
    <3>3. ASSUME NEW k \in DOMAIN inbox', NEW n \in Nat, IsAnswer(inbox'[k], n) PROVE FALSE
      <4>1. k + 1 \in DOMAIN inbox /\ 1 < k + 1 /\ IsAnswer(inbox[k + 1], n)
        BY <1>1, <2>2, <3>3, TailOrders
      <4>2. seq < n
        BY <1>1, <3>1, <3>2, <4>1 DEF Replies, InOrder
      <4>3. n \in 0 .. seq
        BY <4>1, AnswersRequested
      <4> QED
        BY <1>1, <4>2, <4>3
    <3> QED
      BY <3>3 DEF Cleared
  <2> QED
    BY <1>2, <2>1, <2>2
<1> QED
  BY <1>1, <1>3, <1>4, <1>5 DEF Replies, OnlyPackets

LEMMA BurstReceive ==
    ASSUME Typed, Replies, Once, Promised, Alive', Receive
    PROVE  Replies' /\ Once' /\ Promised'
<1>1. /\ pc = "poll" /\ pc' \in {"loop", "frames"} /\ batch = <<>>
      /\ inbox \in Seq(DatagramType) /\ UNCHANGED <<fate, seq, tx>>
  BY DEF Receive, Typed, TypeOK, SocketOK, Batched, net, Fault, Alive
<1>2. \A i : ~InBatch(i)
  <2>1. \A j \in DOMAIN <<>> : FALSE
    OBVIOUS
  <2> QED
    BY <1>1, <2>1 DEF InBatch
<1>3. \/ inbox' = inbox /\ UNCHANGED batch
      \/ inbox # <<>> /\ inbox' = Tail(inbox) /\ (UNCHANGED batch \/ batch' = Head(inbox).frames)
  BY DEF Receive, socket
<1>4. CASE inbox' = inbox /\ UNCHANGED batch
  <2>1. Once' /\ Promised'
    BY <1>1, <1>4, OnceStays DEF Once
  <2> QED
    BY <1>1, <1>4, <2>1 DEF Replies, InOrder, Cleared, OnlyPackets, Serving
<1>5. CASE inbox # <<>> /\ inbox' = Tail(inbox)
  <2>1. /\ InOrder' /\ Distinct(inbox') /\ \A i : Holds(inbox', i) => Holds(inbox, i)
        /\ \A k \in DOMAIN inbox' : k + 1 \in DOMAIN inbox /\ inbox'[k] = inbox[k + 1]
        /\ \A i : \A j \in DOMAIN inbox[1].frames :
              inbox[1].frames[j] = Frame("packet", i) => Holds(inbox, i) /\ ~Holds(inbox', i)
    BY <1>1, <1>5, TailOrders DEF Replies, Once
  <2>2. Cleared'
    BY <1>1, <2>1 DEF Replies, Cleared, Serving
  <2>3. CASE UNCHANGED batch
    <3>1. Once' /\ Promised'
      BY <1>1, <2>1, <2>3, OnceStays
    <3> QED
      BY <2>1, <2>2, <2>3, <3>1 DEF Replies, OnlyPackets
  <2>4. CASE batch' = Head(inbox).frames
    <3> DEFINE d == inbox[1]
    <3>1. batch' = d.frames /\ d \in DatagramType /\ 1 \in DOMAIN inbox
      BY <1>1, <1>5, <2>4, InboxTails
    <3>2. \A j \in DOMAIN d.frames : d.frames[j].type = "packet"
      <4> SUFFICES ASSUME NEW j \in DOMAIN d.frames, d.frames[j].type # "packet" PROVE FALSE
        OBVIOUS
      <4>1. Shape(d, DOMAIN fate, seq) /\ seq \in Nat
        BY <3>1 DEF Typed, Shaped, TypeOK, LifeOK
      <4>2. IsAnswer(d, d.frames[j].n) /\ d.frames[j].n \in Nat
        BY <3>1, <4>1, StrayIsAnswer
      <4> QED
        BY <1>1, <3>1, <4>2 DEF Replies, Cleared, Serving
    <3>3. \A i : \A j \in DOMAIN d.frames : d.frames[j] = Frame("packet", i) => At(inbox, 1, j, i)
      BY <3>1 DEF At
    <3>4. Apart'
      BY <3>1, <3>3 DEF Apart, Once, Distinct
    <3>5. \A i : InBatch(i)' => Holds(inbox, i) /\ ~Holds(inbox', i)
      BY <2>1, <3>1 DEF InBatch
    <3>6. Once'
      BY <1>1, <2>1, <3>4, <3>5 DEF Once
    <3>7. Promised'
      <4>1. \A i : Held(i)' => Held(i)
        BY <1>1, <2>1, <3>5 DEF Held
      <4> QED
        BY <1>1, <4>1 DEF Promised, Waiting
    <3>8. OnlyPackets'
      BY <3>1, <3>2 DEF OnlyPackets
    <3> QED
      BY <2>1, <2>2, <3>6, <3>7, <3>8 DEF Replies
  <2> QED
    BY <1>3, <1>5, <2>3, <2>4, <1>4
<1> QED
  BY <1>3, <1>4, <1>5

LEMMA BurstHandle ==
    ASSUME Typed, Replies, Once, Promised, Alive', Handle
    PROVE  Replies' /\ Once' /\ Promised'
<1>1. /\ pc = "frames" /\ batch \in Seq(FrameType) /\ UNCHANGED <<inbox, fate>>
  BY DEF Handle, Goto, Typed, TypeOK, SocketOK, net, socket
<1>2. \/ pc' = "loop" /\ UNCHANGED <<batch, tx>>
      \/ /\ batch # <<>> /\ Head(batch).type = "packet" /\ pc' = "send"
         /\ tx' = Verdict(Head(batch).n) /\ batch' = Tail(batch)
  BY DEF Handle, Goto, Alive
<1>3. InOrder' /\ Cleared' /\ Waiting' = Waiting
  BY <1>1, <1>2 DEF Replies, InOrder, Cleared, Serving, Waiting
<1>4. CASE pc' = "loop" /\ UNCHANGED <<batch, tx>>
  <2>1. Once' /\ Promised'
    BY <1>1, <1>4, OnceStays DEF Once
  <2> QED
    BY <1>3, <1>4, <2>1 DEF Replies, OnlyPackets
<1>5. CASE /\ batch # <<>> /\ Head(batch).type = "packet" /\ pc' = "send"
           /\ tx' = Verdict(Head(batch).n) /\ batch' = Tail(batch)
  <2> PICK p : p = Head(batch).n
    OBVIOUS
  <2>1. /\ 1 \in DOMAIN batch /\ Head(batch) = batch[1] /\ batch[1] \in FrameType
        /\ \A j \in DOMAIN batch' : j \in Nat /\ j + 1 \in DOMAIN batch /\ 1 < j + 1 /\ batch'[j] = batch[j + 1]
    BY <1>1, <1>5
  <2>2. batch[1] = Frame("packet", p)
    BY <1>5, <2>1 DEF Frame, FrameType
  <2>3. tx'.id = p
    BY <1>5 DEF Verdict
  <2>4. InBatch(p) /\ ~Holds(inbox, p)
    BY <2>1, <2>2 DEF InBatch, Once
  <2>5. \A i : InBatch(i)' => InBatch(i)
    BY <2>1 DEF InBatch
  <2>6. ~InBatch(p)'
    <3> SUFFICES ASSUME NEW j \in DOMAIN batch', batch'[j] = Frame("packet", p) PROVE FALSE
      BY DEF InBatch
    <3>1. j + 1 \in DOMAIN batch /\ batch[j + 1] = Frame("packet", p) /\ 1 < j + 1
      BY <2>1
    <3>2. j + 1 = 1
      BY <2>1, <2>2, <3>1 DEF Once, Apart
    <3> QED
      BY <3>1, <3>2
  <2>7. Apart'
    <3> SUFFICES ASSUME NEW j \in DOMAIN batch', NEW m \in DOMAIN batch', NEW i,
                        batch'[j] = Frame("packet", i), batch'[m] = Frame("packet", i)
                 PROVE  j = m
      BY DEF Apart
    <3>1. j + 1 = m + 1
      BY <2>1 DEF Once, Apart
    <3> QED
      BY <2>1, <3>1
  <2>8. Once'
    BY <1>1, <1>5, <2>3, <2>4, <2>5, <2>6, <2>7 DEF Once
  <2>9. Promised'
    BY <1>1, <1>3, <1>5, <2>3, <2>4, <2>5 DEF Promised, Held
  <2>10. OnlyPackets'
    BY <2>1 DEF Replies, OnlyPackets
  <2> QED
    BY <1>3, <2>8, <2>9, <2>10 DEF Replies
<1> QED
  BY <1>2, <1>4, <1>5

LEMMA BurstSend ==
    ASSUME Typed, Replies, Once, Promised, Alive', Send
    PROVE  Replies' /\ Once' /\ Promised'
<1> DEFINE p == tx.id
<1>1. pc = "send" /\ p \in Waiting /\ Held(p)
  BY DEF Send, Promised, Held
<1>2. pc' = "frames" /\ UNCHANGED <<inbox, batch>> /\ fate' = [fate EXCEPT ![p] = "accepted"]
  BY <1>1 DEF Send, Fault, Alive, socket
<1>3. ~InBatch(p) /\ ~Holds(inbox, p)
  BY <1>1 DEF Once
<1> HIDE DEF p
<1>4. \A i \in Waiting : i # p => i \in Waiting'
  BY <1>2 DEF Waiting
<1>5. \A i : InBatch(i)' = InBatch(i)
  BY <1>2 DEF InBatch
<1>6. Promised'
  BY <1>2, <1>3, <1>4, <1>5 DEF Promised, Held
<1>7. Once'
  BY <1>2, <1>5 DEF Once, Apart
<1>8. Replies'
  BY <1>1, <1>2 DEF Replies, InOrder, Cleared, OnlyPackets, Serving
<1> QED
  BY <1>6, <1>7, <1>8

LEMMA BurstArrive ==
    ASSUME Typed, Replies, Once, Promised, Alive', Arrive
    PROVE  Replies' /\ Once' /\ Promised'
<1> DEFINE p == Len(fate) + 1
<1>1. /\ inbox \in Seq(DatagramType) /\ fate \in Seq(Fates) /\ p \in Nat /\ p \notin DOMAIN fate
      /\ UNCHANGED <<pc, seq, batch, tx>>
  BY DEF Arrive, Typed, TypeOK, SocketOK, NetOK, work
<1>2. \/ Deliver(Frame("packet", p)) /\ fate' = Append(fate, "waiting")
      \/ inbox' = inbox /\ \E x : fate' = Append(fate, x)
  BY DEF Arrive, Queued, Unqueued
<1>3. ~Held(p)
  BY <1>1, PacketsCame
<1>4. Waiting \subseteq Waiting' /\ (fate' = Append(fate, "waiting") => p \in Waiting')
  BY <1>1, <1>2 DEF Waiting
<1> HIDE DEF p
<1>5. \A i : InBatch(i)' = InBatch(i)
  BY <1>1 DEF InBatch
<1>6. CASE inbox' = inbox
  <2>1. Once' /\ Replies'
    BY <1>1, <1>5, <1>6 DEF Once, Apart, Replies, InOrder, Cleared, OnlyPackets, Serving
  <2>2. Promised'
    BY <1>1, <1>4, <1>5, <1>6 DEF Promised, Held
  <2> QED
    BY <2>1, <2>2
<1>7. CASE Deliver(Frame("packet", p)) /\ fate' = Append(fate, "waiting")
  <2>1. /\ \A k \in DOMAIN inbox' : \A n : IsAnswer(inbox'[k], n) =>
               k \in DOMAIN inbox /\ IsAnswer(inbox[k], n)
        /\ Distinct(inbox) => Distinct(inbox')
        /\ \A i : Holds(inbox', i) => Holds(inbox, i) \/ i = p
    BY <1>1, <1>3, <1>7, DeliverOrders DEF Held
  <2>2. Replies'
    BY <1>1, <2>1 DEF Replies, InOrder, Cleared, OnlyPackets, Serving
  <2>3. Once'
    BY <1>1, <1>3, <1>5, <2>1 DEF Once, Apart, Held
  <2>4. Promised'
    BY <1>1, <1>4, <1>5, <1>7, <2>1 DEF Promised, Held
  <2> QED
    BY <2>2, <2>3, <2>4
<1> QED
  BY <1>2, <1>6, <1>7

LEMMA BurstRest ==
    ASSUME Replies, Once, Promised, Alive',
           Begin \/ Arm \/ Check \/ Ready \/ Loop \/ Signal \/ ParentDies \/ UNCHANGED vars
    PROVE  Replies' /\ Once' /\ Promised'
<1>1. UNCHANGED <<fate, inbox, batch, tx>>
  BY DEF Begin, Arm, Check, Ready, Loop, Signal, ParentDies, vars, Goto, work, net, socket
<1>2. (pc' = "send" => pc = "send") /\ (Serving' => Serving)
  BY DEF Begin, Arm, Check, Ready, Loop, Signal, ParentDies, vars, Goto, Fault, Alive, Serving
<1>3. Once' /\ Promised'
  BY <1>1, <1>2, OnceStays DEF Once
<1> QED
  BY <1>1, <1>2, <1>3 DEF Replies, InOrder, Cleared, OnlyPackets

LEMMA SmoothNext == Typed /\ Smooth /\ [Next]_vars => Smooth'
<1> SUFFICES ASSUME Typed, Smooth, [Next]_vars PROVE Smooth'
  OBVIOUS
<1>1. Started'
  BY DEF Smooth, Started, Serving, Next, Worker, Environment, Begin, Arm, Check, Bind, ConfigureParams,
     Ack, Ready, Loop, Receive, Handle, Send, Exit, Arrive, DeviceDown, Stranger, Signal, ParentDies,
     vars, Goto, work, Acked, NotAcked
<1>2. ASSUME Alive' PROVE Replies' /\ Once' /\ Promised'
  <2>1. Alive /\ Replies /\ Once /\ Promised
    BY <1>2, AliveBefore DEF Smooth
  <2>2. ~Exit /\ ~DeviceDown /\ ~Stranger
    BY <1>2 DEF Exit, DeviceDown, Stranger, Fault, Alive
  <2> QED
    BY <1>2, <2>1, <2>2, BurstConfigure, BurstAck, BurstReceive, BurstHandle, BurstSend, BurstArrive,
       BurstRest DEF Next, Worker, Environment
<1>3. ASSUME ready', ~faulted', pc' \in {"exit", "off"} PROVE stop'
  <2>1. CASE pc \in {"exit", "off"}
    <3>1. ready /\ (faulted => faulted') /\ (stop => stop') /\ faulted \in BOOLEAN
      BY <1>3, <2>1 DEF Next, Worker, Environment, Begin, Arm, Check, Bind, ConfigureParams,
         Ack, Ready, Loop, Receive, Handle, Send, Exit, Arrive, DeviceDown, Stranger, Signal, ParentDies,
         vars, Fine, Fault, life, Typed, TypeOK, LifeOK
    <3> QED
      BY <1>3, <2>1, <3>1 DEF Smooth, BurstsSurvived
  <2>2. CASE pc \notin {"exit", "off"}
    <3>1. ~faulted
      BY <1>3 DEF Next, Worker, Environment, Begin, Arm, Check, Bind, ConfigureParams,
         Ack, Ready, Loop, Receive, Handle, Send, Exit, Arrive, DeviceDown, Stranger, Signal, ParentDies,
         vars, Fine, Fault, Answered
    <3>2. Replies
      BY <2>2, <3>1 DEF Alive, Smooth
    <3>3. ready => Serving
      BY <2>2 DEF Smooth, Started
    <3>4. Head(batch).type = "packet" \/ batch = <<>>
      <4>1. batch \in Seq(FrameType)
        BY DEF Typed, TypeOK, SocketOK
      <4> QED
        BY <3>2, <4>1 DEF Replies, OnlyPackets
    <3>5. ready /\ Serving
      BY <1>3, <3>3 DEF Next, Worker, Environment, Begin, Arm, Check, Bind, ConfigureParams, Ack,
         Ready, Loop, Receive, Handle, Send, Exit, Arrive, DeviceDown, Stranger, Signal, ParentDies,
         vars, Goto
    <3>6. CASE Loop
      BY <1>3, <3>6 DEF Loop, Goto, life
    <3>7. ~(Ready \/ Receive \/ Handle \/ Send)
      BY <1>3, <3>4 DEF Ready, Receive, Handle, Send, Goto, Fault
    <3>8. ~(Begin \/ Arm \/ Check \/ Bind \/ ConfigureParams \/ Ack \/ Exit)
      BY <3>5 DEF Serving, Begin, Arm, Check, Bind, ConfigureParams, Ack, Exit
    <3>9. ~(Environment \/ UNCHANGED vars)
      BY <1>3, <3>5 DEF Serving, Environment, Arrive, DeviceDown, Stranger, Signal, ParentDies, vars
    <3> QED
      BY <3>6, <3>7, <3>8, <3>9 DEF Next, Worker
  <2> QED
    BY <2>1, <2>2
<1> QED
  BY <1>1, <1>2, <1>3 DEF Smooth, BurstsSurvived

LEMMA Smoothly == Spec => [](Typed /\ Smooth)
<1>1. ASSUME Init PROVE Smooth
  <2>1. /\ inbox = <<>> /\ batch = <<>> /\ pc = "begin" /\ ready = FALSE
    BY <1>1 DEF Init
  <2>2. \A k \in DOMAIN <<>> : FALSE
    OBVIOUS
  <2>3. Replies
    BY <2>1, <2>2 DEF Replies, InOrder, Cleared, OnlyPackets
  <2>4. \A i : ~Held(i)
    BY <2>1, <2>2 DEF Held, Holds, InBatch
  <2>5. Once /\ Promised
    BY <2>1, <2>2, <2>4 DEF Once, Distinct, At, Apart, Promised, Held
  <2> QED
    BY <2>1, <2>3, <2>5 DEF Smooth, Started, BurstsSurvived
<1> QED
  BY <1>1, TypedInit, TypedNext, SmoothNext, PTL DEF Spec

\* Packets alone never end a worker that serves: what it reads in a burst is a
\* packet the kernel still keeps, and no answer is left to be taken for an
\* error (nfqueue.rs:186-189, 365-377).
THEOREM PacketsSurvived == Spec => []BurstsSurvived
<1>1. Typed /\ Smooth => BurstsSurvived
  BY DEF Smooth
<1> QED
  BY <1>1, Smoothly, PTL

\* The verdict about to be sent is about a packet the kernel keeps and that is
\* nowhere else.
OneVerdict == pc = "send" /\ ~faulted => /\ tx.id \in Waiting
                                        /\ ~InBatch(tx.id) /\ ~InInbox(tx.id)

\* No packet gets two verdicts, whatever bursts and datagrams it came in: while
\* nothing goes wrong the kernel never answers a verdict with an error, which
\* would end the worker (nfqueue.rs:412-430).
THEOREM VerdictsOnce == Spec => []OneVerdict
<1>1. Typed /\ Smooth => OneVerdict
  <2> SUFFICES ASSUME Smooth, pc = "send", ~faulted
               PROVE  tx.id \in Waiting /\ ~InBatch(tx.id) /\ ~InInbox(tx.id)
    BY DEF OneVerdict
  <2>1. Once /\ Promised
    BY DEF Smooth, Alive
  <2>2. Held(tx.id)
    BY DEF Held
  <2> QED
    BY <2>1, <2>2 DEF Once, Promised, Holds, InInbox
<1> QED
  BY <1>1, Smoothly, PTL

-----------------------------------------------------------------------------
(* The parent                                                               *)

\* From the second getppid on the kernel tells us; before the first nobody
\* knows whose child we are.
Watched == /\ pc \in {"check", "bind", "params", "ack", "ready", "loop", "poll", "frames", "send"} => armed
           /\ pc = "begin" => ~spawned
\* A worker whose parent was there when it first looked and is gone has been
\* told to stop, is about to look again, or ends: the parent cannot die between
\* the two looks unnoticed (nfqueue.rs:290-296).  It is what OrphanEnds, a
\* property of fair behaviours, rests on.
OrphanTold == ~parent /\ spawned => stop \/ pc \in {"arm", "check", "exit", "off"}

LEMMA WatchedNext ==
    ASSUME TypeOK, Watched, OrphanTold, [Next]_vars
    PROVE  Watched' /\ OrphanTold'
<1> DEFINE Later == {"bind", "params", "ack", "ready", "loop", "poll", "frames", "send"}
<1>1. parent \in BOOLEAN /\ spawned \in BOOLEAN /\ armed \in BOOLEAN /\ stop \in BOOLEAN
  BY DEF TypeOK, LifeOK
<1>2. CASE UNCHANGED <<parent, life>> /\ (pc' = pc \/ pc' \in {"exit", "off"})
  BY <1>2 DEF Watched, OrphanTold, life
<1>3. CASE Begin
  BY <1>3 DEF Begin, Goto, Watched, OrphanTold, sys
<1>4. CASE Arm
  <2>1. pc = "arm" /\ parent' = parent /\ spawned' = spawned /\ stop' = stop
    BY <1>4 DEF Arm, sys
  <2>2. (pc' = "check" /\ armed') \/ pc' = "exit"
    BY <1>4 DEF Arm, Goto
  <2> QED
    BY <2>1, <2>2 DEF Watched, OrphanTold
\* Whoever was not told when it died is noticed by the second look.
<1>5. CASE Check
  <2>1. /\ pc = "check" /\ ((pc' = "bind" /\ parent = spawned) \/ pc' = "exit")
        /\ parent' = parent /\ spawned' = spawned /\ stop' = stop /\ armed' = armed
    BY <1>5 DEF Check, Goto, sys, life
  <2> QED
    BY <1>1, <2>1 DEF Watched, OrphanTold
<1>6. CASE Bind \/ ConfigureParams \/ Ack \/ Ready \/ Loop \/ Receive \/ Handle \/ Send
  <2>1. pc \in Later /\ pc' \in Later \cup {"exit"}
    BY <1>6 DEF Bind, ConfigureParams, Ack, Acked, NotAcked, Ready, Loop, Receive, Handle, Send, Goto
  <2>2. UNCHANGED <<parent, life>>
    BY <1>6 DEF Bind, ConfigureParams, Ack, Ready, Loop, Receive, Handle, Send, sys
  <2> QED
    BY <2>1, <2>2 DEF Watched, OrphanTold, life
<1>7. CASE Exit
  BY <1>2, <1>7 DEF Exit, sys
<1>8. CASE Arrive \/ DeviceDown \/ Stranger \/ UNCHANGED vars
  BY <1>2, <1>8 DEF Arrive, DeviceDown, Stranger, vars, sys
<1>9. CASE Signal
  <2>1. /\ pc' = "exit" \/ (pc' = pc /\ stop' = TRUE)
        /\ stop' = stop \/ stop' = TRUE
        /\ parent' = parent /\ spawned' = spawned /\ armed' = armed
    BY <1>9 DEF Signal, sys
  <2> QED
    BY <2>1 DEF Watched, OrphanTold
<1>10. CASE ParentDies
  <2>1. /\ pc' = pc /\ spawned' = spawned /\ armed' = armed
        /\ armed /\ pc # "off" => stop'
    BY <1>10 DEF ParentDies
  <2>2. pc \in Control
    BY DEF TypeOK, LifeOK
  <2> QED
    BY <2>1, <2>2 DEF Watched, OrphanTold, Control
<1> QED
  BY <1>3, <1>4, <1>5, <1>6, <1>7, <1>8, <1>9, <1>10 DEF Next, Worker, Environment

\* For every flow of packets and whatever goes wrong.
THEOREM OrphansTold == Spec => []OrphanTold
<1>1. Init => Watched /\ OrphanTold
  BY DEF Init, Watched, OrphanTold
<1>2. Spec => [](Watched /\ OrphanTold)
  BY <1>1, TypeCorrect, WatchedNext, PTL DEF Spec
<1> QED
  BY <1>2, PTL
=============================================================================
