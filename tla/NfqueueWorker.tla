---------------------------- MODULE NfqueueWorker ----------------------------
(***************************************************************************)
(* One NFQUEUE worker and the kernel's queue it serves (src/nfqueue.rs,    *)
(* packet.rs).  The kernel keeps every queued packet until it gets its     *)
(* verdict and sends the worker a message with a copy of the packet        *)
(* through a netlink socket of limited size; the answers to the worker's   *)
(* configuration requests come through the same socket.  When the socket   *)
(* closes the kernel drops what is still queued.                           *)
(*                                                                         *)
(* What is in the socket is a sequence of datagrams, each a sequence of    *)
(* frames, because that is what the code reads.                            *)
(***************************************************************************)
EXTENDS Packet, Sequences, FiniteSets

CONSTANTS
    MaxFlow,    \* bound: packets
    Flows,      \* the sequences of packets that reach the queue's rule
    CopyMax,    \* the longest copy the worker asks for (65531 bytes)
    TtlConf,    \* TTL of the configuration
    Gso,        \* GSO of the configuration
    Maxlen,     \* QUEUE_MAXLEN of the configuration
    SocketMax,  \* datagrams the receive buffer holds
    Faults,     \* what goes wrong
    Budget      \* bound: faults, signals, deaths of the parent

FaultKinds == {"system", "send", "recv", "lost", "owned", "device", "stranger"}
Flags == {"failopen", "gso"}

ASSUME NfqueueAssumption ==
    /\ MaxFlow \in Nat /\ \A f \in Flows : Len(f) <= MaxFlow
    /\ Maxlen \in Nat /\ SocketMax \in Nat \ {0} /\ Budget \in Nat
    /\ Flows \subseteq Seq([forwarded : BOOLEAN, data : PacketType]) /\ CopyMax \in Nat
    /\ TtlConf \in 1 .. (Byte - 1) /\ Gso \in BOOLEAN
    /\ Faults \subseteq FaultKinds

VARIABLES
    \* the kernel
    supports,  \* the flags it knows
    kernel,    \* the queue: bound to us, copying packets, its flags
    flow,      \* the packets that come, and never changes; an id is a place in it
    fate,      \* what became of each that came
    out,       \* what each is when it leaves
    inbox,     \* the datagrams in the socket
    overrun,   \* the socket lost a message and will report ENOBUFS
    parent,    \* the daemon that spawned us lives
    \* the worker
    pc,
    spawned,   \* parent, as getppid first told
    armed,     \* PR_SET_PDEATHSIG is in force
    stop,      \* STOP
    seq,       \* of the last request
    flags,     \* those of the last request
    batch,     \* the frames of a datagram that are still to be handled
    tx,        \* the verdict about to be sent
    budget,
    \* observation
    ready,     \* READY was reported
    faulted    \* something went wrong, bursts of packets apart

sys == <<flow, supports, parent>>
net == <<fate, out>>
socket == <<inbox, overrun>>
life == <<spawned, armed, stop>>
work == <<seq, flags, batch, tx>>
vars == <<sys, kernel, net, socket, pc, life, work, budget, ready, faulted>>

Spend == budget > 0 /\ budget' = budget - 1
Fault(kind) == kind \in Faults /\ Spend /\ faulted' = TRUE
Fine == UNCHANGED <<budget, faulted>>
Goto(next) == pc' = next /\ UNCHANGED <<kernel, net, socket>>

Waiting == {i \in DOMAIN fate : fate[i] = "waiting"}
NoVerdict == [id |-> 0]
Frame(type, n) == [type |-> type, n |-> n]
Datagram(frame) == [stranger |-> FALSE, frames |-> <<frame>>]

-----------------------------------------------------------------------------
(* worker: the process and its parent                                       *)

\* The handlers, then getppid.
Begin ==
    /\ pc = "begin"
    /\ spawned' = parent /\ Goto("arm")
    /\ Fine /\ UNCHANGED <<sys, armed, stop, work, ready>>
Arm ==
    /\ pc = "arm"
    /\ \/ armed' = TRUE /\ Goto("check") /\ Fine
       \/ UNCHANGED armed /\ Goto("exit") /\ Fault("system")
    /\ UNCHANGED <<sys, spawned, stop, work, ready>>
\* Mutant: the parent is not asked for again.
CheckNothing ==
    /\ pc = "check"
    /\ \/ Goto("bind") /\ Fine
       \/ Goto("exit") /\ Fault("system")
    /\ UNCHANGED <<sys, life, work, ready>>
\* The second getppid, then the socket.
Check ==
    /\ pc = "check"
    /\ \/ Goto(IF parent = spawned THEN "bind" ELSE "exit") /\ Fine
       \/ Goto("exit") /\ Fault("system")
    /\ UNCHANGED <<sys, life, work, ready>>
\* The process ends: the kernel closes the socket and drops what is queued.
Exit ==
    /\ pc = "exit"
    /\ pc' = "off" /\ kernel' = [bound |-> FALSE, copying |-> FALSE, flags |-> {}]
    /\ inbox' = <<>> /\ overrun' = FALSE
    /\ fate' = [i \in DOMAIN fate |-> IF fate[i] = "waiting" THEN "flushed" ELSE fate[i]]
    /\ Fine /\ UNCHANGED <<sys, out, life, work, ready>>

-----------------------------------------------------------------------------
(* configure                                                                *)

\* A request is handled while sendto runs: its answer is in the socket when
\* sendto returns, or the socket could not take it.
Answered(type) ==
    \/ inbox' = Append(inbox, Datagram(Frame(type, seq'))) /\ UNCHANGED overrun /\ Fine
    \/ overrun' = TRUE /\ UNCHANGED inbox /\ Fault("lost")

\* A queue somebody else owns is refused.
Bind ==
    /\ pc = "bind"
    /\ seq' = 1 /\ pc' = "ack"
    /\ \/ kernel' = [kernel EXCEPT !.bound = TRUE] /\ Answered("ack")
       \/ UNCHANGED <<kernel, overrun>> /\ Fault("owned")
          /\ inbox' = Append(inbox, Datagram(Frame("error", 1)))
    /\ UNCHANGED <<sys, net, life, flags, batch, tx, ready>>
Asked(n) == CASE n = 2 -> {"failopen"} \cup (IF Gso THEN {"gso"} ELSE {})
              [] n = 3 -> {"failopen"}
              [] OTHER -> {}
\* A request with a flag the kernel does not know is refused as a whole;
\* NFQA_CFG_MASK names the flags asked for and no other.
\* Mutant: the flags are reported, and not sent.
ConfigureFlagless ==
    /\ pc = "params"
    /\ seq' = seq + 1 /\ flags' = Asked(seq') /\ pc' = "ack"
    /\ kernel' = [kernel EXCEPT !.copying = TRUE] /\ Answered("ack")
    /\ UNCHANGED <<sys, net, life, batch, tx, ready>>
ConfigureParams ==
    /\ pc = "params"
    /\ seq' = seq + 1 /\ flags' = Asked(seq') /\ pc' = "ack"
    /\ IF Asked(seq') \subseteq supports
       THEN /\ kernel' = [kernel EXCEPT !.copying = TRUE, !.flags = @ \cup Asked(seq')]
            /\ Answered("ack")
       ELSE UNCHANGED kernel /\ Answered("error")
    /\ UNCHANGED <<sys, net, life, batch, tx, ready>>

\* ack reads one datagram.  Whatever else than the answer it holds is lost.
Answer == \E k \in DOMAIN Head(inbox).frames : Head(inbox).frames[k] = Frame("ack", seq)
Acked == pc' = IF seq = 1 THEN "params" ELSE "ready"
\* Mutant: the last attempt is repeated like the others.
NotAckedAgain == pc' = IF seq > 1 THEN "params" ELSE "exit"
NotAcked == pc' = IF seq \in {2, 3} THEN "params" ELSE "exit"
\* Mutant: datagrams without the answer are skipped.
AckSkips ==
    /\ pc = "ack"
    /\ \/ /\ overrun /\ overrun' = FALSE /\ UNCHANGED inbox
          /\ NotAcked /\ Fine
       \/ /\ ~overrun /\ inbox # <<>> /\ inbox' = Tail(inbox) /\ UNCHANGED overrun
          /\ IF Answer THEN Acked ELSE UNCHANGED pc
          /\ Fine
       \/ NotAcked /\ UNCHANGED socket /\ Fault("recv")
    /\ UNCHANGED <<sys, kernel, net, life, work, ready>>
Ack ==
    /\ pc = "ack"
    /\ \/ /\ overrun /\ overrun' = FALSE /\ UNCHANGED inbox
          /\ NotAcked /\ Fine
       \/ /\ ~overrun /\ inbox # <<>> /\ inbox' = Tail(inbox) /\ UNCHANGED overrun
          /\ IF Answer THEN Acked ELSE NotAcked
          /\ Fine
       \/ NotAcked /\ UNCHANGED socket /\ Fault("recv")
    /\ UNCHANGED <<sys, kernel, net, life, work, ready>>
Ready ==
    /\ pc = "ready"
    /\ ready' = TRUE /\ Goto("loop")
    /\ Fine /\ UNCHANGED <<sys, life, work>>

-----------------------------------------------------------------------------
(* worker: the loop                                                         *)

Loop ==
    /\ pc = "loop"
    /\ Goto(IF stop THEN "exit" ELSE "poll")
    /\ Fine /\ UNCHANGED <<sys, life, work, ready>>
\* poll and recvfrom: nothing for a second, ENOBUFS, a datagram of somebody
\* else, or one of the kernel's.
\* Mutant: ENOBUFS is an error like any other.
ReceiveStrict ==
    /\ pc = "poll"
    /\ \/ /\ overrun /\ overrun' = FALSE /\ pc' = "exit" /\ UNCHANGED <<inbox, batch>> /\ Fine
       \/ /\ ~overrun /\ inbox = <<>> /\ pc' = "loop" /\ UNCHANGED <<socket, batch>> /\ Fine
       \/ /\ ~overrun /\ inbox # <<>> /\ inbox' = Tail(inbox) /\ UNCHANGED overrun /\ Fine
          /\ batch' = Head(inbox).frames /\ pc' = "frames"
    /\ UNCHANGED <<sys, kernel, net, life, seq, flags, tx, ready>>
Receive ==
    /\ pc = "poll"
    /\ \/ /\ overrun /\ overrun' = FALSE /\ pc' = "loop" /\ UNCHANGED <<inbox, batch>> /\ Fine
       \/ /\ ~overrun /\ inbox = <<>> /\ pc' = "loop" /\ UNCHANGED <<socket, batch>> /\ Fine
       \/ /\ ~overrun /\ inbox # <<>> /\ inbox' = Tail(inbox) /\ UNCHANGED overrun /\ Fine
          /\ IF Head(inbox).stranger THEN pc' = "loop" /\ UNCHANGED batch
             ELSE batch' = Head(inbox).frames /\ pc' = "frames"
       \/ pc' = "exit" /\ UNCHANGED <<socket, batch>> /\ Fault("recv")
    /\ UNCHANGED <<sys, kernel, net, life, seq, flags, tx, ready>>

\* The copy the kernel sends, and what verdict answers: always NF_ACCEPT, with
\* a replacement only for a whole forwarded IPv4 packet that changed.
Copy(a) == [a.data EXCEPT !.len = IF @ > CopyMax THEN CopyMax ELSE @]
\* Mutant: NFQA_CAP_LEN is not looked at.
VerdictPartial(i) ==
    LET a == flow[i]
        changed == a.forwarded /\ Rewritable(Copy(a), TtlConf)
    IN [id |-> i, data |-> IF changed THEN Rewrite(Copy(a), TtlConf) ELSE a.data]
Verdict(i) ==
    LET a == flow[i]
        changed == a.forwarded /\ Copy(a) = a.data /\ Rewritable(Copy(a), TtlConf)
    IN [id |-> i, data |-> IF changed THEN Rewrite(Copy(a), TtlConf) ELSE a.data]
\* Mutant: what follows the first frame of a datagram is not looked at.
HandleFirst ==
    /\ pc = "frames"
    /\ \/ batch = <<>> /\ Goto("loop") /\ UNCHANGED <<batch, tx>>
       \/ /\ batch # <<>> /\ Head(batch).type = "packet"
          /\ tx' = Verdict(Head(batch).n) /\ batch' = <<>> /\ Goto("send")
       \/ /\ batch # <<>> /\ Head(batch).type # "packet"
          /\ Goto("exit") /\ UNCHANGED <<batch, tx>>
    /\ Fine /\ UNCHANGED <<sys, life, seq, flags, ready>>
Handle ==
    /\ pc = "frames"
    /\ \/ batch = <<>> /\ Goto("loop") /\ UNCHANGED <<batch, tx>>
       \/ /\ batch # <<>> /\ Head(batch).type = "packet"
          /\ tx' = Verdict(Head(batch).n) /\ batch' = Tail(batch) /\ Goto("send")
       \/ /\ batch # <<>> /\ Head(batch).type # "packet"
          /\ Goto("exit") /\ UNCHANGED <<batch, tx>>
    /\ Fine /\ UNCHANGED <<sys, life, seq, flags, ready>>
\* The kernel reinjects the packet, or reports that it has none with that id.
Send ==
    /\ pc = "send" /\ tx' = NoVerdict
    /\ \/ /\ tx.id \in Waiting /\ pc' = "frames" /\ Fine
          /\ fate' = [fate EXCEPT ![tx.id] = "accepted"]
          /\ out' = [out EXCEPT ![tx.id] = tx.data] /\ UNCHANGED <<kernel, socket>>
       \/ /\ tx.id \notin Waiting /\ pc' = "frames" /\ Fine /\ UNCHANGED <<kernel, net>>
          /\ IF Len(inbox) < SocketMax
             THEN inbox' = Append(inbox, Datagram(Frame("error", 0))) /\ UNCHANGED overrun
             ELSE overrun' = TRUE /\ UNCHANGED inbox
       \/ Goto("exit") /\ Fault("send")
    /\ UNCHANGED <<sys, life, seq, flags, batch, ready>>

-----------------------------------------------------------------------------
(* The kernel and the others                                                *)

\* A message in a datagram of its own, or together with other packets.
AllPackets(d) == ~d.stranger /\ \A k \in DOMAIN d.frames : d.frames[k].type = "packet"
Deliver(frame) ==
    \/ inbox' = Append(inbox, Datagram(frame))
    \/ /\ inbox # <<>> /\ AllPackets(inbox[Len(inbox)])
       /\ inbox' = [inbox EXCEPT ![Len(inbox)].frames = Append(@, frame)]
Queued == kernel.copying /\ Cardinality(Waiting) < Maxlen /\ Len(inbox) < SocketMax
\* What the kernel does with a packet it does not queue.
Unqueued == CASE ~kernel.bound -> "bypassed"
              [] "failopen" \in kernel.flags -> "passed"
              [] OTHER -> "dropped"
Arrive ==
    /\ Len(fate) < Len(flow)
    /\ out' = Append(out, flow[Len(fate) + 1].data)
    /\ \/ /\ Queued /\ fate' = Append(fate, "waiting") /\ UNCHANGED overrun
          /\ Deliver(Frame("packet", Len(fate) + 1))
       \/ /\ ~Queued /\ fate' = Append(fate, Unqueued) /\ UNCHANGED inbox
          /\ overrun' = (overrun \/ (kernel.copying /\ Cardinality(Waiting) < Maxlen))
    /\ UNCHANGED <<sys, kernel, pc, life, work, budget, ready, faulted>>
\* The kernel drops the queued packets of an interface that goes down.
DeviceDown ==
    /\ \E i \in Waiting : fate' = [fate EXCEPT ![i] = "dropped"]
    /\ Fault("device")
    /\ UNCHANGED <<sys, kernel, out, socket, pc, life, work, ready>>
\* A datagram that is not the kernel's.
Stranger ==
    /\ kernel.bound /\ Len(inbox) < SocketMax
    /\ inbox' = Append(inbox, [stranger |-> TRUE, frames |-> <<>>])
    /\ Fault("stranger")
    /\ UNCHANGED <<sys, kernel, net, overrun, pc, life, work, ready>>
\* SIGTERM: before the handlers are there it ends the process.
Signal ==
    /\ pc # "off" /\ Spend
    /\ IF pc = "begin" THEN pc' = "exit" /\ UNCHANGED stop ELSE stop' = TRUE /\ UNCHANGED pc
    /\ UNCHANGED <<sys, kernel, net, socket, spawned, armed, work, ready, faulted>>
ParentDies ==
    /\ parent /\ parent' = FALSE /\ Spend
    /\ stop' = (stop \/ (armed /\ pc # "off"))
    /\ UNCHANGED <<flow, supports, kernel, net, socket, pc, spawned, armed, work, ready, faulted>>

-----------------------------------------------------------------------------
Init ==
    /\ supports \in SUBSET Flags /\ parent = TRUE
    /\ kernel = [bound |-> FALSE, copying |-> FALSE, flags |-> {}]
    /\ flow \in Flows /\ fate = <<>> /\ out = <<>> /\ inbox = <<>> /\ overrun = FALSE
    /\ pc = "begin" /\ spawned = FALSE /\ armed = FALSE /\ stop = FALSE
    /\ seq = 0 /\ flags = {} /\ batch = <<>> /\ tx = NoVerdict
    /\ budget = Budget /\ ready = FALSE /\ faulted = FALSE

Worker == \/ Begin \/ Arm \/ Check \/ Bind \/ ConfigureParams \/ Ack \/ Ready
          \/ Loop \/ Receive \/ Handle \/ Send \/ Exit
Environment == Arrive \/ DeviceDown \/ Stranger \/ Signal \/ ParentDies
Next == Worker \/ Environment

Spec == Init /\ [][Next]_vars
\* The worker runs.
FairSpec == Spec /\ WF_vars(Worker)
-----------------------------------------------------------------------------
(* Properties                                                               *)

FrameType == [type : {"packet", "ack", "error"}, n : Nat]
DatagramType == [stranger : BOOLEAN, frames : Seq(FrameType)]
Control == {"begin", "arm", "check", "bind", "params", "ack", "ready", "loop", "poll",
            "frames", "send", "exit", "off"}
Fates == {"waiting", "accepted", "bypassed", "passed", "dropped", "flushed"}

\* Every variable has its type, and what is per packet has one entry for each.
NetOK == /\ flow \in Flows /\ fate \in Seq(Fates) /\ out \in Seq(PacketType)
         /\ Len(fate) <= Len(flow) /\ Len(out) = Len(fate)
SocketOK == /\ inbox \in Seq(DatagramType) /\ overrun \in BOOLEAN /\ batch \in Seq(FrameType)
            /\ tx = NoVerdict \/ tx \in [id : Nat, data : PacketType]
LifeOK == /\ parent \in BOOLEAN /\ spawned \in BOOLEAN /\ armed \in BOOLEAN /\ stop \in BOOLEAN
          /\ ready \in BOOLEAN /\ faulted \in BOOLEAN /\ budget \in Nat /\ pc \in Control
          /\ supports \subseteq Flags /\ flags \subseteq Flags /\ seq \in 0 .. 4
          /\ kernel \in [bound : BOOLEAN, copying : BOOLEAN, flags : SUBSET Flags]
TypeOK == NetOK /\ SocketOK /\ LifeOK

Serving == pc \in {"ready", "loop", "poll", "frames", "send"}

\* While the worker serves, every packet the kernel keeps for a verdict is
\* still in the socket, in the batch or about to be answered: whatever was read
\* while answers were awaited (ack throws away what else it reads), nothing is
\* left behind that no verdict will ever come for.
InInbox(i) == \E k \in DOMAIN inbox : \E j \in DOMAIN inbox[k].frames :
                  inbox[k].frames[j] = Frame("packet", i)
InBatch(i) == \E j \in DOMAIN batch : batch[j] = Frame("packet", i)
Accounted ==
    Serving => \A i \in Waiting : InInbox(i) \/ InBatch(i) \/ (pc = "send" /\ tx.id = i)

\* A packet that does not leave as it came is a forwarded IPv4 packet of full
\* length with the configured TTL, nothing else is changed, and its checksum is
\* right; a truncated copy never replaces its original (nfqueue.rs:204-205).
NeverDamaged ==
    \A i \in DOMAIN fate :
        LET a == flow[i].data IN
        out[i] # a =>
            /\ flow[i].forwarded /\ fate[i] = "accepted"
            /\ out[i] = [a EXCEPT !.ttl = TtlConf, !.check = out[i].check]
            /\ ChecksumValid(out[i])

\* READY is reported only of a queue that is ours, copies packets and has the
\* flags reported, also after attempts that failed or were not answered.
ReadyMeansServed ==
    pc \in {"loop", "poll", "frames", "send"} =>
        kernel.bound /\ kernel.copying /\ flags \subseteq kernel.flags

\* Packets alone, in whatever bursts, never end a worker that serves: an
\* overflow of the socket or of the queue is survived.
BurstsSurvived == ready /\ ~faulted /\ pc \in {"exit", "off"} => stop

\* Every packet the kernel keeps is released some day, and so is whatever waits
\* for it: by its verdict, or because the worker ends.
EveryPacketReleased == \A i \in 1 .. MaxFlow : i \in Waiting ~> i \notin Waiting

\* Workers get SIGTERM when their parent dies (README_RU.md:97), also in the
\* middle of their start: a worker whose parent was there when it first looked
\* does not outlive it.
OrphanEnds == (~parent /\ spawned) ~> (pc = "off")
===============================================================================
