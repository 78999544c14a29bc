# nfqttl in TLA+

nfqttl is an Android (Magisk/KernelSU) module that normalises TTL/HL of
tethered traffic. A Rust daemon watches the network interfaces, installs rules
into the mangle table, runs NFQUEUE workers or kernel TTL rules, switches off
Android's tethering offload, optionally installs CAKE queues, and is driven by
a command line (`start`, `stop`, `restart`, `configure`, ...).

This directory holds TLA+ models of that program, the TLC configurations that
check them on small instances, and proofs that TLAPS checks for all values of
the constants. The models are translated from the Rust source under
`src/src/`. What lies outside the program (iptables, netd, the kernel, Android
settings, the root manager, the user) is modelled from how the source uses it.

## The system

| Part | Source | State it keeps | Operations |
|---|---|---|---|
| Firewall | `firewall.rs`, loop of `daemon.rs` | chains, jumps and rules of the mangle table; which payload chain is believed active | `cleanup`, `rules_ok`, `install4/6`, `activate`, `del_jump` |
| Supervisor | `daemon.rs` | links, active chains, workers, failure count, phase file | loop of `run_inner`, `Workers::start/stop/alive`, `stall_sample`, `recover` |
| Offload journal | `offload.rs` | `offload.<key>.before`, `.owned`, the Android setting | `apply`, `restore` |
| Control commands | `ctl.rs`, `main.rs` | `paused`, `lock/pid`, two flocks, `config.conf` | `start`, `stop`, `restart`, `toggle`, `configure` |
| SQM | `qos.rs` | root queues, `sqm.<iface>.owned` | `reconcile`, `sync`, `cleanup` |
| NFQUEUE worker | `nfqueue.rs`, `packet.rs` | socket, batch of verdicts, statistics | `worker`, `configure`, packet rewriting |
| Verify | `verify.rs` | two readings of the counters, a sample of packets | `counters`, `drain`, `judge` |
| Configuration | `config.rs`, `ctl.rs` | `config.conf` | `validate`, `load`, what `configure` writes |
| Network discovery | `net.rs` | links, a netlink socket | `discover`, `classify`, `RouteWatcher::wait` |
| Utilities | `util.rs`, `sys.rs` | state files | `output_path`, `write_state`, `owned_pid` |
| Shell entry points, installer | `service.sh`, `customize.sh`, ... | - | call the binary |
| Web panel | `webroot/` | - | calls the CLI |
| Kernel patches, packaging | `kernel/`, `build.sh`, `package.sh` | - | build recipes |
| Tests | `tests/` | - | read as documentation |
| Version 3 | `nfqttl_c/` | - | replaced; its chains are the "older jumps" of `Firewall` |

How they interact:

- The daemon is one thread. Its loop scans links, calls `qos::sync`, probes
  the rules, installs or cleans up, samples the workers and calls `recover`.
  Everything it does to the outside is a command or a file and can fail, or
  take effect and be reported as failed (deadline of `output_path`).
- netd and iptables-restore rewrite the same mangle table at any time.
- Workers are child processes, each the only owner of a queue number; they get
  SIGTERM when the daemon dies, which takes time.
- A command talks to the daemon through files (`paused`, `lock/pid`) and
  SIGTERM; `stop` repeats the daemon's cleanups itself.
- `paused`, the configuration, the offload and the SQM journals survive a
  reboot; processes, flocks, rules and queues do not.

What is hard, and what makes each part correct:

- *Firewall*: interleaving with netd between any two commands, commands that
  fail before or after their effect, crashes. Packets must meet nothing of ours
  or a complete rule set; a working set must be replaced without a gap; a clean
  end leaves no jump; whatever is left in the table must heal.
- *Supervisor*: two address families, a pool and a stale pool that have to
  agree; retries that must end; SIGTERM at any point. Active rules steer only
  to queues the daemon serves, `phase` does not lie, SIGTERM is obeyed, a
  phone that cannot carry the configuration gets a smaller one.
- *Offload*: two files and a setting written in sequence, a crash between any
  two writes, other writers. What was borrowed is given back.
- *Control*: starts, stops, kills and reboots against four files. One party at
  a time changes the tables; "Stopped" is lasting.
- *SQM*: a journal against a queue, interfaces that are renumbered, two
  cleanups at once, other users of tc. No queue of ours is orphaned and none of
  others is touched.
- *NFQUEUE worker*: packets, answers and overflows come through one socket of
  limited size, several frames to a datagram, and the kernel holds every queued
  packet until its verdict. Requests that are not answered are repeated while
  packets already come. No packet is forgotten, none is damaged, bursts do not
  end the worker, READY is true, a worker does not outlive its daemon.
- *Verify*: two readings some time apart of counters that restart whenever the
  daemon publishes another chain, and commands whose failure looks like an empty
  answer. A verdict means what it says.
- *Configuration*: the file is read three times at a start while `configure`
  or an editor replaces it. What is in force is what the file said as a whole.
- *Discovery*: four commands, one after the other, about interfaces that change
  meanwhile; messages that come during the scan. No change is lost.

`PROJECT.json` lists every hazard of this kind at the line where it bites and
the properties that cover it.

## The modules

| Module | Models | Proofs in |
|---|---|---|
| `Firewall` | one address family, one xtables command per step | `FirewallProofs` |
| `RuleTable` | install and cleanup as operations with a result | (implemented by `Firewall`) |
| `Supervisor` | loop, worker pool and `recover` over both families, with the operations of `RuleTable` | `SupervisorProofs` |
| `Offload` | one offload key with its two journal files | `OffloadProofs` |
| `Loan` | what `Offload` promises: a value borrowed and given back | (implemented by `Offload`) |
| `Lifecycle` | daemons, the pid file, the locks and the commands | `LifecycleProofs` |
| `Sqm` | `reconcile` in the daemon and in `stop` | `SqmProofs` |
| `Packet` | rewriting of one packet | `NfqueueProofs` |
| `NfqueueWorker` | one worker, the kernel's queue and its socket; uses `Packet` | `NfqueueProofs` |
| `Verify` | one run of `verify` beside the daemon and the traffic | `VerifyProofs` |
| `Settings` | `validate`, `load` and `configure`'s merge as functions of a text | `DiscoveryProofs` |
| `Discovery` | the start of the daemon and its scans; uses `Settings` | `DiscoveryProofs` |
| `MC*` | constants of the runs | |

Names follow the source. The comments over the definitions say which function
they stand for; `map` in `PROJECT.json` gives the lines. Operators marked
"Mutant" are wrong variants of the definition below them. They are used by
nothing here: substituting one for the definition must make the named property
fail, which is recorded under `mutants`.

**Firewall.** The table is `chains`, `jumps` (how many rules of FORWARD jump to
the hook chain), `top` (whether one of them is the first rule), `legacy`, `hook`
(the entries of the hook chain in order) and `payload` (the rules of chains A and
B as sets). `pc` is the next command, `ctx` the place a cleanup returns to, `k` a
loop counter. `world` fixes, at the start of a behaviour, which commands can fail
and what others do, so that each property can name the conditions it holds under:
`Reliable` (a failed `-C` means "not there", `-D` works, nobody copies our jump or
empties a payload chain) for `NoPartialTraffic`; a trusted `-C` for `CleanStop`, which
is about the exit of the loop (daemon.rs:643-652): a daemon that starts while it is
disabled or paused writes "stopped" too (349-355) but cleans nothing, and is left to
`Lifecycle`;
`Swappable` (nobody else writes and replacing a jump works, any other command may
fail) for `SeamlessSwap`; `Alone` (nobody else writes and `-C` is trusted,
anything else fails) for `ImplementsTable`.

**RuleTable** is what `Supervisor` assumes of one family: an install that
returns Ok has put exactly the wanted set in force, one that fails is followed
by a cleanup and leaves no other set, a cleanup that succeeds leaves nothing,
one that fails leaves what it found or nothing, and the process may die in
between. `Firewall!ImplementsTable` maps the table (is there a jump, which rules
does it lead to) and `pc` to the two variables of `RuleTable`. A change by netd
in the middle of an operation is in `Firewall` only; `Supervisor` has it between
operations.

**Supervisor.** `rules[f]` is absent, broken, foreign, or complete for a signature
and a number of workers; install and cleanup are single steps with the results of
`RuleTable`, and a crash may leave them half done (`LeftOf`). `child` and `stale`
are the workers of this and of dead daemons, `count` and `failures` drive the
degradation. The cooldown and all timers are choices; a scan or check that is not
due yet is a change that has not happened yet. The end of tethering and the exit
take three steps each, as in the code: the rules are cleaned up, the workers are
stopped, the phase is written (daemon.rs:480-489, 643-647). Between the first and
the last (`Withdrawing`) the phase file still says active: `PhaseTruth` does not
speak of those states, and `SteersToOwnWorkers` allows rules without workers there
only after a failed cleanup (`cleaned`).

**Offload.** The daemon's or `stop`'s process goes through `apply` or `restore`
one file operation at a time. `user`, `past`, `mine` and `choice` only observe:
`choice` is "lost" from the moment the owner's last value is overwritten with no
record of it, either by the `apply` of every 30 s, which disables offload again
and keeps the first original (offload.rs:62-69), or by a `restore` that had already
compared. `OwnersChoice` says that nothing else loses it. Keys do not share
anything, so one key is modelled.

**Lifecycle.** Each process is at one step of `run`, `acquire_lock`,
`run_inner` or `release_lock`; one command at a time holds the control flock
and goes through `ctl.rs`. The supervisor's work is one Boolean, `rules`. The
`disable`/`remove` markers appear as a `start` that fails; `toggle` is `start`
or `stop`; `restart` and `configure` are their parts in sequence. A cleanup that
reports success has removed the rules, or was `Blind`: `stop` skips it when
`Firewall::select` finds no usable iptables (ctl.rs:164), cleanup6 when ip6tables
is missing (firewall.rs:172-175), and a `-C` that fails counts as no jump
(firewall.rs:119-121). `missed` remembers that of the last cleanup of `stop`, and
`StopHolds` allows rules after "Stopped" only then.

**Sqm.** `root` is the root queue of each interface index, `journal` the files,
and `wanted`, `saved`, `dump`, `todo`, `iface` are the local variables of
`reconcile` in the daemon and in `stop`, which run at the same time when `stop`
did not see the daemon. A request to the kernel succeeds, fails, or succeeds
and is reported as failed. Interfaces vanish with their queue and come back
with any free index. `quiet` behaviours are those in which nobody runs tc while
`reconcile` runs. `active` stands for the interfaces that `links.active()` and
their role let through. That `Start` does not happen during the cleanup of
`stop` is `Lifecycle!Exclusive`.

**NfqueueWorker.** The socket is a sequence of datagrams of frames, because
that is what `ack` and the loop read; a message joins the last datagram only
if that holds packets alone. `flow` is fixed at the start and a packet's id is its
place in it; `fate` and `out` say what became of each. A request is handled
while `sendto` runs, so its answer is in the socket, or was lost because the
socket was full, when `ack` starts to read. When the process ends the kernel drops
what is queued. A packet (`Packet`) is the lengths and numbers of its header
that the code looks at, the word with TTL and protocol, the checksum, and the
sum of all other words; byte and header size are constants.

**Verify.** A packet counter is a number per downstream/upstream pair, zero
where there is no rule. `fams` is what is read: IPv4, both families, or nothing
for `--wire-only`. The daemon flushes, fills, publishes and removes chains and
restarts with another TTL; any xtables command may fail, which is an empty
answer. The chain it flushes may be the published one: after a cleanup whose `-D`
failed it no longer knows which that is (`daemon.rs:671`, `firewall.rs:387-393`), so
counters also start anew with the hook as it was. `answered`, `complete`,
`lasting`, `met`, `evidence`, `strayed`, `early` and `steady` only observe, and give
the properties their conditions: `PassMeansMatched` needs the first reading to
have succeeded, `UnmatchedIsTrue` all of them and published chains that were
neither replaced nor removed nor flushed in place (otherwise "no rule matched" can
be false: `judge` does not see that a counter restarted), `FailMeansStray` that the
file verify loads is the one the daemon loaded. Between `socket` and `bind`
(`verify.rs:274-297`) a tap takes what leaves by any interface, and a packet twice if
another tap is bound already: `early` counts these packets apart, and
`FailMeansStray` says that they and those that strayed upstream reach the
threshold, so a FAIL can rest on packets of that short while.

**Settings, Discovery.** A text is the sequence of its lines, a line a key and a
value; the operators are `validate` (`Valid`), `load` (`Load`) and `configure`'s
merge (`Merge`) over it, and `Meaning`, what the text says to a reader, is the
reference they are checked against. The loop of `load` is the function `Reading`
of the number of lines taken so far. `Discovery` reads the file three times and
then scans. `hand` behaviours are those in which somebody writes the file in place
during the start; `asked` those in which a `configure` that found no daemon
(`ctl.rs:353`) has yet to rename its copy over the file, which it may do between
the readings or long after the daemon loaded the file (later ones stop the daemon
first, see `Lifecycle`). So the file may say something else than what is in
force: `read` observes the text that was loaded, and `ReadAsWritten` says that this
text was valid as a whole and is what is in force, and that the file there now is
the same or has the settings of that one `configure` besides. Nothing in the code
tells such a daemon to load the file again. A scan is four commands, each of which
may fail; `pending` counts the watcher's messages.

## The runs

All run with two workers and finish within five minutes; deadlock is checked
except where noted. `Budget` bounds the steps of the environment and the
faults in one behaviour; the program's own steps are never bounded.

| Run | Checks | Bounds | States |
|---|---|---|---|
| `firewall` | `TypeOK`, `NoPartialTraffic`, `SeamlessSwap`, `CleanStop`, `ImplementsTable`, `SelfHeal` | 2 signatures, 2 rules, `DelLimit` 3, Budget 4, five worlds | 551k |
| `firewall_live` | violates `InactiveBuild` | `-D` fails, Budget 3 | - |
| `firewall_idle` | violates `IdleUnhooks` | `-D` fails, Budget 3 | - |
| `offload` | `TypeOK`, `Recoverable`, `OwnersChoice`, `ImplementsLoan` | 3 values, Budget 4, others write at any time, or leave a journalled setting alone | 40k |
| `supervisor` | `TypeOK`, `SteersToOwnWorkers`, `PhaseTruth`, `StopEnds`, `SelfHeals` | 3 workers, phones that can start 1 or 3, Budget 4 | 449k |
| `lifecycle` | `TypeOK`, `Exclusive`, `StopHolds`, `ConfigInForce` | 3 process ids (symmetric), Budget 5 | 71k |
| `lifecycle_lifts` | violates `StartLifts` | no faults, Budget 4 | - |
| `sqm` | `TypeOK`, `Journalled`, `CleanEnd`, `PreservesCustom`, `Converges` | 2 interfaces, 2 indexes, 2 rates, Budget 3 | 972k |
| `nfqueue` | `TypeOK`, `Accounted`, `NeverDamaged`, `ReadyMeansServed`, `BurstsSurvived`, `EveryPacketReleased`, `OrphanEnds` | flows of 2 and 4 packets, a queue of 3, a socket of 2 datagrams, `Byte` 4, `MinHeader` 3, Budget 2 | 174k |
| `verify` | `TypeOK`, `PassMeansMatched`, `UnmatchedIsTrue`, `FailMeansStray` | 1 pair, 2 chains (symmetric), thresholds 2; packets and changes: 3 and 1 with `--wire-only`, 2 and 4 with one family, 1 and 2 with two | 4.89M |
| `verify_traffic` | violates `PassNeedsTraffic` | the same | - |
| `discovery` | `TypeOK`, `ReadAsWritten`, `AtRest`, `ConfigureKeeps`, `Settles` | 7 texts, 6 calls of `configure`, 2 interfaces, `DrainMax` 1, `QueueMax` 2, Budget 2 | 1.44M |

Why the bounds are enough:

- Two rules make a partly filled chain differ from a full and an empty one; two
  signatures make a wrong set differ from the right one; two payload chains are
  all there are. `DelLimit` 3 with up to 3 jumps reaches the limit of the loop
  (16 in the code) and `MaxJumps` 3 bounds what others pile up.
- Four steps of the environment allow, for instance, a fault in a command, a
  change by netd, a crash and a link change in one behaviour; each mutant in
  `PROJECT.json` is found within the bounds.
- Three workers degrade 3, 2, 1 (half, rounded up, `daemon.rs:678`) and leave
  queues beyond the smaller pool. `FailureCap` equals `MaxFailures` (255 in the
  code) because nothing tells larger counts apart; the `TypeOK` of that run
  breaks when saturation is dropped.
- Three values of a setting are ours, another, and `null`, the one the code
  deletes instead of writing; `Odd` stands for what `valid()` rejects.
- Three process ids are a daemon that ends, one that starts, and a duplicate;
  ids are reused.
- Two interfaces that can swap two indexes are what makes a stale journal name
  another interface's queue. The two configurations differ in rate and in which
  interface has a queue.
- A socket of two datagrams overflows with three packets, and holds a packet
  before the answer that is awaited; a queue of three fills with four. The
  packets are a client's, a local one, and one longer than its copy. With bytes
  of two bits and headers of three words the header sum carries twice, which is
  all a header of real size does.
- Two packets reach `LEAK_MIN_PACKETS` 2, and with `LeakDiv` 2 a third decides
  about the ratio. Refill, publish, unhook and a failed command in one window
  need four changes; with two families two changes make one of them differ.
- The texts are empty, good, out of range in every way a number can be, good
  line by line but not as a whole, and with a key written twice. `QueueMax` 2 over
  `DrainMax` 1 leaves a message for the next round. Two interfaces, one of which may
  serve either direction, are enough for a wrong classification.

`lifecycle*`, `nfqueue`, `verify*` and `discovery` switch the deadlock check off:
with the budget spent every process of `Lifecycle` may have ended, a worker and a
`verify` come to an end, and a daemon whose configuration is refused exits.

### Fairness

`Firewall!FairSpec` and `Supervisor!FairSpec` assume `WF_vars(Daemon)`: the
daemon is a single thread whose loop sleeps for bounded times only and whose
commands have a deadline (`util.rs:48-119`). Faults, netd and link changes are
not fair. `Supervisor!FairSpec` also assumes that a worker that was started and
can bind its queue reports READY (`WorkerReady`; when it does not within the
deadline the code takes it for a failure) and that an orphaned worker dies of
the `PR_SET_PDEATHSIG` it asked for (`StaleExits`, `nfqueue.rs:291`).
`Sqm!FairSpec` assumes weak fairness of the daemon's `reconcile` and `sync`:
requests time out after three seconds and `sync` is due every 30 s
(`daemon.rs:457`). `stop`, users and the kernel's changes are not fair.
`NfqueueWorker!FairSpec` assumes weak fairness of the worker: its poll ends
after a second, the one of `ack` after two, and sends time out after one
(`nfqueue.rs`). `Discovery!FairSpec` assumes it of the daemon and of `Elapse`,
the passing of `rescan_ms`.

The liveness properties say what happens once the environment ceases (`<>[]`): the
budget ensures that it does. `SelfHeal` and `SelfHeals` except a daemon that is
not running or has no links; `Converges` excepts interfaces blocked by somebody
else's queue, since `reconcile` stops at the first one. `Settles` excepts a
refused configuration; `OrphanEnds` a worker whose parent was gone before its
first `getppid` (`nfqueue.rs:290`), which never learns of it.

## What disagrees

Each is a `violation` run with its property in the module.

- **`InactiveBuild`** (`daemon.rs:671`, also 486). `recover` and the idle
  branch forget the published payload chain even when the cleanup failed, so
  the next install flushes and refills a chain packets still go through.
  DEV.md:31-33 promises replacement without flushing the active chain.
- **`IdleUnhooks`** (`daemon.rs:481`). A cleanup that fails when tethering ends
  is logged as "retrying" but is not retried; the rules stay hooked.
- **`PassNeedsTraffic`** (`verify.rs:372`). A first reading of the counters that
  fails is taken for zero, so what the rules matched since they were installed
  counts as traffic of this window and `verify` answers PASS. `verify.rs:80` and
  README_RU.md:22 say that PASS is about packets that passed meanwhile.
- **`StartLifts`** (`ctl.rs:183`). `start` answers "Already running" of a
  daemon that is on its way out because of the pause and leaves the pause;
  README_RU.md:64 says that `start` lifts it.

## The proofs

Every theorem is for any values of the constants that satisfy the module's
`ASSUME` (any number of rules, signatures, workers, processes, interfaces; texts of
any length; any budget). All but four are `Spec => ...`: `LoadKept` and `LoadSays`
are about an operator, `StaysInForce` and `SyncIdempotent` about behaviours that
start in the state a liveness property reaches. Each rests on an inductive
invariant that TLC had found to hold on the bounded instance first.

- **Firewall** (`TypeCorrect`, `CompleteTraffic`, `StopCorrect`, `Seamless`,
  `RefinesTable`, `RepairsNothing`, `StaysInForce`). `NoPartialTraffic` says
  nothing of a payload chain nobody goes through, so it is not inductive. The
  invariant adds where in `install` and `activate` the daemon is: the chain under
  construction is the spare one and is not reached (`Unhooked`, `Spare`), the
  published entry is the finished set (`Entry`). A second one, under `Swappable`,
  adds that the set in force stays in place from its start to its successor
  (`InPlace`, `Ready`, `Begun`). A third, `Detached`, follows the unhooking to a
  clean end. `RefinesTable`, under `Alone`, needs that there is at most one jump
  and one entry and that `activate` knows which (`Single`), and that what is
  published is what install has filled (`Built`); then every command maps to a
  step of `RuleTable` or to a stutter. `RepairsNothing` follows what install
  reported to what `rules_ok` reads back (`Kept`): where nobody else writes, the
  check never rejects it, so nothing is rebuilt at every check. `StaysInForce`
  needs no more than the state `SelfHeal` reaches.
- **Offload** (`TypeCorrect`, `AlwaysRecoverable`, `OwnersChoiceKept`,
  `RefinesLoan`, `RestoresOnlyOriginals`). The invariants say what the two files
  hold at each step of `apply` (`Journal`), that the owner's last choice is in
  the setting, or in the journal while the setting is ours, until it is lost
  (`Remembered`), and that it never is when others leave a borrowed setting alone
  (`Faithful`).
  `RefinesLoan` maps the initial states, and every step to a borrow, a give-back,
  a change by others or a stutter. The failed removal of a journal file
  (`"unlink"`) is excluded from the three before the last. `RestoresOnlyOriginals`
  is what is left under every fault: a journal is torn, or holds a value its owner
  once had (`Genuine`).
- **Supervisor** (`TypeCorrect`, `OwnersSeparate`, `RulesMatchWorkers`,
  `PhaseTruthful`, `ServiceKept`, `DegradationProceeds`). `Manned` ties a rule set
  to the workers that were running when it was installed, `Truthful` ties the phase to
  both families. `Steady` says that an active phase has no worker still to come and
  that a recovery from it has a reason, so the daemon's own steps never end a service
  that is right, except where tethering ends or the daemon exits (`Withdrawing`). `Pending`
  says that another failure is short of a halving, or halves.
- **Lifecycle** (`TypeCorrect`, `PidFileTrue`, `TablesExclusive`, `StopLasting`,
  `ConfigReplaced`). The argument is an order of four steps: `stop` writes the
  marker and then reads `lock/pid`; a daemon writes `lock/pid` and then reads the
  marker. A daemon that `stop` does not see has still to read the marker
  (`LockInv`, `StopInv`, `ReplaceInv`, `BusyInv`).
- **Sqm** (`TypeCorrect`, `JournalledAlways`, `CleanEndHolds`, `CustomPreserved`,
  `SyncIdempotent`). Whoever may install is alone and those who clean up want
  nothing (`Roles`); a journal a process read is unchanged or gone (`Remembered`);
  no queue of ours has appeared behind a process that removes (`Current`); what is
  about to be changed is what the last dump showed (`Seen`). So a journal is
  removed only where its queue is not there, and is overwritten only by the same
  value. Two cleanups at once only take away, which disturbs none of this.
  `CustomPreserved` is about `quiet` behaviours: the kernel's delete goes by
  handle, so an option changed with tc between dump and delete is lost, as
  docs/NETWORK_RU.md:109-110 says. `SyncIdempotent` carries the dump along a round
  of `sync` that finds everything in place (`AtPeace`), whatever the kernel or a
  file fails at.
- **NfqueueWorker** (`TypeCorrect`, `PacketsWhole`, `ReadyTrue`, `NothingLost`,
  `PacketsSurvived`, `VerdictsOnce`, `OrphansTold`), for words and headers of any size.
  `PacketsWhole` rests on lemmas about the ones' complement sum (two carries are
  enough, and the complement of the folded sum makes the header valid). `Honest`
  says that an answer in the socket, or read, is about what the kernel has done.
  `Kept` is the invariant of `Accounted`: nothing waits before the kernel copies
  packets (`Quiet`), the answer to the request being awaited is the last the
  worker can meet (`Awaited`), and every waiting packet is held somewhere or the
  attempts are about to be given up (`Keeping`). `Smooth` is that of
  `BurstsSurvived`: until something goes wrong answers stand in the socket in the
  order of their requests and are gone once the last is confirmed (`Replies`), and
  a packet is read once and kept by the kernel until its verdict is sent (`Once`,
  `Promised`), so that none gets a second one (`VerdictsOnce`). `OrphansTold` says
  that between the two `getppid` no death of the parent goes unnoticed (`Watched`).
- **Verify** (`TypeCorrect`, `PassCorrect`, `FailCorrect`, `UnmatchedCorrect`).
  `Sound` bounds the sample by what strayed. `Traced` says for each family what
  a counter beyond its first reading proves: a packet that matched since. It does
  so for the chain first read and for chains that were emptied later (`Fresh`,
  `Listing`, `Met`), the published one included; `Recorded` is the converse while the
  published chain lasts.
- **Discovery, Settings** (`ChangesNoticed`, `LoadKept`, `LoadSays`, `InForceIsRead`,
  `OthersKept`, `LinksTyped`). `Attentive`: what the commands told so far is true, or
  a message is waiting, or a command failed. The theorems about texts follow `load` line
  by line: after each the settings are in range (`ReadingKept`) and are what the
  lines so far say (`ReadingSays`). The library's induction theorems cannot be
  used here, so `Counting` says what they would of a set of numbers: one that holds 0
  and with every number its successor holds them all; it follows from the least
  element of a well-founded order. What `configure` writes is the old lines,
  rewritten, and one new line for each setting left over (`MergeParts`), from which
  its meaning follows (`MergeMeaning`). `Configured` says how far the start has come
  with the text that is there, `Plain` is `TypeOK` one flag at a time.

Only model-checked: the seven liveness properties (`SelfHeal`, `SelfHeals`,
`StopEnds`, `Converges`, `EveryPacketReleased`, `OrphanEnds`, `Settles`), which the
prover cannot do under fairness. Of four of them a safety half is proved: what
`SelfHeal`, `SelfHeals` and `Converges` reach stays (`StaysInForce`, `ServiceKept`,
`SyncIdempotent`), recoveries that the watchdog does not forgive bring the workers
down to a number a phone can start (`DegradationProceeds`), and `OrphanEnds` loses no death (`OrphansTold`). That these
states are reached, and that they end, is for TLC.

## Abstractions

- A rule is an index and the signature it belongs to; the order inside a
  payload chain is left out, only whether all of a set's rules are there.
- One family per `Firewall`; the families share nothing but the loop, which
  `Supervisor` has.
- Time: timers, deadlines and cooldowns are choices, never counters.
- `phase` "cleanup-error" is not told from the "error" `run` writes after it.
- The CAKE options are reduced to the rate. A journal file is replaced by
  rename, so it is old or new; power loss inside a write is left out. The text
  in `sqm.status` is left out.
- Netlink and counters are messages and numbers: their formats, the sizes of
  buffers, the statistics and the log are left out. So are blanks, quotes and
  comments in `config.conf`, and what `ip` prints beyond the names it tells.
- In `Verify` a family that is not read, and the IPv6 sample, which is only
  printed, are left out.
- `status`, `doctor`, `snapshot` and `logs` only read and are left out.

## Not modelled, and the plan

Every component with behaviour of its own has its module, and every safety and
action property of the runs has its theorem. What could follow:

1. `ImplementsTable` with netd in the middle of an operation, with an observation
   of whether the table was touched since the operation began.
2. Liveness of the commands of `Lifecycle` (a `stop` ends), under fairness of its
   steps.

Left out for good: the shell scripts and the installer (they call the binary),
the web panel (a front end), the kernel patches and packaging (build recipes),
the tests (read as documentation), version 3 in `nfqttl_c/` (replaced), and the
FFI declarations of `sys.rs`.
