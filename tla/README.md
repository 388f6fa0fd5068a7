# p4-ubpf_scripts: specifications, checks and proofs

The repository holds what runs P4 processing of an Open vSwitch (OVS) in a VM
of its own. OVS, in the host, writes packets to a shared memory (ivshmem); in
the *p4 VM*, uBPF runtimes (`ubpf_test`) execute the P4 program on them; the
**P4Launcher** starts and stops these runtimes; in the *user VM*, the
**P4Agent** watches that the switch really has its packets processed. OVS and
uBPF come from other repositories, and Jenkins pipelines and shell scripts set
the whole up. Paths below are relative to `src/`.

## Inventory

| Part | State | Operations | Interacts with |
|---|---|---|---|
| P4Launcher daemon, `p4/p4launcher/p4l_server.c` 1-415 | `session_table[32]` in shared memory (`ovs_thread_id`, `p4runtime_id`), private `runtimes_table[32]` (`pid`, `in_use`), `runtimes`, its children | poll the sessions (`link_add`, `link_del`), size the pool (`adjust_children`), commands `start`, `update n`, `stop`, `status`, `shutdown`, SIGCHLD handler | OVS through the session table, runtimes through fork, kill and waitpid, clients through a Unix socket |
| P4Launcher, first version, same file 418-953 | - | inside `#ifdef OLD`, not compiled | - |
| Control client, `p4l_client.c` | one connection | connect, send the command, read once, close | daemon |
| P4Agent: bypass check, `user/p4agent/p4agent.c` 277-418 | `prev_exec`, `prev_pass`, ring `history[5]`, `idx`, `filled` | every 3 s: sum the sealed counters, read the kernel's packet counts, compare, alarm | runtimes through shared memory, kernel through `/proc/net/snmp` |
| P4Agent: sealed counters, 160-192 | `iv`, `cipher_text`, `auth_tag` of each slot | copied in three parts and decrypted | runtimes that rewrite them at any time |
| P4Agent: memory report, 127-158, 203-233, 485-530 | sealed record at the start of shared memory | pack the TCP threshold and use into 64 bits, encrypt, write in four parts | the switch reads it |
| Pipelines, `jenkins/*` | which of launcher, OVS, ivshmem-server and VMs run | start, terminate, rebuild | all of the above |
| Scripts `ovs/`, `kvm/`, `p4/*.sh`, `user/*.sh`; example `virtio-vsock/`; `tester.c`, `demo_app.c`; `measure/` | none of the running system | set-up, test aids, benchmarks | - |

What makes each part correct:

* **Launcher**: a runtime serves one session at most; a session that is open
  gets a runtime and one that is closed gives it back; a runtime in use is not
  ended by resizing; no child is ever lost; a reply says what was done.
* **Bypass check**: an alarm is raised exactly when 3 of the last 5 verdicts are
  bad; a bad verdict has a cause; a lasting bypass is noticed.
* **Sealed counters**: what is accepted was sealed as a whole, and is current.
* **Report**: what the switch unpacks is what the agent packed.
* **Control channel**: a client gets its answer, polling goes on.
* **Deployment**: one launcher owns the tables.

What is hard: OVS writes `ovs_thread_id` at any time, without taking
`table_locked`, which nobody takes; runtimes die at any time and the signal
handler reaps them without telling the tables; pids come back; the daemon
serves clients and sessions on one thread with blocking calls; the agent reads
counters that several runtimes rewrite, one after the other, and compares them
with a number it reads later. The full list, with lines, is `hazards` in
PROJECT.json.

## Modules

| Module | What it is |
|---|---|
| `RuntimePool` | abstract: open sessions, bindings, live runtimes |
| `P4Launcher` | the daemon, its properties, and the mapping to `RuntimePool` |
| `MCLauncher` | sets of commands and symmetry for TLC |
| `P4LauncherProofs` | type correctness, the counter, the children, the reply to `stop` |
| `P4LauncherBindingProofs` | the bindings, and the refinement of `RuntimePool` |
| `P4LauncherCrashProofs` | the bindings under crashes, `stop` and `shutdown`, and the size of the pool |
| `AlarmWindow` | abstract: a sliding window of verdicts |
| `BypassDetector` | the bypass check among traffic, its properties, and the mapping to `AlarmWindow` |
| `DetectorVerdicts` | `BypassDetector` with a history variable that tells which verdict is right |
| `BypassDetectorProofs` | type correctness, the refinement of `AlarmWindow`, and what a verdict says |
| `SealedCounter` | one sealed record, written in any order while it is copied part by part |
| `SealedCounterProofs` | what is accepted was current, and what is refused was disturbed |
| `AgentReport` | the agent's own sealed record, shown to be written as `SealedCounter` allows, and the word it carries |
| `AgentReportProofs` | that refinement, what it says of the reader, and the two halves of the word |
| `ControlChannel` | p4l clients, the socket's backlog and the daemon's side of a connection |
| `ControlChannelProofs` | what ends the daemon, and who is answered |
| `Deployment` | successive launchers on one session table, the pipelines that start them, and OVS |
| `DeploymentProofs` | runtimes are not shared, none is ended that serves, registrations survive, takeovers are clean |

An operator named `X_something`, just above `X` and marked as a mutant, is a
plausible bug in the code that `X` models. No specification uses it; with it in
place of `X`, TLC finds the property PROJECT.json pairs it with violated.

### P4Launcher

`ovs_open` is the set of slots with `ovs_thread_id > 0`; `p4runtime_id`, `pid`,
`in_use` and `runtimes` are the code's variables, with `NoPid` for -1.
`running` and `zombie` are the daemon's children. `pc` says where the main loop
is, and `i`, `target` and `ret` are the loop index of `check_ovs_sessions` and
the argument and return point of the `adjust_children` call in progress.

An action is the stretch of code between two points where somebody else can
act on what it reads or writes. `FoundNewSession` and `FoundLostSession` each
read `ovs_thread_id` once; `LinkAdd` and `LinkDel` then act on that reading,
with OVS, dying children and the signal handler in between. Each turn of the
spawning loop (`SpawnRuntime`) and of the shrinking loop (`RetireRuntime`) is a
step. `runtimes_table` is private to the single-threaded daemon, so a search
through it is part of one step. `HandleStop` is one step too: what the children
and OVS do between two of its kills commutes with them. `kill` and `waitpid`
are one step, as the daemon waits; a child is assumed to die of SIGTERM.
`Reply` ends the daemon where a reply of several writes can meet the closed
socket of a client that reads once, and, with `ClientMayDie`, anywhere: a client
that died leaves a closed socket too (SIGPIPE is not handled; `ControlChannel`
has both sides). `shutdown` first writes its announcement (`AnnounceShutdown`), which may
be the end of the daemon with its runtimes alive, and then runs `pkill` (`HandleShutdown`),
which ends the runtimes and leaves the tables. Unknown commands change nothing, like `start`.

`fork()` returns a pid that no process has; with `PidReuse` also one that a
table still names. A failing `fork()` is retried at once: a stutter.

| Run | Instance | Shows |
|---|---|---|
| `launcher_pool` | 3 slots, 4 pids, reuse, `update -1..4`, `start`, clients that die | tables agree, `link_add` always finds a free runtime, bound runtimes run, refinement of `RuntimePool`, sessions are served and released |
| `launcher_commands` | 2 slots, 5 pids, no reuse, every command, runtimes and clients that die | the counter is the table's, no child is lost, `stop` is answered truthfully, bindings stay exclusive over stale pids, only `stop` ends a runtime in use |
| `launcher_sessions` | 3 slots, 4 pids, no clients, runtimes die | no drift between pool and sessions |
| `reply_update`, `reply_status` | 2 slots | what two replies say is violated, see Findings |

Bounds. Two slots are the fewest at which one session can hold a runtime while
another is bound, closed or stale, and three the fewest with a retired entry
between two used ones, a full table, and an update that must skip a runtime in
use. Every number of commands is allowed. Without pid reuse the tables
remember at most a stale and a fresh pid per slot, so 2 * slots + 1 pids never
block `fork()`; where `stop` is not a command one per slot is remembered. Pids
are interchangeable, hence the symmetry in the safety runs; `launcher_pool` has
none, because TLC checks liveness soundly only without. No state
constraint is used.

Fairness is `WF_vars(Daemon)`: the process is scheduled, `fork()` does not fail
for ever, and a client that has connected sends a command or hangs up. A client
that does neither blocks the real daemon in `read`; that is a listed hazard.
A daemon that a dead client has ended polls nothing: the liveness properties say so
(`pc = "exited"`), and `status` and `shutdown`, whose replies end it too, are left to
`launcher_commands`. OVS and the clients' choice whether to come at all are under no fairness. The
liveness properties are recurrences: infinitely often a slot is closed or
bound, and infinitely often open or unbound. So a session that flickers is
allowed to be missed, one that stays is not.

When runtimes die by themselves with `PidReuse`, both `ReservationsMatch` and
`DistinctBindings` are out of reach: the table may hold a dead pid that `fork`
returns again. `launcher_commands` has no reuse and checks what survives crashes, `stop`
and `shutdown` in any order. After `stop`,
a session that stays open is not given a new runtime until OVS closes it: the
code treats its stale `p4runtime_id` as a binding.

### BypassDetector

The agent's loop: `WakeUp`, `ReadCounter` per slot, `ReadNic`, then `StartOver`
or `Judge`; the ring, `prev_exec` and `executions` are the code's. Of
`passed_packets` and `prev_pass`, which only grow, the module keeps the
difference and whether `prev_pass` is 0. Traffic is the environment: a runtime rewrites its
record in two steps, and a record read in between fails to decrypt
(`decrypt_counter` returns an error and the slot is left out of the sum); a
packet is counted by the kernel after its execution (received) or before it
(sent); the switch may begin or cease to bypass P4; a runtime may be replaced.
Decryption is abstracted to "a half-written record is refused".

| Run | Instance | Shows |
|---|---|---|
| `detector_verdicts` | 2 slots, window 3, threshold 2 | the ring implements `AlarmWindow` across alarms, a bad verdict has a cause, a verdict from undisturbed readings is right, a lasting bypass is noticed |

`DetectorVerdicts` adds a history variable, `tally`: the worst of what has happened since
the last check, a packet that bypassed P4, a sum that lost executions (a replaced runtime,
or an unreadable record in the check it is compared with), or a record that could not be read.
`VerdictIsRight` says that a round without lost or unread executions, for which traffic rested
while it and the round before were read, is judged, and judged bad exactly if a packet
bypassed P4 since the last check. So one is enough to be seen, and nothing is carried
over from an earlier round that went wrong. Without the
conditions it fails: a record that could not be read in one round is counted in the next,
and there hides as many packets that bypassed P4.

Bounds: `MaxExec` is a runtime's count before it is replaced, `Skew` the packets
on their way, `Burst` the kernel's packets beyond `prev_pass`. One or two of each
give every sign of `p4_delta - vm_delta`, sums that fall, and sums in which one
slot's growth hides another's loss. A window of 3 with threshold 2 (the code has
5 and 3) lets the ring wrap, fill up again after an alarm at every index, and hold
good verdicts among the bad. `BadVerdictHasCause` excuses verdicts for whose readings, or
those they are compared with, traffic did not rest: the code reads the counters before the
kernel's statistics, so packets in flight really make an honest round bad.
`BypassIsNoticed` assumes `WF_vars(Agent)` (the agent is scheduled) and, in the
formula, that each late round counts a packet.

### SealedCounter and AgentReport

A field of a sealed record is the number of the sealing it belongs to, or `Torn`
while its bytes are a mixture. The writer, which in `SealedCounter` is the uBPF
runtime, may write the three fields in any order, interleaved with the three copies of
`decrypt_counter` (`Copy`), and may be replaced when half done. `Authentic` is
what AES-GCM promises. An accepted value is at least as new as the last sealing
that was complete when the call began, and was itself complete
(`ReadIsCurrent`); a value is refused only if a sealing was in progress, or left
unfinished, during the call (`RefusedOnlyIfOverlapped`). Three sealings suffice:
one copied field each.

`AgentReport` is `encrypt_message` and its callers in `main`: the threshold is read
when the agent starts, each round packs it with the bytes in use, seals the
word and copies it part by part; the agent may be killed anywhere and restarted.
`ImplementsRecord` maps it to `SealedCounter`, so the result proved there holds
for the switch's reading too, if it reads as `decrypt_counter` does. The
word is the set of the positions of its bits: `|` is a union, and `<<` and the product
with the page size, a power of two, move the positions (`Shifted`). The run has halves of 2 bits
instead of 32 and pages of 2 bytes; of the thresholds `{0, 1}` fits into a half and `{0, 2}` does
not, and every number of pages is reported.

| Run | Instance | Shows |
|---|---|---|
| `sealed_counter` | 3 sealings | accepted values are current, refusals have a reason |
| `agent_report` | 2 reports, halves of 2 bits | `encrypt_message` is such a writer; a report that fits is exact, one that does not never understates the threshold |

### ControlChannel

`Connect`, `SendCommand`, `ReadReply` are the three blocking calls of p4l;
`queue` is the backlog. A client is called with a command answered in one write
or in several, with an empty argument (nothing is written, and it waits for a
reply), or with one too long (it connects and closes). The daemon accepts one
connection per poll, reads once, and writes; a write to a closed connection ends it. Runtimes
inherit the listening socket, so the backlog of a dead daemon stays open until the last of
them ends (`heirs`). A blocked `connect` is no step.

`control_channel` (3 client names, which return for new p4l processes when their
connection is gone, backlog 1, clients killed at any time) shows that the daemon dies
only of a killed client or one that read the first part of a reply in several, that
every command sent is answered while the daemon runs, that polling goes on except
when the daemon waits for a client with an empty command, and that
clients return with the two exceptions `ClientsReturn` names. One client served, one
waiting and one blocked or gone is the fewest for these cases. Deadlock is
not checked: a dead daemon without runtimes ends everything. Fairness is that of
the scheduler, for the daemon and for each client that is not waiting.

### Deployment

`quickly-rebuild` sends `shutdown` to the launcher, starts a new `p4l_server`, stops OVS,
waits 3 seconds and starts OVS; `start` does the same without `shutdown`; `terminate`
stops the VM, and the next `start` brings it up again with no launcher. `stage` is what
the pipeline does next (`Begin`, `StartLauncher`, `StopOvs`, `StartOvs`, `VmStops`), and
`Redeployments` says which of the two may run while the VM is up.
The launchers are numbered in the order in which they are started; the socket's path
leads to the newest, which alone gets `shutdown` (`Announce`, `Pkill`, `LateWrite`). It may
survive the late write as long as p4l has not closed its connection, as it has once the
next launcher is started.

The session table is shared: `ovs_open` and `p4runtime_id` as in `P4Launcher`.
Each launcher's own table is `idle[l]` and `reserved[l]`. A launcher's steps are those
of `P4Launcher` with every access to the shared table a step of its own, because
another launcher may act in between. Clearing a slot is two (`WipeThread`,
`WipeRuntime`). Each condition of `check_ovs_sessions` reads `ovs_thread_id` and then
`p4runtime_id`, in two steps: `TestSession` are those that lead to another test,
`FoundNewSession` and `FoundLostSession` those that call `link_add`, which then writes
(`LinkAdd`), and `link_del`, which reads the pid again and then clears the field
(`Unmark`, `Clear`). What touches only the launcher's own table and its own
children (spawning, unmarking, the choice of the runtime to end) is joined to the step it
follows or precedes, with which it commutes. A thread of OVS takes a slot
that looks free and has no thread of its own (`Register`); `registered` is what
the threads believe, which differs from `ovs_open` where a launcher has wiped it.
`ServingEndsOnlyByPkill` excuses the step that runs `pkill` and the end of the VM, and no
other: that `pkill` can end the next launcher's runtimes is for `DeploymentServes` to show.

Left to the other modules: commands other than `shutdown`, and launchers that die of
another client's reply. Left out: a launcher whose start-up fails, a runtime
that dies by itself, and a child that `pkill` misses between its fork and its exec.
`Settled` stands for the 3 seconds: by then the new launcher has cleared the
table and a `pkill` that was begun has ended. Without that assumption
`RegisteredIsVisible` fails (it is the mutant). The pids set aside for each launcher are
chosen in their order; they are only compared, so no behaviour is lost. A pid that some
table still names is not given out again: it takes the kernel thousands of forks to
come back to it.

| Run | Instance | Shows |
|---|---|---|
| `takeover` | 2 slots, 3 launchers, one at a time | the next launcher starts clean, whatever the one before left, and after a deployment every registered thread is served |
| `overlap` | 2 slots, 2 launchers at once | no shared runtime, no runtime ended under a session by a launcher, no registration wiped |
| `overlap_serves` | 1 slot, 2 launchers at once, `quickly-rebuild` only | a deployment may leave a session unserved for ever, see Findings |

Bounds. Two slots let two sessions compete for runtimes and one be bound while the
other is cleared; three launchers give a takeover of a table that a takeover
left, once after `shutdown` and once after the VM. Each launcher has as many pids as
slots: it names no more than `MAX_CONNECTIONS`, so a pid is free whenever it forks.
Deadlock is not checked: when the VM is down and the launchers of the bound are used
up, nothing is left to do. Fairness: launchers are
scheduled, and a pipeline that has begun goes on; OVS's threads and the beginning of a
pipeline are under none.

## Proofs

The theorems about the launcher are for every table size, pid set and command set that satisfy
`ConstantsAssumption`, with pids reused or not unless it says so.

* `TypeCorrect`: type correctness, one lemma per group of actions.
* `CountCorrect`, `NoChildLost`: `RuntimeCount` and `NoOrphan` are not
  inductive alone. `add_runtime_entry` drops a pid when the table is full, so
  that no child is lost needs the counter to agree with the table, and an empty
  entry needs the loop's bound. The invariant `Tracked` joins them with
  `LoopBounds`. No assumption on crashes or commands.
* `StopIsTruthful`: from `NoChildLost` and the fact that only `update` returns
  from `adjust_children` to a reply.
* `ReservationsCorrect`, `BindSucceeds`, `BoundRuns`: under `NothingElseEnds`
  (runtimes do not exit by themselves; no `stop`, no `shutdown`). The inductive
  invariant `BindInv` adds to `Tracked` that the table holds only live children,
  that the tables match, and what is known of slot `i` during a call. The heart is
  `RoomForOneMore`: reserved entries name distinct bound slots, slot `i` is
  not bound, and there are as many entries as slots, so by the pigeonhole
  principle an entry is not reserved.
* `PoolImplemented`: under the same assumption `Spec => ImplementsPool`; each
  daemon action is a `Start`, `Retire`, `Bind`, `Release` or a stutter.
* `BindingsStayDistinct`, `BindSucceedsAfterCrash`, `OnlyStopEndsService`: with all
  commands and runtimes that exit by themselves, if `fork()` returns no pid that a
  table still holds (`~ PidReuse`). After a `stop` the session table names runtimes
  that are gone, so the tables no longer match. What is still inductive
  (`DistinctInv`) is that a free runtime is bound to no session, and a reserved one to
  one. A pid that came back too early would break it: a binding left by `stop`
  would name it.
* `ReservationsSurviveCrashes`: under the same assumption and without `stop`, every binding also names a reserved
  entry (`BoundReserved`), whatever crashes.
* `PoolFollowsSessions`: under the same assumption and without commands. `PoolBounds` gives the number of runtimes
  beyond the bound sessions at each point of the main loop; it needs that the shrinking
  loop after `link_del` finds a free entry, which is the one just unmarked.
* `DetectorTypes`, `RingIsWindow`: the ring of verdicts implements `AlarmWindow` for
  every window and threshold. The position of the k-th oldest verdict is written without
  the remainder (`Position`); a verdict then either fills the next position
  (`PositionWhileFilling`) or replaces the oldest (`PositionWhenFull`), and a full ring
  holds as many bad verdicts as the window because its positions are a bijection
  (`SameCount`).
* `BadVerdictsHaveCause`: `BadVerdictHasCause` for any number of slots. A sum of counters is
  the cardinality of a set, the executions the first n slots count (`Executed`), so that
  no induction over the slots is needed: one slot more adds a disjoint set
  (`SumOfNext`), an execution one element (`SumOfIncremented`). The invariant `BalanceInv`
  says that between checks the executions not yet remembered are at least the packets the
  kernel has counted since, or will count, and that readings under which traffic rests are
  those of one moment.
* `VerdictsAreRight`: `VerdictIsRight`, from the same invariant with an equation in place of
  the inequality (`ExactInv`): as long as every record can be read and no sum goes back, the
  two are equal until a packet bypasses P4, and the executions are fewer from then on.
* `AcceptedIsCurrent`: `ReadIsCurrent` for any number of sealings. The invariant
  is that a sealing which is not finished is missing in some field both in memory
  and in the copies (the same field), so that three equal copies name a finished one;
  and that a copied field is not older than the call (`RecordFresh`, `Unfinished`).
* `RefusalsHaveCause`: `RefusedOnlyIfOverlapped` for any number of sealings. Without an
  overlapping write the record is whole, and what has been copied is of the sealing
  `since` names (`Quiet`).
* `ReportIsRecord`: every step of `AgentReport` is one of `SealedCounter` or a stutter,
  also one that kills the agent and starts it again: its fields are written in turn (`InTurn`).
  `SwitchReadsCurrent` and `SwitchRefusesWithCause` then carry
  over what is proved of `SealedCounter`, by an instance of its theorems.
* `FittingReportsAreExact`, `ThresholdsAreNotUnderstated`: for halves and pages of any size.
  `CombinedHalves` says what the halves of a combined word hold; the invariant
  `WordInv` that every report is as the agent packed it, and that an accepted one exists.
* `DeathIsOfLateWrite`, `NoCommandDropped`: `DiesOnlyOfLateWrite` and
  `CommandsAnswered` for any number of clients and any backlog. The invariant
  says that a connection is in one place (`Connections`), what of the reply has
  been written at each point (`Written`), and that a connection closed behind a
  command has its answer in it or delivered (`Reached`).
* `RuntimesAreNotShared`, `NoLauncherEndsService`: for any number of slots, pids and
  launchers at work at once. The invariant `PidInv` says that no pid is in two
  launchers' tables, and that a runtime which is free for its launcher is bound to no
  session, except in the middle of `link_del`, and there only to the session being
  cleared. A lemma per kind of step: one that spawns, binds, unmarks, clears, or only
  empties.
* `RegistrationsSurvive`: only the newest launcher can be clearing the table, and
  only between its start and that of OVS (`OvsInv`).
* `TakeoversAreClean`: under `~ Overlap` (no launcher is started while another is at work),
  without which two launchers bind sessions in one table and neither holds all of it. The
  invariant `TakeoverInv` follows one launcher from the clearing on: the slots it has passed
  are empty, and from its first poll its reserved runtimes are those the table names, but for the
  one `link_del` has unmarked and not yet cleared (`HandsOver`).

Only model-checked: liveness (`SessionsServed`, `SessionsReleased`, `DeploymentServes`,
`BypassIsNoticed`, `PollingGoesOn`, `ClientsReturn`), which rests on fairness and is out of the
prover's reach. Every other property of a passing run has a theorem, under the assumption
named above where there is one.

## Findings

* `update n` answers with `n` although the pool is clamped to 32 and runtimes in
  use are kept (`p4l_server.c:301`; run `reply_update`).
* `status` counts and lists children that have exited, because the SIGCHLD
  handler does not touch the tables (`p4l_server.c:253`, `312`; run `reply_status`).
* `shutdown` announces the end of the P4Launcher and of all child processes, and
  `quickly-rebuild` relies on it, but only the runtimes are signalled, and only after the
  announcement has let `p4l` return (`p4l_server.c:326-328`). A rebuild can leave a
  session bound to a killed runtime for ever: the old launcher hands out those it does
  not know to be killed, or the late `pkill` reaches the new launcher's runtimes
  (run `overlap_serves`).

## Plan

All of the running system that is in this repository is modelled. What would add most next:

1. Two agents at once on the report's record, as repeated runs of the start pipeline
   produce them.
2. What a session that is bound to a dead runtime can still hope for.

## Not modelled

The `#ifdef OLD` half of `p4l_server.c` is not compiled (nor would it be: it repeats
definitions of the first half), nor is the `#else` of `p4agent.c` (`ENCRYPT` is defined
in its first lines). `daemonize`, logging, the wording of replies and the mapping of the
device file have no effect on the properties. The set-up scripts, the vsock example, the
test aids and the measurements keep no state of the running system: `tester.c` and
`demo_app.c` are loops that nothing else looks at, and the two ends of the vsock example
exchange one message and end. The pipelines' builds, VM start-up and checks are left out,
and the pipelines of the other hosts follow the ones modelled.
