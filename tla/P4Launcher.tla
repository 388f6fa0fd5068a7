------------------------------- MODULE P4Launcher -------------------------------
(***************************************************************************)
(* The P4Launcher daemon, p4/p4launcher/p4l_server.c: a single-threaded    *)
(* main loop that polls the session table shared with Open vSwitch, starts *)
(* and stops uBPF runtimes (child processes) so that each session has one, *)
(* and serves one command of the control client per round.                 *)
(*                                                                         *)
(* One action is the stretch of the main loop between two points at which  *)
(* another party can act on what it reads or writes: Open vSwitch writes   *)
(* ovs_thread_id at any time, children exit at any time, and the SIGCHLD   *)
(* handler reaps at any time.  runtimes_table and runtimes are private to  *)
(* the daemon.                                                             *)
(***************************************************************************)
EXTENDS Integers, FiniteSets

CONSTANTS
  MAX_CONNECTIONS,  \* slots of session_table and of runtimes_table
  INIT_CLIENTS,     \* runtimes started before the first poll
  Pids,             \* process ids fork() may return
  NoPid,            \* the -1 of an empty entry
  Commands,         \* the commands clients may send
  ChildMayExit,     \* may a runtime exit on its own?
  ClientMayDie,     \* may a client die before it has its reply?
  PidReuse          \* may fork() return a pid the daemon still remembers?

Command == [op : {"start", "update", "stop", "status", "shutdown"}, n : Int]

NoCommand == [op |-> "none", n |-> 0]

ASSUME ConstantsAssumption ==
  /\ MAX_CONNECTIONS \in Nat \ {0}
  /\ INIT_CLIENTS \in Nat \ {0}
  /\ NoPid \notin Pids
  /\ Commands \subseteq Command
  /\ ChildMayExit \in BOOLEAN
  /\ ClientMayDie \in BOOLEAN
  /\ PidReuse \in BOOLEAN

Slots == 0 .. MAX_CONNECTIONS - 1

VARIABLES
  ovs_open,      \* slots with ovs_thread_id > 0; written by Open vSwitch
  p4runtime_id,  \* session_table[s].p4runtime_id; written by the daemon
  pid,           \* runtimes_table[j].pid
  in_use,        \* runtimes_table[j].in_use
  runtimes,      \* the daemon's count of runtimes
  running,       \* children of the daemon that have not exited
  zombie,        \* children that have exited and are not reaped
  pc,            \* where the main loop is
  i,             \* the slot check_ovs_sessions is at
  target,        \* the argument of the adjust_children in progress, clamped
  ret,           \* where that call returns to
  cmd            \* the command being served

tableVars == <<pid, in_use, runtimes>>
procVars  == <<running, zombie>>
callVars  == <<target, ret>>
vars == <<ovs_open, p4runtime_id, tableVars, procVars, pc, i, callVars, cmd>>

-----------------------------------------------------------------------------
(* runtimes_table *)

UsedEntries  == {j \in Slots : pid[j] # NoPid}
EmptyEntries == Slots \ UsedEntries

\* Mutant of FreeEntries: the in_use mark is not looked at.
FreeEntries_anyUsed == UsedEntries
FreeEntries == {j \in UsedEntries : ~ in_use[j]}

\* The loops over runtimes_table stop at the first entry that qualifies.
First(j, S) == j \in S /\ \A k \in S : j <= k

TablePids == {pid[j] : j \in UsedEntries}

\* pids the daemon holds in either table
RememberedPids == TablePids \cup {p4runtime_id[s] : s \in Slots}

\* fork() returns a pid that no process has.  A pid comes back after it has
\* been reaped (the id space wraps) only where PidReuse allows it.
Forkable ==
  (Pids \ (running \cup zombie)) \ (IF PidReuse THEN {} ELSE RememberedPids)

AddRuntimeEntry(p) ==
  \/ \E j \in Slots : /\ First(j, EmptyEntries)
                      /\ pid' = [pid EXCEPT ![j] = p]
                      /\ in_use' = [in_use EXCEPT ![j] = FALSE]
  \/ EmptyEntries = {} /\ UNCHANGED <<pid, in_use>>

\* kill(SIGTERM) and waitpid: the child is gone afterwards, whether this call
\* or the SIGCHLD handler reaped it.  For a pid that is no child, waitpid fails
\* at once (what else the signal may hit is outside the model).
\* Mutant of TerminateChild: no signal is sent.
TerminateChild_silent(p) == UNCHANGED procVars
TerminateChild(p) == /\ running' = running \ {p}
                     /\ zombie' = zombie \ {p}

-----------------------------------------------------------------------------
(* adjust_children and start_children *)

\* Mutant of Clamp: the limit is one entry too low.
Clamp_short(n) == IF n >= MAX_CONNECTIONS THEN MAX_CONNECTIONS - 1 ELSE n
Clamp(n) == IF n > MAX_CONNECTIONS THEN MAX_CONNECTIONS ELSE n

\* The call adjust_children(n), to continue at k.
AdjustChildren(n, k) ==
  /\ pc' = CASE Clamp(n) > runtimes -> "grow"
             [] Clamp(n) < runtimes -> "shrink"
             [] OTHER -> k
  /\ target' = Clamp(n)
  /\ ret' = k

\* One turn of the loop of start_children.  A fork() that fails leaves
\* everything as it was and is tried again at once: a stuttering step.
SpawnRuntime ==
  /\ pc = "grow"
  /\ \E p \in Forkable : /\ running' = running \cup {p}
                         /\ AddRuntimeEntry(p)
  /\ runtimes' = runtimes + 1
  /\ pc' = IF runtimes + 1 < target THEN "grow" ELSE ret
  /\ UNCHANGED <<ovs_open, p4runtime_id, zombie, i, callVars, cmd>>

\* One turn of the shrinking loop: the first free runtime is terminated.
RetireRuntime ==
  /\ pc = "shrink"
  /\ \E j \in Slots : /\ First(j, FreeEntries)
                      /\ TerminateChild(pid[j])
                      /\ pid' = [pid EXCEPT ![j] = NoPid]
                      /\ in_use' = [in_use EXCEPT ![j] = FALSE]
  /\ runtimes' = runtimes - 1
  /\ pc' = IF runtimes - 1 > target THEN "shrink" ELSE ret
  /\ UNCHANGED <<ovs_open, p4runtime_id, i, callVars, cmd>>

\* The shrinking loop runs off the table: every runtime left is in use.
NothingToRetire ==
  /\ pc = "shrink"
  /\ FreeEntries = {}
  /\ pc' = ret
  /\ UNCHANGED <<ovs_open, p4runtime_id, tableVars, procVars, i, callVars, cmd>>

-----------------------------------------------------------------------------
(* check_ovs_sessions: slot i has up to two conditions to test.  Each reads *)
(* ovs_thread_id once, and what it decides is carried out later.            *)

\* First condition: a session without a runtime; link_add begins.
FoundNewSession ==
  /\ pc = "poll"
  /\ i \in ovs_open /\ p4runtime_id[i] = NoPid
  /\ AdjustChildren(runtimes + 1, "bind")
  /\ UNCHANGED <<ovs_open, p4runtime_id, tableVars, procVars, i, cmd>>

\* Mutant of Reserve: the entry is not marked.
Reserve_skip(j) == UNCHANGED in_use
Reserve(j) == in_use' = [in_use EXCEPT ![j] = TRUE]

\* link_add after its usleep.
LinkAdd ==
  /\ pc = "bind"
  /\ \/ \E j \in Slots : /\ First(j, FreeEntries)
                         /\ Reserve(j)
                         /\ p4runtime_id' = [p4runtime_id EXCEPT ![i] = pid[j]]
     \/ FreeEntries = {} /\ UNCHANGED <<in_use, p4runtime_id>>
  /\ pc' = "recheck"
  /\ UNCHANGED <<ovs_open, pid, runtimes, procVars, i, callVars, cmd>>

\* Second condition, also reached after link_add: a runtime without a session.
FoundLostSession ==
  /\ pc \in {"poll", "recheck"}
  /\ i \notin ovs_open /\ p4runtime_id[i] # NoPid
  /\ pc' = "unbind"
  /\ UNCHANGED <<ovs_open, p4runtime_id, tableVars, procVars, i, callVars, cmd>>

\* Mutants of LinkDelEntry: the entry stays marked; the first marked entry is
\* unmarked instead of the one the session names.
LinkDelEntry_keep == UNCHANGED in_use
LinkDelEntry_first ==
  \/ \E j \in Slots : /\ First(j, {k \in UsedEntries : in_use[k]})
                      /\ in_use' = [in_use EXCEPT ![j] = FALSE]
  \/ (\A k \in Slots : ~ in_use[k]) /\ UNCHANGED in_use
LinkDelEntry ==
  LET named == {j \in UsedEntries : pid[j] = p4runtime_id[i]}
  IN \/ \E j \in Slots : /\ First(j, named)
                         /\ in_use' = [in_use EXCEPT ![j] = FALSE]
     \/ named = {} /\ UNCHANGED in_use

\* Mutant of Unbind: the session keeps the pid.
Unbind_skip(s) == UNCHANGED p4runtime_id
Unbind(s) == p4runtime_id' = [p4runtime_id EXCEPT ![s] = NoPid]

LinkDel ==
  /\ pc = "unbind"
  /\ LinkDelEntry
  /\ Unbind(i)
  /\ AdjustChildren(runtimes - 1, "next")
  /\ UNCHANGED <<ovs_open, pid, runtimes, procVars, i, cmd>>

\* Mutants of IsSlot: the loop runs one slot too far, or stops one too early.
IsSlot_past(k) == k <= MAX_CONNECTIONS
IsSlot_short(k) == k < MAX_CONNECTIONS - 1
IsSlot(k) == k < MAX_CONNECTIONS

\* Neither condition holds (any more), or the slot is done.
NextSlot ==
  /\ \/ pc = "poll" /\ (i \in ovs_open <=> p4runtime_id[i] # NoPid)
     \/ pc = "recheck" /\ (i \in ovs_open \/ p4runtime_id[i] = NoPid)
     \/ pc = "next"
  /\ IF IsSlot(i + 1) THEN i' = i + 1 /\ pc' = "poll"
                      ELSE i' = 0 /\ pc' = "accept"
  /\ UNCHANGED <<ovs_open, p4runtime_id, tableVars, procVars, callVars, cmd>>

-----------------------------------------------------------------------------
(* The control socket *)

\* accept() would block.
NoClient ==
  /\ pc = "accept"
  /\ pc' = "poll"
  /\ UNCHANGED <<ovs_open, p4runtime_id, tableVars, procVars, i, callVars, cmd>>

\* A client has connected: the main loop now waits in read() for its command.
AcceptClient ==
  /\ pc = "accept"
  /\ pc' = "read"
  /\ UNCHANGED <<ovs_open, p4runtime_id, tableVars, procVars, i, callVars, cmd>>

\* The client closes without a command.
ClientHangsUp ==
  /\ pc = "read"
  /\ pc' = "poll"
  /\ UNCHANGED <<ovs_open, p4runtime_id, tableVars, procVars, i, callVars, cmd>>

ReadCommand ==
  /\ pc = "read"
  /\ cmd' \in Commands
  /\ pc' = "command"
  /\ UNCHANGED <<ovs_open, p4runtime_id, tableVars, procVars, i, callVars>>

HandleUpdate ==
  /\ pc = "command" /\ cmd.op = "update"
  /\ AdjustChildren(cmd.n, "reply")
  /\ UNCHANGED <<ovs_open, p4runtime_id, tableVars, procVars, i, cmd>>

\* Mutant of StopAllChildren: runtimes that serve a session are spared.
StopAllChildren_free ==
  /\ running' = running \ {pid[j] : j \in FreeEntries}
  /\ zombie' = zombie \ {pid[j] : j \in FreeEntries}
  /\ pid' = [j \in Slots |-> NoPid]
  /\ in_use' = [j \in Slots |-> FALSE]
  /\ runtimes' = 0
\* Mutant of StopAllChildren: the count is not reset.
StopAllChildren_keepCount ==
  /\ running' = running \ TablePids
  /\ zombie' = zombie \ TablePids
  /\ pid' = [j \in Slots |-> NoPid]
  /\ in_use' = [j \in Slots |-> FALSE]
  /\ UNCHANGED runtimes
StopAllChildren ==
  /\ running' = running \ TablePids
  /\ zombie' = zombie \ TablePids
  /\ pid' = [j \in Slots |-> NoPid]
  /\ in_use' = [j \in Slots |-> FALSE]
  /\ runtimes' = 0

HandleStop ==
  /\ pc = "command" /\ cmd.op = "stop"
  /\ StopAllChildren
  /\ pc' = "reply"
  /\ UNCHANGED <<ovs_open, p4runtime_id, i, callVars, cmd>>

\* shutdown is announced first, which ends the daemon if the client has died, ...
AnnounceShutdown ==
  /\ pc = "command" /\ cmd.op = "shutdown"
  /\ \/ pc' = "pkill" /\ UNCHANGED cmd
     \/ ClientMayDie /\ pc' = "exited" /\ cmd' = NoCommand
  /\ UNCHANGED <<ovs_open, p4runtime_id, tableVars, procVars, i, callVars>>

\* ... then system("pkill ubpf_test"): every running runtime gets SIGTERM; the
\* tables are not touched.
HandleShutdown ==
  /\ pc = "pkill" /\ cmd.op = "shutdown"
  /\ running' = {}
  /\ zombie' = zombie \cup running
  /\ pc' = "reply"
  /\ UNCHANGED <<ovs_open, p4runtime_id, tableVars, i, callVars, cmd>>

\* start, status and an unknown command change nothing.
HandleQuery ==
  /\ pc = "command" /\ cmd.op \in {"start", "status"}
  /\ pc' = "reply"
  /\ UNCHANGED <<ovs_open, p4runtime_id, tableVars, procVars, i, callVars, cmd>>

\* The client reads once and closes.  A reply of several dprintf() calls can
\* find the socket closed, any reply can if the client died, and SIGPIPE then
\* ends the daemon (ControlChannel models both sides).
SeveralWrites ==
  cmd.op = "shutdown" \/ (cmd.op = "status" /\ UsedEntries # {})

Reply ==
  /\ pc = "reply"
  /\ pc' \in {"poll"} \cup (IF SeveralWrites \/ ClientMayDie THEN {"exited"} ELSE {})
  /\ cmd' = NoCommand
  /\ UNCHANGED <<ovs_open, p4runtime_id, tableVars, procVars, i, callVars>>

-----------------------------------------------------------------------------
(* The other parties *)

OvsOpensSession(s) ==
  /\ s \notin ovs_open
  /\ ovs_open' = ovs_open \cup {s}
  /\ UNCHANGED <<p4runtime_id, tableVars, procVars, pc, i, callVars, cmd>>

OvsClosesSession(s) ==
  /\ s \in ovs_open
  /\ ovs_open' = ovs_open \ {s}
  /\ UNCHANGED <<p4runtime_id, tableVars, procVars, pc, i, callVars, cmd>>

\* A runtime exits by itself: it crashes, or its execl() fails.
ChildExits(p) ==
  /\ ChildMayExit
  /\ p \in running
  /\ running' = running \ {p}
  /\ zombie' = zombie \cup {p}
  /\ UNCHANGED <<ovs_open, p4runtime_id, tableVars, pc, i, callVars, cmd>>

\* SIGCHLD interrupts the main loop anywhere; the handler reaps every zombie
\* and changes nothing else.  (Once the daemon has exited, init reaps.)
SigchldHandler ==
  /\ zombie # {}
  /\ zombie' = {}
  /\ UNCHANGED <<ovs_open, p4runtime_id, tableVars, running, pc, i, callVars, cmd>>

-----------------------------------------------------------------------------
(* main *)

Init ==
  /\ ovs_open = {}
  /\ p4runtime_id = [s \in Slots |-> NoPid]
  /\ pid = [j \in Slots |-> NoPid]
  /\ in_use = [j \in Slots |-> FALSE]
  /\ runtimes = 0
  /\ running = {} /\ zombie = {}
  /\ pc = "grow" /\ target = Clamp(INIT_CLIENTS) /\ ret = "poll"
  /\ i = 0
  /\ cmd = NoCommand

Adjust == SpawnRuntime \/ RetireRuntime \/ NothingToRetire

CheckOvsSessions ==
  FoundNewSession \/ LinkAdd \/ FoundLostSession \/ LinkDel \/ NextSlot

HandleClient ==
  \/ NoClient \/ AcceptClient \/ ClientHangsUp \/ ReadCommand
  \/ HandleUpdate \/ HandleStop \/ AnnounceShutdown \/ HandleShutdown \/ HandleQuery
  \/ Reply

Daemon == Adjust \/ CheckOvsSessions \/ HandleClient

Environment ==
  \/ \E s \in Slots : OvsOpensSession(s) \/ OvsClosesSession(s)
  \/ \E p \in Pids : ChildExits(p)
  \/ SigchldHandler

Next == Daemon \/ Environment

Spec == Init /\ [][Next]_vars

\* The scheduler keeps running the daemon, fork() does not fail forever, and a
\* client that has connected sends a command or hangs up.
FairSpec == Spec /\ WF_vars(Daemon)

-----------------------------------------------------------------------------
(* Properties *)

Locations == {"poll", "grow", "shrink", "bind", "recheck", "unbind", "next",
              "accept", "read", "command", "pkill", "reply", "exited"}

\* Every variable has its type.
TypeOK ==
  /\ ovs_open \subseteq Slots
  /\ p4runtime_id \in [Slots -> Pids \cup {NoPid}]
  /\ pid \in [Slots -> Pids \cup {NoPid}]
  /\ in_use \in [Slots -> BOOLEAN]
  /\ runtimes \in Int
  /\ running \subseteq Pids
  /\ zombie \subseteq Pids
  /\ pc \in Locations
  /\ i \in Slots
  /\ target \in Int
  /\ ret \in {"poll", "bind", "next", "reply"}
  /\ cmd \in Commands \cup {NoCommand}

\* The counter `runtimes`, which bounds start_children's loop and is what
\* status reports, is the number of occupied entries of runtimes_table: after
\* any mixture of growing, shrinking, stopping, crashes and reused pids.
\* (add_runtime_entry drops a pid silently when the table is full, so a counter
\* that lags the table would make the daemon lose a child.)
RuntimeCount == runtimes = Cardinality(UsedEntries)

\* The daemon never loses track of a child: as long as it runs, every process
\* it started and has not reaped is in runtimes_table, where stop_all_children
\* and adjust_children can find it, whatever children, clients and OVS do.
NoOrphan == pc # "exited" => running \cup zombie \subseteq TablePids

\* When the daemon answers `stop` with "all child processes were stopped", no
\* child is running, not even one that a session was bound to.
StopReplyTruthful == pc = "reply" /\ cmd.op = "stop" => running = {}

BoundSlots == {s \in Slots : p4runtime_id[s] # NoPid}

\* The session table and runtimes_table tell the same story between any two
\* steps: every binding names the pid of one reserved entry, every reserved
\* entry is named by one session, and neither table holds a pid twice.
ReservationsMatch ==
  /\ \A s \in BoundSlots : \E j \in Slots : in_use[j] /\ pid[j] = p4runtime_id[s]
  /\ \A j \in Slots : in_use[j] => \E s \in BoundSlots : p4runtime_id[s] = pid[j]
  /\ \A s, t \in BoundSlots : p4runtime_id[s] = p4runtime_id[t] => s = t
  /\ \A j, k \in UsedEntries : pid[j] = pid[k] => j = k

\* Two sessions never share a runtime.  Weaker than ReservationsMatch, and what
\* is left of it once `stop` has emptied runtimes_table under bound sessions.
DistinctBindings ==
  /\ \A s, t \in BoundSlots : p4runtime_id[s] = p4runtime_id[t] => s = t
  /\ \A j \in Slots : in_use[j] => \E s \in BoundSlots : p4runtime_id[s] = pid[j]

\* link_add never reaches its "no free runtime found after spawn" branch: the
\* runtimes_table is as long as the session table, so a new session finds a
\* free entry even where adjust_children's clamp keeps it from spawning one.
BindAlwaysFindsFree == pc = "bind" => FreeEntries # {}

\* The runtime a session is bound to is running (no crash, no stop/shutdown).
BoundRuntimeRuns == \A s \in BoundSlots : p4runtime_id[s] \in running

\* The pool follows the sessions without drift: between two slots of a poll the
\* runtimes are at least the bound sessions and at most INIT_CLIENTS more,
\* however sessions came and went, if no client ever asked for another number.
PoolTracksSessions ==
  pc \in {"poll", "recheck", "next", "accept"} =>
    runtimes \in Cardinality(BoundSlots) .. Cardinality(BoundSlots) + INIT_CLIENTS

\* The daemon itself ends a runtime a session is bound to only at the stop command:
\* no update, no lost session of another slot, and no entry that crashes or stops
\* have left stale ever takes it away.  (What exits by itself, or of pkill, leaves
\* a zombie.)
ServingEndsOnlyByStop ==
  [][ (\E s \in BoundSlots : p4runtime_id[s] \in running \ (running' \cup zombie'))
        => pc = "command" /\ cmd.op = "stop" ]_vars

\* The daemon implements the pool the switch relies on.
Pool == INSTANCE RuntimePool
          WITH Sessions <- Slots,
               opened <- ovs_open, bound <- p4runtime_id, alive <- running

\* Every step of the daemon is a step of the abstract pool: only an idle, live
\* runtime is bound, and a runtime is retired (and its pid used again) only
\* while no session is bound to it.
ImplementsPool == Pool!PoolSpec

\* While the daemon lives, a session that stays open is eventually bound, and one
\* that stays closed is eventually unbound, although OVS may open and close it
\* between the test of ovs_thread_id and link_add/link_del, and clients resize the
\* pool meanwhile.
SessionsServed ==
  \A s \in Slots : []<>(pc = "exited" \/ s \notin ovs_open \/ s \in BoundSlots)
SessionsReleased ==
  \A s \in Slots : []<>(pc = "exited" \/ s \in ovs_open \/ s \notin BoundSlots)

(* What the replies say, which the code does not always keep *)

\* "adjusted the number of child processes to n".
UpdateReplyTruthful == pc = "reply" /\ cmd.op = "update" => runtimes = cmd.n

\* "number of child processes: n".
StatusReplyTruthful ==
  pc = "reply" /\ cmd.op = "status" => runtimes = Cardinality(running)
================================================================================
