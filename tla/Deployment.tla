------------------------------- MODULE Deployment -------------------------------
(***************************************************************************)
(* Successive P4Launchers on one session table: the pipelines              *)
(* jenkins/*/start and jenkins/*/quickly-rebuild start a p4l_server, which  *)
(* clears the table, and then restart Open vSwitch (OVS), whose threads     *)
(* register in the table.  quickly-rebuild first sends `shutdown` to the   *)
(* launcher before, which runs pkill ubpf_test and may or may not end;      *)
(* start sends nothing.  So a launcher may find another at work, and both   *)
(* then serve the same sessions.                                            *)
(*                                                                         *)
(* P4Launcher models one launcher in full.  Here an entry of               *)
(* runtimes_table is its pid, idle or reserved, which entry a search finds *)
(* first is left open, and the only command is the pipeline's.             *)
(***************************************************************************)
EXTENDS Integers, FiniteSets

CONSTANTS
  MAX_CONNECTIONS,  \* slots of session_table, entries of a runtimes_table
  MaxLaunchers,     \* bound: p4l_servers started
  Pids,             \* process ids of runtimes
  NoPid,            \* the -1 of an empty field
  Overlap,          \* may a launcher be started while another is at work?
  Redeployments     \* how a pipeline may begin while the VM is up: "shutdown"
                    \* (quickly-rebuild), "launcher" (start)

ASSUME DeploymentAssumption ==
  /\ MAX_CONNECTIONS \in Nat \ {0} /\ MaxLaunchers \in Nat
  /\ Pids \subseteq Nat /\ NoPid \notin Pids
  /\ Overlap \in BOOLEAN
  /\ Redeployments \subseteq {"shutdown", "launcher"}

Slots == 0 .. MAX_CONNECTIONS - 1
Launchers == 1 .. MaxLaunchers   \* in the order in which they are started

VARIABLES
  ovs_up,        \* does OVS run?
  registered,    \* slots in which a thread of OVS believes it is registered
  ovs_open,      \* slots with ovs_thread_id > 0
  p4runtime_id,  \* session_table[s].p4runtime_id
  idle,          \* idle[l]: pids in l's runtimes_table that are not in use
  reserved,      \* reserved[l]: those that are
  running,       \* runtimes that run
  pc, i,         \* pc[l], i[l]: where l is in its code, and at which slot
  stage,         \* what the pipeline does next
  started        \* launchers started so far

tableVars == <<ovs_open, p4runtime_id>>
ovsVars == <<ovs_up, registered>>
poolVars == <<idle, reserved, running>>
pipelineVars == <<stage, started>>
vars == <<ovsVars, tableVars, poolVars, pc, i, pipelineVars>>

\* Mutant of Advance: the index is not reset.
Advance_past(k) == k + 1
Advance(k) == (k + 1) % MAX_CONNECTIONS

Goto(l, k) == pc' = [pc EXCEPT ![l] = k]
Size(l) == Cardinality(idle[l] \cup reserved[l])
Bound == {p4runtime_id[s] : s \in Slots} \ {NoPid}

\* fork() returns a pid that no process has and, here, that no table names.  Pids
\* are only compared, so any will do: the least of those set aside for l.
Fresh == Pids \ (running \cup Bound \cup UNION {idle[l] \cup reserved[l] : l \in Launchers})
Fork(l, p) ==
  LET F == {q \in Fresh : q % MaxLaunchers = l % MaxLaunchers}
  IN p \in F /\ \A q \in F : p <= q

-----------------------------------------------------------------------------
(* A launcher starts: shm_initialize_table clears slot after slot ...       *)

WipeThread(l) ==
  /\ pc[l] = "wipe"
  /\ ovs_open' = ovs_open \ {i[l]}
  /\ Goto(l, "wipe_p4")
  /\ UNCHANGED <<p4runtime_id, ovsVars, poolVars, i, pipelineVars>>

\* Mutant of Cleared: p4runtime_id is left as it was.
Cleared_not(s) == p4runtime_id
Cleared(s) == [p4runtime_id EXCEPT ![s] = NoPid]

WipeRuntime(l) ==
  /\ pc[l] = "wipe_p4"
  /\ p4runtime_id' = Cleared(i[l])
  /\ i' = [i EXCEPT ![l] = Advance(i[l])]
  /\ Goto(l, IF i[l] + 1 < MAX_CONNECTIONS THEN "wipe" ELSE "first")
  /\ UNCHANGED <<ovs_open, ovsVars, poolVars, pipelineVars>>

\* ... then the socket is set up, and the first runtime started.
Spawn(l) ==
  \E p \in Pids : /\ Fork(l, p)
                  /\ idle' = [idle EXCEPT ![l] = @ \cup {p}]
                  /\ running' = running \cup {p}

StartFirst(l) ==
  /\ pc[l] = "first"
  /\ Spawn(l)
  /\ Goto(l, "poll")
  /\ UNCHANGED <<tableVars, ovsVars, reserved, i, pipelineVars>>

-----------------------------------------------------------------------------
(* check_ovs_sessions, as in P4Launcher, with another launcher in between:  *)
(* a step reads or writes the session table once.                           *)

\* A test that only leads to the next one: each of the two conditions reads
\* ovs_thread_id and, if need be, p4runtime_id.
TestSession(l) ==
  /\ \/ pc[l] = "poll" /\ Goto(l, IF i[l] \in ovs_open THEN "poll_p4" ELSE "recheck")
     \/ pc[l] = "poll_p4" /\ p4runtime_id[i[l]] # NoPid /\ Goto(l, "recheck")
     \/ pc[l] = "recheck" /\ i[l] \notin ovs_open /\ Goto(l, "recheck_p4")
  /\ UNCHANGED <<tableVars, ovsVars, poolVars, i, pipelineVars>>

\* link_add begins: it starts a runtime, if the table is not full.
FoundNewSession(l) ==
  /\ pc[l] = "poll_p4" /\ p4runtime_id[i[l]] = NoPid
  /\ IF Size(l) < MAX_CONNECTIONS THEN Spawn(l) ELSE UNCHANGED <<idle, running>>
  /\ Goto(l, "bind")
  /\ UNCHANGED <<tableVars, ovsVars, reserved, i, pipelineVars>>

\* Mutant of Unreserved: a runtime that is given to a session stays free.
Unreserved_all(l, p) == idle[l]
Unreserved(l, p) == idle[l] \ {p}

LinkAdd(l) ==
  /\ pc[l] = "bind"
  /\ \/ \E p \in idle[l] :
          /\ idle' = [idle EXCEPT ![l] = Unreserved(l, p)]
          /\ reserved' = [reserved EXCEPT ![l] = @ \cup {p}]
          /\ p4runtime_id' = [p4runtime_id EXCEPT ![i[l]] = p]
     \/ idle[l] = {} /\ UNCHANGED <<idle, reserved, p4runtime_id>>
  /\ Goto(l, "recheck")
  /\ UNCHANGED <<ovs_open, ovsVars, running, i, pipelineVars>>

\* link_del begins, ...
FoundLostSession(l) ==
  /\ pc[l] = "recheck_p4" /\ p4runtime_id[i[l]] # NoPid
  /\ Goto(l, "unbind")
  /\ UNCHANGED <<tableVars, ovsVars, poolVars, i, pipelineVars>>

\* ... reads the pid again, looks for it in the launcher's own table, ...
Unmark(l) ==
  /\ pc[l] = "unbind"
  /\ LET named == reserved[l] \cap {p4runtime_id[i[l]]}
     IN /\ idle' = [idle EXCEPT ![l] = @ \cup named]
        /\ reserved' = [reserved EXCEPT ![l] = @ \ named]
  /\ Goto(l, "clear")
  /\ UNCHANGED <<tableVars, ovsVars, running, i, pipelineVars>>

\* Mutant of Retirable: runtimes in use may be ended too.
Retirable_all(l) == idle[l] \cup reserved[l]
Retirable(l) == idle[l]

\* ... then clears the field, whoever wrote it meanwhile, and ends a runtime.
Clear(l) ==
  /\ pc[l] = "clear"
  /\ p4runtime_id' = [p4runtime_id EXCEPT ![i[l]] = NoPid]
  /\ \/ \E p \in Retirable(l) : /\ idle' = [idle EXCEPT ![l] = @ \ {p}]
                                /\ reserved' = [reserved EXCEPT ![l] = @ \ {p}]
                                /\ running' = running \ {p}
     \/ Retirable(l) = {} /\ UNCHANGED poolVars
  /\ i' = [i EXCEPT ![l] = Advance(i[l])]
  /\ Goto(l, IF i[l] + 1 < MAX_CONNECTIONS THEN "poll" ELSE "accept")
  /\ UNCHANGED <<ovs_open, ovsVars, pipelineVars>>

NextSlot(l) ==
  /\ \/ pc[l] = "recheck" /\ i[l] \in ovs_open
     \/ pc[l] = "recheck_p4" /\ p4runtime_id[i[l]] = NoPid
  /\ i' = [i EXCEPT ![l] = Advance(i[l])]
  /\ Goto(l, IF i[l] + 1 < MAX_CONNECTIONS THEN "poll" ELSE "accept")
  /\ UNCHANGED <<tableVars, ovsVars, poolVars, pipelineVars>>

-----------------------------------------------------------------------------
(* The socket: its path leads to the launcher started last                  *)

ShutdownArrives(l) == stage = "shutdown" /\ l = started

NoClient(l) ==
  /\ pc[l] = "accept" /\ ~ ShutdownArrives(l)
  /\ Goto(l, "poll")
  /\ UNCHANGED <<tableVars, ovsVars, poolVars, i, pipelineVars>>

\* The pipelines: shutdown (quickly-rebuild only), p4l_server, ovs-ctl stop and
\* ovs-ctl start.
\* Mutant of Following: the launcher is restarted after OVS.
Following_swapped == [shutdown |-> "ovs_stop", launcher |-> "done",
                      ovs_stop |-> "ovs_start", ovs_start |-> "launcher"]
Following == [shutdown |-> "launcher", launcher |-> "ovs_stop",
              ovs_stop |-> "ovs_start", ovs_start |-> "done"]

\* The announcement lets p4l return and the pipeline go on; pkill comes after it.
Announce(l) ==
  /\ pc[l] = "accept" /\ ShutdownArrives(l)
  /\ stage' = Following[stage]
  /\ Goto(l, "pkill")
  /\ UNCHANGED <<tableVars, ovsVars, poolVars, i, started>>

\* system("pkill ubpf_test"): the runtimes of every launcher.
Pkill(l) ==
  /\ pc[l] = "pkill"
  /\ running' = {}
  /\ Goto(l, "late_write")
  /\ UNCHANGED <<tableVars, ovsVars, idle, reserved, i, pipelineVars>>

\* The second part of the reply: it may find the socket closed (ControlChannel), and
\* does so once the next launcher is started, because p4l has ended by then.
LateWrite(l) ==
  /\ pc[l] = "late_write"
  /\ \/ /\ l = started
        /\ Goto(l, "poll") /\ UNCHANGED <<idle, reserved>>
     \/ /\ Goto(l, "exited")
        /\ idle' = [idle EXCEPT ![l] = {}] /\ reserved' = [reserved EXCEPT ![l] = {}]
  /\ UNCHANGED <<tableVars, ovsVars, running, i, pipelineVars>>

Launcher(l) ==
  \/ WipeThread(l) \/ WipeRuntime(l) \/ StartFirst(l)
  \/ TestSession(l) \/ FoundNewSession(l) \/ LinkAdd(l)
  \/ FoundLostSession(l) \/ Unmark(l) \/ Clear(l)
  \/ NextSlot(l) \/ NoClient(l) \/ Announce(l) \/ Pkill(l) \/ LateWrite(l)

-----------------------------------------------------------------------------
(* The pipelines *)

AtWork == {l \in Launchers : pc[l] \notin {"none", "exited"}}

Begin ==
  /\ \/ stage = "down" /\ stage' = "launcher"
     \/ stage = "done" /\ stage' \in Redeployments
  /\ started < MaxLaunchers
  /\ UNCHANGED <<tableVars, ovsVars, poolVars, pc, i, started>>

StartLauncher ==
  /\ stage = "launcher" /\ (Overlap \/ AtWork = {})
  /\ stage' = Following[stage]
  /\ started' = started + 1
  /\ Goto(started + 1, "wipe")
  /\ UNCHANGED <<tableVars, ovsVars, poolVars, i>>

\* ovs-ctl stop: what OVS leaves in the table is its own affair.
StopOvs ==
  /\ stage = "ovs_stop"
  /\ stage' = Following[stage]
  /\ ovs_up' = FALSE /\ registered' = {}
  /\ ovs_open' \in SUBSET ovs_open
  /\ UNCHANGED <<p4runtime_id, poolVars, pc, i, started>>

\* ovs-ctl start, after sleep 3: the new launcher has cleared the table by then,
\* and pkill is over.
\* Mutant of Settled: nobody waits for that.
Settled_any == TRUE
Settled == pc[started] \notin {"wipe", "wipe_p4"} /\ \A l \in Launchers : pc[l] # "pkill"

StartOvs ==
  /\ stage = "ovs_start" /\ Settled
  /\ stage' = Following[stage]
  /\ ovs_up' = TRUE
  /\ UNCHANGED <<registered, tableVars, poolVars, pc, i, started>>

Pipeline == StartLauncher \/ StopOvs \/ StartOvs

\* The p4 VM stops between two deployments, and all in it; the table stays.
VmStops ==
  /\ stage = "done"
  /\ stage' = "down"
  /\ pc' = [l \in Launchers |-> IF pc[l] = "none" THEN "none" ELSE "exited"]
  /\ idle' = [l \in Launchers |-> {}] /\ reserved' = [l \in Launchers |-> {}]
  /\ running' = {}
  /\ UNCHANGED <<tableVars, ovsVars, i, started>>

(* Open vSwitch: a thread takes a slot that looks free, and gives it back *)

Register(s) ==
  /\ ovs_up /\ s \notin ovs_open \cup registered
  /\ registered' = registered \cup {s} /\ ovs_open' = ovs_open \cup {s}
  /\ UNCHANGED <<ovs_up, p4runtime_id, poolVars, pc, i, pipelineVars>>

Deregister(s) ==
  /\ s \in registered
  /\ registered' = registered \ {s} /\ ovs_open' = ovs_open \ {s}
  /\ UNCHANGED <<ovs_up, p4runtime_id, poolVars, pc, i, pipelineVars>>

-----------------------------------------------------------------------------
Init ==
  /\ ovs_up = FALSE /\ registered = {}
  /\ ovs_open = {} /\ p4runtime_id = [s \in Slots |-> NoPid]
  /\ idle = [l \in Launchers |-> {}] /\ reserved = [l \in Launchers |-> {}]
  /\ running = {}
  /\ pc = [l \in Launchers |-> "none"] /\ i = [l \in Launchers |-> 0]
  /\ stage = "down" /\ started = 0

Next ==
  \/ \E l \in Launchers : Launcher(l)
  \/ Begin \/ Pipeline \/ VmStops
  \/ \E s \in Slots : Register(s) \/ Deregister(s)

Spec == Init /\ [][Next]_vars

\* Launchers are scheduled, and a pipeline that has begun goes on.
FairSpec ==
  Spec /\ WF_vars(Pipeline) /\ \A l \in Launchers : WF_vars(Launcher(l))

-----------------------------------------------------------------------------
(* Properties *)

\* Every variable has its type.
TypeOK ==
  /\ ovs_up \in BOOLEAN
  /\ registered \subseteq Slots /\ ovs_open \subseteq Slots
  /\ p4runtime_id \in [Slots -> Pids \cup {NoPid}]
  /\ idle \in [Launchers -> SUBSET Pids] /\ reserved \in [Launchers -> SUBSET Pids]
  /\ running \subseteq Pids
  /\ pc \in [Launchers -> {"none", "wipe", "wipe_p4", "first", "poll", "poll_p4", "bind",
                           "recheck", "recheck_p4", "unbind", "clear", "accept", "pkill",
                           "late_write", "exited"}]
  /\ i \in [Launchers -> Slots]
  /\ stage \in {"down", "shutdown", "launcher", "ovs_stop", "ovs_start", "done"}
  /\ started \in 0 .. MaxLaunchers

\* However many launchers work on the table, killed runtimes or not, two sessions
\* never get the same runtime.
NoSharedRuntime ==
  \A s, t \in Slots : p4runtime_id[s] = p4runtime_id[t] /\ s # t => p4runtime_id[s] = NoPid

\* After a deployment no thread of OVS believes in a registration that a launcher
\* has wiped: OVS is restarted after the launcher, and no earlier.
RegisteredIsVisible == stage = "done" => registered \subseteq ovs_open

\* A launcher that takes the table over alone, after a shutdown or a crash that
\* left sessions and runtimes in it, holds as reserved exactly the runtimes that
\* the table names: nothing of its predecessor's is left, and nothing is lost.
TakeoverIsClean == \A l \in AtWork : pc[l] = "poll" => reserved[l] = Bound

\* A runtime is not ended while a session is bound to it and stays so, except by the
\* step that runs pkill or with the VM: no launcher retires what another has given to a
\* session, nor one of its own whose binding others have overwritten.
ServingEndsOnlyByPkill ==
  [][ \A s \in Slots :
        p4runtime_id[s] \in running \ running' /\ p4runtime_id'[s] = p4runtime_id[s]
          => \/ stage' = "down"
             \/ \E l \in Launchers : pc[l] = "pkill" /\ pc'[l] = "late_write" ]_vars

\* After a deployment every thread of OVS that stays registered gets a runtime
\* that runs: what the pipelines are for, and what shutdown's "terminating
\* P4Launcher and all child processes" lets them rely on.  It holds as long as no
\* launcher is started while another is at work.
DeploymentServes ==
  \A s \in Slots :
    []<>(stage = "done" /\ s \in registered => p4runtime_id[s] \in running)
================================================================================
