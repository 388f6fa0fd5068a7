----------------------------- MODULE BypassDetector -----------------------------
(***************************************************************************)
(* The bypass check of user/p4agent/p4agent.c: every round, the agent in   *)
(* the user VM sums the execution counters that the uBPF runtimes keep in  *)
(* shared memory, reads how many IP packets its own kernel has seen, and   *)
(* compares the growth of the two since the previous round.  More packets  *)
(* than executions is a bad verdict; THRESHOLD bad ones among the last     *)
(* WINDOW raise the alarm that the switch may be bypassing P4.             *)
(*                                                                         *)
(* The runtimes and the kernel go on while the agent reads: each counter   *)
(* and the kernel's statistics are read at different times.  Of prev_pass  *)
(* and passed_packets only the difference and being 0 are kept.            *)
(***************************************************************************)
EXTENDS Integers, Sequences, FiniteSets

CONSTANTS
  MAX_CONNECTIONS,  \* slots of the session table
  WINDOW,           \* verdicts the alarm looks at
  THRESHOLD,        \* bad verdicts that raise it
  MaxExec,          \* bound: executions a runtime counts before it is replaced
  Skew,             \* bound: packets executed and not yet in the VM, or sent by
                    \* the VM and not yet executed
  Burst             \* bound: packets in the VM between two rounds

ASSUME DetectorAssumption ==
  /\ MAX_CONNECTIONS \in Nat \ {0}
  /\ WINDOW \in Nat \ {0} /\ THRESHOLD \in 1 .. WINDOW
  /\ {MaxExec, Skew, Burst} \subseteq Nat

Slots == 0 .. MAX_CONNECTIONS - 1

VARIABLES
  bypass,      \* is the switch skipping P4?
  counter,     \* counter[s]: what the runtime of slot s has sealed
  writing,     \* writing[s]: its sealed record is half-written
  onTheWay,    \* packets executed minus packets the VM has counted for them
  fresh,       \* packets the VM's kernel has counted beyond prev_pass
  pc, i,       \* where check_p4_execution is, and in its loop over the slots
  executions,  \* the sum being built
  vm_delta,    \* passed_packets - prev_pass, once read
  prev_exec,
  prev_some,   \* prev_pass # 0
  history, idx, filled,
  alarm,       \* the latest check raised the alarm
  disturbed,   \* history variable: since the last check a packet bypassed P4, a
               \* runtime was replaced, or a record could not be read
  uneven       \* history variable: which readings, this check's ("now") or the
               \* ones remembered ("before"), traffic did not rest for

switchVars == <<bypass, counter, writing, onTheWay>>
ringVars   == <<history, idx, filled>>
prevVars   == <<prev_exec, prev_some>>
agentVars  == <<pc, i, executions, vm_delta, prevVars, ringVars, alarm>>
vars == <<switchVars, fresh, agentVars, disturbed, uneven>>

-----------------------------------------------------------------------------
(* The agent *)

\* sleep(3) is over: the next round begins.
WakeUp ==
  /\ pc = "sleep"
  /\ uneven' = IF onTheWay = 0 THEN uneven ELSE uneven \cup {"now"}
  /\ pc' = "read" /\ i' = 0 /\ executions' = 0
  /\ UNCHANGED <<switchVars, fresh, vm_delta, prevVars, ringVars, alarm, disturbed>>

\* decrypt_counter: a half-written record fails authentication, and the slot is
\* left out of the sum.
ReadCounter ==
  /\ pc = "read"
  /\ executions' = executions + (IF writing[i] THEN 0 ELSE counter[i])
  /\ disturbed' = (disturbed \/ writing[i])
  /\ i' = (i + 1) % MAX_CONNECTIONS
  /\ pc' = IF i + 1 = MAX_CONNECTIONS THEN "nic" ELSE "read"
  /\ UNCHANGED <<switchVars, fresh, vm_delta, prevVars, ringVars, alarm, uneven>>

\* get_nic_stat(false).
ReadNic ==
  /\ pc = "nic"
  /\ vm_delta' = fresh
  /\ pc' = "judge"
  /\ UNCHANGED <<switchVars, fresh, i, executions, prevVars, ringVars, alarm, disturbed,
                 uneven>>

\* prev_exec = executions; prev_pass = passed_packets.
\* Mutant of Remember: prev_pass is left alone.
Remember_execOnly ==
  /\ prev_exec' = executions
  /\ UNCHANGED <<prev_some, fresh>>
Remember ==
  /\ prev_exec' = executions
  /\ prev_some' = (prev_some \/ vm_delta > 0)
  /\ fresh' = fresh - vm_delta

\* The locals of check_p4_execution are gone.
Return == pc' = "sleep" /\ executions' = 0 /\ vm_delta' = 0

CarryUneven == uneven' = IF "now" \in uneven THEN {"before"} ELSE {}

\* The first rounds, and every round after which the sum has become smaller,
\* only take new starting values.
\* Mutant of NoComparison: a sum that did not grow is not compared either.
NoComparison_noGrowth ==
  (prev_exec = 0 /\ ~ prev_some) \/ executions <= prev_exec
NoComparison == (prev_exec = 0 /\ ~ prev_some) \/ executions < prev_exec

StartOver ==
  /\ pc = "judge" /\ NoComparison
  /\ Remember
  /\ alarm' = FALSE
  /\ Return /\ disturbed' = FALSE /\ CarryUneven
  /\ UNCHANGED <<switchVars, i, ringVars>>

\* Mutant of Detected: a round in which both grew alike is bad.
Detected_atMost == IF executions - prev_exec <= vm_delta THEN 1 ELSE 0
Detected == IF executions - prev_exec < vm_delta THEN 1 ELSE 0

\* Mutant of ClearHistory: the ring still counts as full.
ClearHistory_keepFilled ==
  history' = [k \in DOMAIN history |-> 0] /\ UNCHANGED filled
ClearHistory == history' = [k \in DOMAIN history |-> 0] /\ filled' = 0

\* Mutant of NextIndex: one entry past the end.
NextIndex_past(k) == (k + 1) % (WINDOW + 1)
NextIndex(k) == (k + 1) % WINDOW

\* A verdict enters the ring; the alarm is raised when enough are bad.
Judge ==
  LET ring == [history EXCEPT ![idx] = Detected]
      n == IF filled < WINDOW THEN filled + 1 ELSE filled
      count == Cardinality({k \in 0 .. n - 1 : ring[k] = 1})
  IN /\ pc = "judge" /\ ~ NoComparison
     /\ idx' = NextIndex(idx)
     /\ \/ n = WINDOW /\ count >= THRESHOLD /\ alarm' = TRUE /\ ClearHistory
        \/ ~ (n = WINDOW /\ count >= THRESHOLD)
           /\ alarm' = FALSE /\ history' = ring /\ filled' = n
     /\ Remember
     /\ Return /\ disturbed' = FALSE /\ CarryUneven
     /\ UNCHANGED <<switchVars, i>>

Agent == WakeUp \/ ReadCounter \/ ReadNic \/ StartOver \/ Judge

-----------------------------------------------------------------------------
(* The switch, the runtimes and the kernel, as far as the agent sees them *)

\* The switch hands a packet to the runtime of slot s, which begins to rewrite
\* its record.
BeginExecution(s) ==
  /\ ~ bypass
  /\ ~ writing[s] /\ counter[s] < MaxExec
  /\ writing' = [writing EXCEPT ![s] = TRUE]
  /\ UNCHANGED <<bypass, counter, onTheWay, fresh, agentVars, disturbed>>

EndExecution(s) ==
  /\ writing[s] /\ onTheWay < Skew
  /\ writing' = [writing EXCEPT ![s] = FALSE]
  /\ counter' = [counter EXCEPT ![s] = @ + 1]
  /\ onTheWay' = onTheWay + 1
  /\ UNCHANGED <<bypass, fresh, agentVars, disturbed>>

\* A new runtime starts to count for slot s.
ReplaceRuntime(s) ==
  /\ counter' = [counter EXCEPT ![s] = 0]
  /\ writing' = [writing EXCEPT ![s] = FALSE]
  /\ disturbed' = TRUE
  /\ UNCHANGED <<bypass, onTheWay, fresh, agentVars>>

\* The VM's kernel counts a packet that has been, or will be, executed.
CountExecuted ==
  /\ onTheWay > -Skew /\ fresh < Burst
  /\ ~ bypass \/ onTheWay > 0
  /\ onTheWay' = onTheWay - 1
  /\ fresh' = fresh + 1
  /\ UNCHANGED <<bypass, counter, writing, agentVars, disturbed>>

\* It counts a packet that no runtime sees.
CountBypassed ==
  /\ bypass /\ fresh < Burst
  /\ fresh' = fresh + 1
  /\ disturbed' = TRUE
  /\ UNCHANGED <<switchVars, agentVars>>

SwitchTurns ==
  /\ bypass' = ~ bypass
  /\ UNCHANGED <<counter, writing, onTheWay, fresh, agentVars, disturbed>>

Traffic ==
  /\ \/ \E s \in Slots : BeginExecution(s) \/ EndExecution(s) \/ ReplaceRuntime(s)
     \/ CountExecuted \/ CountBypassed \/ SwitchTurns
  /\ uneven' = IF pc = "sleep" THEN uneven ELSE uneven \cup {"now"}

-----------------------------------------------------------------------------
Init ==
  /\ bypass = FALSE
  /\ counter \in [Slots -> 0 .. MaxExec] /\ writing = [s \in Slots |-> FALSE]
  /\ onTheWay = 0 /\ fresh = 0
  /\ pc = "read" /\ i = 0 /\ executions = 0 /\ vm_delta = 0
  /\ prev_exec = 0 /\ prev_some = FALSE
  /\ history = [k \in 0 .. WINDOW - 1 |-> 0] /\ idx = 0 /\ filled = 0
  /\ alarm = FALSE /\ disturbed = FALSE /\ uneven = {}

Next == Agent \/ Traffic

Spec == Init /\ [][Next]_vars

\* The agent is scheduled.
FairSpec == Spec /\ WF_vars(Agent)

-----------------------------------------------------------------------------
(* Properties *)

\* Every variable has its type, and stays within its bound.
TypeOK ==
  /\ {bypass, prev_some, alarm, disturbed} \subseteq BOOLEAN
  /\ counter \in [Slots -> 0 .. MaxExec] /\ writing \in [Slots -> BOOLEAN]
  /\ onTheWay \in -Skew .. Skew /\ fresh \in 0 .. Burst
  /\ uneven \subseteq {"now", "before"}
  /\ pc \in {"sleep", "read", "nic", "judge"} /\ i \in Slots
  /\ {executions, prev_exec} \subseteq 0 .. MAX_CONNECTIONS * MaxExec
  /\ vm_delta \in 0 .. Burst
  /\ history \in [0 .. WINDOW - 1 -> {0, 1}]
  /\ idx \in 0 .. WINDOW - 1 /\ filled \in 0 .. WINDOW

\* The last `filled` verdicts as the ring holds them, oldest first.
Recent ==
  [k \in 1 .. filled |-> history[(idx + WINDOW - filled + k - 1) % WINDOW]]

Alarm == INSTANCE AlarmWindow
           WITH Window <- WINDOW, Threshold <- THRESHOLD,
                recent <- Recent, alarm <- alarm

\* The ring of verdicts implements the sliding window: the alarm is raised
\* exactly when THRESHOLD of the last WINDOW verdicts since the previous alarm
\* are bad, although after an alarm idx stays where it is while filled and
\* history start afresh.
ImplementsWindow == Alarm!WindowSpec

\* A bad verdict has a cause.  If traffic rested for the readings of this round
\* and of the one before, then a round in which no packet bypassed P4, no runtime
\* was replaced and every record could be read is never judged bad, whatever
\* happened earlier (a counter that came back, a sum that fell, a round that was
\* skipped).  Without rest, the counters being read before the kernel's
\* statistics, honest rounds are judged bad.
BadVerdictHasCause ==
  pc = "judge" /\ ~ NoComparison /\ Detected = 1 => disturbed \/ uneven # {}

\* A switch that bypasses P4 for good is noticed again and again, provided each
\* round sees a packet: no mixture of replaced runtimes, half-written records
\* and restarted comparisons hides it for ever.
BypassIsNoticed ==
  <>[](bypass /\ (pc = "judge" => vm_delta > 0)) => []<>alarm
================================================================================
