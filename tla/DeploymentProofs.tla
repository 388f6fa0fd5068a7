---------------------------- MODULE DeploymentProofs ----------------------------
(***************************************************************************)
(* However many launchers work on one session table, sessions never share  *)
(* a runtime and no launcher ends one that serves.                         *)
(***************************************************************************)
EXTENDS Deployment, TLAPS

Tables(l) == idle[l] \cup reserved[l]

\* No pid is in the tables of two launchers.
OwnRuntimes == \A l, m \in Launchers : l # m => Tables(l) \cap Tables(m) = {}

\* A runtime that is free for its launcher is bound to no session, except where
\* link_del has unmarked it and not yet cleared the session.
FreeIsUnbound ==
  \A l \in Launchers, s \in Slots :
    p4runtime_id[s] \in idle[l] => pc[l] = "clear" /\ s = i[l]

\* A pipeline starts a launcher only within the bound.
RoomForNext == stage \in {"shutdown", "launcher"} => started < MaxLaunchers

\* Launchers are started in their order.
InOrder == \A l \in Launchers : l > started => pc[l] = "none"

\* The part about the pids, on which the other variables have no influence.
PidInv == OwnRuntimes /\ FreeIsUnbound /\ NoSharedRuntime
IInv == TypeOK /\ RoomForNext /\ InOrder /\ PidInv

LEMMA SlotsAreNumbers ==
  /\ 0 \in Slots
  /\ \A k \in Slots : Advance(k) \in Slots
BY DeploymentAssumption DEF Slots, Advance

\* What fork() returns is named nowhere.
LEMMA ForkIsFresh ==
  ASSUME NEW l \in Launchers, NEW p, Fork(l, p)
  PROVE  /\ p \in Pids /\ p # NoPid
         /\ \A m \in Launchers : p \notin Tables(m)
         /\ \A s \in Slots : p4runtime_id[s] # p
BY DeploymentAssumption DEF Fork, Fresh, Bound, Tables

\* Initially the invariant holds: the tables are empty.
LEMMA InitInv == Init => IInv
<1>. SUFFICES ASSUME Init PROVE IInv
  OBVIOUS
<1>1. idle \in [Launchers -> SUBSET Pids] /\ reserved \in [Launchers -> SUBSET Pids]
  BY DEF Init
<1>2. pc \in [Launchers -> {"none"}] /\ i \in [Launchers -> {0}]
  BY DEF Init
<1>3. p4runtime_id \in [Slots -> {NoPid}] /\ started \in 0 .. MaxLaunchers
  BY DeploymentAssumption DEF Init
<1>4. TypeOK
  BY <1>1, <1>2, <1>3, SlotsAreNumbers DEF Init, TypeOK
<1>5. RoomForNext /\ InOrder /\ PidInv
  BY DEF Init, RoomForNext, InOrder, PidInv, OwnRuntimes, FreeIsUnbound, NoSharedRuntime, Tables
<1>. QED  BY <1>4, <1>5 DEF IInv

-----------------------------------------------------------------------------
(* Type correctness *)

\* Each step of a launcher preserves the types.
LEMMA LauncherTypes ==
  ASSUME TypeOK, RoomForNext, NEW l \in Launchers, Launcher(l)
  PROVE  TypeOK' /\ RoomForNext'
<1>. USE SlotsAreNumbers DEF Goto, tableVars, ovsVars, poolVars, pipelineVars
<1>1. CASE WipeThread(l)
  BY <1>1 DEF WipeThread, TypeOK, RoomForNext
<1>2. CASE WipeRuntime(l)
  BY <1>2, DeploymentAssumption DEF WipeRuntime, Cleared, TypeOK, RoomForNext
<1>3. CASE StartFirst(l)
  BY <1>3, ForkIsFresh DEF StartFirst, Spawn, TypeOK, RoomForNext
<1>4. CASE FoundNewSession(l)
  BY <1>4, ForkIsFresh DEF FoundNewSession, Spawn, TypeOK, RoomForNext
<1>5. CASE LinkAdd(l)
  BY <1>5 DEF LinkAdd, Unreserved, TypeOK, RoomForNext
<1>6. CASE TestSession(l) \/ FoundLostSession(l) \/ Unmark(l)
  BY <1>6 DEF TestSession, FoundLostSession, Unmark, TypeOK, RoomForNext
<1>7. CASE Clear(l)
  BY <1>7 DEF Clear, Retirable, TypeOK, RoomForNext
<1>8. CASE NextSlot(l) \/ NoClient(l)
  BY <1>8 DEF NextSlot, NoClient, TypeOK, RoomForNext
<1>9. CASE Announce(l)
  <2>1. stage = "shutdown" /\ stage' = "launcher"
    BY <1>9 DEF Announce, ShutdownArrives, Following
  <2>. QED  BY <1>9, <2>1 DEF Announce, TypeOK, RoomForNext
<1>10. CASE Pkill(l) \/ LateWrite(l)
  BY <1>10 DEF Pkill, LateWrite, TypeOK, RoomForNext
<1>. QED
  BY <1>1, <1>2, <1>3, <1>4, <1>5, <1>6, <1>7, <1>8, <1>9, <1>10 DEF Launcher

\* So does each step of a pipeline, of the VM and of OVS.
LEMMA OtherTypes ==
  ASSUME TypeOK, RoomForNext,
         Begin \/ Pipeline \/ VmStops \/ \E s \in Slots : Register(s) \/ Deregister(s)
  PROVE  TypeOK' /\ RoomForNext'
<1>. USE DEF tableVars, ovsVars, poolVars, pipelineVars
<1>1. CASE Begin
  BY <1>1, DeploymentAssumption DEF Begin, TypeOK, RoomForNext
<1>2. CASE StartLauncher
  <2>1. stage = "launcher" /\ stage' = "ovs_stop"
    BY <1>2 DEF StartLauncher, Following
  <2>2. started + 1 \in Launchers /\ started + 1 \in 0 .. MaxLaunchers
    BY <2>1, DeploymentAssumption DEF TypeOK, RoomForNext, Launchers
  <2>. QED  BY <1>2, <2>1, <2>2 DEF StartLauncher, Goto, TypeOK, RoomForNext
<1>3. CASE StopOvs
  BY <1>3 DEF StopOvs, Following, TypeOK, RoomForNext
<1>4. CASE StartOvs
  BY <1>4 DEF StartOvs, Following, TypeOK, RoomForNext
<1>5. CASE VmStops
  BY <1>5 DEF VmStops, TypeOK, RoomForNext
<1>6. CASE \E s \in Slots : Register(s) \/ Deregister(s)
  BY <1>6 DEF Register, Deregister, TypeOK, RoomForNext
<1>. QED  BY <1>1, <1>2, <1>3, <1>4, <1>5, <1>6 DEF Pipeline

\* A launcher that takes a step has been started, and starts no other.
LEMMA LaunchersInOrder == IInv /\ [Next]_vars => InOrder'
<1>. SUFFICES ASSUME IInv, [Next]_vars PROVE InOrder'
  OBVIOUS
<1>. USE DEF tableVars, ovsVars, poolVars, pipelineVars
<1>1. ASSUME NEW l \in Launchers, Launcher(l) PROVE InOrder'
  <2>1. pc[l] # "none"
    BY <1>1 DEF Launcher, WipeThread, WipeRuntime, StartFirst, TestSession,
       FoundNewSession, LinkAdd, FoundLostSession, Unmark, Clear, NextSlot, NoClient,
       Announce, Pkill, LateWrite
  <2>2. UNCHANGED started /\ \A m \in Launchers : m # l => pc'[m] = pc[m]
    BY <1>1 DEF IInv, TypeOK, Goto, Launcher, WipeThread, WipeRuntime, StartFirst,
       TestSession, FoundNewSession, LinkAdd, FoundLostSession, Unmark, Clear, NextSlot,
       NoClient, Announce, Pkill, LateWrite
  <2>. QED  BY <2>1, <2>2 DEF IInv, InOrder
<1>2. CASE StartLauncher
  BY <1>2 DEF StartLauncher, Goto, IInv, TypeOK, InOrder, Launchers
<1>3. CASE VmStops
  BY <1>3 DEF VmStops, IInv, InOrder
<1>4. CASE Begin \/ StopOvs \/ StartOvs \/ UNCHANGED vars
           \/ \E s \in Slots : Register(s) \/ Deregister(s)
  BY <1>4 DEF Begin, StopOvs, StartOvs, vars, Register, Deregister, IInv, InOrder
<1>. QED  BY <1>1, <1>2, <1>3, <1>4 DEF Next, Pipeline

-----------------------------------------------------------------------------
(* The pids *)

\* One lemma per kind of step.  A new runtime is in nobody's table and bound to
\* no session: its launcher may call it free.
LEMMA SpawnKeepsPids ==
  ASSUME TypeOK, PidInv, NEW l \in Launchers, Spawn(l),
         UNCHANGED <<p4runtime_id, reserved, i>>,
         pc[l] # "clear", \A m \in Launchers : m # l => pc'[m] = pc[m]
  PROVE  PidInv'
<1>1. PICK p \in Pids : Fork(l, p) /\ idle' = [idle EXCEPT ![l] = @ \cup {p}]
  BY DEF Spawn
<1>2. /\ \A m \in Launchers : p \notin Tables(m)
      /\ \A s \in Slots : p4runtime_id[s] # p
  BY <1>1, ForkIsFresh
<1>3. /\ idle'[l] = idle[l] \cup {p}
      /\ \A m \in Launchers : m # l => idle'[m] = idle[m]
  BY <1>1 DEF TypeOK
<1>4. OwnRuntimes'
  BY <1>2, <1>3 DEF PidInv, OwnRuntimes, Tables
<1>5. FreeIsUnbound' /\ NoSharedRuntime'
  BY <1>2, <1>3 DEF PidInv, FreeIsUnbound, NoSharedRuntime
<1>. QED  BY <1>4, <1>5 DEF PidInv

\* link_add binds a runtime that was free, so nobody else is bound to it, and
\* takes it out of the free ones.
LEMMA LinkAddKeepsPids ==
  ASSUME TypeOK, PidInv, NEW l \in Launchers, LinkAdd(l)
  PROVE  PidInv'
<1>1. pc[l] = "bind" /\ i[l] \in Slots /\ UNCHANGED i
      /\ \A m \in Launchers : m # l => pc'[m] = pc[m]
  BY DEF LinkAdd, Goto, TypeOK
<1>2. CASE UNCHANGED <<idle, reserved, p4runtime_id>>
  BY <1>1, <1>2 DEF PidInv, OwnRuntimes, Tables, FreeIsUnbound, NoSharedRuntime
<1>3. CASE \E p \in idle[l] :
             /\ idle' = [idle EXCEPT ![l] = Unreserved(l, p)]
             /\ reserved' = [reserved EXCEPT ![l] = @ \cup {p}]
             /\ p4runtime_id' = [p4runtime_id EXCEPT ![i[l]] = p]
  <2>1. PICK p \in idle[l] :
             /\ idle' = [idle EXCEPT ![l] = Unreserved(l, p)]
             /\ reserved' = [reserved EXCEPT ![l] = @ \cup {p}]
             /\ p4runtime_id' = [p4runtime_id EXCEPT ![i[l]] = p]
    BY <1>3
  <2>2. \A s \in Slots : p4runtime_id[s] # p
    BY <1>1 DEF PidInv, FreeIsUnbound
  <2>3. \A m \in Launchers : m # l => p \notin idle[m]
    BY DEF PidInv, OwnRuntimes, Tables
  <2>4. /\ idle'[l] = idle[l] \ {p} /\ reserved'[l] = reserved[l] \cup {p}
        /\ \A m \in Launchers : m # l => idle'[m] = idle[m] /\ reserved'[m] = reserved[m]
    BY <2>1 DEF TypeOK, Unreserved
  <2>5. p4runtime_id'[i[l]] = p
        /\ \A s \in Slots : s # i[l] => p4runtime_id'[s] = p4runtime_id[s]
    BY <1>1, <2>1 DEF TypeOK
  <2>6. OwnRuntimes'
    BY <2>4 DEF PidInv, OwnRuntimes, Tables
  <2>7. FreeIsUnbound' /\ NoSharedRuntime'
    BY <1>1, <2>2, <2>3, <2>4, <2>5 DEF PidInv, FreeIsUnbound, NoSharedRuntime
  <2>. QED  BY <2>6, <2>7 DEF PidInv
<1>. QED  BY <1>2, <1>3 DEF LinkAdd

\* link_del unmarks a runtime that only the session it is about to clear names.
LEMMA UnmarkKeepsPids ==
  ASSUME TypeOK, PidInv, NEW l \in Launchers, Unmark(l)
  PROVE  PidInv'
<1>. DEFINE named == reserved[l] \cap {p4runtime_id[i[l]]}
<1>1. /\ pc[l] = "unbind" /\ pc'[l] = "clear"
      /\ i[l] \in Slots /\ NoPid \notin reserved[l]
      /\ UNCHANGED <<p4runtime_id, i>>
      /\ \A m \in Launchers : m # l => pc'[m] = pc[m]
  BY DeploymentAssumption DEF Unmark, Goto, tableVars, TypeOK
<1>2. /\ idle'[l] = idle[l] \cup named /\ reserved'[l] = reserved[l] \ named
      /\ \A m \in Launchers : m # l => idle'[m] = idle[m] /\ reserved'[m] = reserved[m]
  BY DEF Unmark, TypeOK
<1>3. OwnRuntimes'
  BY <1>2 DEF PidInv, OwnRuntimes, Tables
<1>4. NoSharedRuntime'
  BY <1>1 DEF PidInv, NoSharedRuntime
<1>5. FreeIsUnbound'
  BY <1>1, <1>2 DEF PidInv, FreeIsUnbound, NoSharedRuntime
<1>. QED  BY <1>3, <1>4, <1>5 DEF PidInv

\* Its last steps clear that session and end free runtimes only.
LEMMA ClearKeepsPids ==
  ASSUME TypeOK, PidInv, NEW l \in Launchers, Clear(l)
  PROVE  PidInv'
<1>1. /\ i[l] \in Slots /\ p4runtime_id'[i[l]] = NoPid
      /\ \A s \in Slots : s # i[l] => p4runtime_id'[s] = p4runtime_id[s]
      /\ \A m \in Launchers : m # l => pc'[m] = pc[m] /\ i'[m] = i[m]
  BY DEF Clear, Goto, TypeOK
<1>2. \A m \in Launchers : /\ idle'[m] \subseteq idle[m] /\ NoPid \notin idle'[m]
                            /\ reserved'[m] \subseteq reserved[m]
  BY DeploymentAssumption DEF Clear, Retirable, poolVars, TypeOK
<1>3. OwnRuntimes'
  BY <1>2 DEF PidInv, OwnRuntimes, Tables
<1>4. FreeIsUnbound' /\ NoSharedRuntime'
  BY <1>1, <1>2 DEF PidInv, FreeIsUnbound, NoSharedRuntime
<1>. QED  BY <1>3, <1>4 DEF PidInv

\* Steps that leave bindings and tables as they are, or only empty some, and take
\* no launcher out of link_del.
LEMMA EmptyingKeepsPids ==
  ASSUME TypeOK, PidInv,
         \A s \in Slots : p4runtime_id'[s] \in {p4runtime_id[s], NoPid},
         \A m \in Launchers :
           \/ /\ idle'[m] = {} /\ reserved'[m] = {}
           \/ /\ idle'[m] = idle[m] /\ reserved'[m] = reserved[m]
              /\ pc[m] = "clear" => pc'[m] = "clear" /\ i'[m] = i[m]
  PROVE  PidInv'
<1>1. OwnRuntimes'
  BY DEF PidInv, OwnRuntimes, Tables
<1>2. \A m \in Launchers : NoPid \notin idle[m]
  BY DeploymentAssumption DEF TypeOK
<1>3. FreeIsUnbound' /\ NoSharedRuntime'
  BY <1>2 DEF PidInv, FreeIsUnbound, NoSharedRuntime
<1>. QED  BY <1>1, <1>3 DEF PidInv

-----------------------------------------------------------------------------
(* The invariant is inductive *)

LEMMA LauncherKeepsPids ==
  ASSUME IInv, NEW l \in Launchers, Launcher(l)
  PROVE  PidInv'
<1>. USE DEF Goto, tableVars, ovsVars, poolVars, pipelineVars
<1>. TypeOK /\ PidInv
  BY DEF IInv
<1>1. CASE WipeThread(l) \/ WipeRuntime(l)
  <2>1. \A s \in Slots : p4runtime_id'[s] \in {p4runtime_id[s], NoPid}
    BY <1>1 DEF WipeThread, WipeRuntime, Cleared, TypeOK
  <2>2. UNCHANGED <<idle, reserved>> /\ pc[l] # "clear"
        /\ \A m \in Launchers : m # l => pc'[m] = pc[m] /\ i'[m] = i[m]
    BY <1>1 DEF WipeThread, WipeRuntime, TypeOK
  <2>. QED  BY <2>1, <2>2, EmptyingKeepsPids
<1>2. CASE StartFirst(l) \/ (FoundNewSession(l) /\ Spawn(l))
  <2>1. /\ Spawn(l) /\ UNCHANGED <<p4runtime_id, reserved, i>> /\ pc[l] # "clear"
        /\ \A m \in Launchers : m # l => pc'[m] = pc[m]
    BY <1>2 DEF StartFirst, FoundNewSession, TypeOK
  <2>. QED  BY <2>1, SpawnKeepsPids
<1>3. CASE LinkAdd(l)
  BY <1>3, LinkAddKeepsPids
<1>4. CASE Unmark(l)
  BY <1>4, UnmarkKeepsPids
<1>5. CASE Clear(l)
  BY <1>5, ClearKeepsPids
<1>6. CASE NextSlot(l) \/ NoClient(l) \/ Announce(l) \/ Pkill(l)
           \/ TestSession(l) \/ FoundLostSession(l)
           \/ (FoundNewSession(l) /\ UNCHANGED idle)
  <2>1. UNCHANGED <<p4runtime_id, idle, reserved>> /\ pc[l] # "clear"
        /\ \A m \in Launchers : m # l => pc'[m] = pc[m] /\ i'[m] = i[m]
    BY <1>6 DEF NextSlot, NoClient, Announce, Pkill, TestSession, FoundLostSession,
       FoundNewSession, TypeOK
  <2>. QED  BY <2>1, EmptyingKeepsPids
<1>7. CASE LateWrite(l)
  <2>1. /\ UNCHANGED <<p4runtime_id, i>> /\ pc[l] # "clear"
        /\ \/ UNCHANGED <<idle, reserved>>
           \/ idle'[l] = {} /\ reserved'[l] = {}
        /\ \A m \in Launchers : m # l => /\ pc'[m] = pc[m] /\ idle'[m] = idle[m]
                                         /\ reserved'[m] = reserved[m]
    BY <1>7 DEF LateWrite, TypeOK
  <2>. QED  BY <2>1, EmptyingKeepsPids
<1>8. FoundNewSession(l) => Spawn(l) \/ UNCHANGED idle
  BY DEF FoundNewSession
<1>. QED  BY <1>1, <1>2, <1>3, <1>4, <1>5, <1>6, <1>7, <1>8 DEF Launcher

LEMMA OthersKeepPids ==
  ASSUME IInv,
         Begin \/ Pipeline \/ VmStops \/ \E s \in Slots : Register(s) \/ Deregister(s)
  PROVE  PidInv'
<1>. USE DEF tableVars, ovsVars, poolVars, pipelineVars
<1>. TypeOK /\ PidInv
  BY DEF IInv
<1>1. CASE VmStops
  <2>1. \A m \in Launchers : idle'[m] = {} /\ reserved'[m] = {}
    BY <1>1 DEF VmStops
  <2>. QED  BY <1>1, <2>1, EmptyingKeepsPids DEF VmStops
<1>2. CASE StartLauncher
  <2>1. UNCHANGED <<p4runtime_id, idle, reserved, i>>
        /\ \A m \in Launchers : m # started + 1 => pc'[m] = pc[m]
    BY <1>2 DEF StartLauncher, Goto, TypeOK
  <2>2. \A m \in Launchers : m = started + 1 => pc[m] = "none"
    BY DEF IInv, InOrder, TypeOK, Launchers
  <2>. QED  BY <2>1, <2>2, EmptyingKeepsPids
<1>3. CASE Begin \/ StopOvs \/ StartOvs \/ \E s \in Slots : Register(s) \/ Deregister(s)
  <2>1. UNCHANGED <<p4runtime_id, idle, reserved, pc, i>>
    BY <1>3 DEF Begin, StopOvs, StartOvs, Register, Deregister
  <2>. QED  BY <2>1, EmptyingKeepsPids
<1>. QED  BY <1>1, <1>2, <1>3 DEF Pipeline

LEMMA NextKeepsInv == IInv /\ [Next]_vars => IInv'
<1>. SUFFICES ASSUME IInv, [Next]_vars PROVE IInv'
  OBVIOUS
<1>1. CASE \E l \in Launchers : Launcher(l)
  BY <1>1, LauncherTypes, LauncherKeepsPids, LaunchersInOrder DEF IInv
<1>2. CASE Begin \/ Pipeline \/ VmStops \/ \E s \in Slots : Register(s) \/ Deregister(s)
  BY <1>2, OtherTypes, OthersKeepPids, LaunchersInOrder DEF IInv
<1>3. CASE UNCHANGED vars
  BY <1>3 DEF vars, tableVars, ovsVars, poolVars, pipelineVars, IInv, TypeOK, RoomForNext,
     InOrder, PidInv, OwnRuntimes, FreeIsUnbound, NoSharedRuntime, Tables
<1>. QED  BY <1>1, <1>2, <1>3 DEF Next

-----------------------------------------------------------------------------
(* The theorems *)

\* Deployment is type correct, whatever the tables' length, the number of
\* launchers and the pids.
THEOREM DeploymentTypes == Spec => []TypeOK
<1>1. IInv => TypeOK
  BY DEF IInv
<1>. QED  BY <1>1, InitInv, NextKeepsInv, PTL DEF Spec

\* However many launchers work on the session table at once, no two sessions are
\* ever bound to the same runtime.
THEOREM RuntimesAreNotShared == Spec => []NoSharedRuntime
<1>1. IInv => NoSharedRuntime
  BY DEF IInv, PidInv
<1>. QED  BY <1>1, InitInv, NextKeepsInv, PTL DEF Spec

\* Only link_del, pkill and the end of the VM end runtimes, and link_del ends none
\* that a session is left with.
LEMMA StepEndsNoService ==
  ASSUME IInv, [Next]_vars, NEW s \in Slots,
         p4runtime_id[s] \in running \ running', p4runtime_id'[s] = p4runtime_id[s]
  PROVE  stage' = "down" \/ \E l \in Launchers : pc[l] = "pkill" /\ pc'[l] = "late_write"
<1>. USE DEF tableVars, ovsVars, poolVars, pipelineVars
<1>1. ASSUME NEW l \in Launchers, Clear(l) PROVE FALSE
  <2>1. PICK p \in idle[l] : running' = running \ {p}
    BY <1>1 DEF Clear, Retirable
  <2>2. p4runtime_id[s] = p
    BY <2>1
  <2>3. s = i[l]
    BY <2>1, <2>2 DEF IInv, PidInv, FreeIsUnbound
  <2>4. p4runtime_id'[s] = NoPid
    BY <1>1, <2>3 DEF Clear, IInv, TypeOK
  <2>. QED  BY <2>2, <2>4, DeploymentAssumption DEF IInv, TypeOK
<1>2. ASSUME NEW l \in Launchers, Launcher(l)
      PROVE  pc[l] = "pkill" /\ pc'[l] = "late_write"
  <2>1. CASE Pkill(l)
    BY <2>1 DEF Pkill, Goto, IInv, TypeOK
  <2>2. CASE Clear(l)
    BY <1>1, <2>2
  <2>3. CASE ~ Pkill(l) /\ ~ Clear(l)
    <3>1. running \subseteq running'
      BY <1>2, <2>3 DEF Launcher, WipeThread, WipeRuntime, StartFirst, Spawn, TestSession,
         FoundNewSession, LinkAdd, FoundLostSession, Unmark, NextSlot, NoClient, Announce,
         LateWrite
    <3>. QED  BY <3>1
  <2>. QED  BY <2>1, <2>2, <2>3
<1>3. CASE VmStops
  BY <1>3 DEF VmStops
<1>4. CASE Begin \/ Pipeline \/ UNCHANGED vars
           \/ \E t \in Slots : Register(t) \/ Deregister(t)
  BY <1>4 DEF Begin, Pipeline, StartLauncher, StopOvs, StartOvs, vars, Register, Deregister
<1>. QED  BY <1>2, <1>3, <1>4 DEF Next

\* No launcher ends a runtime under a session that stays bound to it, also where
\* several launchers overwrite each other's bindings.
THEOREM NoLauncherEndsService == Spec => ServingEndsOnlyByPkill
<1>1. IInv /\ [Next]_vars
        => [ \A s \in Slots :
               p4runtime_id[s] \in running \ running' /\ p4runtime_id'[s] = p4runtime_id[s]
                 => \/ stage' = "down"
                    \/ \E l \in Launchers : pc[l] = "pkill" /\ pc'[l] = "late_write" ]_vars
  BY StepEndsNoService
<1>. QED  BY <1>1, InitInv, NextKeepsInv, PTL DEF Spec, ServingEndsOnlyByPkill

-----------------------------------------------------------------------------
(* OVS and the launcher that clears the table *)

\* Only the launcher started last may be clearing the table, and only before OVS
\* is started again; OVS has no thread while it is stopped.
Clearing == {"wipe", "wipe_p4"}
OvsInv ==
  /\ \A l \in Launchers :
       pc[l] \in Clearing => l = started /\ stage \in {"ovs_stop", "ovs_start"}
  /\ stage = "ovs_start" => ~ ovs_up /\ registered = {}
  /\ stage \notin {"ovs_stop", "ovs_start"} => registered \subseteq ovs_open

LEMMA NextKeepsOvsInv == IInv /\ OvsInv /\ [Next]_vars => OvsInv'
<1>. SUFFICES ASSUME IInv, OvsInv, [Next]_vars PROVE OvsInv'
  OBVIOUS
<1>. TypeOK
  BY DEF IInv
<1>. USE DEF Clearing, tableVars, ovsVars, poolVars, pipelineVars, Goto, OvsInv
<1>1. ASSUME NEW l \in Launchers, WipeThread(l) \/ WipeRuntime(l) PROVE OvsInv'
  BY <1>1 DEF WipeThread, WipeRuntime, TypeOK
<1>2. ASSUME NEW l \in Launchers, Announce(l) PROVE OvsInv'
  <2>1. stage = "shutdown" /\ stage' = "launcher"
    BY <1>2 DEF Announce, ShutdownArrives, Following
  <2>. QED  BY <1>2, <2>1 DEF Announce, TypeOK
<1>3. ASSUME NEW l \in Launchers, Launcher(l), ~ Announce(l),
             ~ WipeThread(l), ~ WipeRuntime(l)
      PROVE  OvsInv'
  <2>1. UNCHANGED <<ovs_up, registered, ovs_open, stage, started>>
    BY <1>3 DEF Launcher, StartFirst, TestSession, FoundNewSession, LinkAdd,
       FoundLostSession, Unmark, Clear, NextSlot, NoClient, Pkill, LateWrite
  <2>2. \A m \in Launchers : pc'[m] \in Clearing => pc'[m] = pc[m]
    BY <1>3 DEF Launcher, StartFirst, TestSession, FoundNewSession, LinkAdd,
       FoundLostSession, Unmark, Clear, NextSlot, NoClient, Pkill, LateWrite, TypeOK
  <2>. QED  BY <2>1, <2>2
<1>4. CASE Begin
  BY <1>4, DeploymentAssumption DEF Begin
<1>5. CASE StartLauncher
  <2>1. stage = "launcher" /\ stage' = "ovs_stop"
    BY <1>5 DEF StartLauncher, Following
  <2>. QED  BY <1>5, <2>1 DEF StartLauncher, TypeOK
<1>6. CASE StopOvs
  <2>1. stage = "ovs_stop" /\ stage' = "ovs_start"
    BY <1>6 DEF StopOvs, Following
  <2>. QED  BY <1>6, <2>1 DEF StopOvs
<1>7. CASE StartOvs
  <2>1. stage = "ovs_start" /\ stage' = "done"
    BY <1>7 DEF StartOvs, Following
  <2>. QED  BY <1>7, <2>1 DEF StartOvs, Settled
<1>8. CASE VmStops
  BY <1>8 DEF VmStops
<1>9. CASE \E s \in Slots : Register(s) \/ Deregister(s)
  BY <1>9 DEF Register, Deregister
<1>10. CASE UNCHANGED vars
  BY <1>10 DEF vars
<1>. QED  BY <1>1, <1>2, <1>3, <1>4, <1>5, <1>6, <1>7, <1>8, <1>9, <1>10 DEF Next, Pipeline

\* A launcher never wipes a registration under a thread of OVS that a pipeline has
\* started, because OVS is restarted once the launcher has cleared the table.
THEOREM RegistrationsSurvive == Spec => []RegisteredIsVisible
<1>1. Init => OvsInv
  BY DEF Init, OvsInv, Clearing
<1>2. OvsInv => RegisteredIsVisible
  BY DEF OvsInv, RegisteredIsVisible
<1>. QED  BY <1>1, <1>2, InitInv, NextKeepsInv, NextKeepsOvsInv, PTL DEF Spec

-----------------------------------------------------------------------------
(* A launcher that takes the table over, when none is started while another *)
(* is at work                                                              *)

\* One launcher works at a time, and those still to be started are as they were.
Alone == \A l, m \in AtWork : l = m
Unstarted == \A l \in Launchers : pc[l] = "none" => i[l] = 0 /\ reserved[l] = {}

\* While a launcher clears the table, what it has cleared stays so and it holds
\* nothing.  From then on its reserved runtimes are those the table names, except
\* where link_del has unmarked one and not yet cleared the session.
Holding == {"poll", "poll_p4", "bind", "recheck", "recheck_p4", "unbind", "accept",
            "pkill", "late_write"}
HandsOver(l) ==
  /\ pc[l] \in Clearing =>
       reserved[l] = {} /\ \A s \in Slots : s < i[l] => p4runtime_id[s] = NoPid
  /\ pc[l] = "first" => reserved[l] = {} /\ \A s \in Slots : p4runtime_id[s] = NoPid
  /\ pc[l] \in Holding => reserved[l] = Bound
  /\ pc[l] = "bind" => p4runtime_id[i[l]] = NoPid
  /\ pc[l] = "clear" => reserved[l] = Bound \ {p4runtime_id[i[l]]}

TakeoverInv == Alone /\ Unstarted /\ \A l \in Launchers : HandsOver(l)

\* A launcher that works alone has only its own part of the invariant to keep.
LEMMA LauncherKeepsAlone ==
  ASSUME IInv, TakeoverInv, NEW l \in Launchers, Launcher(l)
  PROVE  /\ pc[l] \notin {"none", "exited"}
         /\ HandsOver(l)' => TakeoverInv'
<1>1. pc[l] \notin {"none", "exited"}
  BY DEF Clearing, Launcher, WipeThread, WipeRuntime, StartFirst, TestSession,
     FoundNewSession, LinkAdd, FoundLostSession, Unmark, Clear, NextSlot, NoClient, Announce, Pkill, LateWrite
<1>2. \A m \in Launchers :
         m # l => pc'[m] = pc[m] /\ i'[m] = i[m] /\ reserved'[m] = reserved[m]
  BY DEF Launcher, WipeThread, WipeRuntime, StartFirst, Spawn, TestSession,
     FoundNewSession, LinkAdd, FoundLostSession, Unmark, Clear, NextSlot, NoClient, Announce,
     Pkill, LateWrite, Goto, poolVars, IInv, TypeOK
<1>3. \A m \in Launchers : m # l => pc[m] \in {"none", "exited"}
  BY <1>1 DEF TakeoverInv, Alone, AtWork
<1>4. pc'[l] # "none"
  BY DEF Launcher, WipeThread, WipeRuntime, StartFirst, TestSession, FoundNewSession,
     LinkAdd, FoundLostSession, Unmark, Clear, NextSlot, NoClient, Announce, Pkill,
     LateWrite, Goto, IInv, TypeOK
<1>5. Alone' /\ Unstarted'
  BY <1>2, <1>3, <1>4 DEF TakeoverInv, Alone, AtWork, Unstarted
<1>6. \A m \in Launchers : m # l => HandsOver(m)'
  BY <1>2, <1>3 DEF HandsOver, Clearing, Holding
<1>. QED  BY <1>1, <1>5, <1>6 DEF TakeoverInv

\* shm_initialize_table: no name of a runtime is left once the last slot is clear.
LEMMA WipingHandsOver ==
  ASSUME TypeOK, NEW l \in Launchers, HandsOver(l),
         WipeThread(l) \/ WipeRuntime(l) \/ StartFirst(l)
  PROVE  HandsOver(l)'
<1>. USE DEF Goto, HandsOver, Clearing, Holding, tableVars, poolVars
<1>1. CASE WipeThread(l)
  BY <1>1 DEF WipeThread, TypeOK
<1>2. CASE WipeRuntime(l)
  <2>1. i[l] \in Slots /\ reserved'[l] = {}
    BY <1>2 DEF WipeRuntime, TypeOK
  <2>2. /\ p4runtime_id'[i[l]] = NoPid
        /\ \A s \in Slots : s # i[l] => p4runtime_id'[s] = p4runtime_id[s]
    BY <1>2, <2>1 DEF WipeRuntime, Cleared, TypeOK
  <2>3. \A s \in Slots : s <= i[l] => p4runtime_id'[s] = NoPid
    BY <1>2, <2>1, <2>2 DEF WipeRuntime, Slots
  <2>4. CASE i[l] + 1 < MAX_CONNECTIONS
    <3>1. Advance(i[l]) = i[l] + 1
      BY <2>1, <2>4, DeploymentAssumption DEF Advance, Slots
    <3>2. pc'[l] = "wipe" /\ i'[l] = i[l] + 1
      BY <1>2, <2>4, <3>1 DEF WipeRuntime, TypeOK
    <3>. QED  BY <2>1, <2>3, <3>2 DEF Slots
  <2>5. CASE ~ (i[l] + 1 < MAX_CONNECTIONS)
    <3>1. pc'[l] = "first" /\ \A s \in Slots : s <= i[l]
      BY <1>2, <2>1, <2>5, DeploymentAssumption DEF WipeRuntime, Slots, TypeOK
    <3>. QED  BY <2>1, <2>3, <3>1
  <2>. QED  BY <2>4, <2>5
<1>3. CASE StartFirst(l)
  <2>1. pc'[l] = "poll" /\ reserved'[l] = {} /\ UNCHANGED p4runtime_id
    BY <1>3 DEF StartFirst, TypeOK
  <2>2. Bound' = {}
    BY <1>3, <2>1 DEF StartFirst, Bound
  <2>. QED  BY <2>1, <2>2
<1>. QED  BY <1>1, <1>2, <1>3

\* link_add reserves a runtime and names it in a session that names none.
LEMMA LinkAddHandsOver ==
  ASSUME TypeOK, NEW l \in Launchers, HandsOver(l), LinkAdd(l)
  PROVE  HandsOver(l)'
<1>1. /\ pc'[l] = "recheck" /\ i[l] \in Slots
      /\ p4runtime_id[i[l]] = NoPid /\ reserved[l] = Bound
  BY DEF LinkAdd, Goto, TypeOK, HandsOver, Holding
<1>2. CASE UNCHANGED <<reserved, p4runtime_id>>
  BY <1>1, <1>2 DEF HandsOver, Holding, Clearing, Bound
<1>3. ASSUME NEW p \in idle[l], reserved' = [reserved EXCEPT ![l] = @ \cup {p}],
             p4runtime_id' = [p4runtime_id EXCEPT ![i[l]] = p]
      PROVE  HandsOver(l)'
  <2>1. p # NoPid
    BY DeploymentAssumption DEF TypeOK
  <2>2. /\ reserved'[l] = reserved[l] \cup {p} /\ p4runtime_id'[i[l]] = p
        /\ \A s \in Slots : s # i[l] => p4runtime_id'[s] = p4runtime_id[s]
    BY <1>1, <1>3 DEF TypeOK
  <2>3. Bound' = Bound \cup {p}
    BY <1>1, <2>1, <2>2 DEF Bound
  <2>. QED  BY <1>1, <2>2, <2>3 DEF HandsOver, Holding, Clearing
<1>. QED  BY <1>2, <1>3 DEF LinkAdd

\* link_del unmarks the runtime its session names, and clears that session; the
\* one it ends is not one of those that are left.
LEMMA LinkDelHandsOver ==
  ASSUME TypeOK, PidInv, NEW l \in Launchers, HandsOver(l), Unmark(l) \/ Clear(l)
  PROVE  HandsOver(l)'
<1>1. CASE Unmark(l)
  <2>1. /\ pc'[l] = "clear" /\ UNCHANGED <<p4runtime_id, i>>
        /\ reserved'[l] = Bound \ {p4runtime_id[i[l]]}
    BY <1>1, DeploymentAssumption DEF Unmark, Goto, tableVars, TypeOK, HandsOver, Holding
  <2>. QED  BY <2>1 DEF HandsOver, Holding, Clearing, Bound
<1>2. CASE Clear(l)
  <2>1. /\ pc'[l] \in {"poll", "accept"} /\ i[l] \in Slots
        /\ reserved[l] = Bound \ {p4runtime_id[i[l]]}
    BY <1>2 DEF Clear, Goto, TypeOK, HandsOver
  <2>2. /\ p4runtime_id'[i[l]] = NoPid
        /\ \A s \in Slots : s # i[l] => p4runtime_id'[s] = p4runtime_id[s]
    BY <1>2, <2>1 DEF Clear, TypeOK
  <2>3. Bound' = Bound \ {p4runtime_id[i[l]]}
    BY <2>1, <2>2 DEF Bound, PidInv, NoSharedRuntime
  <2>4. reserved'[l] = reserved[l]
    <3>1. CASE UNCHANGED reserved
      BY <3>1
    <3>2. ASSUME NEW p \in idle[l], reserved' = [reserved EXCEPT ![l] = @ \ {p}]
          PROVE  reserved'[l] = reserved[l]
      <4>1. p \in Bound => p = p4runtime_id[i[l]]
        BY DEF Bound, PidInv, FreeIsUnbound
      <4>. QED  BY <2>1, <3>2, <4>1 DEF TypeOK
    <3>. QED  BY <1>2, <3>1, <3>2 DEF Clear, Retirable, poolVars
  <2>. QED  BY <2>1, <2>3, <2>4 DEF HandsOver, Holding, Clearing
<1>. QED  BY <1>1, <1>2

\* The launcher's other steps change neither what it holds nor the names.
LEMMA OtherStepHandsOver ==
  ASSUME TypeOK, NEW l \in Launchers, HandsOver(l),
         \/ TestSession(l) \/ FoundNewSession(l) \/ FoundLostSession(l)
         \/ NextSlot(l) \/ NoClient(l)
         \/ Announce(l) \/ Pkill(l) \/ LateWrite(l)
  PROVE  HandsOver(l)'
<1>. USE DEF Goto, tableVars, poolVars
<1>1. pc[l] \in Holding /\ UNCHANGED p4runtime_id /\ Bound' = Bound
  BY DEF TestSession, FoundNewSession, FoundLostSession, NextSlot, NoClient, Announce,
     Pkill, LateWrite, Holding, Bound
<1>2. CASE LateWrite(l) /\ pc'[l] = "exited"
  BY <1>2 DEF HandsOver, Clearing, Holding
<1>3. CASE FoundNewSession(l)
  BY <1>1, <1>3 DEF FoundNewSession, HandsOver, Clearing, Holding, TypeOK
<1>4. CASE ~ FoundNewSession(l) /\ pc'[l] # "exited"
  <2>1. UNCHANGED reserved /\ pc'[l] \in Holding \ {"bind"}
    BY <1>4 DEF TestSession, FoundLostSession, NextSlot, NoClient, Announce, Pkill,
       LateWrite, Holding, TypeOK
  <2>. QED  BY <1>1, <2>1 DEF HandsOver, Clearing, Holding
<1>5. pc'[l] = "exited" => LateWrite(l) \/ FoundNewSession(l)
  BY DEF TestSession, FoundLostSession, NextSlot, NoClient, Announce, Pkill, TypeOK
<1>. QED  BY <1>2, <1>3, <1>4, <1>5

LEMMA NextKeepsTakeoverInv ==
  ~ Overlap => (IInv /\ TakeoverInv /\ [Next]_vars => TakeoverInv')
<1>. SUFFICES ASSUME ~ Overlap, IInv, TakeoverInv, [Next]_vars PROVE TakeoverInv'
  OBVIOUS
<1>. TypeOK /\ PidInv /\ \A l \in Launchers : HandsOver(l)
  BY DEF IInv, TakeoverInv
<1>. USE DEF tableVars, ovsVars, poolVars, pipelineVars
<1>1. ASSUME NEW l \in Launchers, Launcher(l) PROVE TakeoverInv'
  <2>1. HandsOver(l)'
    BY <1>1, WipingHandsOver, LinkAddHandsOver, LinkDelHandsOver, OtherStepHandsOver
       DEF Launcher
  <2>. QED  BY <1>1, <2>1, LauncherKeepsAlone
<1>2. CASE StartLauncher
  <2>. DEFINE n == started + 1
  <2>1. stage = "launcher" /\ AtWork = {} /\ UNCHANGED <<i, reserved, p4runtime_id>>
        /\ pc' = [pc EXCEPT ![n] = "wipe"]
    BY <1>2 DEF StartLauncher, Goto
  <2>2. n \in Launchers /\ n > started
    BY <2>1, DeploymentAssumption DEF IInv, TypeOK, RoomForNext, Launchers
  <2>3. pc[n] = "none"
    BY <2>2 DEF IInv, InOrder
  <2>4. i'[n] = 0 /\ reserved'[n] = {} /\ pc'[n] = "wipe"
    BY <2>1, <2>2, <2>3 DEF TakeoverInv, Unstarted, TypeOK
  <2>5. \A m \in Launchers : m # n => pc'[m] = pc[m] /\ pc[m] \in {"none", "exited"}
    BY <2>1 DEF AtWork, TypeOK
  <2>6. Alone' /\ Unstarted'
    BY <2>1, <2>4, <2>5 DEF TakeoverInv, Alone, Unstarted, AtWork
  <2>7. \A m \in Launchers : m = n => HandsOver(m)'
    BY <2>4 DEF HandsOver, Clearing, Holding, Slots
  <2>8. \A m \in Launchers : m # n => HandsOver(m)'
    BY <2>5 DEF HandsOver, Clearing, Holding
  <2>. QED  BY <2>6, <2>7, <2>8 DEF TakeoverInv
<1>3. CASE VmStops
  <2>1. \A l \in Launchers : /\ pc'[l] \in {"none", "exited"} /\ reserved'[l] = {}
                             /\ i'[l] = i[l] /\ (pc'[l] = "none" => pc[l] = "none")
    BY <1>3 DEF VmStops
  <2>. QED  BY <2>1 DEF TakeoverInv, Alone, AtWork, Unstarted, HandsOver, Clearing, Holding
<1>4. CASE Begin \/ StopOvs \/ StartOvs \/ UNCHANGED vars
           \/ \E s \in Slots : Register(s) \/ Deregister(s)
  <2>1. UNCHANGED <<pc, i, reserved, p4runtime_id>>
    BY <1>4 DEF Begin, StopOvs, StartOvs, vars, Register, Deregister
  <2>. QED
    BY <2>1 DEF TakeoverInv, Alone, AtWork, Unstarted, HandsOver, Clearing, Holding, Bound
<1>. QED  BY <1>1, <1>2, <1>3, <1>4 DEF Next, Pipeline

\* If no launcher is started while another is at work, each one that takes the
\* table over, whatever its predecessor, a crash or OVS left in it, holds as
\* reserved exactly the runtimes that the table names.
THEOREM TakeoversAreClean == ~ Overlap => (Spec => []TakeoverIsClean)
<1>. SUFFICES ASSUME ~ Overlap PROVE Spec => []TakeoverIsClean
  OBVIOUS
<1>1. Init => TakeoverInv
  BY DEF Init, TakeoverInv, Alone, AtWork, Unstarted, HandsOver, Clearing, Holding
<1>2. IInv /\ TakeoverInv /\ [Next]_vars => TakeoverInv'
  BY NextKeepsTakeoverInv
<1>3. TakeoverInv => TakeoverIsClean
  BY DEF TakeoverInv, HandsOver, Holding, TakeoverIsClean, AtWork
<1>. QED  BY <1>1, <1>2, <1>3, InitInv, NextKeepsInv, PTL DEF Spec

================================================================================
