---------------------------- MODULE P4LauncherProofs ----------------------------
(***************************************************************************)
(* Theorems about the P4Launcher for every table size, every set of pids   *)
(* and every set of commands, with the proofs TLAPS checks.                *)
(***************************************************************************)
EXTENDS P4Launcher, FiniteSetTheorems, TLAPS

-----------------------------------------------------------------------------
(* Lemmas about the helpers *)

\* Slots is finite and has MAX_CONNECTIONS members: both tables are that long.
LEMMA SlotsFinite ==
  IsFiniteSet(Slots) /\ Cardinality(Slots) = MAX_CONNECTIONS
BY ConstantsAssumption, FS_Interval DEF Slots

\* Clamp never exceeds the table and never raises its argument.
LEMMA ClampBounds ==
  ASSUME NEW n \in Int
  PROVE  Clamp(n) \in Int /\ Clamp(n) <= MAX_CONNECTIONS /\ Clamp(n) <= n
BY ConstantsAssumption DEF Clamp

\* What a call of adjust_children leaves behind in the loop variables: the
\* clamped target, and a loop to run only if it has something to do.
LEMMA AdjustChildrenSets ==
  ASSUME NEW n \in Int, NEW k, runtimes \in Int, AdjustChildren(n, k)
  PROVE  /\ target' = Clamp(n) /\ target' \in Int /\ target' <= MAX_CONNECTIONS
         /\ ret' = k
         /\ \/ pc' = "grow" /\ runtimes < target'
            \/ pc' = "shrink" /\ target' < runtimes
            \/ pc' = k /\ target' = runtimes
BY ClampBounds DEF AdjustChildren

-----------------------------------------------------------------------------
(* Type correctness *)

LEMMA TypeInit == Init => TypeOK
BY ConstantsAssumption, ClampBounds
DEF Init, TypeOK, Slots, Locations, NoCommand

LEMMA TypeAdjust == TypeOK /\ Adjust => TypeOK'
<1>. SUFFICES ASSUME TypeOK, Adjust PROVE TypeOK'
  OBVIOUS
<1>. USE ConstantsAssumption DEF TypeOK, Locations
<1>1. CASE SpawnRuntime
  <2>1. PICK p \in Forkable : running' = running \cup {p} /\ AddRuntimeEntry(p)
    BY <1>1 DEF SpawnRuntime
  <2>2. p \in Pids
    BY <2>1 DEF Forkable
  <2>3. pid' \in [Slots -> Pids \cup {NoPid}] /\ in_use' \in [Slots -> BOOLEAN]
    BY <2>1, <2>2 DEF AddRuntimeEntry
  <2>. QED  BY <1>1, <2>1, <2>2, <2>3 DEF SpawnRuntime, callVars
<1>2. CASE RetireRuntime
  BY <1>2 DEF RetireRuntime, TerminateChild, callVars
<1>3. CASE NothingToRetire
  BY <1>3 DEF NothingToRetire, tableVars, procVars, callVars
<1>. QED  BY <1>1, <1>2, <1>3 DEF Adjust

LEMMA TypePoll == TypeOK /\ CheckOvsSessions => TypeOK'
<1>. SUFFICES ASSUME TypeOK, CheckOvsSessions PROVE TypeOK'
  OBVIOUS
<1>. USE ConstantsAssumption DEF TypeOK, Locations
<1>1. CASE FoundNewSession
  <2>1. AdjustChildren(runtimes + 1, "bind")
    BY <1>1 DEF FoundNewSession
  <2>. QED  BY <1>1, <2>1, AdjustChildrenSets DEF FoundNewSession, tableVars, procVars
<1>2. CASE LinkAdd
  BY <1>2 DEF LinkAdd, Reserve, procVars, callVars
<1>3. CASE FoundLostSession
  BY <1>3 DEF FoundLostSession, tableVars, procVars, callVars
<1>4. CASE LinkDel
  <2>1. AdjustChildren(runtimes - 1, "next")
    BY <1>4 DEF LinkDel
  <2>2. target' \in Int /\ ret' = "next" /\ pc' \in {"grow", "shrink", "next"}
    BY <2>1, AdjustChildrenSets
  <2>3. in_use' \in [Slots -> BOOLEAN]
    BY <1>4 DEF LinkDel, LinkDelEntry
  <2>. QED  BY <1>4, <2>2, <2>3 DEF LinkDel, Unbind, procVars
<1>5. CASE NextSlot
  BY <1>5 DEF NextSlot, IsSlot, Slots, tableVars, procVars, callVars
<1>. QED  BY <1>1, <1>2, <1>3, <1>4, <1>5 DEF CheckOvsSessions

LEMMA TypeClient == TypeOK /\ HandleClient => TypeOK'
<1>. SUFFICES ASSUME TypeOK, HandleClient PROVE TypeOK'
  OBVIOUS
<1>. USE ConstantsAssumption DEF TypeOK, Locations
<1>1. CASE NoClient \/ AcceptClient \/ ClientHangsUp \/ ReadCommand
  BY <1>1 DEF NoClient, AcceptClient, ClientHangsUp, ReadCommand,
              tableVars, procVars, callVars
<1>2. CASE HandleUpdate
  <2>1. cmd.n \in Int
    BY <1>2 DEF HandleUpdate, Command, NoCommand
  <2>2. AdjustChildren(cmd.n, "reply")
    BY <1>2 DEF HandleUpdate
  <2>. QED  BY <1>2, <2>1, <2>2, AdjustChildrenSets DEF HandleUpdate, tableVars, procVars
<1>3. CASE HandleStop
  BY <1>3 DEF HandleStop, StopAllChildren, callVars
<1>4. CASE AnnounceShutdown \/ HandleShutdown \/ HandleQuery
  BY <1>4 DEF AnnounceShutdown, HandleShutdown, HandleQuery, NoCommand, tableVars, procVars, callVars
<1>5. CASE Reply
  BY <1>5 DEF Reply, tableVars, procVars, callVars
<1>. QED  BY <1>1, <1>2, <1>3, <1>4, <1>5 DEF HandleClient

LEMMA TypeEnvironment == TypeOK /\ Environment => TypeOK'
BY DEF TypeOK, Environment, OvsOpensSession, OvsClosesSession, ChildExits,
       SigchldHandler, tableVars, procVars, callVars

LEMMA TypeStutter == TypeOK /\ UNCHANGED vars => TypeOK'
BY DEF TypeOK, vars, tableVars, procVars, callVars

\* Every variable keeps its type: in particular the loop over the slots never
\* leaves the table, and every pid the tables hold is one that fork() returned.
THEOREM TypeCorrect == Spec => []TypeOK
<1>1. TypeOK /\ [Next]_vars => TypeOK'
  BY TypeAdjust, TypePoll, TypeClient, TypeEnvironment, TypeStutter DEF Next, Daemon
<1>. QED  BY TypeInit, <1>1, PTL DEF Spec

-----------------------------------------------------------------------------
(* The counter and the children                                            *)
(*                                                                         *)
(* RuntimeCount and NoOrphan depend on each other through add_runtime_entry *)
(* dropping a pid when the table is full: a child is tracked only because  *)
(* the counter, which bounds the spawning loop, agrees with the table.     *)

\* The loops of adjust_children have something left to do.
LoopBounds ==
  /\ target <= MAX_CONNECTIONS
  /\ pc = "grow" => runtimes < target
  /\ pc = "shrink" => target < runtimes

Tracked == TypeOK /\ RuntimeCount /\ NoOrphan /\ LoopBounds

\* The occupied entries are finitely many; with all of them occupied their
\* number is the table's length.
LEMMA UsedFinite ==
  /\ IsFiniteSet(UsedEntries)
  /\ Cardinality(UsedEntries) \in Nat
  /\ Cardinality(UsedEntries) <= MAX_CONNECTIONS
BY SlotsFinite, FS_Subset, FS_CardinalityType DEF UsedEntries

\* What the daemon knows of its children depends on these variables only.
LEMMA TrackedUnchanged ==
  ASSUME RuntimeCount, NoOrphan, UNCHANGED <<tableVars, procVars>>,
         pc' # "exited" => pc # "exited"
  PROVE  RuntimeCount' /\ NoOrphan'
BY DEF RuntimeCount, NoOrphan, UsedEntries, TablePids, tableVars, procVars

\* start_children finds an empty entry for the child it starts.
LEMMA SpawnFindsEmpty ==
  ASSUME Tracked, SpawnRuntime
  PROVE  \E p \in Forkable, j \in Slots :
           /\ First(j, EmptyEntries)
           /\ running' = running \cup {p}
           /\ pid' = [pid EXCEPT ![j] = p]
           /\ in_use' = [in_use EXCEPT ![j] = FALSE]
<1>. USE DEF Tracked, TypeOK
<1>1. PICK p \in Forkable : running' = running \cup {p} /\ AddRuntimeEntry(p)
  BY DEF SpawnRuntime
<1>2. Cardinality(UsedEntries) < MAX_CONNECTIONS
  BY UsedFinite, ConstantsAssumption DEF SpawnRuntime, LoopBounds, RuntimeCount
<1>3. UsedEntries # Slots
  BY <1>2, SlotsFinite, ConstantsAssumption
<1>4. EmptyEntries # {}
  BY <1>3 DEF EmptyEntries, UsedEntries
<1>. QED  BY <1>1, <1>4 DEF AddRuntimeEntry

LEMMA SpawnTracked == Tracked /\ SpawnRuntime => RuntimeCount' /\ NoOrphan'
<1>. SUFFICES ASSUME Tracked, SpawnRuntime PROVE RuntimeCount' /\ NoOrphan'
  OBVIOUS
<1>. USE DEF Tracked, TypeOK
<1>1. PICK p \in Forkable, j \in Slots :
        /\ First(j, EmptyEntries)
        /\ running' = running \cup {p}
        /\ pid' = [pid EXCEPT ![j] = p]
  BY SpawnFindsEmpty
<1>2. p \in Pids /\ p # NoPid
  BY <1>1, ConstantsAssumption DEF Forkable
<1>3. j \notin UsedEntries /\ pid[j] = NoPid
  BY <1>1 DEF First, EmptyEntries, UsedEntries
<1>4. UsedEntries' = UsedEntries \cup {j}
  BY <1>1, <1>2, <1>3 DEF UsedEntries
<1>5. Cardinality(UsedEntries') = Cardinality(UsedEntries) + 1
  BY <1>3, <1>4, UsedFinite, FS_AddElement
<1>6. TablePids \cup {p} \subseteq TablePids'
  BY <1>1, <1>2, <1>3, <1>4 DEF TablePids, UsedEntries
<1>7. RuntimeCount'
  BY <1>5 DEF SpawnRuntime, RuntimeCount
<1>8. NoOrphan'
  BY <1>1, <1>6 DEF SpawnRuntime, NoOrphan
<1>. QED  BY <1>7, <1>8

\* The entry that the shrinking loop clears is the one whose child it ended.
LEMMA RetireTracked == Tracked /\ RetireRuntime => RuntimeCount' /\ NoOrphan'
<1>. SUFFICES ASSUME Tracked, RetireRuntime PROVE RuntimeCount' /\ NoOrphan'
  OBVIOUS
<1>. USE DEF Tracked, TypeOK
<1>1. PICK j \in Slots : /\ First(j, FreeEntries)
                         /\ TerminateChild(pid[j])
                         /\ pid' = [pid EXCEPT ![j] = NoPid]
  BY DEF RetireRuntime
<1>2. j \in UsedEntries
  BY <1>1 DEF First, FreeEntries
<1>3. UsedEntries' = UsedEntries \ {j}
  BY <1>1 DEF UsedEntries
<1>4. Cardinality(UsedEntries') = Cardinality(UsedEntries) - 1
  BY <1>2, <1>3, UsedFinite, FS_RemoveElement
<1>5. TablePids \ {pid[j]} \subseteq TablePids'
  BY <1>1, <1>3 DEF TablePids, UsedEntries
<1>6. RuntimeCount'
  BY <1>4 DEF RetireRuntime, RuntimeCount
<1>7. NoOrphan'
  BY <1>1, <1>5 DEF RetireRuntime, NoOrphan, TerminateChild
<1>. QED  BY <1>6, <1>7

\* stop ends every child of the table, which is every child.
LEMMA StopTracked ==
  Tracked /\ HandleStop => RuntimeCount' /\ NoOrphan' /\ running' = {}
<1>. SUFFICES ASSUME Tracked, HandleStop
              PROVE  RuntimeCount' /\ NoOrphan' /\ running' = {}
  OBVIOUS
<1>. USE DEF Tracked, TypeOK, HandleStop, StopAllChildren
<1>1. UsedEntries' = {}
  BY DEF UsedEntries
<1>2. RuntimeCount'
  BY <1>1, FS_EmptySet DEF RuntimeCount
<1>3. running' = {} /\ zombie' = {}
  BY DEF NoOrphan
<1>. QED  BY <1>2, <1>3 DEF NoOrphan

LEMMA TrackedStep == Tracked /\ [Next]_vars => RuntimeCount' /\ NoOrphan'
<1>. SUFFICES ASSUME Tracked, [Next]_vars PROVE RuntimeCount' /\ NoOrphan'
  OBVIOUS
<1>. USE DEF Tracked
<1>1. CASE Adjust
  <2>1. CASE NothingToRetire
    BY <2>1, TrackedUnchanged DEF NothingToRetire
  <2>. QED  BY <1>1, <2>1, SpawnTracked, RetireTracked DEF Adjust
<1>2. CASE CheckOvsSessions
  <2>1. UNCHANGED <<pid, runtimes, procVars>> /\ pc # "exited"
    BY <1>2 DEF CheckOvsSessions, FoundNewSession, LinkAdd, FoundLostSession,
                LinkDel, NextSlot, tableVars
  <2>. QED  BY <2>1 DEF RuntimeCount, NoOrphan, UsedEntries, TablePids, procVars
<1>3. CASE HandleClient
  <2>1. CASE HandleStop
    BY <2>1, StopTracked
  <2>2. CASE HandleShutdown
    BY <2>2 DEF HandleShutdown, RuntimeCount, NoOrphan, UsedEntries, TablePids,
                tableVars
  <2>3. CASE HandleUpdate
    BY <2>3, TrackedUnchanged DEF HandleUpdate
  <2>4. CASE NoClient \/ AcceptClient \/ ClientHangsUp \/ ReadCommand
             \/ AnnounceShutdown \/ HandleQuery \/ Reply
    BY <2>4, TrackedUnchanged
    DEF NoClient, AcceptClient, ClientHangsUp, ReadCommand, AnnounceShutdown,
        HandleQuery, Reply
  <2>. QED  BY <1>3, <2>1, <2>2, <2>3, <2>4 DEF HandleClient
<1>4. CASE Environment
  <2>1. /\ UNCHANGED <<tableVars, pc>>
        /\ running' \cup zombie' \subseteq running \cup zombie
    BY <1>4 DEF Environment, OvsOpensSession, OvsClosesSession, ChildExits,
                SigchldHandler, tableVars, procVars
  <2>. QED  BY <2>1 DEF RuntimeCount, NoOrphan, UsedEntries, TablePids, tableVars
<1>5. CASE UNCHANGED vars
  BY <1>5, TrackedUnchanged DEF vars
<1>. QED  BY <1>1, <1>2, <1>3, <1>4, <1>5 DEF Next, Daemon

LEMMA LoopBoundsStep == TypeOK /\ LoopBounds /\ [Next]_vars => LoopBounds'
<1>. SUFFICES ASSUME TypeOK, LoopBounds, [Next]_vars PROVE LoopBounds'
  OBVIOUS
<1>. USE ConstantsAssumption DEF TypeOK, LoopBounds
<1>1. CASE SpawnRuntime
  BY <1>1 DEF SpawnRuntime, callVars
<1>2. CASE RetireRuntime
  BY <1>2 DEF RetireRuntime, callVars
<1>3. CASE NothingToRetire
  BY <1>3 DEF NothingToRetire, tableVars, callVars
<1>4. CASE FoundNewSession \/ LinkDel \/ HandleUpdate
  <2>1. PICK n \in Int, k \in {"bind", "next", "reply"} :
          AdjustChildren(n, k) /\ UNCHANGED runtimes
    <3>1. CASE FoundNewSession
      BY <3>1 DEF FoundNewSession, tableVars
    <3>2. CASE LinkDel
      BY <3>2 DEF LinkDel
    <3>3. CASE HandleUpdate
      BY <3>3 DEF HandleUpdate, tableVars, Command, NoCommand
    <3>. QED  BY <1>4, <3>1, <3>2, <3>3
  <2>. QED  BY <2>1, AdjustChildrenSets
<1>5. CASE LinkAdd \/ FoundLostSession \/ NextSlot
  BY <1>5 DEF LinkAdd, FoundLostSession, NextSlot, callVars
<1>6. CASE NoClient \/ AcceptClient \/ ClientHangsUp \/ ReadCommand
           \/ HandleStop \/ AnnounceShutdown \/ HandleShutdown \/ HandleQuery \/ Reply
  BY <1>6 DEF NoClient, AcceptClient, ClientHangsUp, ReadCommand, HandleStop,
              AnnounceShutdown, HandleShutdown, HandleQuery, Reply, callVars
<1>7. CASE Environment \/ UNCHANGED vars
  BY <1>7 DEF Environment, OvsOpensSession, OvsClosesSession, ChildExits,
              SigchldHandler, vars, tableVars, callVars
<1>. QED  BY <1>1, <1>2, <1>3, <1>4, <1>5, <1>6, <1>7
          DEF Next, Daemon, Adjust, CheckOvsSessions, HandleClient

LEMMA TrackedInit == Init => Tracked
<1>. SUFFICES ASSUME Init PROVE Tracked
  OBVIOUS
<1>1. UsedEntries = {}
  BY DEF Init, UsedEntries
<1>2. RuntimeCount
  BY <1>1, FS_EmptySet DEF Init, RuntimeCount
<1>3. LoopBounds
  BY ConstantsAssumption, ClampBounds DEF Init, LoopBounds, Clamp
<1>. QED  BY TypeInit, <1>2, <1>3 DEF Tracked, NoOrphan, Init

LEMMA TrackedAlways == Spec => []Tracked
<1>1. Tracked /\ [Next]_vars => Tracked'
  BY TypeAdjust, TypePoll, TypeClient, TypeEnvironment, TypeStutter,
     TrackedStep, LoopBoundsStep
  DEF Tracked, Next, Daemon
<1>. QED  BY TrackedInit, <1>1, PTL DEF Spec

\* `runtimes` is the number of occupied entries of runtimes_table, for every
\* table size and whatever the clients, OVS and the children do.
THEOREM CountCorrect == Spec => []RuntimeCount
BY TrackedAlways, PTL DEF Tracked

\* As long as the daemon runs, every child it has not reaped is in the table.
THEOREM NoChildLost == Spec => []NoOrphan
BY TrackedAlways, PTL DEF Tracked

-----------------------------------------------------------------------------
(* The reply to stop *)

\* A call of adjust_children that returns to the reply was made by update.
ReplyIsUpdates == pc \in {"grow", "shrink"} /\ ret = "reply" => cmd.op = "update"

LEMMA ReplyIsUpdatesStep ==
  TypeOK /\ ReplyIsUpdates /\ [Next]_vars => ReplyIsUpdates'
<1>. SUFFICES ASSUME TypeOK, ReplyIsUpdates, [Next]_vars PROVE ReplyIsUpdates'
  OBVIOUS
<1>. USE DEF TypeOK, ReplyIsUpdates
<1>1. CASE Adjust
  BY <1>1 DEF Adjust, SpawnRuntime, RetireRuntime, NothingToRetire, callVars
<1>2. CASE FoundNewSession \/ LinkDel
  BY <1>2 DEF FoundNewSession, LinkDel, AdjustChildren
<1>3. CASE LinkAdd \/ FoundLostSession \/ NextSlot
  BY <1>3 DEF LinkAdd, FoundLostSession, NextSlot
<1>4. CASE HandleClient
  BY <1>4 DEF HandleClient, NoClient, AcceptClient, ClientHangsUp, ReadCommand,
              HandleUpdate, HandleStop, AnnounceShutdown, HandleShutdown, HandleQuery,
              Reply
<1>5. CASE Environment \/ UNCHANGED vars
  BY <1>5 DEF Environment, OvsOpensSession, OvsClosesSession, ChildExits,
              SigchldHandler, vars, callVars
<1>. QED  BY <1>1, <1>2, <1>3, <1>4, <1>5 DEF Next, Daemon, CheckOvsSessions

LEMMA StopReplyStep ==
  Tracked /\ ReplyIsUpdates /\ StopReplyTruthful /\ [Next]_vars
    => StopReplyTruthful'
<1>. SUFFICES ASSUME Tracked, ReplyIsUpdates, StopReplyTruthful, [Next]_vars
              PROVE  StopReplyTruthful'
  OBVIOUS
<1>. USE DEF Tracked, TypeOK, StopReplyTruthful
<1>1. CASE Adjust
  BY <1>1 DEF Adjust, SpawnRuntime, RetireRuntime, NothingToRetire, ReplyIsUpdates
<1>2. CASE CheckOvsSessions
  BY <1>2 DEF CheckOvsSessions, FoundNewSession, LinkAdd, FoundLostSession,
              LinkDel, NextSlot, AdjustChildren
<1>3. CASE HandleStop
  BY <1>3, StopTracked
<1>4. CASE NoClient \/ AcceptClient \/ ClientHangsUp \/ ReadCommand
           \/ HandleUpdate \/ AnnounceShutdown \/ HandleShutdown \/ HandleQuery \/ Reply
  BY <1>4 DEF NoClient, AcceptClient, ClientHangsUp, ReadCommand,
              HandleUpdate, AnnounceShutdown, HandleShutdown, HandleQuery, Reply
<1>5. CASE Environment \/ UNCHANGED vars
  BY <1>5 DEF Environment, OvsOpensSession, OvsClosesSession, ChildExits,
              SigchldHandler, vars, procVars
<1>. QED  BY <1>1, <1>2, <1>3, <1>4, <1>5 DEF Next, Daemon, HandleClient

\* When `stop` is answered, no child is running: what NoChildLost is for.
THEOREM StopIsTruthful == Spec => []StopReplyTruthful
<1>1. Init => ReplyIsUpdates /\ StopReplyTruthful
  BY DEF Init, ReplyIsUpdates, StopReplyTruthful
<1>2. /\ Tracked /\ Tracked' /\ ReplyIsUpdates /\ StopReplyTruthful
      /\ [Next]_vars
      => ReplyIsUpdates' /\ StopReplyTruthful'
  BY ReplyIsUpdatesStep, StopReplyStep DEF Tracked
<1>. QED  BY <1>1, <1>2, TrackedAlways, PTL DEF Spec
================================================================================
