------------------------- MODULE P4LauncherBindingProofs -------------------------
(***************************************************************************)
(* The bindings between sessions and runtimes, proved for every table size *)
(* and every set of pids, reused or not, as long as no runtime dies behind *)
(* the daemon's back and no client stops or shuts down the pool; and that  *)
(* the daemon then implements RuntimePool.                                 *)
(***************************************************************************)
EXTENDS P4LauncherProofs

\* Runtimes end only where adjust_children ends them.
NothingElseEnds ==
  ~ ChildMayExit /\ \A c \in Commands : c.op \notin {"stop", "shutdown"}

\* What is known of slot i and of the call in progress.
CallContext ==
  /\ (pc = "bind" \/ (pc = "grow" /\ ret = "bind")) => p4runtime_id[i] = NoPid
  /\ pc = "unbind" => p4runtime_id[i] # NoPid
  /\ pc = "shrink" => ret # "bind"

\* The table holds live children only, and only occupied entries are reserved.
TableLive ==
  \A j \in Slots : /\ in_use[j] => pid[j] # NoPid
                   /\ pid[j] # NoPid => pid[j] \in running

\* The inductive invariant.
BindInv ==
  Tracked /\ TableLive /\ ReservationsMatch /\ CallContext /\ BindAlwaysFindsFree

-----------------------------------------------------------------------------
(* The table has room                                                      *)

\* No pid is in the table twice.
DistinctEntries == \A j, k \in UsedEntries : pid[j] = pid[k] => j = k

\* With a session still to be bound, some entry is not reserved: reserved
\* entries name distinct sessions, and there are no more entries than slots.
LEMMA RoomForOneMore ==
  ASSUME Tracked, DistinctEntries, DistinctBindings, p4runtime_id[i] = NoPid
  PROVE  \E j \in Slots : ~ in_use[j]
<1>. SUFFICES ASSUME \A j \in Slots : in_use[j] PROVE FALSE
  OBVIOUS
<1>. USE DEF Tracked, TypeOK
<1>. DEFINE others == Slots \ {i}
            f == [j \in Slots |-> CHOOSE s \in BoundSlots : p4runtime_id[s] = pid[j]]
<1>1. \A j \in Slots : f[j] \in BoundSlots /\ p4runtime_id[f[j]] = pid[j]
  BY DEF DistinctBindings
<1>2. f \in [Slots -> others]
  BY <1>1 DEF BoundSlots
<1>3. IsFiniteSet(others) /\ Cardinality(others) = Cardinality(Slots) - 1
  BY SlotsFinite, FS_RemoveElement
<1>4. Cardinality(others) < Cardinality(Slots)
  BY <1>3, SlotsFinite, ConstantsAssumption
<1>. HIDE DEF f, others
<1>5. PICK x, y \in Slots : x # y /\ f[x] = f[y]
  BY <1>2, <1>3, <1>4, SlotsFinite, FS_PigeonHole
<1>6. x \in UsedEntries /\ y \in UsedEntries
  BY DEF DistinctBindings, BoundSlots, UsedEntries
<1>. QED  BY <1>1, <1>5, <1>6 DEF DistinctEntries

\* Where the clamp keeps link_add from spawning, every entry is occupied, so
\* the one that is not reserved is free.
LEMMA FullTableHasFree ==
  ASSUME Tracked, DistinctEntries, DistinctBindings, p4runtime_id[i] = NoPid,
         runtimes = MAX_CONNECTIONS
  PROVE  FreeEntries # {}
<1>1. Cardinality(UsedEntries) = Cardinality(Slots)
  BY SlotsFinite DEF Tracked, RuntimeCount
<1>2. UsedEntries = Slots
  BY <1>1, SlotsFinite, FS_Subset DEF UsedEntries
<1>. QED  BY <1>2, RoomForOneMore DEF FreeEntries

-----------------------------------------------------------------------------
(* The steps that change a table *)

LEMMA SpawnBind ==
  ASSUME BindInv, SpawnRuntime
  PROVE  (TableLive /\ ReservationsMatch /\ CallContext /\ BindAlwaysFindsFree)'
<1>. USE DEF BindInv, Tracked, TypeOK
<1>1. PICK p \in Forkable, j \in Slots :
        /\ First(j, EmptyEntries)
        /\ running' = running \cup {p}
        /\ pid' = [pid EXCEPT ![j] = p]
        /\ in_use' = [in_use EXCEPT ![j] = FALSE]
  BY SpawnFindsEmpty
<1>2. p \in Pids /\ p # NoPid /\ p \notin running
  BY <1>1, ConstantsAssumption DEF Forkable
<1>3. pid[j] = NoPid /\ ~ in_use[j]
  BY <1>1 DEF First, EmptyEntries, UsedEntries, TableLive
<1>4. UNCHANGED <<p4runtime_id, i, ret>> /\ pc' \in {"grow", ret}
  BY DEF SpawnRuntime, callVars
<1>5. TableLive'
  BY <1>1, <1>2 DEF TableLive
<1>6. ReservationsMatch'
  <2>1. BoundSlots' = BoundSlots
    BY <1>4 DEF BoundSlots
  <2>2. \A s \in BoundSlots : \E k \in Slots :
          in_use'[k] /\ pid'[k] = p4runtime_id'[s]
    BY <1>1, <1>3, <1>4 DEF ReservationsMatch
  <2>3. \A k \in Slots : in_use'[k] =>
          \E s \in BoundSlots : p4runtime_id'[s] = pid'[k]
    BY <1>1, <1>3, <1>4 DEF ReservationsMatch
  <2>4. \A k, m \in UsedEntries' : pid'[k] = pid'[m] => k = m
    BY <1>1, <1>2 DEF ReservationsMatch, UsedEntries, TableLive
  <2>5. \A s, t \in BoundSlots : p4runtime_id'[s] = p4runtime_id'[t] => s = t
    BY <1>4 DEF ReservationsMatch
  <2>. QED  BY <2>1, <2>2, <2>3, <2>4, <2>5 DEF ReservationsMatch
<1>7. j \in FreeEntries'
  BY <1>1, <1>2 DEF FreeEntries, UsedEntries
<1>8. CallContext' /\ BindAlwaysFindsFree'
  BY <1>4, <1>7 DEF CallContext, BindAlwaysFindsFree, SpawnRuntime
<1>. QED  BY <1>5, <1>6, <1>8

LEMMA RetireBind ==
  ASSUME BindInv, RetireRuntime
  PROVE  (TableLive /\ ReservationsMatch /\ CallContext /\ BindAlwaysFindsFree)'
<1>. USE DEF BindInv, Tracked, TypeOK
<1>1. PICK j \in Slots : /\ First(j, FreeEntries)
                         /\ running' = running \ {pid[j]}
                         /\ pid' = [pid EXCEPT ![j] = NoPid]
                         /\ in_use' = [in_use EXCEPT ![j] = FALSE]
  BY DEF RetireRuntime, TerminateChild
<1>2. pid[j] # NoPid /\ ~ in_use[j]
  BY <1>1 DEF First, FreeEntries, UsedEntries
<1>3. UNCHANGED <<p4runtime_id, i, ret>> /\ pc = "shrink" /\ pc' \in {"shrink", ret}
  BY DEF RetireRuntime, callVars
<1>4. TableLive'
  BY <1>1, <1>2 DEF TableLive, ReservationsMatch, UsedEntries
<1>5. ReservationsMatch'
  <2>1. BoundSlots' = BoundSlots
    BY <1>3 DEF BoundSlots
  <2>2. \A s \in BoundSlots : \E k \in Slots :
          in_use'[k] /\ pid'[k] = p4runtime_id'[s]
    BY <1>1, <1>2, <1>3 DEF ReservationsMatch
  <2>3. \A k \in Slots : in_use'[k] =>
          \E s \in BoundSlots : p4runtime_id'[s] = pid'[k]
    BY <1>1, <1>2, <1>3 DEF ReservationsMatch
  <2>4. \A k, m \in UsedEntries' : pid'[k] = pid'[m] => k = m
    BY <1>1 DEF ReservationsMatch, UsedEntries
  <2>5. \A s, t \in BoundSlots : p4runtime_id'[s] = p4runtime_id'[t] => s = t
    BY <1>3 DEF ReservationsMatch
  <2>. QED  BY <2>1, <2>2, <2>3, <2>4, <2>5 DEF ReservationsMatch
<1>6. CallContext' /\ BindAlwaysFindsFree'
  BY <1>3 DEF CallContext, BindAlwaysFindsFree
<1>. QED  BY <1>4, <1>5, <1>6

LEMMA LinkAddBind ==
  ASSUME BindInv, LinkAdd
  PROVE  (TableLive /\ ReservationsMatch /\ CallContext /\ BindAlwaysFindsFree)'
<1>. USE DEF BindInv, Tracked, TypeOK
<1>1. PICK j \in Slots :
        /\ First(j, FreeEntries)
        /\ in_use' = [in_use EXCEPT ![j] = TRUE]
        /\ p4runtime_id' = [p4runtime_id EXCEPT ![i] = pid[j]]
  BY DEF LinkAdd, Reserve, BindAlwaysFindsFree
<1>2. pid[j] # NoPid /\ ~ in_use[j] /\ j \in UsedEntries
  BY <1>1 DEF First, FreeEntries, UsedEntries
<1>3. /\ UNCHANGED <<pid, running, i>>
      /\ p4runtime_id[i] = NoPid
      /\ pc' = "recheck"
  BY DEF LinkAdd, CallContext, procVars
<1>4. TableLive'
  BY <1>1, <1>2, <1>3 DEF TableLive
<1>5. \A s \in BoundSlots : p4runtime_id[s] # pid[j]
  BY <1>2 DEF ReservationsMatch, TableLive, UsedEntries
<1>6. BoundSlots' = BoundSlots \cup {i}
  BY <1>1, <1>2 DEF BoundSlots
<1>7. ReservationsMatch'
  <2>1. \A s \in BoundSlots' : \E k \in Slots :
          in_use'[k] /\ pid'[k] = p4runtime_id'[s]
    <3>. TAKE s \in BoundSlots'
    <3>1. CASE s = i
      BY <3>1, <1>1, <1>3
    <3>2. CASE s # i
      BY <3>2, <1>1, <1>3, <1>6 DEF ReservationsMatch, BoundSlots
    <3>. QED  BY <3>1, <3>2
  <2>2. \A k \in Slots : in_use'[k] =>
          \E s \in BoundSlots' : p4runtime_id'[s] = pid'[k]
    <3>. SUFFICES ASSUME NEW k \in Slots, in_use'[k]
                  PROVE  \E s \in BoundSlots' : p4runtime_id'[s] = pid'[k]
      OBVIOUS
    <3>1. CASE k = j
      BY <3>1, <1>1, <1>3, <1>6
    <3>2. CASE k # j
      <4>1. PICK s \in BoundSlots : p4runtime_id[s] = pid[k]
        BY <3>2, <1>1 DEF ReservationsMatch
      <4>. QED  BY <4>1, <1>1, <1>3, <1>6 DEF BoundSlots
    <3>. QED  BY <3>1, <3>2
  <2>3. \A s, t \in BoundSlots' : p4runtime_id'[s] = p4runtime_id'[t] => s = t
    BY <1>1, <1>3, <1>5, <1>6 DEF ReservationsMatch, BoundSlots
  <2>4. \A k, m \in UsedEntries' : pid'[k] = pid'[m] => k = m
    BY <1>3 DEF ReservationsMatch, UsedEntries
  <2>. QED  BY <2>1, <2>2, <2>3, <2>4 DEF ReservationsMatch
<1>8. CallContext' /\ BindAlwaysFindsFree'
  BY <1>3 DEF CallContext, BindAlwaysFindsFree
<1>. QED  BY <1>4, <1>7, <1>8

LEMMA LinkDelBind ==
  ASSUME BindInv, LinkDel
  PROVE  (TableLive /\ ReservationsMatch /\ CallContext /\ BindAlwaysFindsFree)'
<1>. USE DEF BindInv, Tracked, TypeOK
<1>1. i \in BoundSlots
  BY DEF LinkDel, CallContext, BoundSlots
<1>2. PICK j \in Slots : /\ j \in UsedEntries /\ pid[j] = p4runtime_id[i]
                         /\ in_use' = [in_use EXCEPT ![j] = FALSE]
  <2>1. \E k \in UsedEntries : pid[k] = p4runtime_id[i]
    BY <1>1 DEF ReservationsMatch, TableLive, UsedEntries
  <2>. QED  BY <2>1 DEF LinkDel, LinkDelEntry, First
<1>3. p4runtime_id' = [p4runtime_id EXCEPT ![i] = NoPid]
  BY DEF LinkDel, Unbind
<1>4. UNCHANGED <<pid, running, i>>
  BY DEF LinkDel, procVars
<1>5. ret' = "next" /\ pc' \in {"grow", "shrink", "next"}
  <2>1. AdjustChildren(runtimes - 1, "next")
    BY DEF LinkDel
  <2>. QED  BY <2>1, AdjustChildrenSets
<1>6. TableLive'
  BY <1>2, <1>4 DEF TableLive
<1>7. BoundSlots' = BoundSlots \ {i}
  BY <1>3 DEF BoundSlots
<1>8. ReservationsMatch'
  <2>1. \A s \in BoundSlots' : \E k \in Slots :
          in_use'[k] /\ pid'[k] = p4runtime_id'[s]
    <3>. TAKE s \in BoundSlots'
    <3>1. s \in BoundSlots /\ s # i /\ p4runtime_id'[s] = p4runtime_id[s]
      BY <1>3, <1>7 DEF BoundSlots
    <3>2. PICK k \in Slots : in_use[k] /\ pid[k] = p4runtime_id[s]
      BY <3>1 DEF ReservationsMatch
    <3>3. k # j
      BY <3>1, <3>2, <1>1, <1>2 DEF ReservationsMatch
    <3>. QED  BY <3>1, <3>2, <3>3, <1>2, <1>4
  <2>2. \A k \in Slots : in_use'[k] =>
          \E s \in BoundSlots' : p4runtime_id'[s] = pid'[k]
    <3>. SUFFICES ASSUME NEW k \in Slots, in_use'[k]
                  PROVE  \E s \in BoundSlots' : p4runtime_id'[s] = pid'[k]
      OBVIOUS
    <3>1. k # j /\ in_use[k]
      BY <1>2
    <3>2. PICK s \in BoundSlots : p4runtime_id[s] = pid[k]
      BY <3>1 DEF ReservationsMatch
    <3>3. s # i
      BY <3>1, <3>2, <1>2 DEF ReservationsMatch, TableLive, UsedEntries
    <3>. QED  BY <3>2, <3>3, <1>3, <1>4, <1>7 DEF BoundSlots
  <2>3. \A s, t \in BoundSlots' : p4runtime_id'[s] = p4runtime_id'[t] => s = t
    BY <1>3, <1>7 DEF ReservationsMatch, BoundSlots
  <2>4. \A k, m \in UsedEntries' : pid'[k] = pid'[m] => k = m
    BY <1>4 DEF ReservationsMatch, UsedEntries
  <2>. QED  BY <2>1, <2>2, <2>3, <2>4 DEF ReservationsMatch
<1>9. CallContext' /\ BindAlwaysFindsFree'
  BY <1>5 DEF CallContext, BindAlwaysFindsFree
<1>. QED  BY <1>6, <1>8, <1>9

-----------------------------------------------------------------------------
(* The steps that leave the tables alone *)

LEMMA TablesUnchanged ==
  ASSUME TableLive, ReservationsMatch,
         UNCHANGED <<p4runtime_id, pid, in_use, running>>
  PROVE  TableLive' /\ ReservationsMatch'
BY DEF TableLive, ReservationsMatch, BoundSlots, UsedEntries

\* A new session is found: either a runtime is spawned for it first, or the
\* table is full and has a free one.
LEMMA FoundNewBind ==
  ASSUME BindInv, FoundNewSession
  PROVE  (TableLive /\ ReservationsMatch /\ CallContext /\ BindAlwaysFindsFree)'
<1>. USE DEF BindInv, Tracked, TypeOK
<1>1. /\ p4runtime_id[i] = NoPid
      /\ UNCHANGED <<p4runtime_id, pid, in_use, running, runtimes, i>>
      /\ AdjustChildren(runtimes + 1, "bind")
  BY DEF FoundNewSession, tableVars, procVars
<1>2. runtimes \in Nat /\ runtimes <= MAX_CONNECTIONS
  BY UsedFinite DEF RuntimeCount
<1>3. /\ ret' = "bind"
      /\ \/ pc' = "grow"
         \/ pc' = "bind" /\ runtimes = MAX_CONNECTIONS
  BY <1>1, <1>2, ConstantsAssumption DEF AdjustChildren, Clamp
<1>4. TableLive' /\ ReservationsMatch'
  BY <1>1, TablesUnchanged
<1>5. CallContext'
  BY <1>1, <1>3 DEF CallContext
<1>6. BindAlwaysFindsFree'
  <2>1. CASE pc' = "grow"
    BY <2>1 DEF BindAlwaysFindsFree
  <2>2. CASE runtimes = MAX_CONNECTIONS
    <3>1. FreeEntries # {}
      BY <1>1, <2>2, FullTableHasFree
      DEF ReservationsMatch, DistinctEntries, DistinctBindings
    <3>. QED  BY <3>1, <1>1 DEF BindAlwaysFindsFree, FreeEntries, UsedEntries
  <2>. QED  BY <1>3, <2>1, <2>2
<1>. QED  BY <1>4, <1>5, <1>6

LEMMA OtherBind ==
  ASSUME BindInv, NothingElseEnds,
         \/ NothingToRetire \/ FoundLostSession \/ NextSlot
         \/ HandleClient \/ Environment \/ UNCHANGED vars
  PROVE  (TableLive /\ ReservationsMatch /\ CallContext /\ BindAlwaysFindsFree)'
<1>. USE DEF BindInv, Tracked, TypeOK
<1>1. ~ HandleStop /\ ~ HandleShutdown /\ \A p \in Pids : ~ ChildExits(p)
  BY DEF NothingElseEnds, HandleStop, HandleShutdown, ChildExits, NoCommand
<1>2. UNCHANGED <<p4runtime_id, pid, in_use, running>>
  BY <1>1
  DEF NothingToRetire, FoundLostSession, NextSlot, HandleClient, NoClient,
      AcceptClient, ClientHangsUp, ReadCommand, HandleUpdate, AnnounceShutdown,
      HandleQuery, Reply, Environment, OvsOpensSession, OvsClosesSession, SigchldHandler,
      vars, tableVars, procVars
<1>3. TableLive' /\ ReservationsMatch'
  BY <1>2, TablesUnchanged
<1>4. CallContext' /\ (pc' = "bind" => pc = "bind")
  <2>1. CASE NothingToRetire
    BY <2>1 DEF NothingToRetire, CallContext, callVars
  <2>2. CASE FoundLostSession \/ NextSlot
    BY <2>2 DEF FoundLostSession, NextSlot, CallContext, callVars
  <2>3. CASE HandleUpdate
    <3>1. AdjustChildren(cmd.n, "reply")
      BY <2>3 DEF HandleUpdate
    <3>2. ret' = "reply" /\ pc' \in {"grow", "shrink", "reply"}
      BY <3>1 DEF AdjustChildren
    <3>. QED  BY <3>2 DEF CallContext
  <2>4. CASE NoClient \/ AcceptClient \/ ClientHangsUp \/ ReadCommand
             \/ AnnounceShutdown \/ HandleQuery \/ Reply
    BY <2>4 DEF NoClient, AcceptClient, ClientHangsUp, ReadCommand,
                AnnounceShutdown, HandleQuery, Reply, CallContext, callVars
  <2>5. CASE Environment \/ UNCHANGED vars
    BY <2>5, <1>1 DEF Environment, OvsOpensSession, OvsClosesSession,
                      SigchldHandler, CallContext, vars, callVars
  <2>. QED  BY <1>1, <2>1, <2>2, <2>3, <2>4, <2>5 DEF HandleClient
<1>5. BindAlwaysFindsFree'
  BY <1>2, <1>4 DEF BindAlwaysFindsFree, FreeEntries, UsedEntries
<1>. QED  BY <1>3, <1>4, <1>5

-----------------------------------------------------------------------------
(* The theorems *)

LEMMA BindInit == Init => BindInv
BY TrackedInit
DEF Init, BindInv, TableLive, ReservationsMatch, CallContext,
    BindAlwaysFindsFree, BoundSlots, UsedEntries

LEMMA BindAlways == NothingElseEnds => (Spec => []BindInv)
<1>. SUFFICES ASSUME NothingElseEnds PROVE Spec => []BindInv
  OBVIOUS
<1>1. BindInv /\ Tracked' /\ [Next]_vars => BindInv'
  BY SpawnBind, RetireBind, LinkAddBind, LinkDelBind, FoundNewBind, OtherBind
  DEF BindInv, Next, Daemon, Adjust, CheckOvsSessions
<1>. QED  BY BindInit, <1>1, TrackedAlways, PTL DEF Spec

\* The session table and runtimes_table agree between any two steps.
THEOREM ReservationsCorrect == NothingElseEnds => (Spec => []ReservationsMatch)
BY BindAlways, PTL DEF BindInv

\* link_add never fails to find a runtime, also when the table is full.
THEOREM BindSucceeds == NothingElseEnds => (Spec => []BindAlwaysFindsFree)
BY BindAlways, PTL DEF BindInv

\* A session is bound to a runtime that is running.
LEMMA BindInvRuns == BindInv => BoundRuntimeRuns
BY DEF BindInv, BoundRuntimeRuns, ReservationsMatch, TableLive

THEOREM BoundRuns == NothingElseEnds => (Spec => []BoundRuntimeRuns)
BY BindAlways, BindInvRuns, PTL

-----------------------------------------------------------------------------
(* The daemon implements the pool                                          *)

\* Starting a runtime: no session can be bound to the new pid, because every
\* session's runtime is running and a running pid is not forkable.
LEMMA SpawnStarts == BindInv /\ SpawnRuntime => Pool!PoolNext
<1>. SUFFICES ASSUME BindInv, SpawnRuntime PROVE Pool!PoolNext
  OBVIOUS
<1>1. PICK p \in Forkable : running' = running \cup {p}
  BY DEF SpawnRuntime
<1>2. p \in Pids /\ p \notin running /\ p # NoPid
  BY <1>1, ConstantsAssumption DEF Forkable
<1>3. Pool!Idle(p)
  BY <1>2, BindInvRuns DEF Pool!Idle, BoundRuntimeRuns, BoundSlots
<1>4. Pool!Start(p)
  BY <1>1, <1>2, <1>3 DEF Pool!Start, SpawnRuntime
<1>. QED  BY <1>2, <1>4 DEF Pool!PoolNext

\* Retiring a runtime: an entry that is not reserved serves no session.
LEMMA RetireRetires == BindInv /\ RetireRuntime => Pool!PoolNext
<1>. SUFFICES ASSUME BindInv, RetireRuntime PROVE Pool!PoolNext
  OBVIOUS
<1>. USE DEF BindInv, Tracked, TypeOK
<1>1. PICK j \in Slots : First(j, FreeEntries) /\ running' = running \ {pid[j]}
  BY DEF RetireRuntime, TerminateChild
<1>2. j \in UsedEntries /\ pid[j] # NoPid /\ ~ in_use[j]
  BY <1>1 DEF First, FreeEntries, UsedEntries
<1>3. pid[j] \in running /\ pid[j] \in Pids
  BY <1>2 DEF TableLive
<1>4. Pool!Idle(pid[j])
  BY <1>2 DEF Pool!Idle, ReservationsMatch, BoundSlots, UsedEntries
<1>5. Pool!Retire(pid[j])
  BY <1>1, <1>3, <1>4 DEF Pool!Retire, RetireRuntime
<1>. QED  BY <1>3, <1>5 DEF Pool!PoolNext

LEMMA LinkAddBinds == BindInv /\ LinkAdd => Pool!PoolNext
<1>. SUFFICES ASSUME BindInv, LinkAdd PROVE Pool!PoolNext
  OBVIOUS
<1>. USE DEF BindInv, Tracked, TypeOK
<1>1. PICK j \in Slots : /\ First(j, FreeEntries)
                         /\ p4runtime_id' = [p4runtime_id EXCEPT ![i] = pid[j]]
  BY DEF LinkAdd, BindAlwaysFindsFree
<1>2. j \in UsedEntries /\ pid[j] # NoPid /\ ~ in_use[j]
  BY <1>1 DEF First, FreeEntries, UsedEntries
<1>3. pid[j] \in running /\ pid[j] \in Pids
  BY <1>2 DEF TableLive
<1>4. Pool!Idle(pid[j])
  BY <1>2 DEF Pool!Idle, ReservationsMatch, BoundSlots, UsedEntries
<1>5. p4runtime_id[i] = NoPid
  BY DEF LinkAdd, CallContext
<1>6. Pool!Bind(i, pid[j])
  BY <1>1, <1>3, <1>4, <1>5 DEF Pool!Bind, LinkAdd, procVars
<1>. QED  BY <1>3, <1>6 DEF Pool!PoolNext

LEMMA LinkDelReleases == BindInv /\ LinkDel => Pool!PoolNext
<1>. SUFFICES ASSUME BindInv, LinkDel PROVE Pool!PoolNext
  OBVIOUS
<1>1. i \in Slots /\ p4runtime_id[i] # NoPid
  BY DEF BindInv, Tracked, TypeOK, LinkDel, CallContext
<1>2. Pool!Release(i)
  BY <1>1 DEF Pool!Release, LinkDel, Unbind, procVars
<1>. QED  BY <1>1, <1>2 DEF Pool!PoolNext

LEMMA OvsSteps ==
  ASSUME NEW s \in Slots, OvsOpensSession(s) \/ OvsClosesSession(s)
  PROVE  Pool!PoolNext
<1>1. Pool!OvsOpens(s) \/ Pool!OvsCloses(s)
  BY DEF OvsOpensSession, OvsClosesSession, Pool!OvsOpens, Pool!OvsCloses, procVars
<1>. QED  BY <1>1 DEF Pool!PoolNext

\* Every other step is a stutter of the pool.
LEMMA OtherStutters ==
  ASSUME BindInv, NothingElseEnds,
         \/ NothingToRetire \/ FoundNewSession \/ FoundLostSession \/ NextSlot
         \/ HandleClient \/ SigchldHandler \/ UNCHANGED vars
  PROVE  UNCHANGED Pool!poolVars
<1>1. ~ HandleStop /\ ~ HandleShutdown
  BY DEF NothingElseEnds, HandleStop, HandleShutdown, BindInv, Tracked, TypeOK,
         NoCommand
<1>. QED
  BY <1>1
  DEF Pool!poolVars, NothingToRetire, FoundNewSession, FoundLostSession, NextSlot,
      HandleClient, NoClient, AcceptClient, ClientHangsUp, ReadCommand,
      HandleUpdate, AnnounceShutdown, HandleQuery, Reply, SigchldHandler, vars, tableVars, procVars

LEMMA PoolStep ==
  ASSUME NothingElseEnds
  PROVE  BindInv /\ [Next]_vars => [Pool!PoolNext]_(Pool!poolVars)
<1>. SUFFICES ASSUME BindInv, [Next]_vars PROVE [Pool!PoolNext]_(Pool!poolVars)
  OBVIOUS
<1>1. \A p \in Pids : ~ ChildExits(p)
  BY DEF NothingElseEnds, ChildExits
<1>2. CASE Daemon
  BY <1>2, SpawnStarts, RetireRetires, LinkAddBinds, LinkDelReleases, OtherStutters
  DEF Daemon, Adjust, CheckOvsSessions
<1>3. CASE Environment
  BY <1>3, <1>1, OvsSteps, OtherStutters DEF Environment
<1>4. CASE UNCHANGED vars
  BY <1>4, OtherStutters
<1>. QED  BY <1>2, <1>3, <1>4 DEF Next

\* The daemon's tables, processes and loops implement the abstract pool: only
\* an idle, live runtime is bound, and only an idle runtime is retired.
THEOREM PoolImplemented == NothingElseEnds => (Spec => ImplementsPool)
<1>. SUFFICES ASSUME NothingElseEnds PROVE Spec => ImplementsPool
  OBVIOUS
<1>1. Init => Pool!PoolInit
  BY DEF Init, Pool!PoolInit
<1>2. BindInv /\ [Next]_vars => [Pool!PoolNext]_(Pool!poolVars)
  BY PoolStep
<1>. QED  BY <1>1, <1>2, BindAlways, PTL DEF Spec, ImplementsPool, Pool!PoolSpec
================================================================================
