------------------------- MODULE P4LauncherCrashProofs -------------------------
(***************************************************************************)
(* What is left of the bindings when runtimes die behind the daemon's back *)
(* and clients stop or shut down the pool, proved for every table size and *)
(* every set of commands, as long as fork() returns no pid that either     *)
(* table still holds.                                                      *)
(***************************************************************************)
EXTENDS P4LauncherBindingProofs

\* A free runtime is bound to no session.
FreeAreUnbound == \A j \in FreeEntries, s \in Slots : p4runtime_id[s] # pid[j]

\* The tables, as far as they agree after a stop has emptied one of them.
Unshared == DistinctEntries /\ FreeAreUnbound /\ DistinctBindings

\* The inductive invariant.
DistinctInv == Tracked /\ Unshared /\ CallContext /\ BindAlwaysFindsFree

-----------------------------------------------------------------------------
(* The steps that change a table *)

\* The new pid is in neither table.
LEMMA SpawnUnshared ==
  ASSUME DistinctInv, SpawnRuntime, ~ PidReuse
  PROVE  (Unshared /\ CallContext /\ BindAlwaysFindsFree)'
<1>. USE DEF DistinctInv, Unshared, Tracked, TypeOK
<1>1. PICK p \in Forkable, j \in Slots :
        /\ First(j, EmptyEntries)
        /\ running' = running \cup {p}
        /\ pid' = [pid EXCEPT ![j] = p]
        /\ in_use' = [in_use EXCEPT ![j] = FALSE]
  BY SpawnFindsEmpty
<1>2. /\ p # NoPid
      /\ \A k \in UsedEntries : pid[k] # p
      /\ \A s \in Slots : p4runtime_id[s] # p
  BY <1>1, ConstantsAssumption DEF Forkable, RememberedPids, TablePids
<1>3. pid[j] = NoPid
  BY <1>1 DEF First, EmptyEntries, UsedEntries
<1>4. UNCHANGED <<p4runtime_id, i, ret>> /\ pc' \in {"grow", ret}
  BY DEF SpawnRuntime, callVars
<1>5. DistinctEntries'
  BY <1>1, <1>2 DEF DistinctEntries, UsedEntries
<1>6. FreeAreUnbound'
  BY <1>1, <1>2, <1>4 DEF FreeAreUnbound, FreeEntries, UsedEntries
<1>7. DistinctBindings'
  <2>1. BoundSlots' = BoundSlots
    BY <1>4 DEF BoundSlots
  <2>2. \A k \in Slots : in_use'[k] => in_use[k] /\ pid'[k] = pid[k]
    BY <1>1
  <2>. QED  BY <2>1, <2>2, <1>4 DEF DistinctBindings
<1>8. j \in FreeEntries'
  BY <1>1, <1>2 DEF FreeEntries, UsedEntries
<1>9. CallContext' /\ BindAlwaysFindsFree'
  BY <1>4, <1>8 DEF CallContext, BindAlwaysFindsFree, SpawnRuntime
<1>. QED  BY <1>5, <1>6, <1>7, <1>9

\* A table loses entries: those of a retired runtime, or all of them.
LEMMA EmptiedUnshared ==
  ASSUME DistinctInv, UNCHANGED p4runtime_id, TypeOK',
         \A j \in Slots : \/ pid'[j] = NoPid /\ ~ in_use'[j]
                          \/ pid'[j] = pid[j] /\ in_use'[j] = in_use[j]
  PROVE  Unshared'
<1>. USE DEF DistinctInv, Unshared, Tracked, TypeOK
<1>1. BoundSlots' = BoundSlots
  BY DEF BoundSlots
<1>2. DistinctBindings'
  BY <1>1 DEF DistinctBindings
<1>3. DistinctEntries' /\ FreeAreUnbound'
  BY DEF DistinctEntries, FreeAreUnbound, FreeEntries, UsedEntries
<1>. QED  BY <1>2, <1>3

LEMMA RetireUnshared ==
  ASSUME DistinctInv, RetireRuntime, TypeOK'
  PROVE  (Unshared /\ CallContext /\ BindAlwaysFindsFree)'
<1>. USE DEF DistinctInv, Tracked, TypeOK
<1>1. PICK j \in Slots : /\ pid' = [pid EXCEPT ![j] = NoPid]
                         /\ in_use' = [in_use EXCEPT ![j] = FALSE]
  BY DEF RetireRuntime
<1>2. UNCHANGED <<p4runtime_id, i, ret>> /\ pc = "shrink" /\ pc' \in {"shrink", ret}
  BY DEF RetireRuntime, callVars
<1>3. Unshared'
  BY <1>1, <1>2, EmptiedUnshared
<1>. QED  BY <1>2, <1>3 DEF CallContext, BindAlwaysFindsFree

LEMMA StopUnshared ==
  ASSUME DistinctInv, HandleStop, TypeOK'
  PROVE  (Unshared /\ CallContext /\ BindAlwaysFindsFree)'
<1>1. /\ \A j \in Slots : pid'[j] = NoPid /\ ~ in_use'[j]
      /\ UNCHANGED p4runtime_id /\ pc' = "reply"
  BY DEF HandleStop, StopAllChildren
<1>2. Unshared'
  BY <1>1, EmptiedUnshared
<1>. QED  BY <1>1, <1>2 DEF CallContext, BindAlwaysFindsFree

LEMMA LinkAddUnshared ==
  ASSUME DistinctInv, LinkAdd
  PROVE  (Unshared /\ CallContext /\ BindAlwaysFindsFree)'
<1>. USE DEF DistinctInv, Unshared, Tracked, TypeOK
<1>1. PICK j \in Slots :
        /\ j \in FreeEntries
        /\ in_use' = [in_use EXCEPT ![j] = TRUE]
        /\ p4runtime_id' = [p4runtime_id EXCEPT ![i] = pid[j]]
  BY DEF LinkAdd, Reserve, BindAlwaysFindsFree, First
<1>2. UNCHANGED <<pid, i>> /\ p4runtime_id[i] = NoPid /\ pc' = "recheck"
  BY DEF LinkAdd, CallContext
<1>3. pid[j] # NoPid /\ \A s \in Slots : p4runtime_id[s] # pid[j]
  BY <1>1 DEF FreeEntries, UsedEntries, FreeAreUnbound
<1>4. BoundSlots' = BoundSlots \cup {i}
  BY <1>1, <1>3 DEF BoundSlots
<1>5. DistinctEntries' /\ FreeAreUnbound'
  BY <1>1, <1>2
  DEF DistinctEntries, FreeAreUnbound, FreeEntries, UsedEntries
<1>6. DistinctBindings'
  <2>1. \A s, t \in BoundSlots' : p4runtime_id'[s] = p4runtime_id'[t] => s = t
    BY <1>1, <1>3, <1>4 DEF DistinctBindings, BoundSlots
  <2>2. \A k \in Slots : in_use'[k] =>
          \E s \in BoundSlots' : p4runtime_id'[s] = pid'[k]
    <3>. SUFFICES ASSUME NEW k \in Slots, in_use'[k]
                  PROVE  \E s \in BoundSlots' : p4runtime_id'[s] = pid'[k]
      OBVIOUS
    <3>1. CASE k = j
      BY <3>1, <1>1, <1>2, <1>4
    <3>2. CASE k # j
      <4>1. PICK s \in BoundSlots : p4runtime_id[s] = pid[k]
        BY <3>2, <1>1 DEF DistinctBindings
      <4>. QED  BY <4>1, <1>1, <1>2, <1>4 DEF BoundSlots
    <3>. QED  BY <3>1, <3>2
  <2>. QED  BY <2>1, <2>2 DEF DistinctBindings
<1>. QED  BY <1>2, <1>5, <1>6 DEF CallContext, BindAlwaysFindsFree

\* After a stop no entry is named by session i, and none is unmarked.
LEMMA LinkDelUnshared ==
  ASSUME DistinctInv, LinkDel
  PROVE  (Unshared /\ CallContext /\ BindAlwaysFindsFree)'
<1>. USE DEF DistinctInv, Unshared, Tracked, TypeOK
<1>1. p4runtime_id' = [p4runtime_id EXCEPT ![i] = NoPid] /\ UNCHANGED <<pid, i>>
  BY DEF LinkDel, Unbind
<1>2. /\ \A k \in Slots : in_use'[k] => in_use[k] /\ pid[k] # p4runtime_id[i]
      /\ \A k \in Slots : in_use[k] /\ ~ in_use'[k] => pid[k] = p4runtime_id[i]
  <2>1. \A k \in Slots : in_use[k] => k \in UsedEntries
    BY DEF DistinctBindings, BoundSlots, UsedEntries
  <2>2. ASSUME NEW j \in UsedEntries, pid[j] = p4runtime_id[i],
               in_use' = [in_use EXCEPT ![j] = FALSE]
        PROVE  <1>2
    BY <2>1, <2>2 DEF DistinctEntries, UsedEntries
  <2>3. CASE (\A j \in UsedEntries : pid[j] # p4runtime_id[i]) /\ UNCHANGED in_use
    BY <2>1, <2>3
  <2>. QED  BY <2>2, <2>3 DEF LinkDel, LinkDelEntry, First
<1>3. ret' = "next" /\ pc' \in {"grow", "shrink", "next"}
  <2>1. AdjustChildren(runtimes - 1, "next")
    BY DEF LinkDel
  <2>. QED  BY <2>1, AdjustChildrenSets
<1>4. DistinctEntries'
  BY <1>1 DEF DistinctEntries, UsedEntries
<1>5. FreeAreUnbound'
  <2>. SUFFICES ASSUME NEW j \in FreeEntries', NEW s \in Slots,
                       p4runtime_id'[s] = pid'[j]
                PROVE  FALSE
    BY DEF FreeAreUnbound
  <2>1. j \in UsedEntries /\ ~ in_use'[j] /\ pid[j] # NoPid
    BY <1>1 DEF FreeEntries, UsedEntries
  <2>2. s # i /\ p4runtime_id[s] = pid[j]
    BY <1>1, <2>1
  <2>3. in_use[j]
    BY <2>1, <2>2 DEF FreeAreUnbound, FreeEntries
  <2>4. pid[j] = p4runtime_id[i]
    BY <1>2, <2>1, <2>3 DEF UsedEntries
  <2>. QED  BY <2>1, <2>2, <2>4 DEF DistinctBindings, BoundSlots
<1>6. DistinctBindings'
  <2>1. BoundSlots' = BoundSlots \ {i}
    BY <1>1 DEF BoundSlots
  <2>2. \A s, t \in BoundSlots' : p4runtime_id'[s] = p4runtime_id'[t] => s = t
    BY <1>1, <2>1 DEF DistinctBindings, BoundSlots
  <2>3. ASSUME NEW k \in Slots, in_use'[k]
        PROVE  \E s \in BoundSlots' : p4runtime_id'[s] = pid'[k]
    <3>1. PICK s \in BoundSlots : p4runtime_id[s] = pid[k]
      BY <1>2, <2>3 DEF DistinctBindings
    <3>2. s # i
      BY <3>1, <1>2, <2>3
    <3>. QED  BY <3>1, <3>2, <1>1, <2>1 DEF BoundSlots
  <2>. QED  BY <2>2, <2>3 DEF DistinctBindings
<1>. QED  BY <1>3, <1>4, <1>5, <1>6 DEF CallContext, BindAlwaysFindsFree
-----------------------------------------------------------------------------
(* The steps that leave the tables alone *)

LEMMA FoundNewUnshared ==
  ASSUME DistinctInv, FoundNewSession
  PROVE  (Unshared /\ CallContext /\ BindAlwaysFindsFree)'
<1>. USE DEF DistinctInv, Unshared, Tracked, TypeOK
<1>1. /\ p4runtime_id[i] = NoPid
      /\ UNCHANGED <<p4runtime_id, pid, in_use, runtimes, i>>
      /\ AdjustChildren(runtimes + 1, "bind")
  BY DEF FoundNewSession, tableVars
<1>2. runtimes \in Nat /\ runtimes <= MAX_CONNECTIONS
  BY UsedFinite DEF RuntimeCount
<1>3. /\ ret' = "bind"
      /\ \/ pc' = "grow"
         \/ pc' = "bind" /\ runtimes = MAX_CONNECTIONS
  BY <1>1, <1>2, ConstantsAssumption DEF AdjustChildren, Clamp
<1>4. /\ UsedEntries' = UsedEntries /\ FreeEntries' = FreeEntries
      /\ BoundSlots' = BoundSlots
  BY <1>1 DEF UsedEntries, FreeEntries, BoundSlots
<1>5. Unshared'
  BY <1>1, <1>4 DEF DistinctEntries, FreeAreUnbound, DistinctBindings
<1>6. CallContext'
  BY <1>1, <1>3 DEF CallContext
<1>7. BindAlwaysFindsFree'
  BY <1>1, <1>3, <1>4, FullTableHasFree DEF BindAlwaysFindsFree
<1>. QED  BY <1>5, <1>6, <1>7

LEMMA OtherUnshared ==
  ASSUME DistinctInv,
         \/ NothingToRetire \/ FoundLostSession \/ NextSlot
         \/ HandleClient /\ ~ HandleStop
         \/ Environment \/ UNCHANGED vars
  PROVE  (Unshared /\ CallContext /\ BindAlwaysFindsFree)'
<1>. USE DEF DistinctInv, Unshared, Tracked, TypeOK
<1>1. UNCHANGED <<p4runtime_id, pid, in_use>>
  BY DEF NothingToRetire, FoundLostSession, NextSlot, HandleClient, NoClient,
         AcceptClient, ClientHangsUp, ReadCommand, HandleUpdate, AnnounceShutdown,
         HandleShutdown, HandleQuery, Reply, Environment, OvsOpensSession, OvsClosesSession,
         ChildExits, SigchldHandler, vars, tableVars
<1>2. /\ UsedEntries' = UsedEntries /\ FreeEntries' = FreeEntries
      /\ BoundSlots' = BoundSlots
  BY <1>1 DEF UsedEntries, FreeEntries, BoundSlots
<1>3. Unshared'
  BY <1>1, <1>2 DEF DistinctEntries, FreeAreUnbound, DistinctBindings
<1>4. CallContext' /\ (pc' = "bind" => pc = "bind")
  <2>1. CASE NothingToRetire
    BY <2>1 DEF NothingToRetire, CallContext, callVars
  <2>2. CASE FoundLostSession \/ NextSlot
    BY <2>2 DEF FoundLostSession, NextSlot, CallContext, callVars
  <2>3. CASE HandleUpdate
    <3>1. ret' = "reply" /\ pc' \in {"grow", "shrink", "reply"}
      BY <2>3 DEF HandleUpdate, AdjustChildren
    <3>. QED  BY <3>1 DEF CallContext
  <2>4. CASE NoClient \/ AcceptClient \/ ClientHangsUp \/ ReadCommand
             \/ AnnounceShutdown \/ HandleShutdown \/ HandleQuery \/ Reply
    BY <2>4 DEF NoClient, AcceptClient, ClientHangsUp, ReadCommand,
                AnnounceShutdown, HandleShutdown, HandleQuery, Reply, CallContext, callVars
  <2>5. CASE Environment \/ UNCHANGED vars
    BY <2>5 DEF Environment, OvsOpensSession, OvsClosesSession, ChildExits,
                SigchldHandler, CallContext, vars, callVars
  <2>. QED  BY <2>1, <2>2, <2>3, <2>4, <2>5 DEF HandleClient
<1>5. BindAlwaysFindsFree'
  BY <1>2, <1>4 DEF BindAlwaysFindsFree
<1>. QED  BY <1>3, <1>4, <1>5

-----------------------------------------------------------------------------
(* The theorems *)

LEMMA DistinctInit == Init => DistinctInv
BY TrackedInit
DEF Init, DistinctInv, Unshared, DistinctEntries, FreeAreUnbound, FreeEntries,
    DistinctBindings, CallContext, BindAlwaysFindsFree, BoundSlots, UsedEntries

LEMMA DistinctStep ==
  ASSUME ~ PidReuse, DistinctInv, Tracked', [Next]_vars
  PROVE  DistinctInv'
<1>1. TypeOK'
  BY DEF Tracked
<1>. QED  BY <1>1, SpawnUnshared, RetireUnshared, LinkAddUnshared, LinkDelUnshared,
             StopUnshared, FoundNewUnshared, OtherUnshared
          DEF DistinctInv, Next, Daemon, Adjust, CheckOvsSessions, HandleClient

LEMMA DistinctAlways == ~ PidReuse => (Spec => []DistinctInv)
<1>. SUFFICES ASSUME ~ PidReuse PROVE Spec => []DistinctInv
  OBVIOUS
<1>1. DistinctInv /\ Tracked' /\ [Next]_vars => DistinctInv'
  BY DistinctStep
<1>. QED  BY DistinctInit, <1>1, TrackedAlways, PTL DEF Spec

\* Two sessions never share a runtime, whatever crashes and whatever is stopped:
\* a stop leaves bindings to runtimes that are gone, and no runtime started later
\* is taken for one of those.
THEOREM BindingsStayDistinct == ~ PidReuse => (Spec => []DistinctBindings)
BY DistinctAlways, PTL DEF DistinctInv, Unshared

\* link_add finds a runtime also after crashes, stop and shutdown.
THEOREM BindSucceedsAfterCrash == ~ PidReuse => (Spec => []BindAlwaysFindsFree)
BY DistinctAlways, PTL DEF DistinctInv

\* What adjust_children retires serves no session.
LEMMA StepEndsNoService ==
  DistinctInv /\ [Next]_vars
    => [ (\E s \in BoundSlots : p4runtime_id[s] \in running \ (running' \cup zombie'))
           => pc = "command" /\ cmd.op = "stop" ]_vars
<1>. SUFFICES ASSUME DistinctInv, [Next]_vars, NEW s \in BoundSlots,
                     p4runtime_id[s] \in running \ (running' \cup zombie')
              PROVE  pc = "command" /\ cmd.op = "stop"
  OBVIOUS
<1>1. ~ RetireRuntime
  <2>. SUFFICES ASSUME RetireRuntime PROVE FALSE
    OBVIOUS
  <2>1. PICK j \in FreeEntries : running' = running \ {pid[j]}
    BY DEF RetireRuntime, TerminateChild, First
  <2>. QED  BY <2>1 DEF DistinctInv, Unshared, FreeAreUnbound, BoundSlots
<1>2. CASE HandleStop
  BY <1>2 DEF HandleStop
<1>3. CASE ~ HandleStop
  BY <1>1, <1>3
  DEF Next, Daemon, Adjust, CheckOvsSessions, HandleClient, Environment,
      SpawnRuntime, NothingToRetire, FoundNewSession, LinkAdd, FoundLostSession,
      LinkDel, NextSlot, NoClient, AcceptClient, ClientHangsUp, ReadCommand,
      HandleUpdate, AnnounceShutdown, HandleShutdown, HandleQuery, Reply, OvsOpensSession,
      OvsClosesSession, ChildExits, SigchldHandler, vars, procVars
<1>. QED  BY <1>2, <1>3

\* Only the stop command of a client makes the daemon end a runtime that serves
\* a session.
THEOREM OnlyStopEndsService == ~ PidReuse => (Spec => ServingEndsOnlyByStop)
<1>. SUFFICES ASSUME ~ PidReuse PROVE Spec => ServingEndsOnlyByStop
  OBVIOUS
<1>1. DistinctInv /\ [Next]_vars
        => [ (\E s \in BoundSlots : p4runtime_id[s] \in running \ (running' \cup zombie'))
               => pc = "command" /\ cmd.op = "stop" ]_vars
  BY StepEndsNoService
<1>. QED  BY <1>1, DistinctAlways, PTL DEF Spec, ServingEndsOnlyByStop
-----------------------------------------------------------------------------
(* Without stop, both tables agree in full *)

NeverStopped == ~ PidReuse /\ \A c \in Commands : c.op # "stop"

\* Every binding names a reserved entry.
BoundReserved ==
  \A s \in BoundSlots : \E j \in Slots : in_use[j] /\ pid[j] = p4runtime_id[s]

LEMMA SpawnReserved ==
  ASSUME DistinctInv, BoundReserved, SpawnRuntime PROVE BoundReserved'
<1>. USE DEF DistinctInv, Tracked, TypeOK
<1>1. PICK p \in Forkable, j \in Slots :
        /\ First(j, EmptyEntries)
        /\ pid' = [pid EXCEPT ![j] = p]
        /\ in_use' = [in_use EXCEPT ![j] = FALSE]
  BY SpawnFindsEmpty
<1>2. pid[j] = NoPid
  BY <1>1 DEF First, EmptyEntries, UsedEntries
<1>. QED  BY <1>1, <1>2 DEF SpawnRuntime, BoundReserved, BoundSlots

LEMMA RetireReserved ==
  ASSUME DistinctInv, BoundReserved, RetireRuntime PROVE BoundReserved'
<1>. USE DEF DistinctInv, Tracked, TypeOK
<1>1. PICK j \in Slots : /\ j \in FreeEntries
                         /\ pid' = [pid EXCEPT ![j] = NoPid]
                         /\ in_use' = [in_use EXCEPT ![j] = FALSE]
  BY DEF RetireRuntime, First
<1>2. ~ in_use[j] /\ UNCHANGED p4runtime_id
  BY <1>1 DEF FreeEntries, RetireRuntime
<1>. QED  BY <1>1, <1>2 DEF BoundReserved, BoundSlots

LEMMA LinkAddReserved ==
  ASSUME DistinctInv, BoundReserved, LinkAdd
  PROVE  /\ BoundReserved'
         /\ i \notin BoundSlots /\ BoundSlots' = BoundSlots \cup {i}
<1>. USE DEF DistinctInv, Tracked, TypeOK
<1>1. PICK j \in Slots : /\ j \in FreeEntries
                         /\ in_use' = [in_use EXCEPT ![j] = TRUE]
                         /\ p4runtime_id' = [p4runtime_id EXCEPT ![i] = pid[j]]
  BY DEF LinkAdd, Reserve, BindAlwaysFindsFree, First
<1>2. p4runtime_id[i] = NoPid /\ UNCHANGED pid /\ pid[j] # NoPid
  BY <1>1 DEF LinkAdd, CallContext, FreeEntries, UsedEntries
<1>3. i \notin BoundSlots /\ BoundSlots' = BoundSlots \cup {i}
  BY <1>1, <1>2 DEF BoundSlots
<1>4. BoundReserved'
  <2>1. ASSUME NEW s \in BoundSlots', s # i
        PROVE  \E k \in Slots : in_use'[k] /\ pid'[k] = p4runtime_id'[s]
    BY <2>1, <1>1, <1>2, <1>3 DEF BoundReserved, BoundSlots
  <2>2. in_use'[j] /\ pid'[j] = p4runtime_id'[i]
    BY <1>1, <1>2
  <2>. QED  BY <2>1, <2>2 DEF BoundReserved
<1>. QED  BY <1>3, <1>4

\* The entry of session i is found and becomes free.
LEMMA LinkDelReserved ==
  ASSUME DistinctInv, BoundReserved, LinkDel
  PROVE  /\ BoundReserved' /\ FreeEntries' # {}
         /\ i \in BoundSlots /\ BoundSlots' = BoundSlots \ {i}
<1>. USE DEF DistinctInv, Unshared, Tracked, TypeOK
<1>1. /\ i \in BoundSlots /\ UNCHANGED pid
      /\ p4runtime_id' = [p4runtime_id EXCEPT ![i] = NoPid]
  BY DEF LinkDel, Unbind, CallContext, BoundSlots
<1>2. PICK j \in UsedEntries : /\ pid[j] = p4runtime_id[i]
                               /\ in_use' = [in_use EXCEPT ![j] = FALSE]
  <2>1. \E k \in UsedEntries : pid[k] = p4runtime_id[i]
    BY <1>1 DEF BoundReserved, BoundSlots, UsedEntries
  <2>. QED  BY <2>1 DEF LinkDel, LinkDelEntry, First
<1>3. BoundSlots' = BoundSlots \ {i}
  BY <1>1 DEF BoundSlots
<1>4. j \in FreeEntries'
  BY <1>1, <1>2 DEF FreeEntries, UsedEntries
<1>5. BoundReserved'
  <2>. SUFFICES ASSUME NEW s \in BoundSlots'
                PROVE  \E k \in Slots : in_use'[k] /\ pid'[k] = p4runtime_id'[s]
    BY DEF BoundReserved
  <2>1. s \in BoundSlots /\ s # i /\ p4runtime_id'[s] = p4runtime_id[s]
    BY <1>1, <1>3 DEF BoundSlots
  <2>2. PICK k \in Slots : in_use[k] /\ pid[k] = p4runtime_id[s]
    BY <2>1 DEF BoundReserved
  <2>3. k # j
    BY <2>1, <2>2, <1>1, <1>2 DEF DistinctBindings
  <2>. QED  BY <2>1, <2>2, <2>3, <1>1, <1>2 DEF UsedEntries
<1>. QED  BY <1>1, <1>3, <1>4, <1>5

LEMMA OtherReserved ==
  ASSUME NeverStopped, DistinctInv, BoundReserved, [Next]_vars,
         ~ SpawnRuntime, ~ RetireRuntime, ~ LinkAdd, ~ LinkDel
  PROVE  BoundReserved' /\ UNCHANGED <<p4runtime_id, pid, in_use, runtimes>>
<1>1. ~ HandleStop
  BY DEF NeverStopped, HandleStop, DistinctInv, Tracked, TypeOK, NoCommand
<1>2. UNCHANGED <<p4runtime_id, pid, in_use, runtimes>>
  BY <1>1
  DEF Next, Daemon, Adjust, CheckOvsSessions, HandleClient, Environment,
      NothingToRetire, FoundNewSession, FoundLostSession, NextSlot, NoClient,
      AcceptClient, ClientHangsUp, ReadCommand, HandleUpdate, AnnounceShutdown,
      HandleShutdown, HandleQuery, Reply, OvsOpensSession, OvsClosesSession, ChildExits,
      SigchldHandler, vars, tableVars
<1>. QED  BY <1>2 DEF BoundReserved, BoundSlots

LEMMA ReservedAlways == NeverStopped => (Spec => [](DistinctInv /\ BoundReserved))
<1>. SUFFICES ASSUME NeverStopped PROVE Spec => [](DistinctInv /\ BoundReserved)
  OBVIOUS
<1>1. Init => BoundReserved
  BY DEF Init, BoundReserved, BoundSlots
<1>2. DistinctInv /\ BoundReserved /\ [Next]_vars => BoundReserved'
  BY SpawnReserved, RetireReserved, LinkAddReserved, LinkDelReserved, OtherReserved
<1>3. Spec => []DistinctInv
  BY DistinctAlways DEF NeverStopped
<1>. QED  BY <1>1, <1>2, <1>3, PTL DEF Spec

\* The tables agree although runtimes crash and are shut down, for the daemon
\* keeps the entry of a runtime that is gone.
THEOREM ReservationsSurviveCrashes == NeverStopped => (Spec => []ReservationsMatch)
<1>1. DistinctInv /\ BoundReserved => ReservationsMatch
  BY DEF DistinctInv, Unshared, DistinctEntries, DistinctBindings, BoundReserved,
         ReservationsMatch
<1>. QED  BY <1>1, ReservedAlways, PTL

-----------------------------------------------------------------------------
(* Without commands, the pool follows the sessions *)

Unattended == ~ PidReuse /\ Commands = {}

\* Runtimes beyond those that serve a session.
Excess == runtimes - Cardinality(BoundSlots)

\* How many those are at each point of the main loop.
PoolBounds ==
  /\ pc \notin {"command", "pkill", "reply", "exited"}
  /\ pc \in {"poll", "recheck", "unbind", "next", "accept", "read"} =>
       Excess \in 0 .. INIT_CLIENTS
  /\ pc = "bind" => Excess \in 1 .. INIT_CLIENTS + 1
  /\ pc = "grow" =>
       \/ ret = "poll" /\ BoundSlots = {} /\ target <= INIT_CLIENTS
       \/ ret = "bind" /\ Excess \in 0 .. INIT_CLIENTS /\ target = runtimes + 1
  /\ pc = "shrink" =>
       /\ ret = "next" /\ target = runtimes - 1 /\ FreeEntries # {}
       /\ Excess \in 1 .. INIT_CLIENTS + 1

\* The bound slots are finitely many, at most as many as the table is long, and
\* fewer when slot i is not among them.
LEMMA BoundFinite ==
  ASSUME TypeOK
  PROVE  /\ IsFiniteSet(BoundSlots) /\ Cardinality(BoundSlots) \in Nat
         /\ i \notin BoundSlots => Cardinality(BoundSlots) < MAX_CONNECTIONS
<1>1. IsFiniteSet(BoundSlots) /\ Cardinality(BoundSlots) \in Nat
  BY SlotsFinite, FS_Subset, FS_CardinalityType DEF BoundSlots
<1>2. ASSUME i \notin BoundSlots PROVE Cardinality(BoundSlots) < MAX_CONNECTIONS
  <2>1. IsFiniteSet(Slots \ {i}) /\ Cardinality(Slots \ {i}) = MAX_CONNECTIONS - 1
    BY SlotsFinite, FS_RemoveElement DEF TypeOK
  <2>2. BoundSlots \subseteq Slots \ {i}
    BY <1>2 DEF BoundSlots
  <2>3. Cardinality(BoundSlots) <= Cardinality(Slots \ {i})
    BY <2>1, <2>2, FS_Subset
  <2>. QED  BY <1>1, <2>1, <2>3, ConstantsAssumption
<1>. QED  BY <1>1, <1>2

LEMMA PoolAdjust ==
  ASSUME DistinctInv, BoundReserved, PoolBounds, SpawnRuntime \/ RetireRuntime
  PROVE  PoolBounds'
<1>. USE ConstantsAssumption, BoundFinite DEF DistinctInv, Tracked, TypeOK
<1>1. BoundSlots' = BoundSlots
  BY DEF SpawnRuntime, RetireRuntime, BoundSlots
<1>2. CASE SpawnRuntime
  <2>1. /\ pc = "grow" /\ runtimes' = runtimes + 1 /\ UNCHANGED <<target, ret>>
        /\ pc' = IF runtimes + 1 < target THEN "grow" ELSE ret
    BY <1>2 DEF SpawnRuntime, callVars
  <2>2. CASE ret = "poll"
    <3>1. Cardinality(BoundSlots) = 0 /\ target <= INIT_CLIENTS
      BY <2>1, <2>2, FS_EmptySet DEF PoolBounds
    <3>2. runtimes \in Nat /\ runtimes < target
      BY <2>1, UsedFinite DEF LoopBounds, RuntimeCount
    <3>. QED  BY <1>1, <2>1, <2>2, <3>1, <3>2 DEF PoolBounds, Excess
  <2>3. CASE ret = "bind"
    BY <1>1, <2>1, <2>3 DEF PoolBounds, Excess
  <2>. QED  BY <2>1, <2>2, <2>3 DEF PoolBounds
<1>3. CASE RetireRuntime
  <2>1. /\ pc = "shrink" /\ runtimes' = runtimes - 1 /\ UNCHANGED <<target, ret>>
        /\ pc' = IF runtimes - 1 > target THEN "shrink" ELSE ret
    BY <1>3 DEF RetireRuntime, callVars
  <2>. QED  BY <1>1, <2>1 DEF PoolBounds, Excess
<1>. QED  BY <1>2, <1>3

LEMMA PoolFoundNew ==
  ASSUME DistinctInv, PoolBounds, FoundNewSession PROVE PoolBounds'
<1>. USE ConstantsAssumption, BoundFinite DEF DistinctInv, Tracked, TypeOK
<1>1. /\ pc = "poll" /\ i \notin BoundSlots
      /\ UNCHANGED <<p4runtime_id, runtimes>>
      /\ AdjustChildren(runtimes + 1, "bind")
  BY DEF FoundNewSession, BoundSlots, tableVars
<1>2. runtimes \in Nat /\ runtimes <= MAX_CONNECTIONS
  BY UsedFinite DEF RuntimeCount
<1>3. /\ ret' = "bind"
      /\ \/ pc' = "grow" /\ target' = runtimes + 1
         \/ pc' = "bind" /\ runtimes = MAX_CONNECTIONS
  BY <1>1, <1>2 DEF AdjustChildren, Clamp
<1>4. BoundSlots' = BoundSlots
  BY <1>1 DEF BoundSlots
<1>. QED  BY <1>1, <1>2, <1>3, <1>4 DEF PoolBounds, Excess

LEMMA PoolLinkAdd ==
  ASSUME DistinctInv, BoundReserved, PoolBounds, LinkAdd PROVE PoolBounds'
<1>. USE ConstantsAssumption, BoundFinite DEF DistinctInv, Tracked, TypeOK
<1>1. Cardinality(BoundSlots') = Cardinality(BoundSlots) + 1
  BY LinkAddReserved, FS_AddElement
<1>2. pc = "bind" /\ pc' = "recheck" /\ UNCHANGED runtimes
  BY DEF LinkAdd
<1>. QED  BY <1>1, <1>2 DEF PoolBounds, Excess

LEMMA PoolLinkDel ==
  ASSUME DistinctInv, BoundReserved, PoolBounds, LinkDel PROVE PoolBounds'
<1>. USE ConstantsAssumption, BoundFinite DEF DistinctInv, Tracked, TypeOK
<1>1. Cardinality(BoundSlots') = Cardinality(BoundSlots) - 1 /\ FreeEntries' # {}
  BY LinkDelReserved, FS_RemoveElement
<1>2. pc = "unbind" /\ UNCHANGED runtimes /\ AdjustChildren(runtimes - 1, "next")
  BY DEF LinkDel
<1>3. runtimes \in Nat /\ runtimes <= MAX_CONNECTIONS
  BY UsedFinite DEF RuntimeCount
<1>4. pc' = "shrink" /\ ret' = "next" /\ target' = runtimes - 1
  BY <1>2, <1>3 DEF AdjustChildren, Clamp
<1>. QED  BY <1>1, <1>2, <1>4 DEF PoolBounds, Excess

\* The other steps change neither the pool nor the bindings.
LEMMA PoolOther ==
  ASSUME Unattended, DistinctInv, BoundReserved, PoolBounds, [Next]_vars,
         ~ SpawnRuntime, ~ RetireRuntime, ~ FoundNewSession, ~ LinkAdd, ~ LinkDel
  PROVE  PoolBounds'
<1>. USE DEF DistinctInv, Tracked, TypeOK
<1>1. UNCHANGED <<p4runtime_id, pid, in_use, runtimes>>
  BY OtherReserved DEF Unattended, NeverStopped
<1>2. BoundSlots' = BoundSlots /\ FreeEntries' = FreeEntries
  BY <1>1 DEF BoundSlots, FreeEntries, UsedEntries
<1>3. \/ UNCHANGED <<pc, target, ret>>
      \/ /\ pc \in {"poll", "recheck", "next", "accept", "read"}
         /\ pc' \in {"poll", "unbind", "accept", "read"}
  <2>1. ~ NothingToRetire
    BY DEF NothingToRetire, PoolBounds
  <2>2. /\ ~ ReadCommand /\ ~ HandleUpdate /\ ~ HandleStop /\ ~ HandleShutdown
        /\ ~ AnnounceShutdown /\ ~ HandleQuery /\ ~ Reply
    BY DEF Unattended, ReadCommand, HandleUpdate, HandleStop, HandleShutdown,
           AnnounceShutdown, HandleQuery, Reply, PoolBounds
  <2>. QED  BY <2>1, <2>2
            DEF Next, Daemon, Adjust, CheckOvsSessions, HandleClient, Environment,
                FoundLostSession, NextSlot, NoClient, AcceptClient, ClientHangsUp,
                OvsOpensSession, OvsClosesSession, ChildExits, SigchldHandler,
                vars, callVars
<1>. QED  BY <1>1, <1>2, <1>3 DEF PoolBounds, Excess

\* The pool has a runtime for each bound session and at most INIT_CLIENTS more,
\* for every number of sessions and whatever crashes.
THEOREM PoolFollowsSessions == Unattended => (Spec => []PoolTracksSessions)
<1>. SUFFICES ASSUME Unattended PROVE Spec => []PoolTracksSessions
  OBVIOUS
<1>1. Init => PoolBounds
  BY ClampBounds, ConstantsAssumption DEF Init, PoolBounds, BoundSlots
<1>2. DistinctInv /\ BoundReserved /\ PoolBounds /\ [Next]_vars => PoolBounds'
  BY PoolAdjust, PoolFoundNew, PoolLinkAdd, PoolLinkDel, PoolOther
<1>3. DistinctInv /\ PoolBounds => PoolTracksSessions
  BY BoundFinite, ConstantsAssumption
  DEF DistinctInv, Tracked, TypeOK, PoolBounds, PoolTracksSessions, Excess
<1>4. Spec => [](DistinctInv /\ BoundReserved)
  BY ReservedAlways DEF Unattended, NeverStopped
<1>. QED  BY <1>1, <1>2, <1>3, <1>4, PTL DEF Spec
================================================================================
