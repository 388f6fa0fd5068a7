-------------------------- MODULE BypassDetectorProofs --------------------------
(***************************************************************************)
(* The ring of verdicts of check_p4_execution implements the sliding       *)
(* window AlarmWindow, for every length of the window and every threshold, *)
(* whatever the traffic; and its verdicts, for every number of slots, are  *)
(* bad only for a cause, and right where nothing disturbs the readings.    *)
(***************************************************************************)
EXTENDS DetectorVerdicts, FiniteSetTheorems, FunctionTheorems, TLAPS

-----------------------------------------------------------------------------
(* Positions in the ring *)

\* Where the k-th oldest of n verdicts is, when the next goes to position x.
Position(x, n, k) ==
  IF x + k - 1 >= n THEN x + k - 1 - n ELSE x + WINDOW - n + k - 1

LEMMA ModOnce ==
  ASSUME NEW a \in Nat, a < 2 * WINDOW
  PROVE  a % WINDOW = IF a < WINDOW THEN a ELSE a - WINDOW
BY DetectorAssumption

LEMMA PositionIsMod ==
  ASSUME NEW x \in 0 .. WINDOW - 1, NEW n \in 0 .. WINDOW, NEW k \in 1 .. n
  PROVE  /\ (x + WINDOW - n + k - 1) % WINDOW = Position(x, n, k)
         /\ Position(x, n, k) \in 0 .. WINDOW - 1
<1>. DEFINE a == x + WINDOW - n + k - 1
<1>1. a \in Nat /\ a < 2 * WINDOW
  BY DetectorAssumption
<1>2. a % WINDOW = IF a < WINDOW THEN a ELSE a - WINDOW
  BY <1>1, ModOnce
<1>. QED  BY <1>2, DetectorAssumption DEF Position

\* The position after x, and what is found from there.
After(x) == IF x + 1 = WINDOW THEN 0 ELSE x + 1

LEMMA NextIndexIs ==
  ASSUME NEW x \in 0 .. WINDOW - 1
  PROVE  NextIndex(x) = After(x) /\ After(x) \in 0 .. WINDOW - 1
<1>1. x + 1 \in Nat /\ x + 1 < 2 * WINDOW
  BY DetectorAssumption
<1>. QED  BY <1>1, ModOnce, DetectorAssumption DEF NextIndex, After

LEMMA PositionWhileFilling ==
  ASSUME NEW x \in 0 .. WINDOW - 1, NEW n \in 0 .. WINDOW - 1
  PROVE  /\ \A k \in 1 .. n : /\ Position(After(x), n + 1, k) = Position(x, n, k)
                             /\ Position(x, n, k) # x
         /\ Position(After(x), n + 1, n + 1) = x
BY DetectorAssumption DEF Position, After

LEMMA PositionWhenFull ==
  ASSUME NEW x \in 0 .. WINDOW - 1
  PROVE  /\ \A k \in 1 .. WINDOW - 1 :
              /\ Position(After(x), WINDOW, k) = Position(x, WINDOW, k + 1)
              /\ Position(x, WINDOW, k + 1) # x
         /\ Position(After(x), WINDOW, WINDOW) = x
BY DetectorAssumption DEF Position, After

\* A full ring has each of its entries at one position.
LEMMA PositionsFull ==
  ASSUME NEW x \in 0 .. WINDOW - 1
  PROVE  /\ \A k, m \in 1 .. WINDOW :
              Position(x, WINDOW, k) = Position(x, WINDOW, m) => k = m
         /\ \A p \in 0 .. WINDOW - 1 :
              \E k \in 1 .. WINDOW : Position(x, WINDOW, k) = p
<1>1. \A k, m \in 1 .. WINDOW :
        Position(x, WINDOW, k) = Position(x, WINDOW, m) => k = m
  BY DetectorAssumption DEF Position
<1>2. ASSUME NEW p \in 0 .. WINDOW - 1
      PROVE  \E k \in 1 .. WINDOW : Position(x, WINDOW, k) = p
  <2>1. CASE p >= x
    <3>1. p - x + 1 \in 1 .. WINDOW /\ Position(x, WINDOW, p - x + 1) = p
      BY <2>1, DetectorAssumption DEF Position
    <3>. QED  BY <3>1
  <2>2. CASE p < x
    <3>1. /\ p + WINDOW - x + 1 \in 1 .. WINDOW
          /\ Position(x, WINDOW, p + WINDOW - x + 1) = p
      BY <2>2, DetectorAssumption DEF Position
    <3>. QED  BY <3>1
  <2>. QED  BY <2>1, <2>2, DetectorAssumption
<1>. QED  BY <1>1, <1>2

-----------------------------------------------------------------------------
(* The ring *)

RingType ==
  /\ history \in [0 .. WINDOW - 1 -> {0, 1}]
  /\ idx \in 0 .. WINDOW - 1
  /\ filled \in 0 .. WINDOW

\* The ring as Judge leaves it, if it raises no alarm.
Ring == [history EXCEPT ![idx] = Detected]
Entries == IF filled < WINDOW THEN filled + 1 ELSE filled
AllRecent ==
  [k \in 1 .. Entries |-> Ring[(NextIndex(idx) + WINDOW - Entries + k - 1) % WINDOW]]

LEMMA DetectedBit == Detected \in {0, 1}
BY DEF Detected

LEMMA RecentIs ==
  ASSUME RingType
  PROVE  /\ Recent = [k \in 1 .. filled |-> history[Position(idx, filled, k)]]
         /\ Recent \in Seq({0, 1}) /\ Len(Recent) = filled
<1>1. \A k \in 1 .. filled :
        /\ (idx + WINDOW - filled + k - 1) % WINDOW = Position(idx, filled, k)
        /\ Position(idx, filled, k) \in 0 .. WINDOW - 1
  BY PositionIsMod DEF RingType
<1>2. Recent = [k \in 1 .. filled |-> history[Position(idx, filled, k)]]
  BY <1>1 DEF Recent
<1>3. Recent \in [1 .. filled -> {0, 1}] /\ filled \in Nat
  BY <1>1, <1>2 DEF RingType
<1>. QED  BY <1>2, <1>3

LEMMA AllRecentIs ==
  ASSUME RingType
  PROVE  /\ Entries \in 1 .. WINDOW
         /\ After(idx) \in 0 .. WINDOW - 1
         /\ \A k \in 1 .. Entries :
              Position(After(idx), Entries, k) \in 0 .. WINDOW - 1
         /\ AllRecent = [k \in 1 .. Entries |-> Ring[Position(After(idx), Entries, k)]]
         /\ AllRecent \in Seq({0, 1}) /\ Len(AllRecent) = Entries
<1>1. Entries \in 1 .. WINDOW
  BY DetectorAssumption DEF Entries, RingType
<1>2. NextIndex(idx) = After(idx) /\ After(idx) \in 0 .. WINDOW - 1
  BY NextIndexIs DEF RingType
<1>3. \A k \in 1 .. Entries :
        /\ (After(idx) + WINDOW - Entries + k - 1) % WINDOW
              = Position(After(idx), Entries, k)
        /\ Position(After(idx), Entries, k) \in 0 .. WINDOW - 1
  BY <1>1, <1>2, PositionIsMod
<1>4. AllRecent = [k \in 1 .. Entries |-> Ring[Position(After(idx), Entries, k)]]
  BY <1>2, <1>3 DEF AllRecent
<1>5. Ring \in [0 .. WINDOW - 1 -> {0, 1}]
  BY DetectedBit DEF Ring, RingType
<1>6. AllRecent \in [1 .. Entries -> {0, 1}] /\ Entries \in Nat
  BY <1>1, <1>3, <1>4, <1>5
<1>. QED  BY <1>1, <1>2, <1>3, <1>4, <1>6

\* Sequences of the same length with the same elements are equal.
LEMMA SameSequence ==
  ASSUME NEW S, NEW s \in Seq(S), NEW t \in Seq(S), Len(s) = Len(t),
         \A k \in 1 .. Len(s) : s[k] = t[k]
  PROVE  s = t
OBVIOUS

\* Writing a verdict at idx and moving idx on is appending it and dropping the
\* oldest of more than WINDOW.
LEMMA RingAppends ==
  ASSUME RingType
  PROVE  AllRecent = Alarm!Newest(Append(Recent, Detected))
<1>. DEFINE new == Append(Recent, Detected)
<1>1. new \in Seq({0, 1}) /\ Len(new) = filled + 1
  BY RecentIs, DetectedBit DEF RingType
<1>2. /\ new[filled + 1] = Detected
      /\ \A k \in 1 .. filled : new[k] = history[Position(idx, filled, k)]
  BY RecentIs, DetectedBit DEF RingType
<1>3. \A p \in 0 .. WINDOW - 1 : Ring[p] = IF p = idx THEN Detected ELSE history[p]
  BY DEF Ring, RingType
<1>4. \A k \in 1 .. Entries :
        /\ Position(After(idx), Entries, k) \in 0 .. WINDOW - 1
        /\ AllRecent[k] = Ring[Position(After(idx), Entries, k)]
  BY AllRecentIs
<1>. HIDE DEF new
<1>5. CASE filled < WINDOW
  <2>1. /\ Entries = filled + 1 /\ filled \in 0 .. WINDOW - 1 /\ idx \in 0 .. WINDOW - 1
        /\ Alarm!Newest(new) = new
    BY <1>1, <1>5, DetectorAssumption DEF Entries, Alarm!Newest, RingType
  <2>2. /\ \A k \in 1 .. filled :
              /\ Position(After(idx), filled + 1, k) = Position(idx, filled, k)
              /\ Position(idx, filled, k) # idx
        /\ Position(After(idx), filled + 1, filled + 1) = idx
    BY <2>1, PositionWhileFilling
  <2>3. ASSUME NEW k \in 1 .. filled PROVE AllRecent[k] = new[k]
    <3>1. k \in 1 .. Entries
      BY <2>1
    <3>. QED  BY <3>1, <2>1, <2>2, <1>2, <1>3, <1>4
  <2>4. AllRecent[filled + 1] = new[filled + 1]
    <3>1. filled + 1 \in 1 .. Entries
      BY <2>1
    <3>. QED  BY <3>1, <2>1, <2>2, <1>2, <1>3, <1>4
  <2>5. \A k \in 1 .. Len(AllRecent) : AllRecent[k] = new[k]
    BY <2>1, <2>3, <2>4, AllRecentIs
  <2>6. AllRecent = new
    BY <2>1, <2>5, <1>1, AllRecentIs, SameSequence
  <2>. QED  BY <2>1, <2>6 DEF new
<1>6. CASE filled = WINDOW
  <2>1. /\ Entries = WINDOW /\ WINDOW \in Nat \ {0} /\ idx \in 0 .. WINDOW - 1
        /\ Alarm!Newest(new) = Tail(new)
    BY <1>1, <1>6, DetectorAssumption DEF Entries, Alarm!Newest, RingType
  <2>2. /\ Tail(new) \in Seq({0, 1}) /\ Len(Tail(new)) = WINDOW
        /\ \A k \in 1 .. WINDOW : Tail(new)[k] = new[k + 1]
    BY <2>1, <1>1, <1>6
  <2>3. /\ \A k \in 1 .. WINDOW - 1 :
              /\ Position(After(idx), WINDOW, k) = Position(idx, WINDOW, k + 1)
              /\ Position(idx, WINDOW, k + 1) # idx
        /\ Position(After(idx), WINDOW, WINDOW) = idx
    BY <2>1, PositionWhenFull
  <2>4. ASSUME NEW k \in 1 .. WINDOW - 1 PROVE AllRecent[k] = new[k + 1]
    <3>1. k \in 1 .. Entries /\ k + 1 \in 1 .. filled
      BY <2>1, <1>6
    <3>. QED  BY <3>1, <2>1, <2>3, <1>2, <1>3, <1>4, <1>6
  <2>5. AllRecent[WINDOW] = new[WINDOW + 1]
    <3>1. WINDOW \in 1 .. Entries
      BY <2>1
    <3>. QED  BY <3>1, <2>1, <2>3, <1>2, <1>3, <1>4, <1>6
  <2>6. \A k \in 1 .. Len(AllRecent) : AllRecent[k] = Tail(new)[k]
    BY <2>1, <2>2, <2>4, <2>5, AllRecentIs
  <2>7. AllRecent = Tail(new)
    BY <2>1, <2>2, <2>6, AllRecentIs, SameSequence
  <2>. QED  BY <2>1, <2>7 DEF new
<1>. QED  BY <1>5, <1>6, DetectorAssumption DEF RingType

\* The bad verdicts in the ring are as many as those in the window.
BadInRing == {k \in 0 .. Entries - 1 : Ring[k] = 1}
BadInWindow == {k \in DOMAIN AllRecent : AllRecent[k] = 1}

LEMMA SameCount ==
  ASSUME RingType, Entries = WINDOW
  PROVE  Cardinality(BadInRing) = Cardinality(BadInWindow)
<1>. DEFINE f == [k \in BadInWindow |-> Position(After(idx), WINDOW, k)]
<1>1. /\ DOMAIN AllRecent = 1 .. WINDOW
      /\ \A k \in 1 .. WINDOW :
           /\ Position(After(idx), WINDOW, k) \in 0 .. WINDOW - 1
           /\ AllRecent[k] = Ring[Position(After(idx), WINDOW, k)]
  BY AllRecentIs
<1>2. /\ \A k, m \in 1 .. WINDOW :
           Position(After(idx), WINDOW, k) = Position(After(idx), WINDOW, m) => k = m
      /\ \A p \in 0 .. WINDOW - 1 :
           \E k \in 1 .. WINDOW : Position(After(idx), WINDOW, k) = p
  BY AllRecentIs, PositionsFull
<1>3. /\ BadInWindow = {k \in 1 .. WINDOW : AllRecent[k] = 1}
      /\ BadInRing = {k \in 0 .. WINDOW - 1 : Ring[k] = 1}
  BY <1>1 DEF BadInWindow, BadInRing
<1>4. f \in Bijection(BadInWindow, BadInRing)
  <2>1. f \in [BadInWindow -> BadInRing]
    BY <1>1, <1>3
  <2>2. \A k, m \in BadInWindow : f[k] = f[m] => k = m
    BY <1>2, <1>3
  <2>3. \A p \in BadInRing : \E k \in BadInWindow : f[k] = p
    BY <1>1, <1>2, <1>3
  <2>. HIDE DEF f
  <2>. QED  BY <2>1, <2>2, <2>3, Fun_IsBij
<1>5. IsFiniteSet(BadInWindow)
  <2>1. IsFiniteSet(1 .. WINDOW)
    BY FS_Interval, DetectorAssumption
  <2>2. BadInWindow \subseteq 1 .. WINDOW
    BY <1>3
  <2>. QED  BY <2>1, <2>2, FS_Subset
<1>. QED  BY <1>4, <1>5, FS_Bijection DEF ExistsBijection
-----------------------------------------------------------------------------
(* Type correctness *)

\* What bounds the counters, their sum, and the packets still to be remembered.
Sums ==
  /\ \A s \in Slots : writing[s] => counter[s] < MaxExec
  /\ pc = "read" => executions <= i * MaxExec
  /\ pc = "judge" => vm_delta <= fresh

DetectorInv == TypeOK /\ Sums

LEMMA DetectorInit == Init => DetectorInv
<1>. SUFFICES ASSUME Init PROVE DetectorInv
  OBVIOUS
<1>1. 0 \in Slots /\ 0 <= MAX_CONNECTIONS * MaxExec /\ MAX_CONNECTIONS * MaxExec \in Nat
  BY DetectorAssumption DEF Slots
<1>2. /\ {bypass, prev_some, alarm, disturbed} \subseteq BOOLEAN
      /\ uneven \subseteq {"now", "before"}
      /\ pc = "read" /\ i = 0 /\ executions = 0 /\ prev_exec = 0
  BY DEF Init
<1>3. counter \in [Slots -> 0 .. MaxExec] /\ writing \in [Slots -> BOOLEAN]
  BY DEF Init
<1>4. onTheWay \in -Skew .. Skew /\ {fresh, vm_delta} \subseteq 0 .. Burst
  BY DetectorAssumption DEF Init
<1>5. /\ history \in [0 .. WINDOW - 1 -> {0, 1}]
      /\ idx \in 0 .. WINDOW - 1 /\ filled \in 0 .. WINDOW
  BY DetectorAssumption DEF Init
<1>6. 0 * MaxExec = 0 /\ \A s \in Slots : ~ writing[s]
  BY DetectorAssumption DEF Init
<1>. QED  BY <1>1, <1>2, <1>3, <1>4, <1>5, <1>6 DEF DetectorInv, TypeOK, Sums

\* One more counter.
LEMMA SumGrows ==
  ASSUME NEW s \in Slots, NEW e \in Nat, NEW c \in 0 .. MaxExec, e <= s * MaxExec
  PROVE  /\ e + c \in 0 .. MAX_CONNECTIONS * MaxExec
         /\ e + c <= (s + 1) * MaxExec
<1>1. s \in Nat /\ MaxExec \in Nat /\ s + 1 <= MAX_CONNECTIONS /\ MAX_CONNECTIONS \in Nat
  BY DetectorAssumption DEF Slots
<1>2. (s + 1) * MaxExec = s * MaxExec + MaxExec
  BY <1>1
<1>3. (s + 1) * MaxExec <= MAX_CONNECTIONS * MaxExec
  BY <1>1
<1>4. s * MaxExec \in Nat /\ (s + 1) * MaxExec \in Nat /\ MAX_CONNECTIONS * MaxExec \in Nat
  BY <1>1
<1>. QED  BY <1>1, <1>2, <1>3, <1>4

LEMMA TypeReadCounter == DetectorInv /\ ReadCounter => DetectorInv'
<1>. SUFFICES ASSUME DetectorInv, ReadCounter PROVE DetectorInv'
  OBVIOUS
<1>. DEFINE c == IF writing[i] THEN 0 ELSE counter[i]
<1>1. /\ c \in 0 .. MaxExec /\ i \in Slots
      /\ executions \in 0 .. MAX_CONNECTIONS * MaxExec /\ executions <= i * MaxExec
  BY DetectorAssumption DEF DetectorInv, TypeOK, Sums, ReadCounter
<1>2. /\ executions' \in 0 .. MAX_CONNECTIONS * MaxExec
      /\ executions' <= (i + 1) * MaxExec
  BY <1>1, SumGrows DEF ReadCounter
<1>3. /\ i' \in Slots
      /\ \/ pc' = "read" /\ i' = i + 1
         \/ pc' = "nic"
  BY <1>1, DetectorAssumption DEF ReadCounter, Slots
<1>4. disturbed' \in BOOLEAN
  BY <1>1 DEF ReadCounter, DetectorInv, TypeOK
<1>. QED  BY <1>2, <1>3, <1>4
          DEF ReadCounter, DetectorInv, TypeOK, Sums, switchVars, prevVars, ringVars

LEMMA TypeJudge == DetectorInv /\ (StartOver \/ Judge) => DetectorInv'
<1>. SUFFICES ASSUME DetectorInv, StartOver \/ Judge PROVE DetectorInv'
  OBVIOUS
<1>. USE DetectorAssumption DEF DetectorInv, TypeOK
<1>1. /\ pc = "judge" /\ Remember /\ alarm' \in BOOLEAN
      /\ Return /\ disturbed' = FALSE /\ CarryUneven
      /\ UNCHANGED <<switchVars, i>>
  BY DEF StartOver, Judge
<1>3. prev_exec' \in 0 .. MAX_CONNECTIONS * MaxExec /\ prev_some' \in BOOLEAN
  BY <1>1 DEF Remember
<1>4. fresh' \in 0 .. Burst
  <2>1. vm_delta \in 0 .. Burst /\ fresh \in 0 .. Burst /\ vm_delta <= fresh
    BY <1>1 DEF Sums
  <2>. QED  BY <2>1, <1>1 DEF Remember
<1>5. uneven' \subseteq {"now", "before"}
  BY <1>1 DEF CarryUneven
<1>2. /\ history' \in [0 .. WINDOW - 1 -> {0, 1}]
      /\ idx' \in 0 .. WINDOW - 1 /\ filled' \in 0 .. WINDOW
  <2>1. CASE StartOver
    BY <2>1 DEF StartOver, ringVars
  <2>2. CASE Judge
    <3>1. idx' \in 0 .. WINDOW - 1
      BY <2>2, NextIndexIs DEF Judge
    <3>2. \/ ClearHistory
          \/ history' = Ring /\ filled' = Entries
      BY <2>2 DEF Judge, Ring, Entries
    <3>3. Ring \in [0 .. WINDOW - 1 -> {0, 1}] /\ Entries \in 0 .. WINDOW
      BY DetectedBit DEF Ring, Entries
    <3>4. history' \in [0 .. WINDOW - 1 -> {0, 1}] /\ filled' \in 0 .. WINDOW
      BY <3>2, <3>3 DEF ClearHistory
    <3>. QED  BY <3>1, <3>4
  <2>. QED  BY <2>1, <2>2
<1>6. {executions', prev_exec'} \subseteq 0 .. MAX_CONNECTIONS * MaxExec
      /\ vm_delta' \in 0 .. Burst /\ pc' = "sleep"
  BY <1>1, <1>3 DEF Return, Remember
<1>. QED  BY <1>1, <1>2, <1>3, <1>4, <1>5, <1>6 DEF Sums, switchVars

LEMMA TypeOther ==
  DetectorInv /\ (WakeUp \/ ReadNic \/ Traffic \/ UNCHANGED vars) => DetectorInv'
<1>. SUFFICES ASSUME DetectorInv, WakeUp \/ ReadNic \/ Traffic \/ UNCHANGED vars
              PROVE  DetectorInv'
  OBVIOUS
<1>. USE DetectorAssumption
     DEF DetectorInv, TypeOK, Sums, switchVars, ringVars, prevVars, agentVars
<1>1. CASE WakeUp
  <2>1. 0 \in Slots /\ 0 * MaxExec = 0 /\ MAX_CONNECTIONS * MaxExec \in Nat
    BY DEF Slots
  <2>. QED  BY <1>1, <2>1 DEF WakeUp
<1>2. CASE ReadNic
  BY <1>2 DEF ReadNic
<1>3. CASE Traffic
  <2>1. uneven' \subseteq {"now", "before"}
    BY <1>3 DEF Traffic
  <2>2. CASE \E s \in Slots : BeginExecution(s)
    BY <2>1, <2>2 DEF BeginExecution
  <2>3. CASE \E s \in Slots : EndExecution(s)
    <3>1. PICK s \in Slots : EndExecution(s)
      BY <2>3
    <3>2. counter' \in [Slots -> 0 .. MaxExec]
      BY <3>1 DEF EndExecution
    <3>3. onTheWay' \in -Skew .. Skew
      BY <3>1 DEF EndExecution
    <3>. QED  BY <2>1, <3>1, <3>2, <3>3 DEF EndExecution
  <2>4. CASE \E s \in Slots : ReplaceRuntime(s)
    BY <2>1, <2>4 DEF ReplaceRuntime
  <2>5. CASE CountExecuted
    <3>1. onTheWay' \in -Skew .. Skew /\ fresh' \in 0 .. Burst /\ fresh' >= fresh
      BY <2>5 DEF CountExecuted
    <3>. QED  BY <2>1, <2>5, <3>1 DEF CountExecuted
  <2>6. CASE CountBypassed
    BY <2>1, <2>6 DEF CountBypassed
  <2>7. CASE SwitchTurns
    BY <2>1, <2>7 DEF SwitchTurns
  <2>. QED  BY <1>3, <2>2, <2>3, <2>4, <2>5, <2>6, <2>7 DEF Traffic
<1>4. CASE UNCHANGED vars
  BY <1>4 DEF vars
<1>. QED  BY <1>1, <1>2, <1>3, <1>4

LEMMA DetectorAlways == Spec => []DetectorInv
<1>1. DetectorInv /\ [Next]_vars => DetectorInv'
  BY TypeReadCounter, TypeJudge, TypeOther DEF Next, Agent
<1>. QED  BY DetectorInit, <1>1, PTL DEF Spec

\* Every variable of the detector keeps its type and bound, for every number of
\* slots, window and threshold.
THEOREM DetectorTypes == Spec => []TypeOK
BY DetectorAlways, PTL DEF DetectorInv

-----------------------------------------------------------------------------
(* The refinement *)

LEMMA WindowInitially == Init => Alarm!WindowInit
<1>. SUFFICES ASSUME Init PROVE Alarm!WindowInit
  OBVIOUS
<1>1. RingType /\ filled = 0
  BY DetectorAssumption DEF Init, RingType
<1>2. Recent = <<>>
  BY <1>1, RecentIs
<1>. QED  BY <1>2 DEF Init, Alarm!WindowInit

LEMMA JudgeIsVerdict ==
  ASSUME TypeOK, Judge PROVE \E d \in {0, 1} : Alarm!Verdict(d)
<1>1. RingType
  BY DEF TypeOK, RingType
<1>. DEFINE all == Alarm!Newest(Append(Recent, Detected))
            raised == Entries = WINDOW /\ Cardinality(BadInRing) >= THRESHOLD
<1>2. all = AllRecent /\ Len(all) = Entries
  BY <1>1, RingAppends, AllRecentIs
<1>3. Alarm!Alarming(all) <=> raised
  <2>1. Alarm!Alarming(AllRecent)
          <=> Len(AllRecent) = WINDOW /\ Alarm!Cardinality(BadInWindow) >= THRESHOLD
    BY DEF Alarm!Alarming, BadInWindow
  <2>3. Alarm!Cardinality(BadInWindow) = Cardinality(BadInWindow)
    BY DEF Alarm!Cardinality, Cardinality
  <2>2. Entries = WINDOW => Cardinality(BadInRing) = Cardinality(BadInWindow)
    BY <1>1, SameCount
  <2>. QED  BY <1>2, <2>1, <2>2, <2>3
<1>4. /\ idx' = NextIndex(idx)
      /\ \/ raised /\ alarm' = TRUE /\ ClearHistory
         \/ ~ raised /\ alarm' = FALSE /\ history' = Ring /\ filled' = Entries
  BY DEF Judge, Ring, Entries, BadInRing
<1>. HIDE DEF raised
<1>5. CASE raised
  <2>1. filled' = 0
    BY <1>4, <1>5 DEF ClearHistory
  <2>2. Recent' = <<>>
    BY <2>1 DEF Recent
  <2>. QED  BY <1>3, <1>4, <1>5, <2>2, DetectedBit DEF Alarm!Verdict
<1>6. CASE ~ raised
  <2>1. Recent' = AllRecent
    BY <1>4, <1>6 DEF Recent, AllRecent
  <2>. QED  BY <1>2, <1>3, <1>4, <1>6, <2>1, DetectedBit DEF Alarm!Verdict
<1>. QED  BY <1>5, <1>6

LEMMA WindowStep == TypeOK /\ [Next]_vars => [Alarm!WindowNext]_(Alarm!windowVars)
<1>. SUFFICES ASSUME TypeOK, [Next]_vars
              PROVE  Alarm!WindowNext \/ UNCHANGED Alarm!windowVars
  OBVIOUS
<1>1. CASE Judge
  BY <1>1, JudgeIsVerdict DEF Alarm!WindowNext
<1>2. CASE StartOver
  <2>1. Recent' = Recent /\ alarm' = FALSE
    BY <1>2 DEF StartOver, Recent, ringVars
  <2>. QED  BY <2>1 DEF Alarm!WindowNext, Alarm!NoVerdict
<1>3. CASE ~ Judge /\ ~ StartOver
  <2>1. UNCHANGED <<ringVars, alarm>>
    BY <1>3
    DEF Next, Agent, WakeUp, ReadCounter, ReadNic, Traffic, BeginExecution,
        EndExecution, ReplaceRuntime, CountExecuted, CountBypassed, SwitchTurns,
        vars, agentVars
  <2>. QED  BY <2>1 DEF Recent, ringVars, Alarm!windowVars
<1>. QED  BY <1>1, <1>2, <1>3

\* The alarm of check_p4_execution is that of a sliding window: no length of the
\* window, threshold or order of verdicts and alarms lets the ring's index, which
\* an alarm does not reset, mix old verdicts with new ones.
THEOREM RingIsWindow == Spec => ImplementsWindow
BY WindowInitially, WindowStep, DetectorTypes, PTL DEF Spec, ImplementsWindow, Alarm!WindowSpec

-----------------------------------------------------------------------------
(* Sums of counters: the executions that the first n slots count, as a set, *)
(* so that its cardinality is their sum                                    *)

Executed(c, n) == {p \in (0 .. n - 1) \X (1 .. MaxExec) : p[2] <= c[p[1]]}
SumOf(c, n) == Cardinality(Executed(c, n))
Counters == [Slots -> 0 .. MaxExec]

LEMMA SumIsNat ==
  ASSUME NEW c, NEW n \in Nat
  PROVE  IsFiniteSet(Executed(c, n)) /\ SumOf(c, n) \in Nat
<1>1. IsFiniteSet(0 .. n - 1) /\ IsFiniteSet(1 .. MaxExec)
  BY FS_Interval, DetectorAssumption
<1>2. IsFiniteSet((0 .. n - 1) \X (1 .. MaxExec))
  BY <1>1, FS_Product
<1>3. Executed(c, n) \subseteq (0 .. n - 1) \X (1 .. MaxExec)
  BY DEF Executed
<1>4. IsFiniteSet(Executed(c, n))
  BY <1>2, <1>3, FS_Subset
<1>. QED  BY <1>4, FS_CardinalityType DEF SumOf

LEMMA SumOfNone == ASSUME NEW c PROVE SumOf(c, 0) = 0
<1>1. Executed(c, 0) = {}
  BY DEF Executed
<1>. QED  BY <1>1, FS_EmptySet DEF SumOf

\* One more slot adds its counter.
LEMMA SumOfNext ==
  ASSUME NEW c \in Counters, NEW s \in Slots
  PROVE  SumOf(c, s + 1) = SumOf(c, s) + c[s]
<1>. DEFINE own == {s} \X (1 .. c[s])
<1>1. s \in Nat /\ c[s] \in 0 .. MaxExec
  BY DEF Slots, Counters
<1>2. Executed(c, s + 1) = Executed(c, s) \cup own
  <2>1. ASSUME NEW p \in Executed(c, s + 1) PROVE p \in Executed(c, s) \cup own
    <3>1. PICK t \in 0 .. s, k \in 1 .. MaxExec : p = <<t, k>> /\ k <= c[t]
      BY <1>1 DEF Executed
    <3>2. t \in 0 .. s - 1 \/ t = s
      BY <1>1
    <3>. QED  BY <1>1, <3>1, <3>2 DEF Executed
  <2>2. ASSUME NEW p \in Executed(c, s) \cup own PROVE p \in Executed(c, s + 1)
    BY <1>1, DetectorAssumption DEF Executed
  <2>. QED  BY <2>1, <2>2
<1>3. Executed(c, s) \cap own = {}
  <2>1. ASSUME NEW p \in Executed(c, s) PROVE p \notin own
    <3>1. p[1] \in 0 .. s - 1
      BY DEF Executed
    <3>. QED  BY <1>1, <3>1
  <2>. QED  BY <2>1
<1>4. IsFiniteSet(own) /\ Cardinality(own) = c[s]
  <2>1. IsFiniteSet({s}) /\ Cardinality({s}) = 1
    BY FS_Singleton
  <2>2. IsFiniteSet(1 .. c[s]) /\ Cardinality(1 .. c[s]) = c[s]
    <3>. DEFINE k == c[s]
    <3>1. k \in Nat
      BY <1>1, DetectorAssumption
    <3>. HIDE DEF k
    <3>2. IsFiniteSet(1 .. k) /\ Cardinality(1 .. k) = k
      BY <3>1, FS_Interval
    <3>. QED  BY <3>2 DEF k
  <2>3. IsFiniteSet(own) /\ Cardinality(own) = Cardinality({s}) * Cardinality(1 .. c[s])
    BY <2>1, <2>2, FS_Product
  <2>. QED  BY <1>1, <2>1, <2>2, <2>3
<1>5. IsFiniteSet(Executed(c, s)) /\ SumOf(c, s) \in Nat
  BY <1>1, SumIsNat
<1>. HIDE DEF own
<1>6. Cardinality(Executed(c, s) \cup own)
        = Cardinality(Executed(c, s)) + Cardinality(own) - Cardinality({})
  BY <1>3, <1>4, <1>5, FS_Union
<1>7. c[s] \in Nat /\ Cardinality({}) = 0
  BY <1>1, FS_EmptySet, DetectorAssumption
<1>8. SumOf(c, s + 1) = SumOf(c, s) + c[s] - 0
  BY <1>2, <1>4, <1>6, <1>7 DEF SumOf
<1>. QED  BY <1>5, <1>7, <1>8

\* One more execution adds one.
LEMMA SumOfIncremented ==
  ASSUME NEW c \in Counters, NEW s \in Slots, c[s] < MaxExec
  PROVE  SumOf([c EXCEPT ![s] = @ + 1], MAX_CONNECTIONS) = SumOf(c, MAX_CONNECTIONS) + 1
<1>. DEFINE d == [c EXCEPT ![s] = @ + 1]
            new == <<s, c[s] + 1>>
<1>1. /\ c[s] \in 0 .. MaxExec /\ MaxExec \in Nat
      /\ \A t \in Slots : d[t] = IF t = s THEN c[s] + 1 ELSE c[t]
      /\ \A t \in Slots : c[t] \in 0 .. MaxExec
  BY DetectorAssumption DEF Counters
<1>. HIDE DEF d
<1>2. Executed(d, MAX_CONNECTIONS) = Executed(c, MAX_CONNECTIONS) \cup {new}
  <2>1. ASSUME NEW p \in Executed(d, MAX_CONNECTIONS)
        PROVE  p \in Executed(c, MAX_CONNECTIONS) \cup {new}
    <3>1. PICK t \in Slots, k \in 1 .. MaxExec : p = <<t, k>> /\ k <= d[t]
      BY DEF Executed, Slots
    <3>2. k <= c[t] \/ p = new
      BY <1>1, <3>1
    <3>. QED  BY <3>1, <3>2 DEF Executed, Slots
  <2>2. ASSUME NEW p \in Executed(c, MAX_CONNECTIONS) PROVE p \in Executed(d, MAX_CONNECTIONS)
    <3>1. PICK t \in Slots, k \in 1 .. MaxExec : p = <<t, k>> /\ k <= c[t]
      BY DEF Executed, Slots
    <3>. QED  BY <1>1, <3>1 DEF Executed, Slots
  <2>3. new \in Executed(d, MAX_CONNECTIONS)
    BY <1>1 DEF Executed, Slots
  <2>. QED  BY <2>1, <2>2, <2>3
<1>3. new \notin Executed(c, MAX_CONNECTIONS)
  BY <1>1 DEF Executed
<1>4. IsFiniteSet(Executed(c, MAX_CONNECTIONS))
  BY SumIsNat, DetectorAssumption
<1>5. SumOf(d, MAX_CONNECTIONS) = SumOf(c, MAX_CONNECTIONS) + 1
  BY <1>2, <1>3, <1>4, FS_AddElement DEF SumOf
<1>. QED  BY <1>5 DEF d

-----------------------------------------------------------------------------
(* A bad verdict has a cause *)

Total == SumOf(counter, MAX_CONNECTIONS)

\* What the readings of this check should have added up to.
Seen == IF pc = "read" THEN SumOf(counter, i) ELSE Total

\* Between two checks the executions not yet remembered are at least those whose
\* packets the VM has counted since, or will count.
Asleep ==
  pc = "sleep" =>
    /\ uneven \subseteq {"before"}
    /\ ~ disturbed /\ uneven = {} => Total - prev_exec >= onTheWay + fresh

\* While traffic rests for the readings, they are those of one moment, at which no
\* packet is on its way: a record that cannot be read only makes the sum smaller.
Reading ==
  pc # "sleep" /\ "now" \notin uneven =>
    /\ onTheWay = 0 /\ executions <= Seen
    /\ ~ disturbed => executions = Seen
    /\ pc = "judge" => vm_delta = fresh
    /\ ~ disturbed /\ uneven = {} => Total - prev_exec >= fresh

BalanceInv == Asleep /\ Reading

LEMMA TotalIsNat == Total \in Nat /\ \A n \in Slots : SumOf(counter, n) \in Nat
BY SumIsNat, DetectorAssumption DEF Total, Slots

LEMMA InitBalance == Init => BalanceInv
<1>. SUFFICES ASSUME Init PROVE BalanceInv
  OBVIOUS
<1>1. Seen = 0
  BY SumOfNone DEF Init, Seen
<1>2. Total \in Nat
  BY TotalIsNat
<1>. QED  BY <1>1, <1>2 DEF Init, BalanceInv, Asleep, Reading

\* What should have been read, step by step.
LEMMA SeenSteps ==
  ASSUME TypeOK
  PROVE  /\ WakeUp => Seen' = 0
         /\ ReadCounter => /\ Seen' = Seen + counter[i]
                           /\ Seen \in Nat /\ counter[i] \in Nat
         /\ ReadNic => Seen' = Seen
<1>. USE DEF switchVars
<1>1. ASSUME WakeUp PROVE Seen' = 0
  BY <1>1, SumOfNone DEF WakeUp, Seen
<1>2. ASSUME ReadCounter
      PROVE  Seen' = Seen + counter[i] /\ Seen \in Nat /\ counter[i] \in Nat
  <2>1. counter \in Counters /\ i \in Slots /\ pc = "read" /\ counter[i] \in Nat
    BY <1>2, DetectorAssumption DEF TypeOK, Counters, ReadCounter
  <2>2. SumOf(counter, i + 1) = SumOf(counter, i) + counter[i]
        /\ SumOf(counter, i) \in Nat
    BY <2>1, SumOfNext, TotalIsNat
  <2>3. Seen' = SumOf(counter, i + 1)
    <3>1. CASE i + 1 = MAX_CONNECTIONS
      BY <1>2, <3>1 DEF ReadCounter, Seen, Total
    <3>2. CASE i + 1 # MAX_CONNECTIONS
      <4>1. (i + 1) % MAX_CONNECTIONS = i + 1
        BY <2>1, <3>2, DetectorAssumption DEF Slots
      <4>. QED  BY <1>2, <3>2, <4>1 DEF ReadCounter, Seen
    <3>. QED  BY <3>1, <3>2
  <2>. QED  BY <2>1, <2>2, <2>3 DEF Seen
<1>3. ASSUME ReadNic PROVE Seen' = Seen
  BY <1>3 DEF ReadNic, Seen, Total
<1>. QED  BY <1>1, <1>2, <1>3

LEMMA BalanceReading ==
  ASSUME DetectorInv, BalanceInv, WakeUp \/ ReadCounter \/ ReadNic
  PROVE  BalanceInv'
<1>. USE DEF switchVars, prevVars
<1>. TypeOK
  BY DEF DetectorInv
<1>1. pc' # "sleep" /\ Total' = Total /\ Total \in Nat
  BY TotalIsNat DEF WakeUp, ReadCounter, ReadNic, Total
<1>2. CASE WakeUp
  BY <1>1, <1>2, SeenSteps DEF WakeUp, BalanceInv, Asleep, Reading, TypeOK
<1>3. CASE ReadCounter
  <2>1. Seen' = Seen + counter[i] /\ Seen \in Nat /\ counter[i] \in Nat
    BY <1>3, SeenSteps
  <2>2. /\ executions' = executions + (IF writing[i] THEN 0 ELSE counter[i])
        /\ (disturbed' <=> disturbed \/ writing[i]) /\ pc # "sleep" /\ pc' # "judge"
        /\ UNCHANGED <<onTheWay, fresh, vm_delta, prev_exec, uneven>>
    BY <1>3 DEF ReadCounter, TypeOK
  <2>3. executions \in Nat /\ prev_exec \in Nat
    BY DetectorAssumption DEF TypeOK
  <2>. QED  BY <1>1, <2>1, <2>2, <2>3 DEF BalanceInv, Asleep, Reading
<1>4. CASE ReadNic
  BY <1>1, <1>4, SeenSteps DEF ReadNic, BalanceInv, Asleep, Reading
<1>. QED  BY <1>2, <1>3, <1>4

\* What is remembered is what was read.
LEMMA BalanceJudge ==
  ASSUME DetectorInv, BalanceInv, StartOver \/ Judge
  PROVE  BalanceInv'
<1>1. /\ pc = "judge" /\ pc' = "sleep" /\ CarryUneven
      /\ prev_exec' = executions /\ fresh' = fresh - vm_delta
      /\ UNCHANGED <<counter, onTheWay>>
  BY DEF StartOver, Judge, Remember, Return, switchVars
<1>2. Total' = Total /\ Total \in Nat /\ Seen = Total
  BY <1>1, TotalIsNat DEF Total, Seen
<1>3. executions \in Nat /\ fresh \in Nat /\ vm_delta \in Nat /\ onTheWay \in Int
  BY DetectorAssumption DEF DetectorInv, TypeOK
<1>4. CASE "now" \in uneven
  BY <1>1, <1>4 DEF CarryUneven, BalanceInv, Asleep, Reading
<1>5. CASE "now" \notin uneven
  <2>1. onTheWay' = 0 /\ fresh' = 0 /\ uneven' = {} /\ Total' - prev_exec' >= 0
    BY <1>1, <1>2, <1>3, <1>5 DEF CarryUneven, BalanceInv, Reading
  <2>. QED  BY <1>1, <2>1 DEF BalanceInv, Asleep, Reading
<1>. QED  BY <1>4, <1>5

\* What traffic does to the executions, to the packets on their way, and to those
\* the VM has counted.
LEMMA TrafficSums ==
  ASSUME DetectorInv, Traffic
  PROVE  /\ UNCHANGED <<pc, prev_exec, prev_some>>
         /\ \/ /\ Total' = Total + 1 /\ onTheWay' = onTheWay + 1
               /\ UNCHANGED <<fresh, disturbed>>
            \/ /\ Total' = Total /\ onTheWay' = onTheWay - 1 /\ fresh' = fresh + 1
               /\ UNCHANGED disturbed
            \/ Total' = Total /\ UNCHANGED <<onTheWay, fresh, disturbed>>
            \/ /\ Total' = Total /\ onTheWay' = onTheWay /\ fresh' = fresh + 1
               /\ disturbed'
            \/ /\ Total' = Total \/ \E s \in Slots : counter'[s] < counter[s]
               /\ disturbed' /\ UNCHANGED <<onTheWay, fresh>>
<1>. USE DEF switchVars, ringVars, prevVars, agentVars
<1>1. counter \in Counters
  BY DEF DetectorInv, TypeOK, Counters
<1>2. UNCHANGED <<pc, prev_exec, prev_some>>
  BY DEF Traffic, BeginExecution, EndExecution, ReplaceRuntime, CountExecuted,
     CountBypassed, SwitchTurns
<1>3. ASSUME NEW s \in Slots, EndExecution(s) PROVE Total' = Total + 1
  <2>1. counter[s] < MaxExec
    BY <1>3 DEF EndExecution, DetectorInv, Sums
  <2>2. Total' = SumOf([counter EXCEPT ![s] = @ + 1], MAX_CONNECTIONS)
    BY <1>3 DEF EndExecution, Total
  <2>. QED  BY <1>1, <2>1, <2>2, SumOfIncremented DEF Total
<1>4. ASSUME NEW s \in Slots, ReplaceRuntime(s)
      PROVE  Total' = Total \/ \E t \in Slots : counter'[t] < counter[t]
  <2>1. counter' = [counter EXCEPT ![s] = 0] /\ counter[s] \in Nat
    BY <1>1, <1>4, DetectorAssumption DEF ReplaceRuntime, Counters
  <2>2. CASE counter[s] = 0
    <3>1. counter' = counter
      BY <1>1, <2>1, <2>2 DEF Counters
    <3>. QED  BY <3>1 DEF Total
  <2>3. CASE counter[s] > 0
    BY <1>1, <2>1, <2>3 DEF Counters
  <2>. QED  BY <2>1, <2>2, <2>3
<1>5. CountExecuted \/ CountBypassed \/ SwitchTurns
        \/ (\E s \in Slots : BeginExecution(s)) => Total' = Total
  BY DEF CountExecuted, CountBypassed, SwitchTurns, BeginExecution, Total
<1>6. ASSUME NEW s \in Slots, BeginExecution(s) \/ EndExecution(s) \/ ReplaceRuntime(s)
      PROVE  \/ /\ Total' = Total + 1 /\ onTheWay' = onTheWay + 1
                /\ UNCHANGED <<fresh, disturbed>>
             \/ Total' = Total /\ UNCHANGED <<onTheWay, fresh, disturbed>>
             \/ /\ Total' = Total \/ \E t \in Slots : counter'[t] < counter[t]
                /\ disturbed' /\ UNCHANGED <<onTheWay, fresh>>
  BY <1>3, <1>4, <1>5, <1>6 DEF BeginExecution, EndExecution, ReplaceRuntime
<1>7. CASE CountExecuted
  BY <1>2, <1>5, <1>7 DEF CountExecuted
<1>8. CASE CountBypassed
  BY <1>2, <1>5, <1>8 DEF CountBypassed
<1>9. CASE SwitchTurns
  BY <1>2, <1>5, <1>9 DEF SwitchTurns
<1>. QED  BY <1>2, <1>6, <1>7, <1>8, <1>9 DEF Traffic

\* An execution and its packet are counted in either order; whatever else traffic
\* does is a disturbance.
LEMMA BalanceTraffic ==
  ASSUME DetectorInv, BalanceInv, Traffic
  PROVE  BalanceInv'
<1>1. CASE pc # "sleep"
  BY <1>1, TrafficSums DEF Traffic, BalanceInv, Asleep, Reading
<1>2. CASE pc = "sleep"
  <2>1. uneven' = uneven
    BY <1>2 DEF Traffic
  <2>2. Total \in Nat /\ prev_exec \in Nat /\ fresh \in Nat /\ onTheWay \in Int
    BY TotalIsNat, DetectorAssumption DEF DetectorInv, TypeOK
  <2>3. \/ disturbed'
        \/ /\ disturbed' = disturbed
           /\ Total' - (onTheWay' + fresh') = Total - (onTheWay + fresh)
           /\ Total' \in Nat /\ onTheWay' \in Int /\ fresh' \in Nat
    BY <2>2, TrafficSums
  <2>. QED  BY <1>2, <2>1, <2>2, <2>3, TrafficSums DEF BalanceInv, Asleep, Reading
<1>. QED  BY <1>1, <1>2

LEMMA NextBalance == DetectorInv /\ BalanceInv /\ [Next]_vars => BalanceInv'
<1>. SUFFICES ASSUME DetectorInv, BalanceInv, [Next]_vars PROVE BalanceInv'
  OBVIOUS
<1>1. CASE Agent
  BY <1>1, BalanceReading, BalanceJudge DEF Agent
<1>2. CASE Traffic
  BY <1>2, BalanceTraffic
<1>3. CASE UNCHANGED vars
  BY <1>3 DEF vars, switchVars, agentVars, prevVars, BalanceInv, Asleep, Reading, Seen, Total
<1>. QED  BY <1>1, <1>2, <1>3 DEF Next

LEMMA BalanceAlways == Spec => []BalanceInv
BY InitBalance, NextBalance, DetectorAlways, PTL DEF Spec

\* If traffic rested for the readings of a round and of the one before, then a
\* round in which no packet bypassed P4, no runtime was replaced and every record
\* could be read is never judged bad, however many slots there are and whatever
\* happened earlier.
THEOREM BadVerdictsHaveCause == Spec => []BadVerdictHasCause
<1>1. DetectorInv /\ BalanceInv => BadVerdictHasCause
  <2>. SUFFICES ASSUME DetectorInv, BalanceInv, pc = "judge", ~ disturbed, uneven = {}
                PROVE  Detected # 1
    BY DEF BadVerdictHasCause
  <2>1. /\ executions = Total /\ Total - prev_exec >= fresh /\ vm_delta = fresh
    BY DEF BalanceInv, Reading, Seen
  <2>2. fresh \in Nat /\ prev_exec \in Nat /\ executions \in Nat
    BY DetectorAssumption DEF DetectorInv, TypeOK
  <2>. QED  BY <2>1, <2>2 DEF Detected
<1>. QED  BY <1>1, BalanceAlways, DetectorAlways, PTL

-----------------------------------------------------------------------------
(* The right verdict *)

LEMMA VerdictImpliesSpec ==
  /\ VerdictInit => Init
  /\ [VerdictNext]_verdictVars => [Next]_vars
BY DEF VerdictInit, VerdictNext, Reads, Judges, Moves, Next, Agent, verdictVars

LEMMA VerdictInvariants == VerdictSpec => [](DetectorInv /\ BalanceInv)
<1>1. VerdictSpec => Spec
  BY VerdictImpliesSpec, PTL DEF VerdictSpec, Spec
<1>. QED  BY <1>1, DetectorAlways, BalanceAlways, PTL

\* While all records can be read and no sum goes back, readings of one moment add
\* up to the executions of that moment; and the executions not yet remembered are
\* those whose packets are counted, or to be counted, or fewer if a packet
\* bypassed P4.
Whole == tally \in {"clean", "bypassed"}
ExactInv ==
  /\ tally \in {"clean", "bypassed", "lost", "unread"}
  /\ pc = "sleep" => tally # "unread"
  /\ pc # "sleep" /\ "now" \notin uneven /\ tally # "unread" => executions = Seen
  /\ uneven = {} /\ Whole /\ Comparable =>
       /\ prev_exec <= Total
       /\ tally = "clean" => Total - prev_exec = onTheWay + fresh
       /\ tally = "bypassed" => Total - prev_exec < onTheWay + fresh

LEMMA InitExact == VerdictInit => ExactInv
<1>. SUFFICES ASSUME VerdictInit PROVE ExactInv
  OBVIOUS
<1>1. Seen = 0
  BY SumOfNone DEF VerdictInit, Init, Seen
<1>. QED  BY <1>1 DEF VerdictInit, Init, ExactInv, Comparable

LEMMA ExactReads ==
  ASSUME DetectorInv, BalanceInv, ExactInv, Reads
  PROVE  ExactInv'
<1>. USE DEF switchVars, prevVars
<1>. TypeOK
  BY DEF DetectorInv
<1>1. /\ pc' # "sleep" /\ Total' = Total
      /\ UNCHANGED <<onTheWay, fresh, prev_exec, prev_some>>
      /\ uneven \subseteq uneven' /\ (tally' = tally \/ tally' = "unread")
  BY DEF Reads, WakeUp, ReadCounter, ReadNic, Total
<1>2. "now" \notin uneven' /\ tally' # "unread" => executions' = Seen'
  <2>1. CASE WakeUp
    BY <2>1, SeenSteps DEF WakeUp
  <2>2. CASE ReadCounter
    <3>1. Seen' = Seen + counter[i]
      BY <2>2, SeenSteps
    <3>2. pc = "read" /\ uneven' = uneven
          /\ executions' = executions + (IF writing[i] THEN 0 ELSE counter[i])
      BY <2>2 DEF ReadCounter
    <3>3. tally' # "unread" => tally # "unread" /\ ~ writing[i]
      BY <3>2 DEF Reads
    <3>. QED  BY <3>1, <3>2, <3>3 DEF ExactInv
  <2>3. CASE ReadNic
    BY <1>1, <2>3, SeenSteps DEF ReadNic, ExactInv
  <2>. QED  BY <2>1, <2>2, <2>3 DEF Reads
<1>. QED  BY <1>1, <1>2 DEF ExactInv, Comparable, Whole

\* After readings of one moment, all of them possible, the comparison starts from
\* what is remembered with nothing owed.
LEMMA ExactJudges ==
  ASSUME DetectorInv, BalanceInv, ExactInv, Judges
  PROVE  ExactInv'
<1>1. /\ pc = "judge" /\ pc' = "sleep" /\ CarryUneven
      /\ prev_exec' = executions /\ fresh' = fresh - vm_delta
      /\ UNCHANGED <<counter, onTheWay>>
      /\ tally' = IF tally = "unread" THEN "lost" ELSE "clean"
  BY DEF Judges, StartOver, Judge, Remember, Return, switchVars
<1>2. Total' = Total /\ Total \in Nat /\ Seen = Total
  BY <1>1, TotalIsNat DEF Total, Seen
<1>3. fresh \in Nat /\ vm_delta \in Nat
  BY DetectorAssumption DEF DetectorInv, TypeOK
<1>4. CASE "now" \in uneven \/ tally = "unread"
  BY <1>1, <1>4 DEF CarryUneven, ExactInv, Whole
<1>5. CASE "now" \notin uneven /\ tally # "unread"
  <2>1. onTheWay' = 0 /\ fresh' = 0 /\ prev_exec' = Total
    BY <1>1, <1>2, <1>3, <1>5 DEF BalanceInv, Reading, ExactInv
  <2>. QED  BY <1>1, <1>2, <1>5, <2>1 DEF ExactInv
<1>. QED  BY <1>4, <1>5

LEMMA ExactMoves ==
  ASSUME DetectorInv, BalanceInv, ExactInv, Moves
  PROVE  ExactInv'
<1>1. Traffic /\ UNCHANGED <<pc, prev_exec, prev_some>>
  BY TrafficSums DEF Moves
<1>2. /\ tally' \in {"clean", "bypassed", "lost", "unread"}
      /\ tally' = "unread" <=> tally = "unread"
      /\ Whole' => Whole /\ ~ \E s \in Slots : counter'[s] < counter[s]
  BY DEF Moves, ExactInv, Whole
<1>3. CASE pc # "sleep"
  BY <1>1, <1>2, <1>3 DEF Traffic, ExactInv
<1>4. CASE pc = "sleep"
  <2>1. uneven' = uneven
    BY <1>1, <1>4 DEF Traffic
  <2>2. Total \in Nat /\ prev_exec \in Nat /\ fresh \in Nat /\ onTheWay \in Int
    BY TotalIsNat, DetectorAssumption DEF DetectorInv, TypeOK
  <2>3. ASSUME uneven' = {}, Whole', Comparable'
        PROVE  /\ prev_exec' <= Total'
               /\ tally' = "clean" => Total' - prev_exec' = onTheWay' + fresh'
               /\ tally' = "bypassed" => Total' - prev_exec' < onTheWay' + fresh'
    <3>1. /\ prev_exec <= Total
          /\ tally = "clean" => Total - prev_exec = onTheWay + fresh
          /\ tally = "bypassed" => Total - prev_exec < onTheWay + fresh
      BY <1>1, <1>2, <2>1, <2>3 DEF ExactInv, Comparable
    <3>2. /\ ~ \E s \in Slots : counter'[s] < counter[s]
          /\ tally \in {"clean", "bypassed"}
          /\ tally' = IF tally = "clean" /\ fresh' > fresh /\ onTheWay' = onTheWay
                        THEN "bypassed" ELSE tally
      BY <1>2, <2>3 DEF Moves, Whole
    <3>3. \/ /\ Total' = Total + 1 /\ onTheWay' = onTheWay + 1 /\ fresh' = fresh
          \/ /\ Total' = Total /\ onTheWay' = onTheWay - 1 /\ fresh' = fresh + 1
          \/ Total' = Total /\ onTheWay' = onTheWay /\ fresh' = fresh
          \/ Total' = Total /\ onTheWay' = onTheWay /\ fresh' = fresh + 1
      BY <1>1, <3>2, TrafficSums
    <3>. QED  BY <1>1, <2>2, <3>1, <3>2, <3>3
  <2>. QED  BY <1>1, <1>2, <1>4, <2>3 DEF ExactInv
<1>. QED  BY <1>3, <1>4

LEMMA NextExact ==
  DetectorInv /\ BalanceInv /\ ExactInv /\ [VerdictNext]_verdictVars => ExactInv'
<1>. SUFFICES ASSUME DetectorInv, BalanceInv, ExactInv, [VerdictNext]_verdictVars
              PROVE  ExactInv'
  OBVIOUS
<1>1. CASE UNCHANGED verdictVars
  BY <1>1 DEF verdictVars, vars, switchVars, agentVars, prevVars, ExactInv, Comparable,
     Seen, Total, Whole
<1>. QED  BY <1>1, ExactReads, ExactJudges, ExactMoves DEF VerdictNext

\* If traffic rested for the readings of a round and of the one before, every
\* record could be read in both and no sum went back, then the round is judged, and
\* it is judged bad exactly if a packet bypassed P4 since the last check: for every
\* number of slots, and however many packets were executed besides.
THEOREM VerdictsAreRight == VerdictSpec => []VerdictIsRight
<1>1. DetectorInv /\ BalanceInv /\ ExactInv => VerdictIsRight
  <2>. SUFFICES ASSUME DetectorInv, BalanceInv, ExactInv,
                       pc = "judge", uneven = {}, Whole, Comparable
                PROVE  ~ NoComparison /\ (Detected = 1 <=> tally = "bypassed")
    BY DEF VerdictIsRight, Whole
  <2>1. /\ executions = Total /\ onTheWay = 0 /\ vm_delta = fresh /\ prev_exec <= Total
        /\ tally = "clean" => Total - prev_exec = onTheWay + fresh
        /\ tally = "bypassed" => Total - prev_exec < onTheWay + fresh
    BY DEF BalanceInv, Reading, ExactInv, Seen, Whole
  <2>2. fresh \in Nat /\ prev_exec \in Nat /\ executions \in Nat
    BY DetectorAssumption DEF DetectorInv, TypeOK
  <2>3. /\ prev_exec <= executions
        /\ tally = "bypassed" <=> executions - prev_exec < vm_delta
    BY <2>1, <2>2 DEF Whole
  <2>. QED  BY <2>2, <2>3 DEF Detected, NoComparison, Comparable
<1>. QED
  BY <1>1, InitExact, NextExact, VerdictInvariants, PTL DEF VerdictSpec

================================================================================
