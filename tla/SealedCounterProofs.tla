--------------------------- MODULE SealedCounterProofs ---------------------------
(***************************************************************************)
(* What decrypt_counter accepts was current during the call: proved for    *)
(* any number of sealings, any order of the runtime's writes and any       *)
(* number of runtimes that die in the middle of one.                       *)
(***************************************************************************)
EXTENDS SealedCounter, TLAPS

\* The fields this call has copied.
Done == CASE pc = "cipher_text" -> {"iv"}
          [] pc = "auth_tag"    -> {"iv", "cipher_text"}
          [] pc = "decrypt"     -> Fields
          [] OTHER              -> {}

\* What is in memory is torn, or neither older than the last finished sealing
\* nor newer than the last begun one.
RecordFresh ==
  /\ since <= sealed /\ sealed <= version
  /\ unwritten = {} => sealed = version
  /\ \A f \in Fields : /\ field[f] = Torn \/ field[f] \in sealed .. version
                       /\ f \notin unwritten => field[f] = version
                       /\ copied[f] <= version
  /\ \A f \in Done : copied[f] = Torn \/ since <= copied[f]

\* A sealing that is not finished is missing in some field, in memory and in
\* the copies; and it stays missing there, finished by nobody.
Unfinished ==
  /\ \A f \in unwritten : field[f] # version /\ copied[f] # version
  /\ \A v \in Nat : sealed < v =>
       \E f \in Fields : field[f] # v /\ copied[f] # v

CounterInv == TypeOK /\ RecordFresh /\ Unfinished

LEMMA InitInv == Init => CounterInv
<1>. SUFFICES ASSUME Init PROVE CounterInv
  OBVIOUS
<1>. USE DEF Init, Unsealed
<1>1. TypeOK
  <2>1. field \in [Fields -> Int] /\ copied \in [Fields -> Int]
    BY DEF Torn
  <2>2. /\ version \in Nat /\ sealed \in Nat /\ since \in Nat /\ result \in Int
        /\ unwritten \subseteq Fields
        /\ pc \in Fields \cup {"call", "decrypt"}
    OBVIOUS
  <2>3. overlap \in BOOLEAN
    OBVIOUS
  <2>. QED  BY <2>1, <2>2, <2>3 DEF TypeOK
<1>2. Done = {}
  BY DEF Done
<1>3. RecordFresh
  BY <1>2 DEF RecordFresh, Torn
<1>4. Unfinished
  <2>1. \A v \in Nat : 0 < v => \A f \in Fields : field[f] # v /\ copied[f] # v
    BY DEF Torn
  <2>. QED  BY <2>1 DEF Unfinished, Fields
<1>. QED  BY <1>1, <1>3, <1>4 DEF CounterInv

LEMMA BeginSealInv == CounterInv /\ BeginSeal => CounterInv'
<1>. SUFFICES ASSUME CounterInv, BeginSeal PROVE CounterInv'
  OBVIOUS
<1>. USE DEF CounterInv, BeginSeal, runtimeVars, agentVars
<1>1. TypeOK'
  BY DEF TypeOK
<1>2. RecordFresh'
  BY DEF TypeOK, RecordFresh, Done, Fields
<1>3. Unfinished'
  <2>1. \A f \in Fields : field[f] # version + 1 /\ copied[f] # version + 1
    BY DEF TypeOK, RecordFresh, Torn
  <2>. QED  BY <2>1 DEF Unfinished
<1>. QED  BY <1>1, <1>2, <1>3

LEMMA BeginFieldInv ==
  ASSUME NEW f \in Fields, CounterInv, BeginField(f)
  PROVE  CounterInv'
<1>. USE DEF CounterInv, BeginField, agentVars
<1>1. TypeOK'
  BY DEF TypeOK, Torn
<1>2. RecordFresh'
  BY DEF TypeOK, RecordFresh, Done, Fields
<1>3. Unfinished'
  <2>1. \A g \in Fields, v \in Nat : field[g] # v => field'[g] # v
    BY DEF TypeOK, Torn
  <2>. QED  BY <2>1 DEF Unfinished, TypeOK
<1>. QED  BY <1>1, <1>2, <1>3

\* The last field of a sealing finishes it; before that, another field still
\* misses it.
LEMMA EndFieldInv ==
  ASSUME NEW f \in Fields, CounterInv, EndField(f)
  PROVE  CounterInv'
<1>. USE DEF CounterInv, EndField, agentVars
<1>1. TypeOK'
  BY DEF TypeOK
<1>2. UNCHANGED <<copied, pc, since, version>> /\ Done' = Done
  BY DEF Done
<1>3. field' = [field EXCEPT ![f] = version] /\ unwritten' = unwritten \ {f}
  OBVIOUS
<1>4. CASE unwritten = {f}
  <2>1. sealed' = version /\ unwritten' = {}
    BY <1>4
  <2>2. \A g \in Fields : field'[g] = version
    BY <1>3, <1>4 DEF RecordFresh, TypeOK
  <2>3. RecordFresh'
    BY <1>2, <2>1, <2>2 DEF RecordFresh, TypeOK
  <2>4. \A g \in Fields, v \in Nat : version < v => field'[g] # v /\ copied[g] # v
    BY <2>2 DEF RecordFresh, TypeOK
  <2>5. Unfinished'
    BY <1>2, <2>1, <2>4 DEF Unfinished, Fields
  <2>. QED  BY <1>1, <2>3, <2>5
<1>5. CASE unwritten # {f}
  <2>1. sealed' = sealed /\ unwritten' # {}
    BY <1>3, <1>5
  <2>2. RecordFresh'
    BY <1>2, <1>3, <2>1 DEF RecordFresh, TypeOK
  <2>3. \A g \in unwritten' : field'[g] # version /\ copied[g] # version
    BY <1>3 DEF Unfinished, TypeOK
  <2>4. ASSUME NEW v \in Nat, sealed < v
        PROVE  \E g \in Fields : field'[g] # v /\ copied[g] # v
    <3>1. CASE v = version
      BY <3>1, <2>1, <2>3, <1>1 DEF TypeOK
    <3>2. CASE v # version
      <4>1. PICK g \in Fields : field[g] # v /\ copied[g] # v
        BY <2>4 DEF Unfinished
      <4>. QED  BY <4>1, <3>2, <1>3 DEF TypeOK
    <3>. QED  BY <3>1, <3>2
  <2>5. Unfinished'
    BY <1>2, <2>1, <2>3, <2>4 DEF Unfinished
  <2>. QED  BY <1>1, <2>2, <2>5
<1>. QED  BY <1>4, <1>5

LEMMA CallInv == CounterInv /\ Call => CounterInv'
<1>. SUFFICES ASSUME CounterInv, Call PROVE CounterInv'
  OBVIOUS
<1>. USE DEF CounterInv, Call, runtimeVars
<1>1. TypeOK' /\ Unfinished'
  BY DEF TypeOK, Unfinished, Fields
<1>2. Done' = {}
  BY DEF Done
<1>. QED  BY <1>1, <1>2 DEF RecordFresh, TypeOK

LEMMA CopyInv ==
  ASSUME NEW f \in Fields, CounterInv, Copy(f)
  PROVE  CounterInv'
<1>. USE DEF CounterInv, Copy, Copied, runtimeVars
<1>1. TypeOK'
  BY DEF TypeOK, After, Fields
<1>2. Done' = Done \cup {f}
  BY DEF Done, After, Fields
<1>3. RecordFresh'
  <2>1. copied' = [copied EXCEPT ![f] = field[f]]
    OBVIOUS
  <2>2. field[f] = Torn \/ since <= field[f]
    BY DEF RecordFresh, TypeOK
  <2>3. field[f] <= version
    BY DEF RecordFresh, TypeOK, Torn
  <2>4. Done \subseteq Fields
    BY DEF Done, Fields
  <2>. QED  BY <1>2, <2>1, <2>2, <2>3, <2>4 DEF RecordFresh, TypeOK
<1>4. Unfinished'
  BY DEF Unfinished, TypeOK
<1>. QED  BY <1>1, <1>3, <1>4

LEMMA DecryptInv == CounterInv /\ Decrypt => CounterInv'
<1>. SUFFICES ASSUME CounterInv, Decrypt PROVE CounterInv'
  OBVIOUS
<1>. USE DEF CounterInv, Decrypt, runtimeVars
<1>1. TypeOK' /\ Unfinished'
  BY DEF TypeOK, Unfinished, Refused, Fields
<1>2. Done' = {}
  BY DEF Done
<1>. QED  BY <1>1, <1>2 DEF RecordFresh

LEMMA StutterInv == CounterInv /\ UNCHANGED vars => CounterInv'
BY DEF CounterInv, TypeOK, RecordFresh, Unfinished, Done, vars, runtimeVars, agentVars

\* What Decrypt accepts: all copies agree, so none is torn, none is older than
\* `since`, and the sealing they belong to is missing nowhere.
LEMMA DecryptCurrent ==
  ASSUME CounterInv, Decrypt, result' # Refused
  PROVE  since <= result' /\ result' <= sealed
<1>. USE DEF CounterInv, Decrypt
<1>. DEFINE v == copied["cipher_text"]
<1>1. /\ result' = v /\ v # Torn
      /\ \A f \in Fields : copied[f] = v
  BY DEF Authentic
<1>2. since <= v
  BY <1>1 DEF RecordFresh, Done, Fields
<1>3. v \in Nat
  BY <1>2 DEF TypeOK, Fields
<1>4. ~ (sealed < v)
  BY <1>1, <1>3 DEF Unfinished
<1>. QED  BY <1>1, <1>2, <1>3, <1>4 DEF TypeOK

LEMMA NextInv == CounterInv /\ [Next]_vars => CounterInv'
BY BeginSealInv, BeginFieldInv, EndFieldInv, CallInv, CopyInv, DecryptInv,
   StutterInv
DEF Next, Runtime, Agent

LEMMA CounterInvAlways == Spec => []CounterInv
BY InitInv, NextInv, PTL DEF Spec

\* Every counter that decrypt_counter accepts was current during the call.
THEOREM AcceptedIsCurrent == Spec => ReadIsCurrent
<1>. DEFINE Current == pc = "decrypt" /\ result' # Refused /\ pc' = "call"
                         => since <= result' /\ result' <= sealed
<1>1. CounterInv /\ [Next]_vars => [Current]_vars
  <2>. SUFFICES ASSUME CounterInv, Next, pc = "decrypt", pc' = "call",
                       result' # Refused
                PROVE  since <= result' /\ result' <= sealed
    OBVIOUS
  <2>1. Decrypt
    BY DEF Next, Runtime, Agent, BeginSeal, BeginField, EndField, Call, Copy,
           agentVars, Fields
  <2>. QED  BY <2>1, DecryptCurrent
<1>. HIDE DEF Current
<1>2. Spec => [][Current]_vars
  BY <1>1, CounterInvAlways, PTL DEF Spec
<1>. QED  BY <1>2 DEF Current, ReadIsCurrent

-----------------------------------------------------------------------------
(* Refusals *)

\* If no write overlaps with the call, the record is whole and what has been
\* copied is of its sealing, which is also the one `since` names.
Quiet ==
  ~ overlap /\ pc # "call" =>
    unwritten = {} /\ since = sealed /\ \A f \in Done : copied[f] = version

LEMMA QuietCall ==
  ASSUME CounterInv, Quiet, [Next]_vars
  PROVE  Quiet'
<1>. USE DEF runtimeVars, agentVars
<1>. TypeOK
  BY DEF CounterInv
<1>1. CASE BeginSeal
  BY <1>1 DEF BeginSeal, Quiet
<1>2. ASSUME NEW f \in Fields, BeginField(f) \/ EndField(f) PROVE Quiet'
  BY <1>2 DEF BeginField, EndField, Quiet
<1>3. CASE Call
  BY <1>3 DEF Call, Quiet, Done, TypeOK
<1>4. ASSUME NEW f \in Fields, Copy(f) PROVE Quiet'
  <2>1. Done' = Done \cup {f} /\ Done \subseteq Fields
    BY <1>4 DEF Copy, Done, After, Fields
  <2>2. unwritten = {} => field[f] = version
    BY DEF CounterInv, RecordFresh
  <2>. QED  BY <1>4, <2>1, <2>2 DEF Copy, Copied, Quiet, TypeOK, Fields
<1>5. CASE Decrypt
  BY <1>5 DEF Decrypt, Quiet
<1>6. CASE UNCHANGED vars
  BY <1>6 DEF vars, Quiet, Done
<1>. QED  BY <1>1, <1>2, <1>3, <1>4, <1>5, <1>6 DEF Next, Runtime, Agent

\* Decrypt refuses nothing that was copied quietly, unless nothing was sealed yet.
LEMMA DecryptQuiet ==
  ASSUME CounterInv, Quiet, Decrypt, ~ overlap, since # Unsealed
  PROVE  result' # Refused
<1>1. Done = Fields
  BY DEF Decrypt, Done
<1>2. sealed = version /\ sealed = since
  BY DEF Decrypt, Quiet, CounterInv, RecordFresh
<1>3. \A f \in Fields : copied[f] = since
  BY <1>1, <1>2 DEF Decrypt, Quiet
<1>4. since \in Nat /\ since # Torn /\ since # Refused
  BY DEF CounterInv, TypeOK, Torn, Refused
<1>5. copied["cipher_text"] = since
  BY <1>3 DEF Fields
<1>. QED  BY <1>3, <1>4, <1>5 DEF Decrypt, Authentic

\* A counter is refused only if the record was half-written at some moment of the
\* call, or nothing sealed before it.
THEOREM RefusalsHaveCause == Spec => []RefusedOnlyIfOverlapped
<1>. DEFINE RInv == CounterInv /\ Quiet /\ RefusedOnlyIfOverlapped
<1>1. Init => RInv
  BY InitInv DEF Init, Quiet, RefusedOnlyIfOverlapped, Refused
<1>2. RInv /\ [Next]_vars => RefusedOnlyIfOverlapped'
  <2>. SUFFICES ASSUME RInv, [Next]_vars PROVE RefusedOnlyIfOverlapped'
    OBVIOUS
  <2>. USE DEF runtimeVars, agentVars
  <2>1. CASE Runtime
    BY <2>1 DEF Runtime, BeginSeal, BeginField, EndField, RefusedOnlyIfOverlapped
  <2>2. CASE Call \/ \E f \in Fields : Copy(f)
    <3>1. pc' # "call"
      BY <2>2 DEF Call, Copy, After, Fields
    <3>. QED  BY <3>1 DEF RefusedOnlyIfOverlapped
  <2>3. CASE Decrypt
    BY <2>3, DecryptQuiet DEF Decrypt, RefusedOnlyIfOverlapped
  <2>4. CASE UNCHANGED vars
    BY <2>4 DEF vars, RefusedOnlyIfOverlapped
  <2>. QED  BY <2>1, <2>2, <2>3, <2>4 DEF Next, Agent
<1>3. RInv /\ [Next]_vars => RInv'
  BY <1>2, NextInv, QuietCall
<1>4. RInv => RefusedOnlyIfOverlapped
  OBVIOUS
<1>. HIDE DEF RInv
<1>. QED  BY <1>1, <1>3, <1>4, PTL DEF Spec
================================================================================
