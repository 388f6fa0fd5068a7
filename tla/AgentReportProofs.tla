---------------------------- MODULE AgentReportProofs ----------------------------
(***************************************************************************)
(* The agent writes its memory report as SealedCounter asks of a writer,   *)
(* so what is proved there of a reader holds of the switch that reads it;  *)
(* and what the switch makes of the word in it is right: proved for every  *)
(* width, page size and threshold, and for an agent that is killed and     *)
(* started again anywhere.                                                 *)
(***************************************************************************)
EXTENDS AgentReport, TLAPS

\* The record and its reader, with what is proved about them.
Proved == INSTANCE SealedCounterProofs

-----------------------------------------------------------------------------
(* The refinement *)

\* The fields are copied in their order: those from the agent's on are missing.
From(f) == CASE f = "iv" -> {"iv", "cipher_text", "auth_tag"}
             [] f = "cipher_text" -> {"cipher_text", "auth_tag"}
             [] f = "auth_tag" -> {"auth_tag"}

InTurn ==
  /\ agent \in Record!Fields \cup {"round"}
  /\ agent # "round" => unwritten = From(agent)

LEMMA InitInTurn == Init => Record!Init /\ InTurn
BY DEF Init, InTurn

\* Each step of the agent is one of the writer or leaves the record alone, and it
\* goes from field to field.
LEMMA AgentWrites ==
  ASSUME InTurn, Agent
  PROVE  InTurn' /\ (Record!Runtime \/ UNCHANGED Record!vars)
<1>. USE DEF Record!vars, Record!runtimeVars, Record!agentVars, readerVars
<1>1. CASE SealReport
  <2>1. Record!BeginSeal
    BY <1>1 DEF SealReport, Record!BeginSeal
  <2>2. InTurn'
    BY <1>1 DEF SealReport, InTurn, From, Record!Fields
  <2>. QED  BY <2>1, <2>2 DEF Record!Runtime
<1>2. CASE SealFails
  BY <1>2 DEF SealFails, vars, recordVars, InTurn
<1>3. ASSUME NEW f \in Record!Fields, BeginMemcpy(f)
      PROVE  InTurn' /\ Record!Runtime
  <2>1. f \in unwritten
    BY <1>3 DEF BeginMemcpy, InTurn, From, Record!Fields
  <2>2. Record!BeginField(f)
    BY <1>3, <2>1 DEF BeginMemcpy, Record!BeginField
  <2>3. InTurn'
    BY <1>3 DEF BeginMemcpy, InTurn
  <2>. QED  BY <2>2, <2>3 DEF Record!Runtime
<1>4. ASSUME NEW f \in Record!Fields, EndMemcpy(f)
      PROVE  InTurn' /\ Record!Runtime
  <2>1. f \in unwritten /\ (f = "auth_tag" <=> unwritten = {f})
    BY <1>4 DEF EndMemcpy, InTurn, From, Record!Fields
  <2>2. Record!EndField(f)
    BY <1>4, <2>1 DEF EndMemcpy, Record!EndField
  <2>3. InTurn'
    BY <1>4 DEF EndMemcpy, After, InTurn, From, Record!Fields
  <2>. QED  BY <2>2, <2>3 DEF Record!Runtime
<1>. QED  BY <1>1, <1>2, <1>3, <1>4 DEF Agent

LEMMA NextWrites == InTurn /\ [Next]_vars => InTurn' /\ [Record!Next]_(Record!vars)
<1>. SUFFICES ASSUME InTurn, [Next]_vars
              PROVE  InTurn' /\ (Record!Next \/ UNCHANGED Record!vars)
  OBVIOUS
<1>. USE DEF Record!vars, Record!runtimeVars, Record!agentVars
<1>1. CASE Agent
  BY <1>1, AgentWrites DEF Record!Next
<1>2. CASE Restart
  BY <1>2 DEF Restart, recordVars, readerVars, InTurn
<1>3. CASE Reader
  <2>1. UNCHANGED <<agent, unwritten>>
    BY <1>3 DEF Reader, Record!Agent, Record!Call, Record!Copy, Record!Decrypt
  <2>. QED  BY <1>3, <2>1 DEF Reader, Record!Next, InTurn
<1>4. CASE UNCHANGED vars
  BY <1>4 DEF vars, recordVars, readerVars, InTurn
<1>. QED  BY <1>1, <1>2, <1>3, <1>4 DEF Next

LEMMA InTurnAlways == Spec => []InTurn
BY InitInTurn, NextWrites, PTL DEF Spec

\* The agent's copying, killed anywhere and started again, is a behaviour of
\* SealedCounter's writer, which may write the fields in any order.
THEOREM ReportIsRecord == Spec => ImplementsRecord
BY InitInTurn, NextWrites, PTL DEF Spec, ImplementsRecord, Record!Spec

-----------------------------------------------------------------------------
(* What is proved of the reader *)

\* Both instances of SealedCounter are the same.
LEMMA SameRecord ==
  /\ Record!Init <=> Proved!Init
  /\ [Record!Next]_(Record!vars) <=> [Proved!Next]_(Proved!vars)
  /\ UNCHANGED Record!vars <=> UNCHANGED Proved!vars
<1>1. Record!Init <=> Proved!Init
  BY DEF Record!Init, Proved!Init, Record!Fields, Proved!Fields, Record!Torn, Proved!Torn,
     Record!Unsealed, Proved!Unsealed
<1>2. UNCHANGED Record!vars <=> UNCHANGED Proved!vars
  BY DEF Record!vars, Proved!vars, Record!runtimeVars, Proved!runtimeVars,
     Record!agentVars, Proved!agentVars
<1>3. Record!Runtime <=> Proved!Runtime
  BY DEF Record!Runtime, Proved!Runtime, Record!BeginSeal, Proved!BeginSeal,
     Record!BeginField, Proved!BeginField, Record!EndField, Proved!EndField,
     Record!Fields, Proved!Fields, Record!Torn, Proved!Torn,
     Record!agentVars, Proved!agentVars
<1>4. Record!Agent <=> Proved!Agent
  BY DEF Record!Agent, Proved!Agent, Record!Call, Proved!Call, Record!Copy, Proved!Copy,
     Record!Copied, Proved!Copied, Record!After, Proved!After,
     Record!Decrypt, Proved!Decrypt, Record!Authentic, Proved!Authentic,
     Record!Fields, Proved!Fields, Record!Torn, Proved!Torn,
     Record!Unsealed, Proved!Unsealed, Record!Refused, Proved!Refused,
     Record!runtimeVars, Proved!runtimeVars
<1>. QED  BY <1>1, <1>2, <1>3, <1>4 DEF Record!Next, Proved!Next

LEMMA RecordIsProved == Spec => Proved!Spec
BY InitInTurn, NextWrites, SameRecord, PTL DEF Spec, Proved!Spec

\* What the switch accepts was the agent's current report at some moment of its
\* reading, although neither side takes a lock and the agent may be killed in the
\* middle of its copying.
THEOREM SwitchReadsCurrent == Spec => Record!ReadIsCurrent
<1>1. [ pc = "decrypt" /\ result' # Proved!Refused /\ pc' = "call"
          => since <= result' /\ result' <= sealed ]_(Proved!vars)
      => [ pc = "decrypt" /\ result' # Record!Refused /\ pc' = "call"
          => since <= result' /\ result' <= sealed ]_(Record!vars)
  BY SameRecord DEF Record!Refused, Proved!Refused
<1>2. Proved!Spec => Proved!ReadIsCurrent
  BY Proved!AcceptedIsCurrent, ReportAssumption
<1>. QED
  BY <1>1, <1>2, RecordIsProved, PTL
  DEF Record!ReadIsCurrent, Proved!ReadIsCurrent

\* It refuses a report only if one was being written at some moment of its
\* reading, or none had been finished before.
THEOREM SwitchRefusesWithCause == Spec => []Record!RefusedOnlyIfOverlapped
<1>1. Proved!RefusedOnlyIfOverlapped => Record!RefusedOnlyIfOverlapped
  BY DEF Proved!RefusedOnlyIfOverlapped, Record!RefusedOnlyIfOverlapped,
     Record!Refused, Proved!Refused, Record!Unsealed, Proved!Unsealed
<1>2. Proved!Spec => []Proved!RefusedOnlyIfOverlapped
  BY Proved!RefusalsHaveCause, ReportAssumption
<1>. QED  BY <1>1, <1>2, RecordIsProved, PTL

-----------------------------------------------------------------------------
(* The word *)

\* What the two halves of a combined word hold.
LEMMA CombinedHalves ==
  ASSUME NEW t \in SUBSET Word, NEW u \in SUBSET Word
  PROVE  /\ Combined(t, u) \in SUBSET Word
         /\ Combined(t, u) \cap Half = u \cap Half
         /\ {b \in Half : b + HalfBits \in Combined(t, u)}
              = (t \cap Half) \cup {b \in Half : b + HalfBits \in u}
<1>1. \A b \in Half : /\ b \in Word /\ b + HalfBits \in Word /\ (b + HalfBits) - HalfBits = b
                      /\ b - HalfBits \notin Word
  BY ReportAssumption DEF Half, Word
<1>2. Shifted(t, HalfBits) \cap Half = {}
  BY <1>1 DEF Shifted
<1>3. \A b \in Half : b + HalfBits \in Shifted(t, HalfBits) <=> b \in t
  BY <1>1 DEF Shifted
<1>4. Shifted(t, HalfBits) \subseteq Word
  BY DEF Shifted
<1>. QED  BY <1>2, <1>3, <1>4 DEF Combined

\* The reports are as the agent packed them, and the switch accepts none that was
\* not sealed.
Report == [threshold : SUBSET Word, used : SUBSET Word, data : SUBSET Word]
WordInv ==
  /\ threshold \in SUBSET Word
  /\ reports \in Seq(Report) /\ Len(reports) = version
  /\ \A k \in 1 .. Len(reports) :
       reports[k].data = Combined(reports[k].threshold, reports[k].used)
  /\ result \in Int /\ result <= version

LEMMA InitWord == Init => WordInv
<1>. SUFFICES ASSUME Init PROVE WordInv
  OBVIOUS
<1>1. version = 0 /\ result = 0
  BY DEF Init, Record!Init
<1>2. reports \in Seq(Report) /\ Len(reports) = 0
  BY DEF Init
<1>. QED  BY <1>1, <1>2, ReportAssumption DEF Init, WordInv

LEMMA NextWord == Proved!CounterInv /\ WordInv /\ [Next]_vars => WordInv'
<1>. SUFFICES ASSUME Proved!CounterInv, WordInv, [Next]_vars PROVE WordInv'
  OBVIOUS
<1>1. CASE SealReport
  <2>1. PICK u \in UsedBytes :
          reports' = Append(reports, [threshold |-> threshold, used |-> u,
                                      data |-> Combined(threshold, u)])
    BY <1>1 DEF SealReport
  <2>. DEFINE new == [threshold |-> threshold, used |-> u, data |-> Combined(threshold, u)]
  <2>2. u \in SUBSET Word
    BY DEF UsedBytes, Shifted
  <2>3. new \in Report
    BY <2>2, CombinedHalves DEF WordInv, Report
  <2>4. new.data = Combined(new.threshold, new.used)
    OBVIOUS
  <2>. HIDE DEF new
  <2>5. reports' = Append(reports, new) /\ reports \in Seq(Report)
    BY <2>1 DEF new, WordInv
  <2>6. /\ reports' \in Seq(Report) /\ Len(reports') = Len(reports) + 1
        /\ reports'[Len(reports) + 1] = new
        /\ \A k \in 1 .. Len(reports) : reports'[k] = reports[k]
    BY <2>3, <2>5
  <2>7. \A k \in 1 .. Len(reports') :
          reports'[k].data = Combined(reports'[k].threshold, reports'[k].used)
    <3>. TAKE k \in 1 .. Len(reports')
    <3>1. k \in 1 .. Len(reports) \/ k = Len(reports) + 1
      BY <2>5, <2>6
    <3>. QED  BY <2>4, <2>6, <3>1 DEF WordInv
  <2>8. version' = version + 1 /\ UNCHANGED <<threshold, result>> /\ version \in Nat
    BY <1>1 DEF SealReport, readerVars, WordInv, Proved!CounterInv, Proved!TypeOK
  <2>. QED  BY <2>6, <2>7, <2>8 DEF WordInv
<1>2. CASE Restart
  BY <1>2, ReportAssumption DEF Restart, recordVars, readerVars, WordInv
<1>3. CASE Reader
  <2>1. UNCHANGED <<threshold, reports, version>>
    BY <1>3 DEF Reader, Record!Agent, Record!Call, Record!Copy, Record!Decrypt,
       Record!runtimeVars
  <2>2. result' \in Int /\ result' <= version
    <3>1. CASE UNCHANGED result
      BY <3>1 DEF WordInv
    <3>2. CASE Record!Decrypt
      <4>1. copied["cipher_text"] \in Int /\ copied["cipher_text"] <= version
            /\ version \in Nat
        BY DEF Proved!CounterInv, Proved!TypeOK, Proved!RecordFresh, Proved!Fields
      <4>. QED  BY <3>2, <4>1 DEF Record!Decrypt, Record!Refused
    <3>. QED  BY <1>3, <3>1, <3>2 DEF Reader, Record!Agent, Record!Call, Record!Copy
  <2>. QED  BY <2>1, <2>2 DEF WordInv
<1>4. CASE SealFails \/ UNCHANGED vars
           \/ \E f \in Record!Fields : BeginMemcpy(f) \/ EndMemcpy(f)
  <2>1. UNCHANGED <<threshold, reports, version, result>>
    BY <1>4 DEF SealFails, BeginMemcpy, EndMemcpy, vars, recordVars, readerVars
  <2>. QED  BY <2>1 DEF WordInv
<1>. QED  BY <1>1, <1>2, <1>3, <1>4 DEF Next, Agent

LEMMA WordAlways == Spec => []WordInv
<1>1. Proved!Spec => []Proved!CounterInv
  BY Proved!CounterInvAlways, ReportAssumption
<1>. QED  BY <1>1, RecordIsProved, InitWord, NextWord, PTL DEF Spec

\* What the switch reads from an accepted report.
LEMMA AcceptedHalves ==
  ASSUME WordInv, result > 0
  PROVE  /\ ReportedBytes = Accepted.used \cap Half
         /\ ReportedThreshold = (Accepted.threshold \cap Half)
                                  \cup {b \in Half : b + HalfBits \in Accepted.used}
<1>1. result \in 1 .. Len(reports)
  BY DEF WordInv
<1>2. /\ Accepted.threshold \in SUBSET Word /\ Accepted.used \in SUBSET Word
      /\ Accepted.data = Combined(Accepted.threshold, Accepted.used)
  <2>1. reports[result] \in Report
    BY <1>1 DEF WordInv
  <2>. QED  BY <1>1, <2>1 DEF WordInv, Accepted, Report
<1>. QED  BY <1>2, CombinedHalves DEF ReportedBytes, ReportedThreshold

\* A report of numbers that fit into their halves reaches the switch as it was,
\* whatever the width of the word and the size of a page.
THEOREM FittingReportsAreExact == Spec => []FittingReportIsExact
<1>1. WordInv => FittingReportIsExact
  <2>. SUFFICES ASSUME WordInv, result > 0,
                       Accepted.threshold \subseteq Half, Accepted.used \subseteq Half
                PROVE  ReportedThreshold = Accepted.threshold
                       /\ ReportedBytes = Accepted.used
    BY DEF FittingReportIsExact
  <2>1. \A b \in Half : b + HalfBits \notin Half
    BY ReportAssumption DEF Half
  <2>. QED  BY <2>1, AcceptedHalves
<1>. QED  BY <1>1, WordAlways, PTL

\* A use that does not fit, or an uninitialised one, never takes a bit from the
\* threshold that the switch reads.
THEOREM ThresholdsAreNotUnderstated == Spec => []ThresholdNeverUnderstated
<1>1. WordInv => ThresholdNeverUnderstated
  BY AcceptedHalves DEF ThresholdNeverUnderstated
<1>. QED  BY <1>1, WordAlways, PTL

================================================================================
