------------------------------- MODULE AgentReport -------------------------------
(***************************************************************************)
(* The memory report of user/p4agent/p4agent.c: every round the agent      *)
(* packs the TCP threshold (tcp_mem, read once) and the bytes TCP uses     *)
(* (sockstat) into one word, seals it, and copies the sealed record into   *)
(* shared memory part by part, without a lock or a marker; the switch may  *)
(* read it meanwhile.                                                      *)
(*                                                                         *)
(* The reader is not in the repository: it is taken to read the record as  *)
(* decrypt_counter reads a sealed counter.  The record's length is always  *)
(* the same and is left out, and so is the order of the word's bytes.      *)
(*                                                                         *)
(* An unsigned word is the set of its bits' positions: | is then a union,  *)
(* << moves the positions, and multiplying by a power of two does as well. *)
(***************************************************************************)
EXTENDS Integers, Sequences

CONSTANTS
  HalfBits,    \* bits of one half of the word (32 in the code)
  PageBits,    \* sysconf(_SC_PAGESIZE) is 2 ^ PageBits
  Thresholds,  \* what tcp_mem may say
  MaxVersion   \* bound: reports sealed

Half == 0 .. HalfBits - 1
Word == 0 .. 2 * HalfBits - 1

ASSUME ReportAssumption ==
  /\ HalfBits \in Nat \ {0} /\ PageBits \in Nat
  /\ Thresholds \subseteq SUBSET Word
  /\ MaxVersion \in Nat

VARIABLES
  field, version, sealed, unwritten,             \* the record (SealedCounter)
  copied, pc, result, since, overlap,            \* its reader (SealedCounter)
  agent,       \* the field the agent copies, or "round"
  threshold,   \* what get_threshold returned when the agent started
  reports      \* history variable: what the reports sealed so far were made of

recordVars == <<field, version, sealed, unwritten>>
readerVars == <<copied, pc, result, since>>
vars == <<recordVars, readerVars, overlap, agent, threshold, reports>>

\* The record as a writer that may write its fields in any order writes it.
Record == INSTANCE SealedCounter

\* w << n, cut off at the width of a word.
Shifted(w, n) == {b \in Word : b - n \in w}

-----------------------------------------------------------------------------
(* The agent *)

\* Mutants of Combined: ^ for |; the shift is one too short.
Combined_xor(t, u) == (Shifted(t, HalfBits) \ u) \cup (u \ Shifted(t, HalfBits))
Combined_short(t, u) == Shifted(t, HalfBits - 1) \cup u
Combined(t, u) == Shifted(t, HalfBits) \cup u

\* get_pages returns what sockstat says, or whatever used_pages held before if no
\* line of it matches: any number either way.
UsedBytes == {Shifted(used_pages, PageBits) : used_pages \in SUBSET Word}

\* A report is sealed (encrypt_message), and copying begins, ...
SealReport ==
  /\ agent = "round" /\ version < MaxVersion
  /\ version' = version + 1
  /\ unwritten' = Record!Fields
  /\ overlap' = TRUE
  /\ \E u \in UsedBytes :
       reports' = Append(reports, [threshold |-> threshold, used |-> u,
                                   data |-> Combined(threshold, u)])
  /\ agent' = "iv"
  /\ UNCHANGED <<field, sealed, readerVars, threshold>>

\* ... or encryption fails and the last report stays.
\* Mutant of SealFails: the iv is generated in shared memory.
SealFails_inPlace ==
  /\ agent = "round"
  /\ field' = [field EXCEPT !["iv"] = Record!Torn]
  /\ UNCHANGED <<version, sealed, unwritten, readerVars, overlap, agent, threshold,
                 reports>>
SealFails ==
  /\ agent = "round"
  /\ UNCHANGED vars

After(f) == CASE f = "iv" -> "cipher_text"
              [] f = "cipher_text" -> "auth_tag"
              [] f = "auth_tag" -> "round"

\* memcpy: the field is a mixture while it is copied.
BeginMemcpy(f) ==
  /\ agent = f /\ field[f] # Record!Torn
  /\ field' = [field EXCEPT ![f] = Record!Torn]
  /\ UNCHANGED <<version, sealed, unwritten, readerVars, overlap, agent, threshold,
                 reports>>

EndMemcpy(f) ==
  /\ agent = f /\ field[f] = Record!Torn
  /\ field' = [field EXCEPT ![f] = version]
  /\ unwritten' = unwritten \ {f}
  /\ sealed' = IF f = "auth_tag" THEN version ELSE sealed
  /\ agent' = After(f)
  /\ UNCHANGED <<version, readerVars, overlap, threshold, reports>>

\* The agent is killed anywhere and started again.
Restart ==
  /\ threshold' \in Thresholds
  /\ agent' = "round"
  /\ UNCHANGED <<recordVars, readerVars, overlap, reports>>

Agent ==
  \/ SealReport \/ SealFails
  \/ \E f \in Record!Fields : BeginMemcpy(f) \/ EndMemcpy(f)

\* The switch.
Reader == Record!Agent /\ UNCHANGED <<agent, threshold, reports>>

Init ==
  /\ Record!Init
  /\ agent = "round" /\ threshold \in Thresholds /\ reports = <<>>

Next == Agent \/ Restart \/ Reader

Spec == Init /\ [][Next]_vars

-----------------------------------------------------------------------------
(* Properties *)

\* The agent writes its record as SealedCounter asks of a writer, even if it is
\* killed in the middle and started again: so what the switch accepts was the
\* current report at some moment of its reading (SealedCounterProofs).
ImplementsRecord == Record!Spec

\* What the switch makes of an accepted report.
Accepted == reports[result]
ReportedThreshold == {b \in Half : b + HalfBits \in Accepted.data}
ReportedBytes == Accepted.data \cap Half

\* A report of numbers that fit into their halves is exact.
FittingReportIsExact ==
  result > 0 /\ Accepted.threshold \subseteq Half /\ Accepted.used \subseteq Half =>
    ReportedThreshold = Accepted.threshold /\ ReportedBytes = Accepted.used

\* A use of 4 GiB and more, or an uninitialised one, runs into the threshold's
\* bits, and only its lower half is reported.  That can make the threshold look
\* higher than it is, but takes none of its bits away.
ThresholdNeverUnderstated ==
  result > 0 /\ Accepted.threshold \subseteq Half =>
    Accepted.threshold \subseteq ReportedThreshold
================================================================================
