---------------------------- MODULE DetectorVerdicts ----------------------------
(***************************************************************************)
(* BypassDetector with one more history variable, which tells which        *)
(* verdict is the right one.                                               *)
(***************************************************************************)
EXTENDS BypassDetector

VARIABLE
  tally   \* what has happened since the last check, the worst of it: "clean",
          \* "bypassed" (a packet bypassed P4), "lost" (a sum has lost executions,
          \* or the one it is compared with lacks some), "unread" (this sum lacks
          \* the executions of a record that could not be read)

verdictVars == <<vars, tally>>

Reads ==
  /\ WakeUp \/ ReadCounter \/ ReadNic
  /\ tally' = IF pc = "read" /\ writing[i] THEN "unread" ELSE tally

Judges ==
  /\ StartOver \/ Judge
  /\ tally' = IF tally = "unread" THEN "lost" ELSE "clean"

Moves ==
  /\ Traffic
  /\ tally' = IF tally # "unread" /\ \E s \in Slots : counter'[s] < counter[s]
                THEN "lost"
              ELSE IF tally = "clean" /\ fresh' > fresh /\ onTheWay' = onTheWay
                THEN "bypassed" ELSE tally

VerdictInit == Init /\ tally = "clean"

VerdictNext == Reads \/ Judges \/ Moves

VerdictSpec == VerdictInit /\ [][VerdictNext]_verdictVars

\* The agent is scheduled.
FairVerdictSpec == VerdictSpec /\ WF_vars(Agent)

-----------------------------------------------------------------------------
(* Properties *)

Comparable == prev_exec > 0 \/ prev_some

\* The verdict is right.  If traffic rested for the readings of this round and of
\* the one before, every record could be read in both, and no sum went back, then
\* the round is judged, and it is judged bad exactly if a packet bypassed P4 since
\* the last check: one is enough, however many others were executed, on their way
\* between the rounds, or counted in earlier rounds that went wrong.
VerdictIsRight ==
  pc = "judge" /\ uneven = {} /\ tally \in {"clean", "bypassed"} /\ Comparable =>
    ~ NoComparison /\ (Detected = 1 <=> tally = "bypassed")
================================================================================
