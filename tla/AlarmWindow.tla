------------------------------- MODULE AlarmWindow -------------------------------
(***************************************************************************)
(* What the agent's alarm promises, without a ring buffer: the verdicts    *)
(* since the last alarm are kept in order, the newest Window of them; once *)
(* there are Window of them and at least Threshold are bad, the alarm is   *)
(* raised and the record starts afresh.                                    *)
(***************************************************************************)
EXTENDS Naturals, Sequences, FiniteSets

CONSTANTS Window, Threshold

VARIABLES recent,   \* the newest verdicts since the last alarm, oldest first
          alarm     \* did the latest check raise the alarm?

windowVars == <<recent, alarm>>

WindowInit == recent = <<>> /\ alarm = FALSE

Newest(s) == IF Len(s) > Window THEN Tail(s) ELSE s

Alarming(s) ==
  /\ Len(s) = Window
  /\ Cardinality({k \in DOMAIN s : s[k] = 1}) >= Threshold

\* A check that compared the counters.
Verdict(d) ==
  LET all == Newest(Append(recent, d))
  IN  \/ Alarming(all) /\ alarm' = TRUE /\ recent' = <<>>
      \/ ~ Alarming(all) /\ alarm' = FALSE /\ recent' = all

\* A check that had nothing to compare with.
NoVerdict == alarm' = FALSE /\ UNCHANGED recent

WindowNext == NoVerdict \/ \E d \in {0, 1} : Verdict(d)

WindowSpec == WindowInit /\ [][WindowNext]_windowVars
================================================================================
