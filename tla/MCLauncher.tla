------------------------------- MODULE MCLauncher -------------------------------
(***************************************************************************)
(* Small instances of P4Launcher for TLC.                                  *)
(***************************************************************************)
EXTENDS P4Launcher, TLC

\* p4l update n, from fewer than none to one more than the table holds.
MCUpdates == {[op |-> "update", n |-> k] : k \in -1 .. MAX_CONNECTIONS + 1}
MCStatus == [op |-> "status", n |-> 0]
MCStart == [op |-> "start", n |-> 0]
MCStop == [op |-> "stop", n |-> 0]
MCShutdown == [op |-> "shutdown", n |-> 0]

\* Commands that end no runtime in use.
MCGentle == MCUpdates \cup {MCStart}
MCWithStop == MCUpdates \cup {MCStop}
MCAll == MCUpdates \cup {MCStart, MCStatus, MCStop, MCShutdown}
MCNone == {}

MCSymmetry == Permutations(Pids)
================================================================================
