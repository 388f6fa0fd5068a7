------------------------------ MODULE RuntimePool ------------------------------
(***************************************************************************)
(* What the P4Launcher promises to the switch, without saying how: every   *)
(* session slot that Open vSwitch opens in shared memory may be bound to a *)
(* uBPF runtime; a runtime serves at most one session; only a running      *)
(* runtime is ever bound; and a runtime is never retired while a session   *)
(* is bound to it.                                                         *)
(***************************************************************************)

CONSTANTS Sessions,   \* the slots of the session table
          Pids,       \* process ids of runtimes
          NoPid       \* "no runtime" (-1 in the code)

VARIABLES opened,     \* the slots that hold a live OVS thread
          bound,      \* bound[s]: the runtime that serves slot s, or NoPid
          alive       \* the runtimes that are running

poolVars == <<opened, bound, alive>>

PoolInit == /\ opened = {}
            /\ bound = [s \in Sessions |-> NoPid]
            /\ alive = {}

Idle(p) == \A s \in Sessions : bound[s] # p

OvsOpens(s)  == opened' = opened \cup {s} /\ UNCHANGED <<bound, alive>>
OvsCloses(s) == opened' = opened \ {s}    /\ UNCHANGED <<bound, alive>>

Start(p) == /\ p \notin alive
            /\ Idle(p)
            /\ alive' = alive \cup {p}
            /\ UNCHANGED <<opened, bound>>

Retire(p) == /\ p \in alive
             /\ Idle(p)
             /\ alive' = alive \ {p}
             /\ UNCHANGED <<opened, bound>>

Bind(s, p) == /\ bound[s] = NoPid
              /\ p \in alive
              /\ Idle(p)
              /\ bound' = [bound EXCEPT ![s] = p]
              /\ UNCHANGED <<opened, alive>>

Release(s) == /\ bound[s] # NoPid
              /\ bound' = [bound EXCEPT ![s] = NoPid]
              /\ UNCHANGED <<opened, alive>>

PoolNext == \/ \E s \in Sessions : OvsOpens(s) \/ OvsCloses(s) \/ Release(s)
            \/ \E p \in Pids : Start(p) \/ Retire(p)
            \/ \E s \in Sessions, p \in Pids : Bind(s, p)

PoolSpec == PoolInit /\ [][PoolNext]_poolVars
================================================================================
