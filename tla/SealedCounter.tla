------------------------------ MODULE SealedCounter ------------------------------
(***************************************************************************)
(* One sealed counter in shared memory (Packet_count: iv, cipher_text and  *)
(* auth_tag) and decrypt_counter of user/p4agent/p4agent.c, which copies   *)
(* the three fields one after the other while the uBPF runtime rewrites    *)
(* them, without a lock.  The runtime is not in the repository: it may     *)
(* write the fields in any order, and die in the middle.                   *)
(*                                                                         *)
(* A field is the number of the sealing it belongs to, or Torn while its   *)
(* bytes are a mixture.  Authenticated decryption is modelled by what it   *)
(* promises: it accepts three fields of one sealing and refuses others,    *)
(* such as memory in which nothing was sealed yet.                         *)
(***************************************************************************)
EXTENDS Integers

CONSTANTS MaxVersion   \* bound: how often the counter is sealed

ASSUME VersionAssumption == MaxVersion \in Nat

Fields == {"iv", "cipher_text", "auth_tag"}
Torn == -1
Unsealed == 0
Refused == -1

VARIABLES
  field,     \* field[f] in shared memory
  version,   \* the sealing the runtime last began to write
  sealed,    \* the sealing it last finished
  unwritten, \* fields of `version` it has not finished
  copied,    \* iv_local, cipher_local, auth_tag_local
  pc,        \* the field decrypt_counter copies next, or "call", "decrypt"
  result,    \* what the last decrypt_counter returned
  since,     \* history variable: `sealed` when this decrypt_counter began
  overlap    \* history variable: has a write been going on since then?

runtimeVars == <<field, version, sealed, unwritten>>
agentVars == <<copied, pc, result, since>>
vars == <<runtimeVars, agentVars, overlap>>

-----------------------------------------------------------------------------
(* The runtime *)

\* It seals the next value (and a new runtime, after one that died, does too).
BeginSeal ==
  /\ version < MaxVersion
  /\ version' = version + 1
  /\ unwritten' = Fields
  /\ overlap' = TRUE
  /\ UNCHANGED <<field, sealed, agentVars>>

BeginField(f) ==
  /\ f \in unwritten
  /\ field' = [field EXCEPT ![f] = Torn]
  /\ UNCHANGED <<version, sealed, unwritten, agentVars, overlap>>

EndField(f) ==
  /\ f \in unwritten /\ field[f] = Torn
  /\ field' = [field EXCEPT ![f] = version]
  /\ unwritten' = unwritten \ {f}
  /\ sealed' = IF unwritten = {f} THEN version ELSE sealed
  /\ UNCHANGED <<version, agentVars, overlap>>

-----------------------------------------------------------------------------
(* decrypt_counter *)

Call ==
  /\ pc = "call"
  /\ pc' = "iv"
  /\ since' = sealed
  /\ overlap' = (unwritten # {})
  /\ UNCHANGED <<runtimeVars, copied, result>>

After(f) == CASE f = "iv" -> "cipher_text"
              [] f = "cipher_text" -> "auth_tag"
              [] f = "auth_tag" -> "decrypt"

\* Mutant of Copied: the copy of an earlier call is kept.
Copied_stale(f) == IF f = "auth_tag" THEN copied ELSE [copied EXCEPT ![f] = field[f]]
Copied(f) == [copied EXCEPT ![f] = field[f]]

Copy(f) ==
  /\ pc = f
  /\ copied' = Copied(f)
  /\ pc' = After(f)
  /\ UNCHANGED <<runtimeVars, result, since, overlap>>

\* Mutant of Authentic: the tag is not looked at.
Authentic_noTag ==
  /\ copied["cipher_text"] \notin {Torn, Unsealed}
  /\ copied["iv"] = copied["cipher_text"]
Authentic ==
  /\ copied["cipher_text"] \notin {Torn, Unsealed}
  /\ \A f \in Fields : copied[f] = copied["cipher_text"]

Decrypt ==
  /\ pc = "decrypt"
  /\ result' = IF Authentic THEN copied["cipher_text"] ELSE Refused
  /\ pc' = "call"
  /\ UNCHANGED <<runtimeVars, copied, since, overlap>>

-----------------------------------------------------------------------------
Init ==
  /\ field = [f \in Fields |-> Unsealed] /\ version = 0 /\ sealed = 0
  /\ unwritten = {}
  /\ copied = [f \in Fields |-> Torn]
  /\ pc = "call" /\ result = 0 /\ since = 0 /\ overlap = FALSE

Runtime == BeginSeal \/ \E f \in Fields : BeginField(f) \/ EndField(f)

Agent == Call \/ (\E f \in Fields : Copy(f)) \/ Decrypt

Next == Runtime \/ Agent

Spec == Init /\ [][Next]_vars

-----------------------------------------------------------------------------
(* Properties *)

\* Every variable has its type.
TypeOK ==
  /\ field \in [Fields -> Int] /\ copied \in [Fields -> Int]
  /\ version \in Nat /\ sealed \in Nat /\ since \in Nat
  /\ unwritten \subseteq Fields
  /\ pc \in Fields \cup {"call", "decrypt"}
  /\ result \in Int
  /\ overlap \in BOOLEAN

\* An accepted counter was current at some moment of the call: its sealing was
\* complete, and not older than the last one complete when the call began.  (The
\* three copies are taken at three times, so without the tag it would not be.)
ReadIsCurrent ==
  [][ pc = "decrypt" /\ result' # Refused /\ pc' = "call"
        => since <= result' /\ result' <= sealed ]_vars

\* A counter is refused, and its slot left out of the agent's sum, only if the
\* record was half-written at some moment of the call, or nothing sealed before.
RefusedOnlyIfOverlapped ==
  result = Refused /\ pc = "call" => overlap \/ since = Unsealed
================================================================================
