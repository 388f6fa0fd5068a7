----------------------------- MODULE ControlChannel -----------------------------
(***************************************************************************)
(* The control channel of the P4Launcher: p4l clients (p4l_client.c) that  *)
(* connect to the Unix socket, write one command, read once and close, and *)
(* the daemon (p4l_server.c), which between two polls of the session table *)
(* accepts at most one connection without blocking, then blocks in read(). *)
(*                                                                         *)
(* The daemon does not handle SIGPIPE: a write to a closed connection ends *)
(* it.  Runtimes inherit the listening socket, so it may outlive it.       *)
(***************************************************************************)
EXTENDS Integers, Sequences

CONSTANTS
  Clients,       \* names for processes that run p4l, one connection each
  NoClient,      \* "no connection is being served"
  Backlog,       \* the argument of listen()
  MaxWrites,     \* bound: the parts of a reply that is written in parts
  ClientMayDie   \* may a client be killed between two of its steps?

ASSUME ChannelAssumption ==
  /\ NoClient \notin Clients
  /\ Backlog \in Nat
  /\ MaxWrites \in Nat /\ MaxWrites >= 2
  /\ ClientMayDie \in BOOLEAN

\* What p4l was called with: a command answered by one dprintf(), or by
\* several (status, shutdown); an empty argument, of which write() sends
\* nothing; a command that does not fit the buffer, which is not sent.
Kinds == {"single", "several", "empty", "too_long"}

VARIABLES
  step,      \* step[c]: what c does next, or "closed"
  kind,      \* kind[c]: what c was called with
  sent,      \* clients whose command is in their connection
  inbox,     \* clients whose connection holds a part of a reply, unread
  ended,     \* clients whose connection the other side has closed
  answered,  \* history variable: clients whose read() returned a reply
  killed,    \* history variable: clients that were killed
  queue,     \* connections not accepted yet
  heirs,     \* does a runtime hold the listening socket?
  pc,        \* where the daemon's main loop is
  serving,   \* the client whose connection the daemon serves
  left       \* parts of its reply still to write

clientVars == <<step, kind, sent, inbox, ended, answered, killed>>
daemonVars == <<pc, serving, left>>
vars == <<clientVars, queue, heirs, daemonVars>>

Queued == {queue[k] : k \in 1 .. Len(queue)}

\* The listening socket lives as long as a process holds it.
Listening == pc # "exited" \/ heirs

-----------------------------------------------------------------------------
(* p4l *)

\* connect() succeeds while the backlog has room (Linux lets one more in than
\* listen() names); otherwise it waits, which is no step.  A name is used
\* again when its last connection is gone.
Connect(c, k) ==
  /\ step[c] = "closed" /\ c \notin Queued /\ c # serving
  /\ Listening /\ Len(queue) <= Backlog
  /\ step' = [step EXCEPT ![c] = "write"]
  /\ kind' = [kind EXCEPT ![c] = k]
  /\ sent' = sent \ {c} /\ inbox' = inbox \ {c} /\ ended' = ended \ {c}
  /\ answered' = answered \ {c} /\ killed' = killed \ {c}
  /\ queue' = Append(queue, c)
  /\ UNCHANGED <<heirs, daemonVars>>

\* A client whose connection is gone gets SIGPIPE.
SendCommand(c) ==
  /\ step[c] = "write"
  /\ step' = [step EXCEPT ![c] =
                IF kind[c] = "too_long" \/ c \in ended THEN "closed" ELSE "read"]
  /\ sent' = IF kind[c] \in {"single", "several"} /\ c \notin ended
             THEN sent \cup {c} ELSE sent
  /\ UNCHANGED <<kind, inbox, ended, answered, killed, queue, heirs, daemonVars>>

\* The only read(): it returns what is there, or the end of the connection.
ReadReply(c) ==
  /\ step[c] = "read"
  /\ c \in inbox \cup ended
  /\ step' = [step EXCEPT ![c] = "closed"]
  /\ inbox' = inbox \ {c}
  /\ answered' = IF c \in inbox THEN answered \cup {c} ELSE answered
  /\ UNCHANGED <<kind, sent, ended, killed, queue, heirs, daemonVars>>

Kill(c) ==
  /\ ClientMayDie
  /\ step[c] # "closed"
  /\ step' = [step EXCEPT ![c] = "closed"]
  /\ killed' = killed \cup {c}
  /\ UNCHANGED <<kind, sent, inbox, ended, answered, queue, heirs, daemonVars>>

-----------------------------------------------------------------------------
(* The daemon *)

Poll ==
  /\ pc = "poll"
  /\ pc' = "accept"
  /\ UNCHANGED <<clientVars, queue, heirs, serving, left>>

\* Mutant of WouldBlock: the listening socket was left blocking.
WouldBlock_never == FALSE
WouldBlock == queue = <<>>

GoOn ==
  /\ pc = "accept" /\ WouldBlock
  /\ pc' = "poll"
  /\ UNCHANGED <<clientVars, queue, heirs, serving, left>>

Accept ==
  /\ pc = "accept" /\ queue # <<>>
  /\ serving' = Head(queue)
  /\ queue' = Tail(queue)
  /\ pc' = "read"
  /\ UNCHANGED <<clientVars, heirs, left>>

\* read() returns 0.
\* Mutant of EndOfFile: the daemon reads again after 0.
EndOfFile_readAgain(c) == FALSE
EndOfFile(c) == step[c] = "closed" /\ c \notin sent

HangUp ==
  /\ pc = "read"
  /\ EndOfFile(serving)
  /\ serving' = NoClient
  /\ pc' = "poll"
  /\ UNCHANGED <<clientVars, queue, heirs, left>>

\* Mutant of HasCommand: the test n <= 0 reads n < 0.
HasCommand_orEnd(c) == c \in sent \/ step[c] = "closed"
HasCommand(c) == c \in sent

\* How many dprintf() calls answer it: every command has its answer.
\* Mutant of Replies: a handler without a reply.
Replies_none(c) == IF kind[c] = "several" THEN 2 .. MaxWrites ELSE {0}
Replies(c) == IF kind[c] = "several" THEN 2 .. MaxWrites ELSE {1}

ReadCommand ==
  /\ pc = "read"
  /\ HasCommand(serving)
  /\ left' \in Replies(serving)
  /\ pc' = "write"
  /\ UNCHANGED <<clientVars, queue, heirs, serving>>

WriteReply ==
  /\ pc = "write" /\ left > 0
  /\ step[serving] # "closed"
  /\ inbox' = inbox \cup {serving}
  /\ left' = left - 1
  /\ UNCHANGED <<step, kind, sent, ended, answered, killed, queue, heirs, pc, serving>>

\* When nobody holds the listening socket any more, the connections in its
\* backlog are reset.
ResetBacklog ==
  /\ ended' = ended \cup Queued
  /\ queue' = <<>>

\* SIGPIPE: what the runtimes hold stays open.
DieOfLateWrite ==
  /\ pc = "write" /\ left > 0
  /\ step[serving] = "closed"
  /\ pc' = "exited"
  /\ IF heirs THEN UNCHANGED <<ended, queue>> ELSE ResetBacklog
  /\ UNCHANGED <<step, kind, sent, inbox, answered, killed, heirs, serving, left>>

CloseClient ==
  /\ pc = "write" /\ left = 0
  /\ ended' = ended \cup {serving}
  /\ serving' = NoClient
  /\ pc' = "poll"
  /\ UNCHANGED <<step, kind, sent, inbox, answered, killed, queue, heirs, left>>

-----------------------------------------------------------------------------
(* The runtimes *)

\* Runtimes come and go while the daemon runs; after it, they only go.
SpawnHeir ==
  /\ ~ heirs /\ pc # "exited"
  /\ heirs' = TRUE
  /\ UNCHANGED <<clientVars, queue, daemonVars>>

HeirsEnd ==
  /\ heirs
  /\ heirs' = FALSE
  /\ IF pc = "exited" THEN ResetBacklog ELSE UNCHANGED <<ended, queue>>
  /\ UNCHANGED <<step, kind, sent, inbox, answered, killed, daemonVars>>

-----------------------------------------------------------------------------
Init ==
  /\ step = [c \in Clients |-> "closed"]
  /\ kind = [c \in Clients |-> "single"]
  /\ sent = {} /\ inbox = {} /\ ended = {} /\ answered = {} /\ killed = {}
  /\ queue = <<>> /\ heirs = FALSE
  /\ pc = "poll" /\ serving = NoClient /\ left = 0

Daemon == \/ Poll \/ GoOn \/ Accept \/ HangUp \/ ReadCommand
          \/ WriteReply \/ DieOfLateWrite \/ CloseClient

ClientStep(c) == SendCommand(c) \/ ReadReply(c)

Next ==
  \/ Daemon
  \/ \E c \in Clients : ClientStep(c) \/ Kill(c) \/ \E k \in Kinds : Connect(c, k)
  \/ SpawnHeir \/ HeirsEnd

Spec == Init /\ [][Next]_vars

\* The daemon and every client that does not wait are scheduled.
FairSpec == Spec /\ WF_vars(Daemon) /\ \A c \in Clients : WF_vars(ClientStep(c))

-----------------------------------------------------------------------------
(* Properties *)

\* Every variable has its type.
TypeOK ==
  /\ step \in [Clients -> {"write", "read", "closed"}]
  /\ kind \in [Clients -> Kinds]
  /\ sent \subseteq Clients /\ inbox \subseteq Clients /\ ended \subseteq Clients
  /\ answered \subseteq Clients /\ killed \subseteq Clients
  /\ queue \in Seq(Clients)
  /\ heirs \in BOOLEAN
  /\ pc \in {"poll", "accept", "read", "write", "exited"}
  /\ serving \in Clients \cup {NoClient}
  /\ left \in 0 .. MaxWrites

\* The daemon dies only of a client that was killed, or of one that had read
\* the first part of a reply written in parts: never of a client that hangs up
\* without a command, nor before the client it dies of has its answer.
DiesOnlyOfLateWrite ==
  pc = "exited" =>
    \/ serving \in killed
    \/ serving \in answered /\ kind[serving] = "several"

\* While the daemon runs, a client that sent its command, and was not killed,
\* does not return without an answer, however the others come and go.
CommandsAnswered ==
  \A c \in sent \ killed :
    step[c] = "closed" => c \in answered \/ pc = "exited"

\* p4l with an empty argument waits for a reply, the daemon for its command.
WaitingForEachOther ==
  pc = "read" /\ step[serving] = "read" /\ kind[serving] = "empty"

\* The session table is polled again and again, unless the daemon has died, or
\* it and a client that sent nothing wait for each other for ever.
PollingGoesOn ==
  []<>(pc = "poll") \/ <>[](pc = "exited" \/ WaitingForEachOther)

\* Every client that has connected returns, with two exceptions: that waiting,
\* and connections to a dead daemon's socket that a runtime keeps open.
ClientsReturn ==
  \A c \in Clients :
    \/ []<>(step[c] = "closed")
    \/ <>[](WaitingForEachOther \/ (pc = "exited" /\ heirs))
================================================================================
