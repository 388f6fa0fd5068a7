-------------------------- MODULE ControlChannelProofs --------------------------
(***************************************************************************)
(* What ends the daemon, and who is answered, for any number of clients,   *)
(* any backlog and replies in any number of parts.                         *)
(***************************************************************************)
EXTENDS ControlChannel, TLAPS

-----------------------------------------------------------------------------
(* The backlog *)

Elements(q) == {q[k] : k \in 1 .. Len(q)}

Distinct(q) == \A j, k \in 1 .. Len(q) : q[j] = q[k] => j = k

\* A connection that enters the backlog joins its elements, once.
LEMMA AppendElements ==
  ASSUME NEW q \in Seq(Clients), NEW c \in Clients
  PROVE  /\ Append(q, c) \in Seq(Clients)
         /\ Elements(Append(q, c)) = Elements(q) \cup {c}
         /\ Distinct(q) /\ c \notin Elements(q) => Distinct(Append(q, c))
<1>1. /\ Append(q, c) \in Seq(Clients)
      /\ Len(Append(q, c)) = Len(q) + 1 /\ Len(q) \in Nat
      /\ \A k \in 1 .. Len(q) : Append(q, c)[k] = q[k]
      /\ Append(q, c)[Len(q) + 1] = c
  OBVIOUS
<1>2. Elements(Append(q, c)) = Elements(q) \cup {c}
  BY <1>1 DEF Elements
<1>3. Distinct(q) /\ c \notin Elements(q) => Distinct(Append(q, c))
  BY <1>1 DEF Distinct, Elements
<1>. QED  BY <1>1, <1>2, <1>3

\* The connection that leaves it is in it no more.
LEMMA TailElements ==
  ASSUME NEW q \in Seq(Clients), q # <<>>, Distinct(q)
  PROVE  /\ Tail(q) \in Seq(Clients) /\ Head(q) \in Elements(q)
         /\ Elements(Tail(q)) = Elements(q) \ {Head(q)}
         /\ Distinct(Tail(q))
<1>1. /\ Tail(q) \in Seq(Clients)
      /\ Len(q) \in Nat \ {0} /\ Len(Tail(q)) = Len(q) - 1
      /\ \A k \in 1 .. Len(q) - 1 : Tail(q)[k] = q[k + 1]
      /\ Head(q) = q[1]
  OBVIOUS
<1>2. Distinct(Tail(q))
  BY <1>1 DEF Distinct
<1>3. Head(q) \in Elements(q)
  BY <1>1 DEF Elements
<1>4. ASSUME NEW x \in Elements(Tail(q))
      PROVE  x \in Elements(q) /\ x # Head(q)
  <2>1. PICK k \in 1 .. Len(q) - 1 : x = q[k + 1]
    BY <1>1 DEF Elements
  <2>2. k + 1 \in 1 .. Len(q) /\ 1 \in 1 .. Len(q) /\ k + 1 # 1
    BY <1>1
  <2>. QED  BY <1>1, <2>1, <2>2 DEF Elements, Distinct
<1>5. ASSUME NEW x \in Elements(q), x # Head(q)
      PROVE  x \in Elements(Tail(q))
  <2>1. PICK k \in 1 .. Len(q) : x = q[k]
    BY DEF Elements
  <2>2. k - 1 \in 1 .. Len(q) - 1 /\ (k - 1) + 1 = k
    BY <1>1, <1>5, <2>1
  <2>. QED  BY <1>1, <2>1, <2>2 DEF Elements
<1>. QED  BY <1>1, <1>2, <1>3, <1>4, <1>5

-----------------------------------------------------------------------------
(* The invariant *)

\* A connection is in one place, and open there.
Connections ==
  /\ Distinct(queue)
  /\ serving \notin Queued
  /\ serving = NoClient <=> pc \in {"poll", "accept"}
  /\ \A c \in Queued : c \notin ended
  /\ pc \in {"read", "write"} => serving \notin ended

\* What has been written of the reply: nothing before the command is read, one
\* part at least when the connection is closed.
Written ==
  /\ \A c \in Queued : c \notin inbox /\ c \notin answered
  /\ pc = "read" => serving \notin inbox /\ serving \notin answered
  /\ pc = "write" =>
       /\ serving \in sent
       /\ left = 0 => serving \in inbox \/ serving \in answered
       /\ kind[serving] # "several" =>
            /\ left <= 1
            /\ left = 1 => serving \notin inbox /\ serving \notin answered

\* A connection that the daemon closed behind a command holds the answer, or
\* gave it to the client.
Reached ==
  /\ \A c \in sent : step[c] # "write"
  /\ \A c \in sent : c \in ended => \/ c \in inbox \/ c \in answered \/ c \in killed
                                    \/ pc = "exited"

ChannelInv ==
  TypeOK /\ Connections /\ Written /\ Reached /\ CommandsAnswered
    /\ DiesOnlyOfLateWrite

LEMMA InitInv == Init => ChannelInv
<1>. SUFFICES ASSUME Init PROVE ChannelInv
  OBVIOUS
<1>. USE DEF Init
<1>1. queue \in Seq(Clients) /\ Queued = {} /\ Distinct(queue)
  BY DEF Queued, Distinct
<1>2. TypeOK
  <2>1. left \in 0 .. MaxWrites
    BY ChannelAssumption
  <2>2. "single" \in Kinds
    BY DEF Kinds
  <2>. QED  BY <1>1, <2>1, <2>2 DEF TypeOK
<1>. QED  BY <1>1, <1>2 DEF ChannelInv, Connections, Written, Reached,
          CommandsAnswered, DiesOnlyOfLateWrite

-----------------------------------------------------------------------------
(* The clients *)

LEMMA ConnectInv ==
  ASSUME NEW c \in Clients, NEW k \in Kinds, ChannelInv, Connect(c, k)
  PROVE  ChannelInv'
<1>. USE DEF ChannelInv, Connect, daemonVars
<1>1. /\ queue' \in Seq(Clients) /\ Queued' = Queued \cup {c}
      /\ Distinct(queue')
  BY AppendElements DEF TypeOK, Connections, Queued, Elements
<1>2. TypeOK'
  BY <1>1 DEF TypeOK
<1>3. Connections'
  BY <1>1 DEF Connections, TypeOK
<1>4. Written'
  BY <1>1 DEF Written, TypeOK
<1>5. Reached' /\ CommandsAnswered'
  BY DEF Reached, CommandsAnswered, TypeOK
<1>6. DiesOnlyOfLateWrite'
  BY DEF DiesOnlyOfLateWrite, TypeOK
<1>. QED  BY <1>2, <1>3, <1>4, <1>5, <1>6

LEMMA SendCommandInv ==
  ASSUME NEW c \in Clients, ChannelInv, SendCommand(c)
  PROVE  ChannelInv'
<1>. USE DEF ChannelInv, SendCommand, daemonVars
<1>1. Queued' = Queued
  BY DEF Queued
<1>2. TypeOK'
  BY DEF TypeOK
<1>3. c \notin sent
  BY DEF Reached
<1>4. Connections' /\ Written'
  BY <1>1 DEF Connections, Written
<1>5. Reached'
  BY <1>3 DEF Reached, TypeOK
<1>6. CommandsAnswered'
  BY <1>3 DEF CommandsAnswered, TypeOK
<1>7. DiesOnlyOfLateWrite'
  BY DEF DiesOnlyOfLateWrite
<1>. QED  BY <1>2, <1>4, <1>5, <1>6, <1>7

LEMMA ReadReplyInv ==
  ASSUME NEW c \in Clients, ChannelInv, ReadReply(c)
  PROVE  ChannelInv'
<1>. USE DEF ChannelInv, ReadReply, daemonVars
<1>1. Queued' = Queued
  BY DEF Queued
<1>2. TypeOK'
  BY DEF TypeOK
<1>3. Connections' /\ Written'
  BY <1>1 DEF Connections, Written
<1>4. Reached' /\ CommandsAnswered'
  BY DEF Reached, CommandsAnswered, TypeOK
<1>5. DiesOnlyOfLateWrite'
  BY DEF DiesOnlyOfLateWrite
<1>. QED  BY <1>2, <1>3, <1>4, <1>5

LEMMA KillInv ==
  ASSUME NEW c \in Clients, ChannelInv, Kill(c)
  PROVE  ChannelInv'
<1>. USE DEF ChannelInv, Kill, daemonVars
<1>1. Queued' = Queued
  BY DEF Queued
<1>2. TypeOK'
  BY DEF TypeOK
<1>3. Connections' /\ Written'
  BY <1>1 DEF Connections, Written
<1>4. Reached' /\ CommandsAnswered' /\ DiesOnlyOfLateWrite'
  BY DEF Reached, CommandsAnswered, DiesOnlyOfLateWrite, TypeOK
<1>. QED  BY <1>2, <1>3, <1>4

-----------------------------------------------------------------------------
(* The daemon and the runtimes *)

\* Steps that leave clients, connections and backlog alone.
LEMMA LoopInv ==
  ASSUME ChannelInv, Poll \/ GoOn \/ HangUp \/ SpawnHeir
  PROVE  ChannelInv'
<1>. USE DEF ChannelInv, Poll, GoOn, HangUp, SpawnHeir, clientVars, daemonVars
<1>1. Queued' = Queued /\ UNCHANGED <<queue, clientVars, left>>
  BY DEF Queued
<1>2. TypeOK'
  BY DEF TypeOK
<1>3. NoClient \notin Queued
  BY ChannelAssumption DEF Queued, TypeOK
<1>4. Connections' /\ Written'
  BY <1>1, <1>3 DEF Connections, Written
<1>5. Reached' /\ CommandsAnswered' /\ DiesOnlyOfLateWrite'
  BY DEF Reached, CommandsAnswered, DiesOnlyOfLateWrite
<1>. QED  BY <1>2, <1>4, <1>5

LEMMA AcceptInv == ChannelInv /\ Accept => ChannelInv'
<1>. SUFFICES ASSUME ChannelInv, Accept PROVE ChannelInv'
  OBVIOUS
<1>. USE DEF ChannelInv, Accept, clientVars
<1>1. /\ queue' \in Seq(Clients) /\ serving' \in Queued
      /\ Queued' = Queued \ {serving'}
      /\ Distinct(queue')
  BY TailElements DEF TypeOK, Connections, Queued, Elements
<1>2. serving' \in Clients
  BY <1>1 DEF Queued, TypeOK
<1>3. TypeOK'
  BY <1>1, <1>2 DEF TypeOK
<1>4. Connections' /\ Written'
  BY <1>1, <1>2, ChannelAssumption DEF Connections, Written
<1>5. Reached' /\ CommandsAnswered' /\ DiesOnlyOfLateWrite'
  BY DEF Reached, CommandsAnswered, DiesOnlyOfLateWrite
<1>. QED  BY <1>3, <1>4, <1>5

LEMMA ReadCommandInv == ChannelInv /\ ReadCommand => ChannelInv'
<1>. SUFFICES ASSUME ChannelInv, ReadCommand PROVE ChannelInv'
  OBVIOUS
<1>. USE DEF ChannelInv, ReadCommand, HasCommand, clientVars
<1>1. Queued' = Queued
  BY DEF Queued
<1>2. /\ left' \in 1 .. MaxWrites
      /\ kind[serving] # "several" => left' = 1
  BY ChannelAssumption DEF Replies
<1>3. TypeOK'
  BY <1>2 DEF TypeOK
<1>4. Connections' /\ Written'
  BY <1>1, <1>2 DEF Connections, Written
<1>5. Reached' /\ CommandsAnswered' /\ DiesOnlyOfLateWrite'
  BY DEF Reached, CommandsAnswered, DiesOnlyOfLateWrite
<1>. QED  BY <1>3, <1>4, <1>5

LEMMA WriteReplyInv == ChannelInv /\ WriteReply => ChannelInv'
<1>. SUFFICES ASSUME ChannelInv, WriteReply PROVE ChannelInv'
  OBVIOUS
<1>. USE DEF ChannelInv, WriteReply
<1>1. Queued' = Queued
  BY DEF Queued
<1>2. serving \in Clients
  BY DEF Connections, TypeOK
<1>3. TypeOK'
  BY <1>2, ChannelAssumption DEF TypeOK
<1>4. Connections'
  BY <1>1 DEF Connections
<1>5. Written'
  BY <1>1 DEF Written, Connections, TypeOK
<1>6. Reached' /\ CommandsAnswered' /\ DiesOnlyOfLateWrite'
  BY DEF Reached, CommandsAnswered, DiesOnlyOfLateWrite
<1>. QED  BY <1>3, <1>4, <1>5, <1>6

LEMMA CloseClientInv == ChannelInv /\ CloseClient => ChannelInv'
<1>. SUFFICES ASSUME ChannelInv, CloseClient PROVE ChannelInv'
  OBVIOUS
<1>. USE DEF ChannelInv, CloseClient
<1>1. Queued' = Queued /\ NoClient \notin Queued
  BY ChannelAssumption DEF Queued, TypeOK
<1>2. serving \in Clients
  BY DEF Connections, TypeOK
<1>3. TypeOK'
  BY <1>2 DEF TypeOK
<1>4. Connections' /\ Written'
  BY <1>1 DEF Connections, Written
<1>5. Reached' /\ CommandsAnswered' /\ DiesOnlyOfLateWrite'
  BY DEF Reached, Written, CommandsAnswered, DiesOnlyOfLateWrite
<1>. QED  BY <1>3, <1>4, <1>5

\* The backlog, kept or reset.
LEMMA BacklogKeptOrReset ==
  ASSUME ChannelInv, UNCHANGED <<ended, queue>> \/ ResetBacklog
  PROVE  /\ queue' \in Seq(Clients) /\ Distinct(queue')
         /\ Queued' \subseteq Queued
         /\ ended' \subseteq Clients
         /\ \A c \in Queued' : c \notin ended'
<1>1. CASE UNCHANGED <<ended, queue>>
  BY <1>1 DEF ChannelInv, TypeOK, Connections, Queued
<1>2. CASE ResetBacklog
  <2>1. queue' = <<>> /\ ended' = ended \cup Queued
    BY <1>2 DEF ResetBacklog
  <2>2. Queued' = {} /\ queue' \in Seq(Clients) /\ Distinct(queue')
    BY <2>1 DEF Queued, Distinct
  <2>3. Queued \subseteq Clients
    BY DEF ChannelInv, TypeOK, Queued
  <2>. QED  BY <2>1, <2>2, <2>3 DEF ChannelInv, TypeOK
<1>. QED  BY <1>1, <1>2

\* The heart of the theorem: the client has returned, and unless it was killed
\* it has its answer; a part of the reply is still to come, so there are two.
LEMMA DieOfLateWriteInv == ChannelInv /\ DieOfLateWrite => ChannelInv'
<1>. SUFFICES ASSUME ChannelInv, DieOfLateWrite PROVE ChannelInv'
  OBVIOUS
<1>. USE DEF ChannelInv, DieOfLateWrite
<1>1. /\ queue' \in Seq(Clients) /\ Distinct(queue')
      /\ Queued' \subseteq Queued /\ ended' \subseteq Clients
      /\ \A c \in Queued' : c \notin ended'
  BY BacklogKeptOrReset
<1>2. TypeOK'
  BY <1>1 DEF TypeOK
<1>3. Connections' /\ Written'
  BY <1>1 DEF Connections, Written
<1>4. Reached' /\ CommandsAnswered'
  BY DEF Reached, CommandsAnswered
<1>5. DiesOnlyOfLateWrite'
  <2>1. serving \in sent /\ step[serving] = "closed" /\ left \in Nat /\ left > 0
    BY DEF Written, TypeOK
  <2>2. serving \in killed \/ serving \in answered
    BY <2>1 DEF CommandsAnswered
  <2>3. kind[serving] # "several" => serving \notin answered
    BY <2>1 DEF Written
  <2>. QED  BY <2>2, <2>3 DEF DiesOnlyOfLateWrite
<1>. QED  BY <1>2, <1>3, <1>4, <1>5

LEMMA HeirsEndInv == ChannelInv /\ HeirsEnd => ChannelInv'
<1>. SUFFICES ASSUME ChannelInv, HeirsEnd PROVE ChannelInv'
  OBVIOUS
<1>. USE DEF ChannelInv, HeirsEnd, daemonVars
<1>1. /\ queue' \in Seq(Clients) /\ Distinct(queue')
      /\ Queued' \subseteq Queued /\ ended' \subseteq Clients
      /\ \A c \in Queued' : c \notin ended'
  BY BacklogKeptOrReset
<1>2. TypeOK'
  BY <1>1 DEF TypeOK
<1>3. pc # "exited" => ended' = ended
  OBVIOUS
<1>4. Connections' /\ Written'
  BY <1>1, <1>3 DEF Connections, Written
<1>5. Reached' /\ CommandsAnswered' /\ DiesOnlyOfLateWrite'
  BY <1>3 DEF Reached, CommandsAnswered, DiesOnlyOfLateWrite
<1>. QED  BY <1>2, <1>4, <1>5

LEMMA StutterInv == ChannelInv /\ UNCHANGED vars => ChannelInv'
BY DEF ChannelInv, TypeOK, Connections, Written, Reached, CommandsAnswered,
       DiesOnlyOfLateWrite, Queued, vars, clientVars, daemonVars

-----------------------------------------------------------------------------
LEMMA ChannelInvAlways == Spec => []ChannelInv
<1>1. ChannelInv /\ [Next]_vars => ChannelInv'
  BY ConnectInv, SendCommandInv, ReadReplyInv, KillInv, LoopInv, AcceptInv,
     ReadCommandInv, WriteReplyInv, CloseClientInv, DieOfLateWriteInv,
     HeirsEndInv, StutterInv
  DEF Next, Daemon, ClientStep
<1>. QED  BY InitInv, <1>1, PTL DEF Spec

\* SIGPIPE ends the daemon only for a client that was killed, or one that had
\* read the first part of a reply in several.
THEOREM DeathIsOfLateWrite == Spec => []DiesOnlyOfLateWrite
BY ChannelInvAlways, PTL DEF ChannelInv

\* As long as the daemon runs, every command that is sent is answered before
\* its client returns.
THEOREM NoCommandDropped == Spec => []CommandsAnswered
BY ChannelInvAlways, PTL DEF ChannelInv
================================================================================
