------------------------------ MODULE SSMProofs ------------------------------
(***************************************************************************)
(* Proofs about the SSM tunnel: SSMDataChannel, for every value of its     *)
(* bounds, and SSMTunnel, for any number of connections, tunnels and       *)
(* sessions.                                                               *)
(***************************************************************************)
EXTENDS SSMDataChannel, SSMTunnel, FiniteSetTheorems, TLAPS

-----------------------------------------------------------------------------
(* The data channel. *)

USE DEF Handshake

\* The arithmetic of frame numbers.
LEMMA FramesFacts ==
    ASSUME NEW n \in Nat
    PROVE  /\ Frames(n) \in Nat
           /\ n >= 2 => Frames(n) = n - 2 /\ Frames(n + 1) = Frames(n) + 1
           /\ n < 2 => Frames(n) = 0 /\ Frames(n + 1) = 0
BY DEF Frames

\* An appended sequence is the old one with one element more.
LEMMA AppendFacts ==
    ASSUME NEW S, NEW s \in Seq(S), NEW e \in S
    PROVE  \A i \in DOMAIN Append(s, e) :
             \/ i = Len(s) + 1 /\ Append(s, e)[i] = e
             \/ i \in DOMAIN s /\ i \in 1 .. Len(s) /\ Append(s, e)[i] = s[i]
OBVIOUS

\* TypeOK is inductive.
LEMMA ChannelTypeStep == ChannelTypeOK /\ Reading /\ [ChannelNext]_channelVars => ChannelTypeOK'
<1> SUFFICES ASSUME ChannelTypeOK, Reading, [ChannelNext]_channelVars PROVE ChannelTypeOK'
    OBVIOUS
<1> USE DEF ChannelTypeOK, agent
<1>1. CASE AgentSends
    BY <1>1 DEF AgentSends, Relay, Output, Messages
<1>2. ASSUME NEW n \in unacked, AgentRepeats(n) PROVE ChannelTypeOK'
    BY <1>2 DEF AgentRepeats, Relay, Output, Messages
<1>3. CASE AgentCloses
    BY <1>3 DEF AgentCloses, Relay, ChannelClosed, Messages
<1>4. CASE Lose
  <2>1. PICK i \in DOMAIN wire :
          wire' = [j \in 1 .. Len(wire) - 1 |-> IF j < i THEN wire[j] ELSE wire[j + 1]]
      BY <1>4 DEF Lose
  <2>2. Len(wire) \in Nat /\ DOMAIN wire = 1 .. Len(wire)
      OBVIOUS
  <2>3. Len(wire) - 1 \in Nat
      BY <2>1, <2>2
  <2>4. \A j \in 1 .. Len(wire) - 1 : wire[j] \in Messages /\ wire[j + 1] \in Messages
      BY <2>2
  <2>5. wire' \in Seq(Messages)
      BY <2>1, <2>3, <2>4
  <2> QED BY <1>4, <2>5 DEF Lose
<1>5. CASE Break
    BY <1>5 DEF Break
<1>6. CASE ReadMessage
  <2>1. wire # <<>> /\ wire \in Seq(Messages)
      BY <1>6 DEF ReadMessage
  <2>2. Head(wire) \in Messages /\ Tail(wire) \in Seq(Messages)
      BY <2>1
  <2>3. Head(wire).number \in Nat
      BY <2>2 DEF Messages
  <2> QED BY <1>6, <2>2, <2>3 DEF ReadMessage
<1>7. CASE ReadFails
    BY <1>7 DEF ReadFails
<1>8. CASE Acknowledge
    BY <1>8 DEF Acknowledge
<1>9. CASE AnswerHandshake
  <2>1. [number |-> seq, syn |-> seq = 0, payload |-> "handshakeResponse"] \in Inputs
      BY DEF Inputs
  <2> QED BY <1>9, <2>1 DEF AnswerHandshake, SendInput
<1>10. CASE CompleteHandshake
    BY <1>10 DEF CompleteHandshake
<1>11. CASE OfferFrame
    BY <1>11 DEF OfferFrame
<1>12. CASE WriteFails
    BY <1>12 DEF WriteFails
<1>13. CASE SmuxReads
  <2>1. cur - Handshake \in Nat
      BY <1>13 DEF SmuxReads, Reading
  <2> QED BY <1>13, <2>1 DEF SmuxReads
<1>14. CASE SmuxWrites
  <2>1. [number |-> seq, syn |-> seq = 0, payload |-> "output"] \in Inputs
      BY DEF Inputs
  <2> QED BY <1>14, <2>1 DEF SmuxWrites, SendInput
<1>15. CASE Start
    BY <1>15 DEF Start, StartSucceeds, StartFindsDead, StartTimesOut
<1>16. CASE CloseChannel
    BY <1>16 DEF CloseChannel
<1>17. CASE UNCHANGED channelVars
    BY <1>17 DEF channelVars
<1> QED BY <1>1, <1>2, <1>3, <1>4, <1>5, <1>6, <1>7, <1>8, <1>9, <1>10, <1>11, <1>12,
           <1>13, <1>14, <1>15, <1>16, <1>17 DEF ChannelNext, Loop

\* Each step keeps the account of what readLoop has taken and handed over.
LEMMA ReadingStep == ChannelTypeOK /\ Reading /\ [ChannelNext]_channelVars => Reading'
<1> SUFFICES ASSUME ChannelTypeOK, Reading, [ChannelNext]_channelVars PROVE Reading'
    OBVIOUS
<1> USE DEF ChannelTypeOK, Reading, agent
<1>1. CASE AgentSends
  <2>1. wire' = Append(wire, Output(sent)) /\ sent' = sent + 1
        /\ unacked' = unacked \cup {sent} /\ UNCHANGED <<expectedSeq, loop, cur, read>>
      BY <1>1 DEF AgentSends, Relay
  <2>2. \A i \in DOMAIN wire' : wire'[i].type = "outputStreamData" => wire'[i].number < sent'
    <3>1. Output(sent) \in Messages /\ Output(sent).number = sent
        BY DEF Output, Messages
    <3>2. \A i \in DOMAIN wire' :
            wire'[i] = Output(sent) \/ (i \in DOMAIN wire /\ wire'[i] = wire[i])
        BY <2>1, <3>1, AppendFacts
    <3>3. \A i \in DOMAIN wire : wire[i].number \in Nat
      <4>1. \A i \in DOMAIN wire : wire[i] \in Messages
          OBVIOUS
      <4> QED BY <4>1 DEF Messages
    <3> QED BY <2>1, <3>1, <3>2, <3>3
  <2>3. \A n \in unacked' : n < sent'
    <3>1. unacked \subseteq Nat /\ sent \in Nat /\ \A n \in unacked : n < sent
        OBVIOUS
    <3> HIDE DEF ChannelTypeOK, Reading
    <3> QED BY <2>1, <3>1
  <2>4. expectedSeq' <= sent' /\ (loop' = "acknowledge" => cur' < sent')
    <3>1. expectedSeq \in Nat /\ cur \in Nat /\ sent \in Nat
        OBVIOUS
    <3> QED BY <2>1, <3>1
  <2> QED BY <2>1, <2>2, <2>3, <2>4
<1>2. ASSUME NEW n \in unacked, AgentRepeats(n) PROVE Reading'
  <2>1. wire' = Append(wire, Output(n)) /\ UNCHANGED <<sent, unacked, expectedSeq, loop, cur, read>>
      BY <1>2 DEF AgentRepeats, Relay
  <2>2. n \in Nat /\ n < sent
      BY <1>2
  <2>3. Output(n).number = n /\ Output(n) \in Messages
      BY <2>2 DEF Output, Messages
  <2>4. \A i \in DOMAIN wire' : wire'[i] = Output(n) \/ (i \in DOMAIN wire /\ wire'[i] = wire[i])
      BY <2>1, <2>3
  <2>5. \A i \in DOMAIN wire' : wire'[i].type = "outputStreamData" => wire'[i].number < sent'
      BY <2>1, <2>2, <2>3, <2>4
  <2> QED BY <2>1, <2>5
<1>3. CASE AgentCloses
  <2>1. wire' = Append(wire, ChannelClosed) /\ UNCHANGED <<sent, unacked, expectedSeq, loop, cur, read>>
      BY <1>3 DEF AgentCloses, Relay
  <2>2. \A i \in DOMAIN wire' : wire'[i].type = "outputStreamData" => wire'[i].number < sent'
      BY <2>1 DEF ChannelClosed, Messages
  <2> QED BY <2>1, <2>2
<1>4. CASE Lose
  <2>1. PICK i \in DOMAIN wire :
          wire' = [j \in 1 .. Len(wire) - 1 |-> IF j < i THEN wire[j] ELSE wire[j + 1]]
      BY <1>4 DEF Lose
  <2>2. UNCHANGED <<sent, unacked, expectedSeq, loop, cur, read>>
      BY <1>4 DEF Lose
  <2>3. Len(wire) \in Nat /\ DOMAIN wire = 1 .. Len(wire) /\ DOMAIN wire' = 1 .. Len(wire) - 1
      BY <2>1
  <2>4. \A j \in DOMAIN wire' : \E k \in DOMAIN wire : wire'[j] = wire[k]
    <3> SUFFICES ASSUME NEW j \in DOMAIN wire' PROVE \E k \in DOMAIN wire : wire'[j] = wire[k]
        OBVIOUS
    <3>1. j \in 1 .. Len(wire) - 1 /\ i \in 1 .. Len(wire)
        BY <2>3
    <3> HIDE DEF ChannelTypeOK, Reading
    <3>2. wire'[j] = IF j < i THEN wire[j] ELSE wire[j + 1]
        BY <2>1, <3>1
    <3>3. j \in DOMAIN wire /\ j + 1 \in DOMAIN wire
        BY <2>3, <3>1
    <3> QED BY <3>2, <3>3
  <2>5. \A j \in DOMAIN wire' : wire'[j].type = "outputStreamData" => wire'[j].number < sent'
      BY <2>2, <2>4
  <2> QED BY <2>2, <2>5
<1>5. CASE ReadMessage
  <2>1. wire # <<>> /\ wire' = Tail(wire) /\ UNCHANGED <<sent, unacked, expectedSeq, read>>
      BY <1>5 DEF ReadMessage
  <2>2. \A j \in DOMAIN wire' : j + 1 \in DOMAIN wire /\ wire'[j] = wire[j + 1]
      BY <2>1
  <2>3. Head(wire) = wire[1] /\ 1 \in DOMAIN wire /\ Head(wire) \in Messages
      BY <2>1
  <2>4. loop' = "acknowledge" => cur' < sent
      BY <1>5, <2>3 DEF ReadMessage, Messages
  <2> QED BY <1>5, <2>1, <2>2, <2>4 DEF ReadMessage
<1>6. CASE Acknowledge
    BY <1>6 DEF Acknowledge
<1>7. CASE AnswerHandshake
  <2>1. expectedSeq = 1 /\ Frames(0) = Frames(1)
      BY <1>7, FramesFacts DEF AnswerHandshake
  <2> QED BY <1>7, <2>1 DEF AnswerHandshake, SendInput
<1>8. CASE CompleteHandshake
  <2>1. expectedSeq = 2 /\ Frames(1) = Frames(2)
      BY <1>8, FramesFacts DEF CompleteHandshake
  <2> QED BY <1>8, <2>1 DEF CompleteHandshake
<1>9. CASE SmuxReads
  <2>1. Len(read') = Len(read) + 1
      BY <1>9 DEF SmuxReads
  <2>2. Frames(cur + 1) = Frames(cur) + 1
      BY <1>9, FramesFacts DEF SmuxReads
  <2> QED BY <1>9, <2>1, <2>2 DEF SmuxReads
<1>10. CASE OfferFrame
    BY <1>10 DEF OfferFrame
<1>11. CASE ReadFails \/ WriteFails
    BY <1>11 DEF ReadFails, WriteFails
<1>12. CASE Break \/ SmuxWrites \/ Start \/ CloseChannel
    BY <1>12 DEF Break, SmuxWrites, SendInput, Start, StartSucceeds, StartFindsDead,
                 StartTimesOut, CloseChannel
<1>13. CASE UNCHANGED channelVars
    BY <1>13 DEF channelVars
<1> QED BY <1>1, <1>2, <1>3, <1>4, <1>5, <1>6, <1>7, <1>8, <1>9, <1>10, <1>11, <1>12, <1>13
        DEF ChannelNext, Loop

\* Nothing is written before the answer to the handshake, and what is written is
\* numbered without a gap.
LEMMA WritingStep ==
    ChannelTypeOK /\ Reading /\ Writing /\ InputContiguous /\ [ChannelNext]_channelVars
        => Writing' /\ InputContiguous'
<1> SUFFICES ASSUME ChannelTypeOK, Reading, Writing, InputContiguous, [ChannelNext]_channelVars
             PROVE  Writing' /\ InputContiguous'
    OBVIOUS
<1> USE DEF ChannelTypeOK, Writing, Writable
<1>1. CASE AgentSends \/ (\E n \in unacked : AgentRepeats(n)) \/ AgentCloses \/ Lose
  <2>1. UNCHANGED <<inbox, up, dcClosed, seq, expectedSeq, loop, cur, handshakeDone, starter>>
      BY <1>1 DEF AgentSends, AgentRepeats, AgentCloses, Lose
  <2> QED BY <2>1 DEF InputContiguous
<1>2. CASE Break \/ CloseChannel
  <2>1. UNCHANGED <<inbox, seq, expectedSeq, loop, cur, handshakeDone, starter>>
      BY <1>2 DEF Break, CloseChannel
  <2>2. Writable' => Writable
      BY <1>2 DEF Break, CloseChannel
  <2> QED BY <2>1, <2>2 DEF InputContiguous
<1>3. CASE ReadMessage \/ ReadFails \/ OfferFrame \/ WriteFails \/ SmuxReads
  <2>1. UNCHANGED <<inbox, up, dcClosed, seq, expectedSeq, handshakeDone, starter>>
      BY <1>3 DEF ReadMessage, ReadFails, OfferFrame, WriteFails, SmuxReads, agent
  <2> QED BY <1>3, <2>1 DEF InputContiguous, Reading, ReadMessage, ReadFails, OfferFrame,
             WriteFails, SmuxReads
<1>4. CASE Acknowledge
  <2>1. UNCHANGED <<inbox, up, dcClosed, seq, handshakeDone, starter>>
      BY <1>4 DEF Acknowledge
  <2> QED BY <1>4, <2>1 DEF InputContiguous, Reading, Acknowledge
<1>5. CASE AnswerHandshake
  <2>1. (expectedSeq = 1 /\ loop = "dispatch" /\ seq = 0 /\ Len(inbox) = 0) \/ ~Writable
      BY <1>5 DEF AnswerHandshake, Reading
  <2>2. seq = 0 /\ expectedSeq = 1 /\ ~handshakeDone /\ starter # "ok"
      BY <1>5 DEF AnswerHandshake, Reading
  <2>3. Writing'
      BY <1>5, <2>1, <2>2 DEF AnswerHandshake, SendInput, agent
  <2>4. InputContiguous'
    <3>1. CASE Writable
      <4>1. inbox' = Append(inbox, [number |-> 0, syn |-> TRUE, payload |-> "handshakeResponse"])
          BY <1>5, <2>2, <3>1 DEF AnswerHandshake, SendInput
      <4>2. Len(inbox) = 0
          BY <2>1, <3>1
      <4>3. [number |-> 0, syn |-> TRUE, payload |-> "handshakeResponse"] \in Inputs
          BY DEF Inputs
      <4>4. \A i \in DOMAIN inbox' :
              i = 1 /\ inbox'[i] = [number |-> 0, syn |-> TRUE, payload |-> "handshakeResponse"]
          BY <4>1, <4>2, <4>3, AppendFacts
      <4>5. SUFFICES ASSUME NEW i \in DOMAIN inbox'
                     PROVE  /\ inbox'[i].number = i - 1
                            /\ inbox'[i].syn = (i = 1)
                            /\ inbox'[i].payload = (IF i = 1 THEN "handshakeResponse" ELSE "output")
          BY DEF InputContiguous
      <4>6. i = 1 /\ (i = 1) = TRUE
          BY <4>4
      <4>7. inbox'[i].number = 0 /\ inbox'[i].syn = TRUE /\ inbox'[i].payload = "handshakeResponse"
          BY <4>4
      <4>8. inbox'[i].number = i - 1
          BY <4>6, <4>7
      <4>9. inbox'[i].syn = (i = 1)
          BY <4>6, <4>7, Zenon
      <4> QED BY <4>6, <4>7, <4>8, <4>9
    <3>2. CASE ~Writable
        BY <1>5, <3>2 DEF AnswerHandshake, SendInput, InputContiguous
    <3> QED BY <3>1, <3>2
  <2> QED BY <2>3, <2>4
<1>6. CASE CompleteHandshake
  <2>1. UNCHANGED <<inbox, up, dcClosed, seq, expectedSeq, starter>> /\ expectedSeq = 2
      BY <1>6 DEF CompleteHandshake, Reading, agent
  <2> QED BY <1>6, <2>1 DEF InputContiguous, CompleteHandshake
<1>7. CASE SmuxWrites
  <2>1. expectedSeq > 1 /\ seq > 0
      BY <1>7 DEF SmuxWrites
  <2>2. Writing'
      BY <1>7, <2>1 DEF SmuxWrites, SendInput, agent
  <2>3. InputContiguous'
    <3>1. CASE Writable
      <4> DEFINE input == [number |-> seq, syn |-> seq = 0, payload |-> "output"]
      <4>1. inbox' = Append(inbox, input) /\ Len(inbox) = seq
          BY <1>7, <3>1 DEF SmuxWrites, SendInput
      <4>2. (seq = 0) \in BOOLEAN /\ (seq = 0) = FALSE
          BY <2>1
      <4>3. input \in Inputs
          BY <4>2 DEF Inputs
      <4>4. input.number = seq /\ input.syn = FALSE /\ input.payload = "output"
          BY <4>2
      <4> HIDE DEF input
      <4>5. \A i \in DOMAIN inbox' :
              (i = seq + 1 /\ inbox'[i] = input) \/ (i \in DOMAIN inbox /\ inbox'[i] = inbox[i])
          BY <4>1, <4>3, AppendFacts
      <4>6. SUFFICES ASSUME NEW i \in DOMAIN inbox'
                     PROVE  /\ inbox'[i].number = i - 1
                            /\ inbox'[i].syn = (i = 1)
                            /\ inbox'[i].payload = (IF i = 1 THEN "handshakeResponse" ELSE "output")
          BY DEF InputContiguous
      <4>7. CASE i = seq + 1 /\ inbox'[i] = input
        <5>1. i # 1 /\ (i = 1) = FALSE /\ i - 1 = seq
            BY <2>1, <4>7
        <5> QED BY <4>4, <4>7, <5>1
      <4>8. CASE i \in DOMAIN inbox /\ inbox'[i] = inbox[i]
          BY <4>8 DEF InputContiguous
      <4> QED BY <4>5, <4>7, <4>8
    <3>2. CASE ~Writable
        BY <1>7, <3>2 DEF SmuxWrites, SendInput, InputContiguous
    <3> QED BY <3>1, <3>2
  <2> QED BY <2>2, <2>3
<1>8. CASE Start
    BY <1>8 DEF Start, StartSucceeds, StartFindsDead, StartTimesOut, InputContiguous
<1>9. CASE UNCHANGED channelVars
    BY <1>9 DEF channelVars, InputContiguous
<1> QED BY <1>1, <1>2, <1>3, <1>4, <1>5, <1>6, <1>7, <1>8, <1>9 DEF ChannelNext, Loop

\* Before the handshake nothing is numbered, sent or read.
LEMMA ChannelInitInvariant == ChannelInit => ChannelInv
<1> SUFFICES ASSUME ChannelInit PROVE ChannelInv
    OBVIOUS
<1>1. ChannelTypeOK
  <2>1. inbox \in Seq(Inputs) /\ wire \in Seq(Messages) /\ read \in Seq(Nat)
      BY DEF ChannelInit
  <2> QED BY <2>1 DEF ChannelInit, ChannelTypeOK
<1>2. Reading /\ Writing /\ InputContiguous
    BY DEF ChannelInit, Reading, Writing, InputContiguous, Frames
<1> QED BY <1>1, <1>2 DEF ChannelInv

\* The inductive invariant holds, whatever the bounds.
THEOREM ChannelInvariance == ChannelSpec => []ChannelInv
<1>1. ChannelInv /\ [ChannelNext]_channelVars => ChannelInv'
    BY ChannelTypeStep, ReadingStep, WritingStep DEF ChannelInv
<1> QED BY ChannelInitInvariant, <1>1, PTL DEF ChannelSpec

\* Type correctness.
THEOREM ChannelTypeCorrect == ChannelSpec => []ChannelTypeOK
BY ChannelInvariance, PTL DEF ChannelInv

\* The agent never meets a gap or a repetition in the numbers of what the client
\* sends, and the first is the answer to the handshake (ssm_tunnel.go:693-698).
THEOREM NoGapInInput == ChannelSpec => []InputContiguous
BY ChannelInvariance, PTL DEF ChannelInv

\* Each step of the data channel is a step of FrameStream or leaves it alone.
LEMMA StepRefines ==
    ChannelInv /\ [ChannelNext]_channelVars => [Stream!Next]_<<Frames(sent), read>>
<1> SUFFICES ASSUME ChannelInv, [ChannelNext]_channelVars PROVE [Stream!Next]_<<Frames(sent), read>>
    OBVIOUS
<1> USE DEF ChannelInv, ChannelTypeOK, agent
<1>1. CASE AgentSends
  <2>1. sent' = sent + 1 /\ read' = read
      BY <1>1 DEF AgentSends
  <2>2. CASE sent < Handshake
      BY <2>1, <2>2, FramesFacts
  <2>3. CASE sent >= Handshake
      BY <2>1, <2>3, FramesFacts DEF Stream!Next, Stream!Send
  <2> QED BY <2>2, <2>3
<1>2. CASE SmuxReads
  <2>1. read' = Append(read, cur - 2) /\ sent' = sent /\ cur >= 2 /\ cur < sent
      BY <1>2 DEF SmuxReads, Reading
  <2>2. Len(read) = cur - 2 /\ Frames(sent) = sent - 2
    <3>1. Len(read) = Frames(cur)
        BY <1>2 DEF SmuxReads, Reading
    <3>2. sent >= 2
        BY <2>1
    <3>3. Frames(cur) = cur - 2
        BY <2>1, FramesFacts
    <3>4. Frames(sent) = sent - 2
        BY <3>2, FramesFacts
    <3> QED BY <3>1, <3>3, <3>4
  <2> QED BY <2>1, <2>2 DEF Stream!Next, Stream!Receive
<1>3. CASE (\E n \in unacked : AgentRepeats(n)) \/ AgentCloses \/ Lose \/ Break \/ Loop
           \/ SmuxWrites \/ Start \/ CloseChannel \/ UNCHANGED channelVars
  <2>1. UNCHANGED <<sent, read>>
      BY <1>3 DEF AgentRepeats, AgentCloses, Lose, Break, Loop, ReadMessage, ReadFails,
                  Acknowledge, AnswerHandshake, CompleteHandshake, OfferFrame, WriteFails,
                  SmuxWrites, Start, StartSucceeds, StartFindsDead, StartTimesOut, CloseChannel, channelVars
  <2> QED BY <2>1
<1> QED BY <1>1, <1>2, <1>3 DEF ChannelNext

\* The data channel is the reliable stream smux needs: whatever the agent repeats
\* and the network loses, each frame is read once and in order
\* (ssm_tunnel.go:659-663).
THEOREM ImplementsStream == ChannelSpec => ExactlyOnceInOrder
<1>1. ChannelInit => Stream!Init
    BY DEF ChannelInit, Stream!Init, Frames
<1> QED BY <1>1, StepRefines, ChannelInvariance, PTL DEF ChannelSpec, ExactlyOnceInOrder, Stream!Spec

-----------------------------------------------------------------------------
(* The tunnel. *)

USE SSMTunnelAssumption DEF Handling

\* A tunnel or session that Unused gives has not been there yet.
LEMMA UnusedFacts ==
    ASSUME NEW f, NEW x \in Unused(f)
    PROVE  x \in DOMAIN f /\ f[x] = None
BY DEF Unused

\* TypeOK is inductive.
LEMMA TypeStep == TypeOK /\ MutexHeld /\ [Next]_vars => TypeOK'
<1> SUFFICES ASSUME TypeOK, MutexHeld, [Next]_vars PROVE TypeOK'
    OBVIOUS
<1> USE DEF TypeOK, MutexHeld, GoTo, regVars, tunnelVars, sessVars, connVars
<1>1. ASSUME NEW c \in Conns, LockRegistry(c) PROVE TypeOK'
    BY <1>1 DEF LockRegistry
<1>2. ASSUME NEW c \in Conns, FindTunnel(c) PROVE TypeOK'
    BY <1>2 DEF FindTunnel, ReturnTunnel
<1>3. ASSUME NEW c \in Conns, StartTunnel(c) PROVE TypeOK'
    BY <1>3, UnusedFacts DEF StartTunnel, ReturnTunnel
<1>4. ASSUME NEW c \in Conns, StartTunnelFails(c) PROVE TypeOK'
    BY <1>4 DEF StartTunnelFails
<1>5. ASSUME NEW c \in Conns, Dial(c) PROVE TypeOK'
    BY <1>5 DEF Dial
<1>6. ASSUME NEW c \in Conns, ClientCloses(c) PROVE TypeOK'
    BY <1>6 DEF ClientCloses
<1>7. ASSUME NEW c \in Conns, Accept(c) PROVE TypeOK'
    BY <1>7 DEF Accept
<1>8. ASSUME NEW c \in Conns, OpenStreamLocks(c) PROVE TypeOK'
    BY <1>8 DEF OpenStreamLocks
<1>9. ASSUME NEW c \in Conns, EstablishTearsDown(c) PROVE TypeOK'
    BY <1>9 DEF EstablishTearsDown, Teardown
<1>10. ASSUME NEW c \in Conns, StartSession(c) PROVE TypeOK'
    BY <1>10, UnusedFacts DEF StartSession
<1>11. ASSUME NEW c \in Conns, StartSessionFails(c) PROVE TypeOK'
    BY <1>11 DEF StartSessionFails, HandlerEnds
<1>12. ASSUME NEW c \in Conns, ChannelOpens(c) PROVE TypeOK'
    BY <1>12 DEF ChannelOpens
<1>13. ASSUME NEW c \in Conns, ChannelFails(c) PROVE TypeOK'
    BY <1>13 DEF ChannelFails, HandlerEnds
<1>14. ASSUME NEW c \in Conns, OpenStream(c) PROVE TypeOK'
    BY <1>14 DEF OpenStream
<1>15. ASSUME NEW c \in Conns, OpenStreamRetries(c) PROVE TypeOK'
    BY <1>15 DEF OpenStreamRetries
<1>16. ASSUME NEW c \in Conns, OpenStreamFails(c) PROVE TypeOK'
    BY <1>16 DEF OpenStreamFails, HandlerEnds
<1>17. ASSUME NEW c \in Conns, BridgeEnds(c) PROVE TypeOK'
    BY <1>17 DEF BridgeEnds, HandlerEnds
<1>18. ASSUME NEW t \in Tunnels, CloseSession(t) PROVE TypeOK'
    BY <1>18 DEF CloseSession, Teardown
<1>19. ASSUME NEW t \in Tunnels, CloseListener(t) PROVE TypeOK'
    BY <1>19 DEF CloseListener
<1>20. ASSUME NEW k \in Keys, Close(k) PROVE TypeOK'
    BY <1>20 DEF Close
<1>21. ASSUME NEW s \in Sessions, SessionDies(s) PROVE TypeOK'
    BY <1>21 DEF SessionDies
<1>22. CASE UNCHANGED vars
    BY <1>22 DEF vars, regVars, tunnelVars, sessVars, connVars
<1> QED
    BY <1>1, <1>2, <1>3, <1>4, <1>5, <1>6, <1>7, <1>8, <1>9, <1>10, <1>11, <1>12, <1>13, <1>14, <1>15, <1>16, <1>17, <1>18, <1>19, <1>20, <1>21, <1>22
       DEF Next, ClientStep, HandlerStep, Answer, CloseStep

\* The mutex is held over establishing and opening, and closed sessions are the
\* only ones a connection tears down.
LEMMA MutexStep == IInv /\ [Next]_vars => MutexHeld'
<1> SUFFICES ASSUME IInv, [Next]_vars PROVE MutexHeld'
    OBVIOUS
<1> USE DEF IInv, TypeOK, MutexHeld, SessionsKnown, GoTo, regVars, tunnelVars, sessVars, connVars
<1>1. ASSUME NEW c \in Conns, LockRegistry(c) PROVE MutexHeld'
    BY <1>1 DEF LockRegistry
<1>2. ASSUME NEW c \in Conns, FindTunnel(c) PROVE MutexHeld'
    BY <1>2 DEF FindTunnel, ReturnTunnel
<1>3. ASSUME NEW c \in Conns, StartTunnel(c) PROVE MutexHeld'
    BY <1>3, UnusedFacts DEF StartTunnel, ReturnTunnel
<1>4. ASSUME NEW c \in Conns, StartTunnelFails(c) PROVE MutexHeld'
    BY <1>4 DEF StartTunnelFails
<1>5. ASSUME NEW c \in Conns, Dial(c) PROVE MutexHeld'
    BY <1>5 DEF Dial
<1>6. ASSUME NEW c \in Conns, ClientCloses(c) PROVE MutexHeld'
    BY <1>6 DEF ClientCloses
<1>7. ASSUME NEW c \in Conns, Accept(c) PROVE MutexHeld'
    BY <1>7 DEF Accept
<1>8. ASSUME NEW c \in Conns, OpenStreamLocks(c) PROVE MutexHeld'
    BY <1>8 DEF OpenStreamLocks
<1>9. ASSUME NEW c \in Conns, EstablishTearsDown(c) PROVE MutexHeld'
    BY <1>9 DEF EstablishTearsDown, Teardown
<1>10. ASSUME NEW c \in Conns, StartSession(c) PROVE MutexHeld'
    BY <1>10, UnusedFacts DEF StartSession
<1>11. ASSUME NEW c \in Conns, StartSessionFails(c) PROVE MutexHeld'
    BY <1>11 DEF StartSessionFails, HandlerEnds
<1>12. ASSUME NEW c \in Conns, ChannelOpens(c) PROVE MutexHeld'
    BY <1>12 DEF ChannelOpens
<1>13. ASSUME NEW c \in Conns, ChannelFails(c) PROVE MutexHeld'
    BY <1>13 DEF ChannelFails, HandlerEnds
<1>14. ASSUME NEW c \in Conns, OpenStream(c) PROVE MutexHeld'
    BY <1>14 DEF OpenStream
<1>15. ASSUME NEW c \in Conns, OpenStreamRetries(c) PROVE MutexHeld'
    BY <1>15 DEF OpenStreamRetries
<1>16. ASSUME NEW c \in Conns, OpenStreamFails(c) PROVE MutexHeld'
    BY <1>16 DEF OpenStreamFails, HandlerEnds
<1>17. ASSUME NEW c \in Conns, BridgeEnds(c) PROVE MutexHeld'
    BY <1>17 DEF BridgeEnds, HandlerEnds
<1>18. ASSUME NEW t \in Tunnels, CloseSession(t) PROVE MutexHeld'
    BY <1>18 DEF CloseSession, Teardown
<1>19. ASSUME NEW t \in Tunnels, CloseListener(t) PROVE MutexHeld'
    BY <1>19 DEF CloseListener
<1>20. ASSUME NEW k \in Keys, Close(k) PROVE MutexHeld'
    BY <1>20 DEF Close
<1>21. ASSUME NEW s \in Sessions, SessionDies(s) PROVE MutexHeld'
    BY <1>21 DEF SessionDies
<1>22. CASE UNCHANGED vars
    BY <1>22 DEF vars, regVars, tunnelVars, sessVars, connVars
<1> QED
    BY <1>1, <1>2, <1>3, <1>4, <1>5, <1>6, <1>7, <1>8, <1>9, <1>10, <1>11, <1>12, <1>13, <1>14, <1>15, <1>16, <1>17, <1>18, <1>19, <1>20, <1>21, <1>22
       DEF Next, ClientStep, HandlerStep, Answer, CloseStep

\* No session that is open at AWS is lost sight of.
LEMMA SessionsStep == IInv /\ [Next]_vars => SessionsKnown'
<1> SUFFICES ASSUME IInv, [Next]_vars PROVE SessionsKnown'
    OBVIOUS
<1> USE DEF IInv, TypeOK, MutexHeld, SessionsKnown, GoTo, regVars, tunnelVars, sessVars, connVars
<1>1. ASSUME NEW c \in Conns, LockRegistry(c) PROVE SessionsKnown'
    BY <1>1 DEF LockRegistry
<1>2. ASSUME NEW c \in Conns, FindTunnel(c) PROVE SessionsKnown'
    BY <1>2 DEF FindTunnel, ReturnTunnel
<1>3. ASSUME NEW c \in Conns, StartTunnel(c) PROVE SessionsKnown'
    BY <1>3, UnusedFacts DEF StartTunnel, ReturnTunnel
<1>4. ASSUME NEW c \in Conns, StartTunnelFails(c) PROVE SessionsKnown'
    BY <1>4 DEF StartTunnelFails
<1>5. ASSUME NEW c \in Conns, Dial(c) PROVE SessionsKnown'
    BY <1>5 DEF Dial
<1>6. ASSUME NEW c \in Conns, ClientCloses(c) PROVE SessionsKnown'
    BY <1>6 DEF ClientCloses
<1>7. ASSUME NEW c \in Conns, Accept(c) PROVE SessionsKnown'
    BY <1>7 DEF Accept
<1>8. ASSUME NEW c \in Conns, OpenStreamLocks(c) PROVE SessionsKnown'
    BY <1>8 DEF OpenStreamLocks
<1>9. ASSUME NEW c \in Conns, EstablishTearsDown(c) PROVE SessionsKnown'
    BY <1>9 DEF EstablishTearsDown, Teardown
<1>10. ASSUME NEW c \in Conns, StartSession(c) PROVE SessionsKnown'
    BY <1>10, UnusedFacts DEF StartSession
<1>11. ASSUME NEW c \in Conns, StartSessionFails(c) PROVE SessionsKnown'
    BY <1>11 DEF StartSessionFails, HandlerEnds
<1>12. ASSUME NEW c \in Conns, ChannelOpens(c) PROVE SessionsKnown'
    BY <1>12 DEF ChannelOpens
<1>13. ASSUME NEW c \in Conns, ChannelFails(c) PROVE SessionsKnown'
    BY <1>13 DEF ChannelFails, HandlerEnds
<1>14. ASSUME NEW c \in Conns, OpenStream(c) PROVE SessionsKnown'
    BY <1>14 DEF OpenStream
<1>15. ASSUME NEW c \in Conns, OpenStreamRetries(c) PROVE SessionsKnown'
    BY <1>15 DEF OpenStreamRetries
<1>16. ASSUME NEW c \in Conns, OpenStreamFails(c) PROVE SessionsKnown'
    BY <1>16 DEF OpenStreamFails, HandlerEnds
<1>17. ASSUME NEW c \in Conns, BridgeEnds(c) PROVE SessionsKnown'
    BY <1>17 DEF BridgeEnds, HandlerEnds
<1>18. ASSUME NEW t \in Tunnels, CloseSession(t) PROVE SessionsKnown'
    BY <1>18 DEF CloseSession, Teardown
<1>19. ASSUME NEW t \in Tunnels, CloseListener(t) PROVE SessionsKnown'
    BY <1>19 DEF CloseListener
<1>20. ASSUME NEW k \in Keys, Close(k) PROVE SessionsKnown'
    BY <1>20 DEF Close
<1>21. ASSUME NEW s \in Sessions, SessionDies(s) PROVE SessionsKnown'
    BY <1>21 DEF SessionDies
<1>22. CASE UNCHANGED vars
    BY <1>22 DEF vars, regVars, tunnelVars, sessVars, connVars
<1> QED
    BY <1>1, <1>2, <1>3, <1>4, <1>5, <1>6, <1>7, <1>8, <1>9, <1>10, <1>11, <1>12, <1>13, <1>14, <1>15, <1>16, <1>17, <1>18, <1>19, <1>20, <1>21, <1>22
       DEF Next, ClientStep, HandlerStep, Answer, CloseStep

\* A tunnel that is being closed has its channel closed.
LEMMA CloseOrderStep == IInv /\ [Next]_vars => CloseOrder'
<1> SUFFICES ASSUME IInv, [Next]_vars PROVE CloseOrder'
    OBVIOUS
<1> USE DEF IInv, TypeOK, CloseOrder, GoTo, regVars, tunnelVars, sessVars, connVars
<1>1. ASSUME NEW c \in Conns, LockRegistry(c) PROVE CloseOrder'
    BY <1>1 DEF LockRegistry
<1>2. ASSUME NEW c \in Conns, FindTunnel(c) PROVE CloseOrder'
    BY <1>2 DEF FindTunnel, ReturnTunnel
<1>3. ASSUME NEW c \in Conns, StartTunnel(c) PROVE CloseOrder'
    BY <1>3, UnusedFacts DEF StartTunnel, ReturnTunnel
<1>4. ASSUME NEW c \in Conns, StartTunnelFails(c) PROVE CloseOrder'
    BY <1>4 DEF StartTunnelFails
<1>5. ASSUME NEW c \in Conns, Dial(c) PROVE CloseOrder'
    BY <1>5 DEF Dial
<1>6. ASSUME NEW c \in Conns, ClientCloses(c) PROVE CloseOrder'
    BY <1>6 DEF ClientCloses
<1>7. ASSUME NEW c \in Conns, Accept(c) PROVE CloseOrder'
    BY <1>7 DEF Accept
<1>8. ASSUME NEW c \in Conns, OpenStreamLocks(c) PROVE CloseOrder'
    BY <1>8 DEF OpenStreamLocks
<1>9. ASSUME NEW c \in Conns, EstablishTearsDown(c) PROVE CloseOrder'
    BY <1>9 DEF EstablishTearsDown, Teardown
<1>10. ASSUME NEW c \in Conns, StartSession(c) PROVE CloseOrder'
    BY <1>10, UnusedFacts DEF StartSession
<1>11. ASSUME NEW c \in Conns, StartSessionFails(c) PROVE CloseOrder'
    BY <1>11 DEF StartSessionFails, HandlerEnds
<1>12. ASSUME NEW c \in Conns, ChannelOpens(c) PROVE CloseOrder'
    BY <1>12 DEF ChannelOpens
<1>13. ASSUME NEW c \in Conns, ChannelFails(c) PROVE CloseOrder'
    BY <1>13 DEF ChannelFails, HandlerEnds
<1>14. ASSUME NEW c \in Conns, OpenStream(c) PROVE CloseOrder'
    BY <1>14 DEF OpenStream
<1>15. ASSUME NEW c \in Conns, OpenStreamRetries(c) PROVE CloseOrder'
    BY <1>15 DEF OpenStreamRetries
<1>16. ASSUME NEW c \in Conns, OpenStreamFails(c) PROVE CloseOrder'
    BY <1>16 DEF OpenStreamFails, HandlerEnds
<1>17. ASSUME NEW c \in Conns, BridgeEnds(c) PROVE CloseOrder'
    BY <1>17 DEF BridgeEnds, HandlerEnds
<1>18. ASSUME NEW t \in Tunnels, CloseSession(t) PROVE CloseOrder'
    BY <1>18 DEF CloseSession, Teardown
<1>19. ASSUME NEW t \in Tunnels, CloseListener(t) PROVE CloseOrder'
    BY <1>19 DEF CloseListener
<1>20. ASSUME NEW k \in Keys, Close(k) PROVE CloseOrder'
    BY <1>20 DEF Close
<1>21. ASSUME NEW s \in Sessions, SessionDies(s) PROVE CloseOrder'
    BY <1>21 DEF SessionDies
<1>22. CASE UNCHANGED vars
    BY <1>22 DEF vars, regVars, tunnelVars, sessVars, connVars
<1> QED
    BY <1>1, <1>2, <1>3, <1>4, <1>5, <1>6, <1>7, <1>8, <1>9, <1>10, <1>11, <1>12, <1>13, <1>14, <1>15, <1>16, <1>17, <1>18, <1>19, <1>20, <1>21, <1>22
       DEF Next, ClientStep, HandlerStep, Answer, CloseStep

\* The inductive invariant of the tunnel (openStream, establishLocked, Close).
THEOREM Invariance == Spec => []IInv
<1>1. Init => IInv
    BY DEF Init, IInv, TypeOK, MutexHeld, SessionsKnown, CloseOrder
<1>2. IInv /\ [Next]_vars => IInv'
    BY TypeStep, MutexStep, SessionsStep, CloseOrderStep DEF IInv
<1> QED BY <1>1, <1>2, PTL DEF Spec

\* The connections of a tunnel share one session (ssm_tunnel.go:70-71): two that
\* are open at AWS for it are the same one.
THEOREM OneSession == Spec => []SingleSession
<1>1. ASSUME IInv, NEW t \in Tunnels, NEW r \in OpenAtAWS(t), NEW s \in OpenAtAWS(t)
      PROVE  r = s
  <2> USE DEF IInv, TypeOK, MutexHeld, SessionsKnown, OpenAtAWS
  <2>1. CASE session[t] = r
      BY <1>1, <2>1
  <2>2. CASE session[t] = s
      BY <1>1, <2>2
  <2>3. CASE session[t] # r /\ session[t] # s
    <3>1. PICK c \in Conns : pc[c] = "channel" /\ fresh[c] = r
        BY <1>1, <2>3
    <3>2. PICK d \in Conns : pc[d] = "channel" /\ fresh[d] = s
        BY <1>1, <2>3
    <3>3. tunnel[c] = t /\ tunnel[d] = t /\ sessMu[t] = c /\ sessMu[t] = d
        BY <1>1, <3>1, <3>2
    <3> QED BY <3>1, <3>2, <3>3
  <2> QED BY <2>1, <2>2, <2>3
<1>2. ASSUME IInv, NEW t \in Tunnels PROVE Cardinality(OpenAtAWS(t)) <= 1
  <2>1. CASE OpenAtAWS(t) = {}
      BY <2>1, FS_EmptySet
  <2>2. CASE OpenAtAWS(t) # {}
    <3>1. PICK s \in OpenAtAWS(t) : TRUE
        BY <2>2
    <3>2. OpenAtAWS(t) = {s}
        BY <1>1, <1>2, <3>1
    <3>3. Cardinality({s}) = 1
        BY FS_Singleton
    <3> QED BY <3>2, <3>3
  <2> QED BY <2>1, <2>2
<1>3. IInv => SingleSession
    BY <1>2 DEF SingleSession
<1> QED BY <1>3, Invariance, PTL

\* A session that carries streams is given up by Close only (ssm_tunnel.go:72).
THEOREM LiveSessionsKept == Spec => ReconnectsOnlyWhenBroken
<1> DEFINE Kept == \A t \in Tunnels : session[t] \in alive /\ session'[t] # session[t] => t \in closed
<1>1. IInv /\ [Next]_vars => Kept
  <2> SUFFICES ASSUME IInv, [Next]_vars, NEW t \in Tunnels,
                      session[t] \in alive, session'[t] # session[t]
               PROVE  t \in closed
      OBVIOUS
  <2> USE DEF IInv, TypeOK, MutexHeld, CloseOrder
  <2>1. ASSUME NEW c \in Conns, ClientStep(c) \/ ClientCloses(c) PROVE t \in closed
      BY <2>1 DEF ClientStep, LockRegistry, FindTunnel, StartTunnel, StartTunnelFails, Dial,
                  ClientCloses, ReturnTunnel, sessVars
  <2>2. ASSUME NEW c \in Conns, EstablishTearsDown(c) PROVE t \in closed
      BY <2>2 DEF EstablishTearsDown, Teardown
  <2>3. ASSUME NEW c \in Conns, ChannelOpens(c) PROVE t \in closed
      BY <2>3 DEF ChannelOpens
  <2>4. ASSUME NEW c \in Conns, HandlerStep(c) PROVE t \in closed
      BY <2>2, <2>3, <2>4
      DEF HandlerStep, Answer, Accept, OpenStreamLocks, StartSession, StartSessionFails,
          ChannelFails, OpenStream, OpenStreamRetries, OpenStreamFails, BridgeEnds,
          HandlerEnds, sessVars
  <2>5. ASSUME NEW u \in Tunnels, CloseStep(u) PROVE t \in closed
      BY <2>5 DEF CloseStep, CloseSession, CloseListener, Teardown, sessVars
  <2>6. ASSUME NEW k \in Keys, Close(k) PROVE t \in closed
      BY <2>6 DEF Close, sessVars
  <2>7. ASSUME NEW s \in Sessions, SessionDies(s) PROVE t \in closed
      BY <2>7 DEF SessionDies
  <2>8. CASE UNCHANGED vars
      BY <2>8 DEF vars, sessVars
  <2> QED BY <2>1, <2>4, <2>5, <2>6, <2>7, <2>8 DEF Next
<1>2. IInv /\ [Next]_vars => [Kept]_vars
    BY <1>1
<1> QED BY <1>2, Invariance, PTL DEF Spec, ReconnectsOnlyWhenBroken

\* Why the registry names listening tunnels only: who is in EnsureUp, or closing a
\* tunnel, holds its lock, and a tunnel stays under the key it was started with.
RegistryInv ==
    /\ \A c \in Conns : client[c] = "locked" => registryLock = c
    /\ \A k \in Keys : registry[k] # None =>
         key[registry[k]] = k /\ registry[k] \in listening \ closed
    /\ \A t \in Tunnels :
         /\ key[t] = None => t \notin listening \cup closed
         /\ closing[t] \in {"closed", "session"} => registryLock = t
         /\ t \in listening => registry[key[t]] = t \/ registryLock = t

\* EnsureUp and Close change the registry under its lock, one of them at a time.
LEMMA RegistryStep == IInv /\ RegistryInv /\ [Next]_vars => RegistryInv'
<1> SUFFICES ASSUME TypeOK, CloseOrder, RegistryInv, [Next]_vars PROVE RegistryInv'
    BY DEF IInv
<1> USE DEF TypeOK, CloseOrder, RegistryInv
<1>1. ASSUME NEW c \in Conns, LockRegistry(c) PROVE RegistryInv'
    BY <1>1 DEF LockRegistry, tunnelVars
<1>2. ASSUME NEW c \in Conns, FindTunnel(c) PROVE RegistryInv'
    BY <1>2 DEF FindTunnel, ReturnTunnel
<1>3. ASSUME NEW c \in Conns, StartTunnel(c) PROVE RegistryInv'
  <2>1. PICK t \in Unused(key) :
          /\ key' = [key EXCEPT ![t] = want[c]]
          /\ registry' = [registry EXCEPT ![want[c]] = t]
          /\ listening' = listening \cup {t}
          /\ ReturnTunnel(c, t)
      BY <1>3 DEF StartTunnel
  <2>2. t \in Tunnels /\ key[t] = None /\ t \notin listening \cup closed
      BY <2>1, UnusedFacts
  <2>3. registryLock = c /\ registry[want[c]] = None /\ want[c] \in Keys
      BY <1>3 DEF StartTunnel
  <2>4. /\ closed' = closed /\ closing' = closing /\ registryLock' = None
        /\ client' = [client EXCEPT ![c] = "dial"]
      BY <2>1 DEF ReturnTunnel
  <2>5. \A d \in Conns : client'[d] # "locked"
      BY <2>3, <2>4
  <2>6. \A u \in Tunnels : closing[u] \notin {"closed", "session"}
      BY <2>3
  <2>7. ASSUME NEW k \in Keys, registry'[k] # None
        PROVE  key'[registry'[k]] = k /\ registry'[k] \in listening' \ closed'
    <3>1. CASE k = want[c]
        BY <2>1, <2>2, <2>3, <2>4, <3>1
    <3>2. CASE k # want[c]
        BY <2>1, <2>2, <2>3, <2>4, <2>7, <3>2
    <3> QED BY <3>1, <3>2
  <2>8. ASSUME NEW u \in Tunnels
        PROVE  /\ key'[u] = None => u \notin listening' \cup closed'
               /\ u \in listening' => registry'[key'[u]] = u \/ registryLock' = u
    <3>1. CASE u = t
        BY <2>1, <2>2, <2>3, <3>1
    <3>2. CASE u # t
        BY <2>1, <2>2, <2>3, <2>4, <3>2
    <3> QED BY <3>1, <3>2
  <2> QED BY <2>4, <2>5, <2>6, <2>7, <2>8
<1>4. ASSUME NEW c \in Conns, StartTunnelFails(c) PROVE RegistryInv'
    BY <1>4 DEF StartTunnelFails, tunnelVars
<1>5. ASSUME UNCHANGED <<regVars, tunnelVars>>,
             \A c \in Conns : client'[c] = "locked" => client[c] = "locked"
      PROVE  RegistryInv'
    BY <1>5 DEF regVars, tunnelVars
<1>6. ASSUME NEW c \in Conns, Dial(c) \/ ClientCloses(c) \/ HandlerStep(c) PROVE RegistryInv'
  <2>1. UNCHANGED <<regVars, tunnelVars>>
      BY <1>6 DEF Dial, ClientCloses, HandlerStep, Answer, Accept, OpenStreamLocks,
         EstablishTearsDown, StartSession, StartSessionFails, ChannelOpens, ChannelFails,
         OpenStream, OpenStreamRetries, OpenStreamFails, BridgeEnds, HandlerEnds
  <2>2. client' \in {client, [client EXCEPT ![c] = "dialled"], [client EXCEPT ![c] = "gone"]}
      BY <1>6 DEF Dial, ClientCloses, HandlerStep, Answer, Accept, OpenStreamLocks,
         EstablishTearsDown, StartSession, StartSessionFails, ChannelOpens, ChannelFails,
         OpenStream, OpenStreamRetries, OpenStreamFails, BridgeEnds, HandlerEnds
  <2> QED BY <1>5, <2>1, <2>2
<1>7. ASSUME NEW t \in Tunnels, CloseSession(t) PROVE RegistryInv'
    BY <1>7 DEF CloseSession, regVars, connVars
<1>8. ASSUME NEW t \in Tunnels, CloseListener(t) PROVE RegistryInv'
  <2>1. registryLock = t /\ t \in closed /\ registryLock' = None
      BY <1>8 DEF CloseListener
  <2>2. /\ listening' = listening \ {t} /\ closing' = [closing EXCEPT ![t] = "done"]
        /\ UNCHANGED <<registry, key, closed>>
      BY <1>8 DEF CloseListener
  <2>3. \A c \in Conns : client'[c] = "locked" => client[c] = "locked"
      BY <1>8 DEF CloseListener
  <2>4. \A c \in Conns : client[c] # "locked"
      BY <2>1
  <2> QED BY <2>1, <2>2, <2>3, <2>4
<1>9. ASSUME NEW k \in Keys, Close(k) PROVE RegistryInv'
  <2> DEFINE t == registry[k]
  <2>1. t \in Tunnels /\ key[t] = k /\ t \in listening \ closed /\ registryLock = None
      BY <1>9 DEF Close
  <2>2. /\ registryLock' = t /\ registry' = [registry EXCEPT ![k] = None]
        /\ closed' = closed \cup {t} /\ closing' = [closing EXCEPT ![t] = "closed"]
        /\ UNCHANGED <<key, listening, client>>
      BY <1>9 DEF Close, connVars
  <2> HIDE DEF t
  <2>3. \A c \in Conns : client[c] # "locked"
      BY <2>1
  <2>4. \A u \in Tunnels : u # t => closing'[u] \notin {"closed", "session"}
      BY <2>1, <2>2
  <2>5. ASSUME NEW j \in Keys, registry'[j] # None
        PROVE  key'[registry'[j]] = j /\ registry'[j] \in listening' \ closed'
    <3>1. j # k /\ registry'[j] = registry[j]
        BY <2>2, <2>5
    <3>2. registry[j] # t
        BY <2>1, <2>5, <3>1
    <3> QED BY <2>2, <2>5, <3>1, <3>2
  <2>6. ASSUME NEW u \in Tunnels
        PROVE  /\ key'[u] = None => u \notin listening' \cup closed'
               /\ u \in listening' => registry'[key'[u]] = u \/ registryLock' = u
    <3>1. CASE u = t
        BY <2>1, <2>2, <3>1
    <3>2. CASE u # t
        BY <2>1, <2>2, <3>2
    <3> QED BY <3>1, <3>2
  <2> QED BY <2>2, <2>3, <2>4, <2>5, <2>6
<1>10. ASSUME NEW s \in Sessions, SessionDies(s) PROVE RegistryInv'
    BY <1>5, <1>10 DEF SessionDies, connVars
<1>11. CASE UNCHANGED vars
    BY <1>5, <1>11 DEF vars, connVars
<1> QED
    BY <1>1, <1>2, <1>3, <1>4, <1>6, <1>7, <1>8, <1>9, <1>10, <1>11 DEF Next, ClientStep, CloseStep

\* Nobody is sent to a closed tunnel, and no listener stays open that the registry
\* does not name (EnsureUp and Close of the SSM transport).
THEOREM RegistryTrue == Spec => []RegistryListens
<1>1. Init => RegistryInv
    BY DEF Init, RegistryInv
<1>2. IInv /\ IInv' /\ RegistryInv /\ [Next]_vars => RegistryInv'
    BY RegistryStep
<1>3. IInv /\ RegistryInv => RegistryListens
    BY DEF IInv, TypeOK, RegistryInv, RegistryListens
<1> QED BY <1>1, <1>2, <1>3, Invariance, PTL DEF Spec
=============================================================================
