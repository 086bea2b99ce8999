--------------------------- MODULE SSMDataChannel ---------------------------
(***************************************************************************)
(* The data channel of an SSM session (src/postgresql/ssm_tunnel.go): a    *)
(* websocket to the AWS service, which relays messages to and from the     *)
(* agent on the bastion.  The agent numbers the messages it sends, repeats *)
(* those that are not acknowledged, and opens with a handshake:            *)
(*     message 0    handshake request; the client answers it               *)
(*     message 1    handshake complete                                     *)
(*     message 2..  output, the frames of the smux session on top          *)
(* readLoop acknowledges, drops what is not the message it expects, and    *)
(* hands each frame over through a pipe without a buffer.  start waits for *)
(* the handshake, and its caller closes the channel when it fails.         *)
(***************************************************************************)
EXTENDS Naturals, Sequences

CONSTANTS MaxSent,     \* bound: messages the agent numbers
          MaxInputs,   \* bound: frames smux writes
          MaxWire,     \* bound: messages under way to the client
          MaxLosses    \* messages that may be lost on the way

ASSUME SSMDataChannelAssumption ==
    MaxSent \in Nat /\ MaxInputs \in Nat /\ MaxWire \in Nat /\ MaxLosses \in Nat

VARIABLES
    sent,           \* agent: the next number
    unacked,        \* agent: the messages sent and not acknowledged
    inbox,          \* agent: the input messages that have arrived
    wire,           \* under way from the agent to the client
    losses,         \* how many were lost
    up,             \* the websocket works
    dcClosed,       \* dc.close has run
    seq,            \* next outbound sequence number
    expectedSeq,    \* next expected inbound sequence number
    loop, cur,      \* readLoop: where it is, the message it works on
    handshakeDone,  \* the channel of that name is closed
    starter,        \* start: waiting, or what it returned
    read            \* the frames smux has read from the pipe

agent == <<sent, unacked, wire, losses>>
channelVars == <<sent, unacked, inbox, wire, losses, up, dcClosed, seq, expectedSeq,
                 loop, cur, handshakeDone, starter, read>>

\* The messages of the handshake come before the first frame.
Handshake == 2

Frames(n) == IF n > Handshake THEN n - Handshake ELSE 0

Output(n) == [type |-> "outputStreamData", number |-> n]
ChannelClosed == [type |-> "channelClosed", number |-> 0]

Messages == [type : {"outputStreamData", "channelClosed"}, number : Nat]

Inputs == [number : Nat, syn : BOOLEAN, payload : {"handshakeResponse", "output"}]

ChannelTypeOK ==
    /\ sent \in Nat /\ unacked \subseteq Nat
    /\ inbox \in Seq(Inputs) /\ wire \in Seq(Messages)
    /\ losses \in Nat
    /\ up \in BOOLEAN /\ dcClosed \in BOOLEAN
    /\ seq \in Nat /\ expectedSeq \in Nat
    /\ loop \in {"readMessage", "acknowledge", "dispatch", "write", "exited"}
    /\ cur \in Nat
    /\ handshakeDone \in BOOLEAN
    /\ starter \in {"waiting", "ok", "failed"}
    /\ read \in Seq(Nat)

\* open() has sent the token and start() has started readLoop.
ChannelInit ==
    /\ sent = 0 /\ unacked = {} /\ inbox = <<>> /\ wire = <<>> /\ losses = 0
    /\ up = TRUE /\ dcClosed = FALSE
    /\ seq = 0 /\ expectedSeq = 0
    /\ loop = "readMessage" /\ cur = 0
    /\ handshakeDone = FALSE /\ starter = "waiting"
    /\ read = <<>>

-----------------------------------------------------------------------------
(* The agent and the service between. *)

Relay(message) == wire' = Append(wire, message)

\* The agent's next message: the handshake is complete once the client answered.
AgentSends ==
    /\ sent < MaxSent /\ up /\ Len(wire) < MaxWire
    /\ sent > 0 => inbox # <<>>
    /\ Relay(Output(sent))
    /\ unacked' = unacked \cup {sent}
    /\ sent' = sent + 1
    /\ UNCHANGED <<inbox, losses, up, dcClosed, seq, expectedSeq, loop, cur, handshakeDone,
                   starter, read>>

\* No acknowledgement in time.
AgentRepeats(n) ==
    /\ n \in unacked /\ up /\ Len(wire) < MaxWire
    /\ Relay(Output(n))
    /\ UNCHANGED <<sent, unacked, inbox, losses, up, dcClosed, seq, expectedSeq, loop, cur,
                   handshakeDone, starter, read>>

AgentCloses ==
    /\ up /\ Len(wire) < MaxWire
    /\ Relay(ChannelClosed)
    /\ UNCHANGED <<sent, unacked, inbox, losses, up, dcClosed, seq, expectedSeq, loop, cur,
                   handshakeDone, starter, read>>

\* A message is lost on the way, or is malformed when it arrives.
Lose ==
    /\ losses < MaxLosses
    /\ \E i \in DOMAIN wire :
         wire' = [j \in 1 .. Len(wire) - 1 |-> IF j < i THEN wire[j] ELSE wire[j + 1]]
    /\ losses' = losses + 1
    /\ UNCHANGED <<sent, unacked, inbox, up, dcClosed, seq, expectedSeq, loop, cur,
                   handshakeDone, starter, read>>

Break ==
    /\ up /\ up' = FALSE
    /\ UNCHANGED <<agent, inbox, dcClosed, seq, expectedSeq, loop, cur, handshakeDone,
                   starter, read>>

-----------------------------------------------------------------------------
(* readLoop. *)

ReadMessage ==
    /\ loop = "readMessage" /\ wire # <<>> /\ ~dcClosed
    /\ wire' = Tail(wire)
    /\ IF Head(wire).type = "channelClosed"
         THEN loop' = "exited" /\ UNCHANGED cur
         ELSE loop' = "acknowledge" /\ cur' = Head(wire).number
    /\ UNCHANGED <<sent, unacked, inbox, losses, up, dcClosed, seq, expectedSeq,
                   handshakeDone, starter, read>>

ReadFails ==
    /\ loop = "readMessage" /\ (dcClosed \/ ~up)
    /\ loop' = "exited"
    /\ UNCHANGED <<agent, inbox, up, dcClosed, seq, expectedSeq, cur, handshakeDone,
                   starter, read>>

\* The websocket carries what is written to it.
Writable == up /\ ~dcClosed

\* Faulty form: takes a repeated message for a new one.
AcknowledgeRepeated ==
    /\ loop = "acknowledge"
    /\ unacked' = IF Writable THEN unacked \ {cur} ELSE unacked
    /\ IF cur > expectedSeq
         THEN loop' = "readMessage" /\ UNCHANGED expectedSeq
         ELSE loop' = "dispatch" /\ expectedSeq' = cur + 1
    /\ UNCHANGED <<sent, inbox, wire, losses, up, dcClosed, seq, cur, handshakeDone,
                   starter, read>>

\* Faulty form: counts a message before it looks at its number.
AcknowledgeCountsRepeats ==
    /\ loop = "acknowledge"
    /\ unacked' = IF Writable THEN unacked \ {cur} ELSE unacked
    /\ loop' = IF cur # expectedSeq THEN "readMessage" ELSE "dispatch"
    /\ expectedSeq' = expectedSeq + 1
    /\ UNCHANGED <<sent, inbox, wire, losses, up, dcClosed, seq, cur, handshakeDone,
                   starter, read>>

\* Every message is acknowledged; only the expected one goes on.
Acknowledge ==
    /\ loop = "acknowledge"
    /\ unacked' = IF Writable THEN unacked \ {cur} ELSE unacked
    /\ IF cur # expectedSeq
         THEN loop' = "readMessage" /\ UNCHANGED expectedSeq
         ELSE loop' = "dispatch" /\ expectedSeq' = expectedSeq + 1
    /\ UNCHANGED <<sent, inbox, wire, losses, up, dcClosed, seq, cur, handshakeDone,
                   starter, read>>

\* sendInput: the next number on the one outbound sequence, also when the write
\* fails.
SendInput(kind) ==
    /\ seq' = seq + 1
    /\ inbox' = IF Writable
                  THEN Append(inbox, [number |-> seq, syn |-> seq = 0, payload |-> kind])
                  ELSE inbox

\* Faulty form: the answer leaves number 0 to the first frame.
AnswerHandshakeUnnumbered ==
    /\ loop = "dispatch" /\ cur = 0
    /\ inbox' = Append(inbox, [number |-> seq, syn |-> TRUE, payload |-> "handshakeResponse"])
    /\ loop' = "readMessage"
    /\ UNCHANGED <<agent, up, dcClosed, seq, expectedSeq, cur, handshakeDone, starter, read>>

AnswerHandshake ==
    /\ loop = "dispatch" /\ cur = 0
    /\ SendInput("handshakeResponse")
    /\ loop' = "readMessage"
    /\ UNCHANGED <<agent, up, dcClosed, expectedSeq, cur, handshakeDone, starter, read>>

CompleteHandshake ==
    /\ loop = "dispatch" /\ cur = 1
    /\ handshakeDone' = TRUE
    /\ loop' = "readMessage"
    /\ UNCHANGED <<agent, inbox, up, dcClosed, seq, expectedSeq, cur, starter, read>>

\* A frame: the write to the pipe waits for smux.
OfferFrame ==
    /\ loop = "dispatch" /\ cur >= Handshake
    /\ loop' = "write"
    /\ UNCHANGED <<agent, inbox, up, dcClosed, seq, expectedSeq, cur, handshakeDone, starter, read>>

WriteFails ==
    /\ loop = "write" /\ dcClosed
    /\ loop' = "exited"
    /\ UNCHANGED <<agent, inbox, up, dcClosed, seq, expectedSeq, cur, handshakeDone, starter, read>>

-----------------------------------------------------------------------------
(* smux, which start's caller puts on top once start has returned nil. *)

SmuxReads ==
    /\ starter = "ok" /\ ~dcClosed /\ loop = "write"
    /\ read' = Append(read, cur - Handshake)
    /\ loop' = "readMessage"
    /\ UNCHANGED <<agent, inbox, up, dcClosed, seq, expectedSeq, cur, handshakeDone, starter>>

SmuxWrites ==
    /\ starter = "ok" /\ ~dcClosed /\ seq <= MaxInputs
    /\ SendInput("output")
    /\ UNCHANGED <<agent, up, dcClosed, expectedSeq, loop, cur, handshakeDone, starter, read>>

-----------------------------------------------------------------------------
(* start and close. *)

\* Its select: any case that is ready.
StartSucceeds ==
    /\ starter = "waiting" /\ handshakeDone
    /\ starter' = "ok"
    /\ UNCHANGED <<agent, inbox, up, dcClosed, seq, expectedSeq, loop, cur, handshakeDone, read>>

StartFindsDead ==
    /\ starter = "waiting" /\ loop = "exited"
    /\ starter' = "failed"
    /\ UNCHANGED <<agent, inbox, up, dcClosed, seq, expectedSeq, loop, cur, handshakeDone, read>>

StartTimesOut ==
    /\ starter = "waiting"
    /\ starter' = "failed"
    /\ UNCHANGED <<agent, inbox, up, dcClosed, seq, expectedSeq, loop, cur, handshakeDone, read>>

\* Faulty form: the websocket is closed and the pipe is not.
CloseSocketOnly ==
    /\ starter # "waiting" /\ ~dcClosed
    /\ up' = FALSE
    /\ UNCHANGED <<agent, inbox, dcClosed, seq, expectedSeq, loop, cur, handshakeDone, starter, read>>

\* After a failed start, or when smux or the tunnel is done with the session.
CloseChannel ==
    /\ starter # "waiting" /\ ~dcClosed
    /\ dcClosed' = TRUE
    /\ UNCHANGED <<agent, inbox, up, seq, expectedSeq, loop, cur, handshakeDone, starter, read>>

-----------------------------------------------------------------------------

Loop ==
    \/ ReadMessage \/ ReadFails \/ Acknowledge
    \/ AnswerHandshake \/ CompleteHandshake \/ OfferFrame \/ WriteFails

Start == StartSucceeds \/ StartFindsDead \/ StartTimesOut

CloseFailed == starter = "failed" /\ CloseChannel

ChannelNext ==
    \/ AgentSends \/ (\E n \in unacked : AgentRepeats(n)) \/ AgentCloses \/ Lose \/ Break
    \/ Loop \/ SmuxReads \/ SmuxWrites \/ Start \/ CloseChannel

ChannelSpec == ChannelInit /\ [][ChannelNext]_channelVars

\* readLoop and smux are goroutines that run when they can; start has its timer,
\* and its caller closes what failed; the agent goes on until it is acknowledged.
ChannelFairSpec ==
    /\ ChannelSpec
    /\ WF_channelVars(Loop) /\ WF_channelVars(SmuxReads) /\ WF_channelVars(Start) /\ WF_channelVars(CloseFailed)
    /\ \A n \in 0 .. MaxSent - 1 : SF_channelVars(AgentRepeats(n))

-----------------------------------------------------------------------------
(* Properties. *)

\* The pipe gives smux each frame exactly once and in order, whatever is
\* repeated, lost or broken (ssm_tunnel.go:659-663).
Stream == INSTANCE FrameStream WITH sent <- Frames(sent), received <- read

ExactlyOnceInOrder == Stream!Spec

\* The agent drops what is not the next number of the one outbound sequence
\* (ssm_tunnel.go:693-698): the handshake response is number 0 with the SYN flag,
\* and the frames follow it without a gap, until the channel is lost.
InputContiguous ==
    \A i \in DOMAIN inbox :
        /\ inbox[i].number = i - 1
        /\ inbox[i].syn = (i = 1)
        /\ inbox[i].payload = (IF i = 1 THEN "handshakeResponse" ELSE "output")

\* start always returns, and when it fails readLoop goes too: no goroutine is
\* left on the pipe of a channel that nobody reads.
FailedStartCleansUp ==
    /\ starter = "waiting" ~> starter # "waiting"
    /\ starter = "failed" \/ dcClosed ~> loop = "exited"

\* Frame n, once sent, is read, as long as the channel lives.
FrameRead(n) ==
    sent > n ~> Len(read) > n - Handshake \/ dcClosed \/ loop = "exited" \/ starter = "failed"

EveryFrameRead == \A n \in Handshake .. MaxSent - 1 : FrameRead(n)

\* Every frame the agent has sent is read, however often messages are repeated,
\* when none of them is lost ("Process each sequence exactly once",
\* ssm_tunnel.go:662): what comes ahead of a lost one is acknowledged and dropped.
EveryFrameReadUnlessLost ==
    <>(losses > 0) \/ EveryFrameRead

-----------------------------------------------------------------------------
(* Why they hold: the inductive invariant. *)

\* Where the expected number and the frames read stand at each point of readLoop.
Reading ==
    /\ expectedSeq <= sent
    /\ \A n \in unacked : n < sent
    /\ \A i \in DOMAIN wire : wire[i].type = "outputStreamData" => wire[i].number < sent
    /\ loop = "acknowledge" => cur < sent
    /\ loop \in {"dispatch", "write"} => expectedSeq = cur + 1
    /\ loop = "write" => cur >= Handshake
    /\ loop \in {"readMessage", "acknowledge"} => Len(read) = Frames(expectedSeq)
    /\ loop \in {"dispatch", "write"} => Len(read) = Frames(cur)

\* Nothing is written before the answer to the handshake.
Writing ==
    /\ handshakeDone => expectedSeq > 1
    /\ starter = "ok" => handshakeDone
    /\ expectedSeq = 0 \/ (expectedSeq = 1 /\ loop = "dispatch") => seq = 0
    /\ expectedSeq > 1 => seq > 0
    /\ expectedSeq = 1 /\ loop \in {"readMessage", "acknowledge"} => seq > 0
    /\ Writable => Len(inbox) = seq

ChannelInv == ChannelTypeOK /\ Reading /\ Writing /\ InputContiguous
=============================================================================
