---------------------------- MODULE LoopbackTunnel --------------------------
(***************************************************************************)
(* The tunnels that open one upstream connection for every local one: SSH  *)
(* bastion (src/postgresql/ssh_tunnel.go), Azure Bastion                   *)
(* (azure_bastion_tunnel.go) and GCP IAP (gcp_iap_tunnel.go), with the     *)
(* listener the last two share (transport_loopback.go).  One transport is  *)
(* active at a time: kind, the first state's choice.                       *)
(*                                                                         *)
(* An SSH tunnel keeps one client to the bastion; a connection is a        *)
(* channel of it and two copies.  The others open a websocket for every    *)
(* connection, read it in a goroutine of its own and write to it from the  *)
(* handler; IAP frames the data, counts what it has received and           *)
(* acknowledges it on the same websocket, which takes one writer at a time *)
(* (writeMu).                                                              *)
(***************************************************************************)
EXTENDS Naturals, Sequences, FiniteSets

CONSTANTS Conns,      \* the provider's connections
          Keys,       \* the registry keys of the configurations in use
          Tunnels,    \* bound: the tunnels that can be started
          Kinds,      \* the transports: "ssh", "azure", "gcp"
          Messages,   \* what the relay packs into a message: sequences of frames
          Window,     \* the data the relay sends ahead of the acknowledgement
          MaxData,    \* bound: the data frames sent to each connection
          MaxSends,   \* bound: what each client sends ahead of the handler
          None

ASSUME LoopbackTunnelAssumption ==
    /\ None \notin Tunnels /\ None \notin Conns /\ None \notin Keys
    /\ None \notin {"handler", "reader"}
    /\ Kinds \subseteq {"ssh", "azure", "gcp"}
    /\ Messages \subseteq Seq({"data", "other", "bad"})
    /\ Window \in Nat \ {0}
    /\ MaxData \in [Conns -> Nat] /\ MaxSends \in [Conns -> Nat]

VARIABLES
    kind,         \* the transport
    registry,     \* the tunnel of each key
    registryLock, \* who holds the registry's lock
    key,          \* the key each tunnel was started with, None before
    listening,    \* the tunnels whose listener is open
    closed,       \* the tunnels whose channel "closed" is closed
    bastion,      \* the SSH tunnels whose client is open
    lost,         \* the SSH tunnels whose client has lost the bastion
    want,         \* the key each connection is after
    client,       \* the provider's end of each connection
    tunnel,       \* the tunnel it has got
    outbox,       \* what the client has sent and the handler not read
    late,         \* what the handler has read after the tunnel was closed
    pc,           \* the next step of the handler
    reader,       \* the next step of its reading goroutine
    writeMu,      \* which of the two may write to the websocket
    up,           \* the connections whose channel or websocket is open
    inbox,        \* the messages on the way from the relay
    rest,         \* the frames of the message at hand
    sent, delivered, acked  \* the data sent by the relay, given to the client, acknowledged

regVars == <<registry, registryLock, key>>
tunnelVars == <<kind, listening, closed, bastion, lost>>
flowVars == <<inbox, rest, sent, delivered, acked>>
vars == <<regVars, tunnelVars, want, client, tunnel, outbox, late, pc, reader, writeMu, up, flowVars>>

Relaying == {"check", "read", "send", "write"}

TypeOK ==
    /\ kind \in Kinds
    /\ registry \in [Keys -> Tunnels \cup {None}]
    /\ registryLock \in Conns \cup {None}
    /\ key \in [Tunnels -> Keys \cup {None}]
    /\ listening \subseteq Tunnels /\ closed \subseteq Tunnels
    /\ bastion \subseteq Tunnels /\ lost \subseteq Tunnels
    /\ want \in [Conns -> Keys]
    /\ client \in [Conns -> {"idle", "locked", "listen", "dial", "dialled", "gone"}]
    /\ tunnel \in [Conns -> Tunnels \cup {None}]
    /\ outbox \in [Conns -> Nat] /\ late \in [Conns -> Nat]
    /\ pc \in [Conns -> {"none", "backlog", "upstream", "bridge", "done"} \cup Relaying]
    /\ reader \in [Conns -> {"off", "read", "frames", "ack", "acking"}]
    /\ writeMu \in [Conns -> {"handler", "reader", None}]
    /\ up \subseteq Conns
    /\ inbox \in [Conns -> Seq(Messages)]
    /\ rest \in [Conns -> Seq({"data", "other", "bad"})]
    /\ sent \in [Conns -> Nat] /\ delivered \in [Conns -> Nat] /\ acked \in [Conns -> Nat]

Init ==
    /\ kind \in Kinds
    /\ registry = [k \in Keys |-> None]
    /\ registryLock = None
    /\ key = [t \in Tunnels |-> None]
    /\ listening = {} /\ closed = {} /\ bastion = {} /\ lost = {}
    /\ want \in [Conns -> Keys]
    /\ client = [c \in Conns |-> "idle"]
    /\ tunnel = [c \in Conns |-> None]
    /\ outbox = [c \in Conns |-> 0] /\ late = [c \in Conns |-> 0]
    /\ pc = [c \in Conns |-> "none"]
    /\ reader = [c \in Conns |-> "off"]
    /\ writeMu = [c \in Conns |-> None]
    /\ up = {}
    /\ inbox = [c \in Conns |-> <<>>] /\ rest = [c \in Conns |-> <<>>]
    /\ sent = [c \in Conns |-> 0]
    /\ delivered = [c \in Conns |-> 0] /\ acked = [c \in Conns |-> 0]

\* A new tunnel: any one of those there have not been yet, as good as any other.
Unused ==
    LET new == {t \in Tunnels : key[t] = None}
    IN  IF new = {} THEN {} ELSE {CHOOSE t \in new : TRUE}

GoTo(c, label) == pc' = [pc EXCEPT ![c] = label]

-----------------------------------------------------------------------------
(* EnsureUp. *)

LockRegistry(c) ==
    /\ client[c] = "idle" /\ registryLock = None
    /\ registryLock' = c
    /\ client' = [client EXCEPT ![c] = "locked"]
    /\ UNCHANGED <<registry, key, tunnelVars, want, tunnel, outbox, late, pc, reader, writeMu, up, flowVars>>

\* EnsureUp returns with the tunnel t.
ReturnTunnel(c, t) ==
    /\ tunnel' = [tunnel EXCEPT ![c] = t]
    /\ client' = [client EXCEPT ![c] = "dial"]
    /\ registryLock' = None
    /\ UNCHANGED <<kind, closed, lost, want, outbox, late, pc, reader, writeMu, up, flowVars>>

\* EnsureUp returns with an error.
ReturnError(c) ==
    /\ client' = [client EXCEPT ![c] = "gone"]
    /\ registryLock' = None
    /\ UNCHANGED <<registry, key, kind, listening, closed, lost, want, tunnel, outbox, late, pc,
                   reader, writeMu, up, flowVars>>

\* The registry does not ask whether the tunnel it has still works.
FindTunnel(c) ==
    /\ client[c] = "locked" /\ registry[want[c]] # None
    /\ ReturnTunnel(c, registry[want[c]])
    /\ UNCHANGED <<registry, key, listening, bastion>>

\* SSH: the client connects to the bastion first.
DialBastion(c) ==
    /\ kind = "ssh" /\ client[c] = "locked" /\ registry[want[c]] = None
    /\ \E t \in Unused :
         /\ key' = [key EXCEPT ![t] = want[c]]
         /\ bastion' = bastion \cup {t}
         /\ tunnel' = [tunnel EXCEPT ![c] = t]
    /\ client' = [client EXCEPT ![c] = "listen"]
    /\ UNCHANGED <<registry, registryLock, kind, listening, closed, lost, want, outbox, late, pc,
                   reader, writeMu, up, flowVars>>

\* No usable key or password, no way to verify the host's key, no bastion.
DialBastionFails(c) ==
    /\ kind = "ssh" /\ client[c] = "locked" /\ registry[want[c]] = None
    /\ ReturnError(c)
    /\ UNCHANGED bastion

\* Then the listener opens.
ListenSSH(c) ==
    LET t == tunnel[c] IN
    /\ client[c] = "listen"
    /\ registry' = [registry EXCEPT ![want[c]] = t]
    /\ listening' = listening \cup {t}
    /\ ReturnTunnel(c, t)
    /\ UNCHANGED <<key, bastion>>

\* Faulty form: the client stays connected.
ListenSSHFailsOpen(c) ==
    /\ client[c] = "listen"
    /\ ReturnError(c)
    /\ UNCHANGED bastion

\* The local port is taken: the client is given up.
ListenSSHFails(c) ==
    /\ client[c] = "listen"
    /\ bastion' = bastion \ {tunnel[c]}
    /\ ReturnError(c)

\* Azure and IAP: credentials, for Azure the bastion's name, and the listener.
StartLoopback(c) ==
    /\ kind \in {"azure", "gcp"} /\ client[c] = "locked" /\ registry[want[c]] = None
    /\ \E t \in Unused :
         /\ key' = [key EXCEPT ![t] = want[c]]
         /\ registry' = [registry EXCEPT ![want[c]] = t]
         /\ listening' = listening \cup {t}
         /\ ReturnTunnel(c, t)
    /\ UNCHANGED bastion

\* No credential, no bastion of that name, or the local port is taken.
StartAzureFails(c) ==
    /\ kind = "azure" /\ client[c] = "locked" /\ registry[want[c]] = None
    /\ ReturnError(c)
    /\ UNCHANGED bastion

\* No credential, or the local port is taken.
StartGCPFails(c) ==
    /\ kind = "gcp" /\ client[c] = "locked" /\ registry[want[c]] = None
    /\ ReturnError(c)
    /\ UNCHANGED bastion

-----------------------------------------------------------------------------
(* The provider's end of a connection, and the accept loop. *)

Dial(c) ==
    /\ client[c] = "dial"
    /\ IF tunnel[c] \in listening
         THEN client' = [client EXCEPT ![c] = "dialled"] /\ GoTo(c, "backlog")
         ELSE client' = [client EXCEPT ![c] = "gone"] /\ UNCHANGED pc
    /\ UNCHANGED <<regVars, tunnelVars, want, tunnel, outbox, late, reader, writeMu, up, flowVars>>

\* A message of the PostgreSQL protocol, to be read by the handler.
ClientSends(c) ==
    /\ client[c] = "dialled" /\ pc[c] # "backlog" /\ outbox[c] < MaxSends[c]
    /\ outbox' = [outbox EXCEPT ![c] = @ + 1]
    /\ UNCHANGED <<regVars, tunnelVars, want, client, tunnel, late, pc, reader, writeMu, up, flowVars>>

ClientCloses(c) ==
    /\ client[c] = "dialled"
    /\ client' = [client EXCEPT ![c] = "gone"]
    /\ UNCHANGED <<regVars, tunnelVars, want, tunnel, outbox, late, pc, reader, writeMu, up, flowVars>>

Accept(c) ==
    /\ pc[c] = "backlog" /\ tunnel[c] \in listening
    /\ GoTo(c, "upstream")
    /\ UNCHANGED <<regVars, tunnelVars, want, client, tunnel, outbox, late, reader, writeMu, up, flowVars>>

\* Faulty form: the websocket stays open.
HandlerEndsOpen(c) ==
    /\ GoTo(c, "done")
    /\ client' = [client EXCEPT ![c] = "gone"]
    /\ outbox' = [outbox EXCEPT ![c] = 0]
    /\ UNCHANGED <<regVars, tunnelVars, want, tunnel, up>>

\* handleConn returns: its deferred calls close the local connection and the
\* channel or websocket.
HandlerEnds(c) ==
    /\ GoTo(c, "done")
    /\ client' = [client EXCEPT ![c] = "gone"]
    /\ outbox' = [outbox EXCEPT ![c] = 0]
    /\ up' = up \ {c}
    /\ UNCHANGED <<regVars, tunnelVars, want, tunnel>>

-----------------------------------------------------------------------------
(* SSH: a channel through the bastion, and two copies. *)

DialRemote(c) ==
    /\ kind = "ssh" /\ pc[c] = "upstream" /\ tunnel[c] \in bastion \ lost
    /\ up' = up \cup {c}
    /\ GoTo(c, "bridge")
    /\ UNCHANGED <<regVars, tunnelVars, want, client, tunnel, outbox, late, reader, writeMu, flowVars>>

\* The database is not reached through the bastion, or the bastion is gone.
DialRemoteFails(c) ==
    /\ kind = "ssh" /\ pc[c] = "upstream"
    /\ HandlerEnds(c)
    /\ UNCHANGED <<late, reader, writeMu, flowVars>>

\* One of the copies has come to its end, or the tunnel is closed.
BridgeEnds(c) ==
    /\ pc[c] = "bridge"
    /\ client[c] = "gone" \/ c \notin up \/ tunnel[c] \in closed
    /\ HandlerEnds(c)
    /\ UNCHANGED <<late, reader, writeMu, flowVars>>

\* The connection to the bastion breaks, and all channels with it.
BastionLost(t) ==
    /\ t \in bastion /\ t \notin lost
    /\ lost' = lost \cup {t}
    /\ up' = {c \in up : tunnel[c] # t}
    /\ UNCHANGED <<regVars, kind, listening, closed, bastion, want, client, tunnel, outbox, late, pc,
                   reader, writeMu, flowVars>>

-----------------------------------------------------------------------------
(* Azure and IAP: the handler. *)

\* Tokens are got and the websocket is opened; a goroutine reads it.
OpenWebsocket(c) ==
    /\ kind # "ssh" /\ pc[c] = "upstream"
    /\ up' = up \cup {c}
    /\ reader' = [reader EXCEPT ![c] = "read"]
    /\ GoTo(c, "check")
    /\ UNCHANGED <<regVars, tunnelVars, want, client, tunnel, outbox, late, writeMu, flowVars>>

\* Azure's two tokens, its websocket.
OpenAzureFails(c) ==
    /\ kind = "azure" /\ pc[c] = "upstream"
    /\ HandlerEnds(c)
    /\ UNCHANGED <<late, reader, writeMu, flowVars>>

\* Google's token, the relay's websocket.
OpenGCPFails(c) ==
    /\ kind = "gcp" /\ pc[c] = "upstream"
    /\ HandlerEnds(c)
    /\ UNCHANGED <<late, reader, writeMu, flowVars>>

\* Faulty form: does not look at closed.
CheckNothing(c) ==
    /\ pc[c] = "check"
    /\ GoTo(c, "read")
    /\ UNCHANGED <<regVars, tunnelVars, want, client, tunnel, outbox, up, late, reader, writeMu, flowVars>>

\* Whether the tunnel is closed is asked before each read, not during it.
CheckClosed(c) ==
    /\ pc[c] = "check"
    /\ IF tunnel[c] \in closed
         THEN HandlerEnds(c)
         ELSE GoTo(c, "read") /\ UNCHANGED <<regVars, tunnelVars, want, client, tunnel, outbox, up>>
    /\ UNCHANGED <<late, reader, writeMu, flowVars>>

ReadLocal(c) ==
    /\ pc[c] = "read" /\ outbox[c] > 0
    /\ outbox' = [outbox EXCEPT ![c] = @ - 1]
    /\ late' = [late EXCEPT ![c] = IF tunnel[c] \in closed THEN @ + 1 ELSE @]
    /\ GoTo(c, "send")
    /\ UNCHANGED <<regVars, tunnelVars, want, client, tunnel, reader, writeMu, up, flowVars>>

LocalEnds(c) ==
    /\ pc[c] = "read" /\ outbox[c] = 0 /\ client[c] = "gone"
    /\ HandlerEnds(c)
    /\ UNCHANGED <<late, reader, writeMu, flowVars>>

LockWrite(c) ==
    /\ pc[c] = "send" /\ writeMu[c] = None
    /\ writeMu' = [writeMu EXCEPT ![c] = "handler"]
    /\ GoTo(c, "write")
    /\ UNCHANGED <<regVars, tunnelVars, want, client, tunnel, outbox, late, reader, up, flowVars>>

\* The write fails when the websocket is gone.
WriteData(c) ==
    /\ pc[c] = "write"
    /\ writeMu' = [writeMu EXCEPT ![c] = None]
    /\ IF c \in up
         THEN GoTo(c, "check") /\ UNCHANGED <<regVars, tunnelVars, want, client, tunnel, outbox, up>>
         ELSE HandlerEnds(c)
    /\ UNCHANGED <<late, reader, flowVars>>

-----------------------------------------------------------------------------
(* Azure and IAP: the goroutine that reads the websocket. *)

readerUnchanged == UNCHANGED <<regVars, tunnelVars, want, tunnel, late, pc, up, sent>>

GoOn(c, label) == reader' = [reader EXCEPT ![c] = label]

\* Faulty form: leaves the client alone.
ReadFailsQuietly(c) ==
    /\ reader[c] = "read" /\ c \notin up
    /\ GoOn(c, "off")
    /\ readerUnchanged /\ UNCHANGED <<client, outbox, writeMu, inbox, rest, delivered, acked>>

\* The websocket is gone: the local connection is closed, which ends the read the
\* handler is waiting in.
ReadFails(c) ==
    /\ reader[c] = "read" /\ c \notin up
    /\ client' = [client EXCEPT ![c] = "gone"]
    /\ outbox' = [outbox EXCEPT ![c] = 0]
    /\ GoOn(c, "off")
    /\ readerUnchanged /\ UNCHANGED <<writeMu, inbox, rest, delivered, acked>>

\* Writing to the client, which may have closed: then the goroutine may end here,
\* or not notice yet.
Deliver(c, next) ==
    \/ /\ client[c] = "dialled"
       /\ delivered' = [delivered EXCEPT ![c] = @ + 1]
       /\ GoOn(c, next)
    \/ /\ client[c] = "gone"
       /\ GoOn(c, next) \/ GoOn(c, "off")
       /\ UNCHANGED delivered

\* Azure: a message is data.
ReadAzure(c) ==
    /\ kind = "azure" /\ reader[c] = "read" /\ inbox[c] # <<>>
    /\ inbox' = [inbox EXCEPT ![c] = Tail(@)]
    /\ Deliver(c, "read")
    /\ readerUnchanged /\ UNCHANGED <<client, outbox, writeMu, rest, acked>>

\* The next frame of the message, or the next message.
NextLabel(frames) == IF frames = <<>> THEN "read" ELSE "frames"

\* IAP: a message is a sequence of frames.
ReadGCP(c) ==
    /\ kind = "gcp" /\ reader[c] = "read" /\ inbox[c] # <<>>
    /\ inbox' = [inbox EXCEPT ![c] = Tail(@)]
    /\ rest' = [rest EXCEPT ![c] = Head(inbox[c])]
    /\ GoOn(c, NextLabel(Head(inbox[c])))
    /\ readerUnchanged /\ UNCHANGED <<client, outbox, writeMu, delivered, acked>>

\* Data is written and then acknowledged, the other frames are passed over; one
\* that is cut off or of another kind ends the goroutine.
NextFrame(c) ==
    /\ reader[c] = "frames" /\ rest[c] # <<>>
    /\ rest' = [rest EXCEPT ![c] = Tail(@)]
    /\ CASE Head(rest[c]) = "data" -> Deliver(c, "ack")
         [] Head(rest[c]) = "other" -> GoOn(c, NextLabel(Tail(rest[c]))) /\ UNCHANGED delivered
         [] OTHER -> GoOn(c, "off") /\ UNCHANGED delivered
    /\ readerUnchanged /\ UNCHANGED <<client, outbox, writeMu, inbox, acked>>

\* Faulty form: does not wait for the handler.
LockAckFree(c) ==
    /\ reader[c] = "ack"
    /\ GoOn(c, "acking")
    /\ readerUnchanged /\ UNCHANGED <<client, outbox, writeMu, flowVars>>

LockAck(c) ==
    /\ reader[c] = "ack" /\ writeMu[c] = None
    /\ writeMu' = [writeMu EXCEPT ![c] = "reader"]
    /\ GoOn(c, "acking")
    /\ readerUnchanged /\ UNCHANGED <<client, outbox, flowVars>>

\* Faulty form: acknowledges the frame, not all that was received.
WriteAckOfFrame(c) ==
    /\ reader[c] = "acking"
    /\ acked' = [acked EXCEPT ![c] = IF c \in up THEN 1 ELSE @]
    /\ writeMu' = [writeMu EXCEPT ![c] = IF @ = "reader" THEN None ELSE @]
    /\ GoOn(c, NextLabel(rest[c]))
    /\ readerUnchanged /\ UNCHANGED <<client, outbox, inbox, rest, delivered>>

\* The acknowledgement carries the total; its failure is not looked at.
WriteAck(c) ==
    /\ reader[c] = "acking"
    /\ acked' = [acked EXCEPT ![c] = IF c \in up THEN delivered[c] ELSE @]
    /\ writeMu' = [writeMu EXCEPT ![c] = IF @ = "reader" THEN None ELSE @]
    /\ GoOn(c, NextLabel(rest[c]))
    /\ readerUnchanged /\ UNCHANGED <<client, outbox, inbox, rest, delivered>>

-----------------------------------------------------------------------------
(* The far end. *)

DataIn(m) == Cardinality({i \in DOMAIN m : m[i] = "data"})

\* The relay keeps within its window; a bastion of Azure has only TCP's.
RelaySends(c) ==
    /\ kind # "ssh" /\ c \in up /\ inbox[c] = <<>>
    /\ kind = "gcp" => sent[c] < acked[c] + Window
    /\ \E m \in Messages :
         /\ sent[c] + DataIn(m) <= MaxData[c]
         /\ kind = "azure" => m = <<"data">>
         /\ inbox' = [inbox EXCEPT ![c] = Append(@, m)]
         /\ sent' = [sent EXCEPT ![c] = @ + DataIn(m)]
    /\ UNCHANGED <<regVars, tunnelVars, want, client, tunnel, outbox, late, pc, reader, writeMu, up,
                   rest, delivered, acked>>

UpstreamLost(c) ==
    /\ c \in up
    /\ up' = up \ {c}
    /\ UNCHANGED <<regVars, tunnelVars, want, client, tunnel, outbox, late, pc, reader, writeMu, flowVars>>

-----------------------------------------------------------------------------
(* Close. *)

\* The connections nobody has accepted yet are reset when the listener closes.
CloseTunnel(t) ==
    /\ closed' = closed \cup {t}
    /\ listening' = listening \ {t}
    /\ pc' = [c \in Conns |-> IF tunnel[c] = t /\ pc[c] = "backlog" THEN "done" ELSE pc[c]]
    /\ client' = [c \in Conns |-> IF tunnel[c] = t /\ pc[c] = "backlog" THEN "gone" ELSE client[c]]

\* SSH: the client is closed too, and with it every channel.
CloseSSH(k) ==
    LET t == registry[k] IN
    /\ kind = "ssh" /\ t # None /\ registryLock = None
    /\ registry' = [registry EXCEPT ![k] = None]
    /\ CloseTunnel(t)
    /\ bastion' = bastion \ {t}
    /\ up' = {c \in up : tunnel[c] # t}
    /\ UNCHANGED <<registryLock, key, kind, lost, want, tunnel, outbox, late, reader, writeMu, flowVars>>

CloseLoopback(k) ==
    LET t == registry[k] IN
    /\ kind # "ssh" /\ t # None /\ registryLock = None
    /\ registry' = [registry EXCEPT ![k] = None]
    /\ CloseTunnel(t)
    /\ UNCHANGED <<registryLock, key, kind, bastion, lost, want, tunnel, outbox, late, reader,
                   writeMu, up, flowVars>>

-----------------------------------------------------------------------------

ClientStep(c) ==
    \/ LockRegistry(c) \/ FindTunnel(c) \/ DialBastion(c) \/ DialBastionFails(c) \/ ListenSSH(c)
    \/ ListenSSHFails(c) \/ StartLoopback(c) \/ StartAzureFails(c) \/ StartGCPFails(c) \/ Dial(c)

HandlerStep(c) ==
    \/ Accept(c) \/ DialRemote(c) \/ DialRemoteFails(c) \/ BridgeEnds(c)
    \/ OpenWebsocket(c) \/ OpenAzureFails(c) \/ OpenGCPFails(c) \/ CheckClosed(c) \/ ReadLocal(c)
    \/ LocalEnds(c) \/ LockWrite(c) \/ WriteData(c)

ReaderStep(c) ==
    \/ ReadFails(c) \/ ReadAzure(c) \/ ReadGCP(c) \/ NextFrame(c) \/ LockAck(c) \/ WriteAck(c)

Next ==
    \/ \E c \in Conns :
         \/ ClientStep(c) \/ ClientSends(c) \/ ClientCloses(c)
         \/ HandlerStep(c) \/ ReaderStep(c) \/ RelaySends(c) \/ UpstreamLost(c)
    \/ \E t \in Tunnels : BastionLost(t)
    \/ \E k \in Keys : CloseSSH(k) \/ CloseLoopback(k)

Spec == Init /\ [][Next]_vars

\* Goroutines run, and the relay sends when its window is open.  The handler may
\* take writeMu again and again: Go's mutex hands over to the reader that waits.
FairSpec ==
    /\ Spec
    /\ \A c \in Conns :
         /\ WF_vars(HandlerStep(c)) /\ WF_vars(ReaderStep(c))
         /\ SF_vars(LockAck(c)) /\ WF_vars(RelaySends(c))

-----------------------------------------------------------------------------
(* Properties. *)

\* The websocket takes one writer at a time: the handler sends data and the reader
\* acknowledgements on the same one (gcp_iap_tunnel.go:163-168).
OneWriter == \A c \in Conns : ~(pc[c] = "write" /\ reader[c] = "acking")

\* What is open is owned: every listener, and every client to a bastion, is that of
\* a registered tunnel or of the one being started; and the registry hands out
\* tunnels that listen.
NothingLeftOpen ==
    /\ \A k \in Keys : registry[k] # None => registry[k] \in listening \ closed
    /\ \A t \in listening \cup bastion :
         \/ registry[key[t]] = t
         \/ \E c \in Conns : registryLock = c /\ client[c] = "listen" /\ tunnel[c] = t

\* A closed tunnel relays at most the message its handler was waiting for.
AtMostOneLate == \A c \in Conns : late[c] <= 1

\* When the way to the database breaks the provider's connection is closed: it does
\* not wait for an answer that cannot come.
LossReachesClient ==
    \A c \in Conns : (pc[c] \in Relaying \cup {"bridge"} /\ c \notin up) ~> client[c] = "gone"

\* No goroutine outlives its connection.
ReadersEnd == \A c \in Conns : pc[c] = "done" ~> reader[c] = "off"

\* What the relay has for an open connection arrives: its window never stays shut.
FlowGoesOn ==
    \A c \in Conns :
        c \in up /\ kind # "ssh" ~> delivered[c] = MaxData[c] \/ c \notin up \/ client[c] = "gone"

-----------------------------------------------------------------------------
(* Why OneWriter and NothingLeftOpen hold. *)

\* Who writes to the websocket has its mutex.
WriterHolds ==
    \A c \in Conns :
        /\ pc[c] = "write" => writeMu[c] = "handler"
        /\ reader[c] = "acking" => writeMu[c] = "reader"

\* Who starts a tunnel has the registry's lock, and its tunnel is not yet another's.
StarterHolds ==
    \A c \in Conns :
        /\ client[c] \in {"locked", "listen"} => registryLock = c
        /\ client[c] \in {"idle", "locked", "listen", "dial"} => pc[c] = "none" /\ reader[c] = "off"
        /\ client[c] = "listen" =>
             /\ tunnel[c] # None /\ key[tunnel[c]] = want[c] /\ registry[want[c]] = None
             /\ tunnel[c] \notin listening \cup closed

\* A registered tunnel is registered under its own key, listens and is not closed;
\* only SSH has clients to a bastion.
RegistryOwns ==
    /\ \A k \in Keys : registry[k] # None =>
         key[registry[k]] = k /\ registry[k] \in listening \ closed
    /\ \A t \in Tunnels : key[t] = None => t \notin listening \cup bastion \cup closed
    /\ kind # "ssh" => bastion = {}

IInv == TypeOK /\ WriterHolds /\ StarterHolds /\ RegistryOwns /\ NothingLeftOpen
=============================================================================
