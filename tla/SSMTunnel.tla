----------------------------- MODULE SSMTunnel -----------------------------
(***************************************************************************)
(* The AWS SSM tunnel (src/postgresql/ssm_tunnel.go, transport.go): a      *)
(* process-wide registry of tunnels, and in each tunnel a local listener   *)
(* whose connections share one SSM session, every connection a stream of   *)
(* it.  The session is started on first use, again when it has died, and   *)
(* ended by Close.  sessMu, the tunnel's mutex, is held over all of it.    *)
(*                                                                         *)
(* A connection is the provider's attempt to reach the server (EnsureUp,   *)
(* then a dial of the local address) and the goroutine handleConn at the   *)
(* other end of it.  What travels in a stream is FrameStream's concern and *)
(* the data channel under the session SSMDataChannel's; here a session is  *)
(* up or dead.                                                             *)
(***************************************************************************)
EXTENDS Naturals, FiniteSets

CONSTANTS Conns,      \* the connections
          Keys,       \* the registry keys of the configurations in use
          Tunnels,    \* bound: the tunnels that can be started
          Sessions,   \* bound: the SSM sessions that can be started
          None

ASSUME SSMTunnelAssumption ==
    /\ None \notin Conns /\ None \notin Tunnels /\ None \notin Sessions
    /\ None \notin Keys /\ Conns \cap Tunnels = {}

VARIABLES
    registry,     \* tunnelRegistry: the tunnel of each key
    registryLock, \* who holds tunnelRegistryLock: a connection, or a tunnel that closes
    key,          \* the key each tunnel was started with, None before
    listening,    \* the tunnels whose listener is open
    closed,       \* the tunnels whose channel "closed" is closed
    closing,      \* the next step of Close in each tunnel
    sessMu,       \* who holds the mutex of each tunnel
    session,      \* session, dc and sessionID of each tunnel
    alive,        \* the sessions that carry streams
    started,      \* the tunnel each SSM session was started for, None before
    ended,        \* the SSM sessions AWS was asked to end
    want,         \* the key each connection is after
    client,       \* the provider's end of each connection
    tunnel,       \* the tunnel it has got from the registry
    pc,           \* the next step of its handler
    fresh,        \* the session the handler is establishing
    retried,      \* the handler has established a session after OpenStream failed
    stream        \* the session its stream belongs to

regVars == <<registry, registryLock, key>>
tunnelVars == <<listening, closed, closing>>
sessVars == <<sessMu, session, alive, started, ended>>
connVars == <<want, client, tunnel, pc, fresh, retried, stream>>
vars == <<regVars, tunnelVars, sessVars, connVars>>

Handling == {"open", "teardown", "start", "channel", "stream", "bridge"}

TypeOK ==
    /\ registry \in [Keys -> Tunnels \cup {None}]
    /\ registryLock \in Conns \cup Tunnels \cup {None}
    /\ key \in [Tunnels -> Keys \cup {None}]
    /\ listening \subseteq Tunnels /\ closed \subseteq Tunnels
    /\ closing \in [Tunnels -> {"no", "closed", "session", "listener", "done"}]
    /\ sessMu \in [Tunnels -> Conns \cup {None}]
    /\ session \in [Tunnels -> Sessions \cup {None}]
    /\ alive \subseteq Sessions /\ ended \subseteq Sessions
    /\ started \in [Sessions -> Tunnels \cup {None}]
    /\ want \in [Conns -> Keys]
    /\ client \in [Conns -> {"idle", "locked", "dial", "dialled", "gone"}]
    /\ tunnel \in [Conns -> Tunnels \cup {None}]
    /\ pc \in [Conns -> {"none", "backlog", "done"} \cup Handling]
    /\ fresh \in [Conns -> Sessions \cup {None}]
    /\ retried \in [Conns -> BOOLEAN]
    /\ stream \in [Conns -> Sessions \cup {None}]

Init ==
    /\ registry = [k \in Keys |-> None]
    /\ registryLock = None
    /\ key = [t \in Tunnels |-> None]
    /\ listening = {} /\ closed = {}
    /\ closing = [t \in Tunnels |-> "no"]
    /\ sessMu = [t \in Tunnels |-> None]
    /\ session = [t \in Tunnels |-> None]
    /\ alive = {} /\ ended = {}
    /\ started = [s \in Sessions |-> None]
    /\ want \in [Conns -> Keys]
    /\ client = [c \in Conns |-> "idle"]
    /\ tunnel = [c \in Conns |-> None]
    /\ pc = [c \in Conns |-> "none"]
    /\ fresh = [c \in Conns |-> None]
    /\ retried = [c \in Conns |-> FALSE]
    /\ stream = [c \in Conns |-> None]

\* A new tunnel or session: any one of those there have not been yet, as good as
\* any other.
Unused(f) ==
    LET new == {x \in DOMAIN f : f[x] = None}
    IN  IF new = {} THEN {} ELSE {CHOOSE x \in new : TRUE}

GoTo(c, label) == pc' = [pc EXCEPT ![c] = label]

-----------------------------------------------------------------------------
(* EnsureUp and the dial of the local address. *)

LockRegistry(c) ==
    /\ client[c] = "idle" /\ registryLock = None
    /\ registryLock' = c
    /\ client' = [client EXCEPT ![c] = "locked"]
    /\ UNCHANGED <<registry, key, tunnelVars, sessVars, want, tunnel, pc, fresh, retried, stream>>

\* EnsureUp returns with the tunnel t.
ReturnTunnel(c, t) ==
    /\ tunnel' = [tunnel EXCEPT ![c] = t]
    /\ client' = [client EXCEPT ![c] = "dial"]
    /\ registryLock' = None
    /\ UNCHANGED <<closed, closing, sessVars, want, pc, fresh, retried, stream>>

FindTunnel(c) ==
    /\ client[c] = "locked" /\ registry[want[c]] # None
    /\ ReturnTunnel(c, registry[want[c]])
    /\ UNCHANGED <<registry, key, listening>>

\* The configuration is loaded, the bastion found, the listener opened: all
\* under the lock of the registry.
StartTunnel(c) ==
    /\ client[c] = "locked" /\ registry[want[c]] = None
    /\ \E t \in Unused(key) :
         /\ key' = [key EXCEPT ![t] = want[c]]
         /\ registry' = [registry EXCEPT ![want[c]] = t]
         /\ listening' = listening \cup {t}
         /\ ReturnTunnel(c, t)

\* A credential, the discovery or the local port fails: nothing is registered.
StartTunnelFails(c) ==
    /\ client[c] = "locked" /\ registry[want[c]] = None
    /\ client' = [client EXCEPT ![c] = "gone"]
    /\ registryLock' = None
    /\ UNCHANGED <<registry, key, tunnelVars, sessVars, want, tunnel, pc, fresh, retried, stream>>

\* The kernel accepts while the listener is open, and refuses afterwards.
Dial(c) ==
    /\ client[c] = "dial"
    /\ IF tunnel[c] \in listening
         THEN client' = [client EXCEPT ![c] = "dialled"] /\ GoTo(c, "backlog")
         ELSE client' = [client EXCEPT ![c] = "gone"] /\ UNCHANGED pc
    /\ UNCHANGED <<regVars, tunnelVars, sessVars, want, tunnel, fresh, retried, stream>>

\* The provider has no more use for the connection.
ClientCloses(c) ==
    /\ client[c] = "dialled"
    /\ client' = [client EXCEPT ![c] = "gone"]
    /\ UNCHANGED <<regVars, tunnelVars, sessVars, want, tunnel, pc, fresh, retried, stream>>

-----------------------------------------------------------------------------
(* acceptLoop and handleConn. *)

Accept(c) ==
    /\ pc[c] = "backlog" /\ tunnel[c] \in listening
    /\ GoTo(c, "open")
    /\ UNCHANGED <<regVars, tunnelVars, sessVars, want, client, tunnel, fresh, retried, stream>>

\* Faulty form: makes a session for every connection.
OpenStreamLocksFresh(c) ==
    LET t == tunnel[c] IN
    /\ pc[c] = "open" /\ sessMu[t] = None
    /\ sessMu' = [sessMu EXCEPT ![t] = c]
    /\ GoTo(c, "teardown")
    /\ UNCHANGED <<regVars, tunnelVars, session, alive, started, ended,
                   want, client, tunnel, fresh, retried, stream>>

\* openStream: is there a session, and is it up?
OpenStreamLocks(c) ==
    LET t == tunnel[c] IN
    /\ pc[c] = "open" /\ sessMu[t] = None
    /\ sessMu' = [sessMu EXCEPT ![t] = c]
    /\ GoTo(c, IF session[t] \in alive THEN "stream" ELSE "teardown")
    /\ UNCHANGED <<regVars, tunnelVars, session, alive, started, ended,
                   want, client, tunnel, fresh, retried, stream>>

\* teardownLocked: the session is closed and AWS asked to end it; a failure of
\* that request is only logged.
Teardown(t) ==
    /\ alive' = alive \ {session[t]}
    /\ ended' = ended \cup ({session[t]} \ {None})
    /\ session' = [session EXCEPT ![t] = None]

\* Faulty form: forgets the session without asking AWS to end it.
EstablishTearsDownLocally(c) ==
    LET t == tunnel[c] IN
    /\ pc[c] = "teardown"
    /\ alive' = alive \ {session[t]}
    /\ session' = [session EXCEPT ![t] = None]
    /\ GoTo(c, "start")
    /\ UNCHANGED <<regVars, tunnelVars, sessMu, started, ended,
                   want, client, tunnel, fresh, retried, stream>>

\* establishLocked begins with what is left of the last session.
EstablishTearsDown(c) ==
    /\ pc[c] = "teardown"
    /\ Teardown(tunnel[c])
    /\ GoTo(c, "start")
    /\ UNCHANGED <<regVars, tunnelVars, sessMu, started,
                   want, client, tunnel, fresh, retried, stream>>

StartSession(c) ==
    /\ pc[c] = "start"
    /\ \E s \in Unused(started) :
         /\ started' = [started EXCEPT ![s] = tunnel[c]]
         /\ fresh' = [fresh EXCEPT ![c] = s]
    /\ GoTo(c, "channel")
    /\ UNCHANGED <<regVars, tunnelVars, sessMu, session, alive, ended,
                   want, client, tunnel, retried, stream>>

\* The websocket, the data channel and its handshake, the smux client.
ChannelOpens(c) ==
    LET t == tunnel[c] IN
    /\ pc[c] = "channel"
    /\ session' = [session EXCEPT ![t] = fresh[c]]
    /\ alive' = alive \cup {fresh[c]}
    /\ fresh' = [fresh EXCEPT ![c] = None]
    /\ GoTo(c, "stream")
    /\ UNCHANGED <<regVars, tunnelVars, sessMu, started, ended,
                   want, client, tunnel, retried, stream>>

\* Faulty form: openStream returns an error without giving the mutex back.
HandlerEndsHolding(c) ==
    /\ GoTo(c, "done")
    /\ client' = [client EXCEPT ![c] = "gone"]
    /\ stream' = [stream EXCEPT ![c] = None]
    /\ UNCHANGED <<regVars, tunnelVars, sessMu, session, alive, started, want, tunnel, retried>>

\* handleConn is over: stream and local connection are closed, and sessMu is
\* given back if openStream returns just now.
HandlerEnds(c) ==
    /\ GoTo(c, "done")
    /\ client' = [client EXCEPT ![c] = "gone"]
    /\ stream' = [stream EXCEPT ![c] = None]
    /\ sessMu' = [t \in Tunnels |-> IF sessMu[t] = c THEN None ELSE sessMu[t]]
    /\ UNCHANGED <<regVars, tunnelVars, session, alive, started, want, tunnel, retried>>

StartSessionFails(c) ==
    /\ pc[c] = "start"
    /\ HandlerEnds(c)
    /\ UNCHANGED <<fresh, ended>>

\* Whatever of it fails, AWS is asked to end the session.
ChannelFails(c) ==
    /\ pc[c] = "channel"
    /\ ended' = ended \cup {fresh[c]}
    /\ fresh' = [fresh EXCEPT ![c] = None]
    /\ HandlerEnds(c)

OpenStream(c) ==
    LET t == tunnel[c] IN
    /\ pc[c] = "stream" /\ session[t] \in alive
    /\ stream' = [stream EXCEPT ![c] = session[t]]
    /\ sessMu' = [sessMu EXCEPT ![t] = None]
    /\ GoTo(c, "bridge")
    /\ UNCHANGED <<regVars, tunnelVars, session, alive, started, ended,
                   want, client, tunnel, fresh, retried>>

\* The session has died since: one more session is made for this connection.
OpenStreamRetries(c) ==
    /\ pc[c] = "stream" /\ session[tunnel[c]] \notin alive /\ ~retried[c]
    /\ retried' = [retried EXCEPT ![c] = TRUE]
    /\ GoTo(c, "teardown")
    /\ UNCHANGED <<regVars, tunnelVars, sessVars, want, client, tunnel, fresh, stream>>

OpenStreamFails(c) ==
    /\ pc[c] = "stream" /\ session[tunnel[c]] \notin alive /\ retried[c]
    /\ HandlerEnds(c)
    /\ UNCHANGED <<fresh, ended>>

\* Faulty form: waits for the copies only.
BridgeEndsByCopy(c) ==
    /\ pc[c] = "bridge"
    /\ client[c] = "gone" \/ stream[c] \notin alive
    /\ HandlerEnds(c)
    /\ UNCHANGED <<fresh, ended>>

\* A copy has come to its end, at either side, or the tunnel closes.
BridgeEnds(c) ==
    /\ pc[c] = "bridge"
    /\ client[c] = "gone" \/ stream[c] \notin alive \/ tunnel[c] \in closed
    /\ HandlerEnds(c)
    /\ UNCHANGED <<fresh, ended>>

\* The network, the bastion or AWS: smux's keep-alive notices.
SessionDies(s) ==
    /\ s \in alive
    /\ alive' = alive \ {s}
    /\ UNCHANGED <<regVars, tunnelVars, sessMu, session, started, ended, connVars>>

-----------------------------------------------------------------------------
(* Close, of the configuration and of its tunnel. *)

\* Faulty form: the tunnel stays registered.
CloseKeepsEntry(k) ==
    LET t == registry[k] IN
    /\ t # None /\ registryLock = None
    /\ registryLock' = t
    /\ closed' = closed \cup {t}
    /\ closing' = [closing EXCEPT ![t] = "closed"]
    /\ UNCHANGED <<registry, key, listening, sessVars, connVars>>

\* The registry's lock is held until the tunnel is closed.
Close(k) ==
    LET t == registry[k] IN
    /\ t # None /\ registryLock = None
    /\ registryLock' = t
    /\ registry' = [registry EXCEPT ![k] = None]
    /\ closed' = closed \cup {t}
    /\ closing' = [closing EXCEPT ![t] = "closed"]
    /\ UNCHANGED <<key, listening, sessVars, connVars>>

CloseSession(t) ==
    /\ closing[t] = "closed" /\ sessMu[t] = None
    /\ Teardown(t)
    /\ closing' = [closing EXCEPT ![t] = "session"]
    /\ UNCHANGED <<regVars, listening, closed, sessMu, started, connVars>>

\* The connections nobody has accepted yet are reset.
CloseListener(t) ==
    /\ closing[t] = "session"
    /\ listening' = listening \ {t}
    /\ closing' = [closing EXCEPT ![t] = "done"]
    /\ registryLock' = None
    /\ pc' = [c \in Conns |-> IF tunnel[c] = t /\ pc[c] = "backlog" THEN "done" ELSE pc[c]]
    /\ client' = [c \in Conns |-> IF tunnel[c] = t /\ pc[c] = "backlog" THEN "gone" ELSE client[c]]
    /\ UNCHANGED <<registry, key, closed, sessVars, want, tunnel, fresh, retried, stream>>

-----------------------------------------------------------------------------

ClientStep(c) == LockRegistry(c) \/ FindTunnel(c) \/ StartTunnel(c) \/ StartTunnelFails(c) \/ Dial(c)

Answer(c) == StartSession(c) \/ StartSessionFails(c) \/ ChannelOpens(c) \/ ChannelFails(c)

HandlerStep(c) ==
    \/ Accept(c) \/ OpenStreamLocks(c) \/ EstablishTearsDown(c) \/ Answer(c)
    \/ OpenStream(c) \/ OpenStreamRetries(c) \/ OpenStreamFails(c) \/ BridgeEnds(c)

CloseStep(t) == CloseSession(t) \/ CloseListener(t)

Next ==
    \/ \E c \in Conns : ClientStep(c) \/ ClientCloses(c) \/ HandlerStep(c)
    \/ \E t \in Tunnels : CloseStep(t)
    \/ \E k \in Keys : Close(k)
    \/ \E s \in Sessions : SessionDies(s)

Spec == Init /\ [][Next]_vars

\* Goroutines run, Go's mutexes hand over to those that have waited, and AWS
\* answers StartSession: nothing in the code would give up on it.
FairSpec ==
    /\ Spec
    /\ \A c \in Conns :
         /\ SF_vars(LockRegistry(c)) /\ WF_vars(ClientStep(c))
         /\ SF_vars(OpenStreamLocks(c)) /\ WF_vars(HandlerStep(c))
    /\ \A t \in Tunnels : SF_vars(CloseSession(t)) /\ WF_vars(CloseStep(t))

-----------------------------------------------------------------------------
(* Properties. *)

OpenAtAWS(t) == {s \in Sessions : started[s] = t /\ s \notin ended}

\* "multiplexes every connection over a single shared SSM port-forwarding session"
\* (ssm_tunnel.go:70-71): however sessions die, establishing fails and connections
\* come, no tunnel has two sessions open at AWS, not even one it has lost sight of.
SingleSession == \A t \in Tunnels : Cardinality(OpenAtAWS(t)) <= 1

\* "re-established only when it breaks" (ssm_tunnel.go:72): a session that carries
\* other connections' streams is given up by Close, never by a connection.
ReconnectsOnlyWhenBroken ==
    [][\A t \in Tunnels : session[t] \in alive /\ session'[t] # session[t] => t \in closed]_vars

\* The registry names tunnels that listen, and only it does: with a fixed local
\* port the next tunnel of a key can listen, and nobody is sent to a closed one.
RegistryListens ==
    /\ \A k \in Keys : registry[k] # None => registry[k] \in listening \ closed
    /\ \A t \in listening : registry[key[t]] = t \/ registryLock = t

\* A connection to the tunnel is given a stream or closed, also while sessions
\* keep dying and the tunnel closes; a connection of a closed tunnel ends.
ConnectionsAnswered ==
    \A c \in Conns :
        /\ client[c] = "dialled" ~> pc[c] \in {"bridge", "done"}
        /\ (pc[c] = "bridge" /\ tunnel[c] \in closed) ~> pc[c] = "done"

\* Close returns, though it waits for the mutex that handlers hold over AWS calls.
CloseReturns == \A t \in Tunnels : t \in closed ~> closing[t] = "done"

-----------------------------------------------------------------------------
(* Why SingleSession holds. *)

\* Who is establishing or opening a stream holds the mutex of its tunnel, and it
\* tears down dead sessions only.
MutexHeld ==
    \A c \in Conns :
        /\ client[c] \in {"idle", "locked", "dial"} => pc[c] = "none"
        /\ pc[c] # "none" \/ client[c] = "dial" => tunnel[c] # None
        /\ pc[c] \in {"teardown", "start", "channel", "stream"} => sessMu[tunnel[c]] = c
        /\ pc[c] = "teardown" => session[tunnel[c]] \notin alive
        /\ pc[c] \in {"start", "channel"} => session[tunnel[c]] = None
        /\ pc[c] = "channel" => fresh[c] # None /\ started[fresh[c]] = tunnel[c]

\* The sessions open at AWS are known: as the tunnel's, or as the one its holder
\* of the mutex is establishing while the tunnel has none.
SessionsKnown ==
    /\ \A t \in Tunnels : session[t] # None => started[session[t]] = t
    /\ \A s \in Sessions : started[s] = None => s \notin ended /\ s \notin alive
    /\ \A s \in Sessions : started[s] # None /\ s \notin ended =>
         \/ session[started[s]] = s
         \/ \E c \in Conns : pc[c] = "channel" /\ fresh[c] = s

\* The mutex is waited for, and the tunnel torn down, after "closed" is closed.
CloseOrder == \A t \in Tunnels : closing[t] # "no" => t \in closed

IInv == TypeOK /\ MutexHeld /\ SessionsKnown /\ CloseOrder
=============================================================================
