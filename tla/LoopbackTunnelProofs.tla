------------------------ MODULE LoopbackTunnelProofs ------------------------
(* Proofs about LoopbackTunnel, for any number of connections and tunnels. *)
EXTENDS LoopbackTunnel, FiniteSetTheorems, TLAPS

USE LoopbackTunnelAssumption DEF Relaying, regVars, tunnelVars, flowVars, GoTo

\* A tunnel that Unused gives has not been there yet.
LEMMA UnusedFacts == ASSUME NEW t \in Unused PROVE t \in Tunnels /\ key[t] = None
BY DEF Unused

\* TypeOK by parts: the tunnels, the connections, the data on its way.
RegTypes ==
    /\ kind \in Kinds
    /\ registry \in [Keys -> Tunnels \cup {None}]
    /\ registryLock \in Conns \cup {None}
    /\ key \in [Tunnels -> Keys \cup {None}]
    /\ listening \subseteq Tunnels /\ closed \subseteq Tunnels
    /\ bastion \subseteq Tunnels /\ lost \subseteq Tunnels
    /\ want \in [Conns -> Keys]
    /\ tunnel \in [Conns -> Tunnels \cup {None}]
    /\ up \subseteq Conns

ConnTypes ==
    /\ client \in [Conns -> {"idle", "locked", "listen", "dial", "dialled", "gone"}]
    /\ pc \in [Conns -> {"none", "backlog", "upstream", "bridge", "done"} \cup Relaying]
    /\ reader \in [Conns -> {"off", "read", "frames", "ack", "acking"}]
    /\ writeMu \in [Conns -> {"handler", "reader", None}]

Counts ==
    /\ outbox \in [Conns -> Nat] /\ late \in [Conns -> Nat]
    /\ sent \in [Conns -> Nat] /\ delivered \in [Conns -> Nat] /\ acked \in [Conns -> Nat]

Queues ==
    /\ inbox \in [Conns -> Seq(Messages)]
    /\ rest \in [Conns -> Seq({"data", "other", "bad"})]

\* The types, in four parts that different steps disturb.
LEMMA TypeParts == TypeOK <=> RegTypes /\ ConnTypes /\ Counts /\ Queues
BY DEF TypeOK, RegTypes, ConnTypes, Counts, Queues

\* Taking a sequence apart.
LEMMA SeqFacts ==
    ASSUME NEW S, NEW s \in Seq(S), s # <<>>
    PROVE  Head(s) \in S /\ Tail(s) \in Seq(S)
OBVIOUS

\* A message has a number of data frames.
LEMMA DataInType == ASSUME NEW m \in Messages PROVE DataIn(m) \in Nat
<1>1. m \in Seq({"data", "other", "bad"})
    OBVIOUS
<1>2. DOMAIN m = 1 .. Len(m) /\ Len(m) \in Nat
    BY <1>1
<1>3. IsFiniteSet(DOMAIN m)
    BY <1>2, FS_Interval
<1>4. IsFiniteSet({i \in DOMAIN m : m[i] = "data"})
    BY <1>3, FS_Subset
<1> QED BY <1>4, FS_CardinalityType DEF DataIn

\* The tunnels keep their types.
LEMMA RegTypesStep == IInv /\ [Next]_vars => RegTypes'
<1> SUFFICES ASSUME RegTypes, StarterHolds, [Next]_vars PROVE RegTypes'
    BY TypeParts DEF IInv
<1> USE DEF RegTypes, StarterHolds
<1>1. ASSUME NEW c \in Conns, LockRegistry(c) PROVE RegTypes'
    BY <1>1 DEF LockRegistry
<1>2. ASSUME NEW c \in Conns, FindTunnel(c) PROVE RegTypes'
    BY <1>2 DEF FindTunnel, ReturnTunnel
<1>3. ASSUME NEW c \in Conns, DialBastion(c) PROVE RegTypes'
    BY <1>3, UnusedFacts DEF DialBastion
<1>4. ASSUME NEW c \in Conns, DialBastionFails(c) PROVE RegTypes'
    BY <1>4 DEF DialBastionFails, ReturnError
<1>5. ASSUME NEW c \in Conns, ListenSSH(c) PROVE RegTypes'
    BY <1>5 DEF ListenSSH, ReturnTunnel
<1>6. ASSUME NEW c \in Conns, ListenSSHFails(c) PROVE RegTypes'
    BY <1>6 DEF ListenSSHFails, ReturnError
<1>7. ASSUME NEW c \in Conns, StartLoopback(c) PROVE RegTypes'
    BY <1>7, UnusedFacts DEF StartLoopback, ReturnTunnel
<1>8. ASSUME NEW c \in Conns, StartAzureFails(c) PROVE RegTypes'
    BY <1>8 DEF StartAzureFails, ReturnError
<1>9. ASSUME NEW c \in Conns, StartGCPFails(c) PROVE RegTypes'
    BY <1>9 DEF StartGCPFails, ReturnError
<1>10. ASSUME NEW c \in Conns, Dial(c) PROVE RegTypes'
    BY <1>10 DEF Dial
<1>11. ASSUME NEW c \in Conns, ClientSends(c) PROVE RegTypes'
    BY <1>11 DEF ClientSends
<1>12. ASSUME NEW c \in Conns, ClientCloses(c) PROVE RegTypes'
    BY <1>12 DEF ClientCloses
<1>13. ASSUME NEW c \in Conns, Accept(c) PROVE RegTypes'
    BY <1>13 DEF Accept
<1>14. ASSUME NEW c \in Conns, DialRemote(c) PROVE RegTypes'
    BY <1>14 DEF DialRemote
<1>15. ASSUME NEW c \in Conns, DialRemoteFails(c) PROVE RegTypes'
    BY <1>15 DEF DialRemoteFails, HandlerEnds
<1>16. ASSUME NEW c \in Conns, BridgeEnds(c) PROVE RegTypes'
    BY <1>16 DEF BridgeEnds, HandlerEnds
<1>17. ASSUME NEW c \in Conns, OpenWebsocket(c) PROVE RegTypes'
    BY <1>17 DEF OpenWebsocket
<1>18. ASSUME NEW c \in Conns, OpenAzureFails(c) PROVE RegTypes'
    BY <1>18 DEF OpenAzureFails, HandlerEnds
<1>19. ASSUME NEW c \in Conns, OpenGCPFails(c) PROVE RegTypes'
    BY <1>19 DEF OpenGCPFails, HandlerEnds
<1>20. ASSUME NEW c \in Conns, CheckClosed(c) PROVE RegTypes'
    BY <1>20 DEF CheckClosed, HandlerEnds
<1>21. ASSUME NEW c \in Conns, ReadLocal(c) PROVE RegTypes'
    BY <1>21 DEF ReadLocal
<1>22. ASSUME NEW c \in Conns, LocalEnds(c) PROVE RegTypes'
    BY <1>22 DEF LocalEnds, HandlerEnds
<1>23. ASSUME NEW c \in Conns, LockWrite(c) PROVE RegTypes'
    BY <1>23 DEF LockWrite
<1>24. ASSUME NEW c \in Conns, WriteData(c) PROVE RegTypes'
    BY <1>24 DEF WriteData, HandlerEnds
<1>25. ASSUME NEW c \in Conns, ReadFails(c) PROVE RegTypes'
    BY <1>25 DEF ReadFails, readerUnchanged, GoOn
<1>26. ASSUME NEW c \in Conns, ReadAzure(c) PROVE RegTypes'
    BY <1>26 DEF ReadAzure, Deliver, readerUnchanged, GoOn
<1>27. ASSUME NEW c \in Conns, ReadGCP(c) PROVE RegTypes'
    BY <1>27 DEF ReadGCP, NextLabel, readerUnchanged, GoOn
<1>28. ASSUME NEW c \in Conns, NextFrame(c) PROVE RegTypes'
    BY <1>28 DEF NextFrame, Deliver, readerUnchanged, GoOn, NextLabel
<1>29. ASSUME NEW c \in Conns, LockAck(c) PROVE RegTypes'
    BY <1>29 DEF LockAck, readerUnchanged, GoOn
<1>30. ASSUME NEW c \in Conns, WriteAck(c) PROVE RegTypes'
    BY <1>30 DEF WriteAck, NextLabel, readerUnchanged, GoOn
<1>31. ASSUME NEW c \in Conns, RelaySends(c) PROVE RegTypes'
    BY <1>31 DEF RelaySends
<1>32. ASSUME NEW c \in Conns, UpstreamLost(c) PROVE RegTypes'
    BY <1>32 DEF UpstreamLost
<1>33. ASSUME NEW t \in Tunnels, BastionLost(t) PROVE RegTypes'
    BY <1>33 DEF BastionLost
<1>34. ASSUME NEW k \in Keys, CloseSSH(k) PROVE RegTypes'
    BY <1>34 DEF CloseSSH, CloseTunnel
<1>35. ASSUME NEW k \in Keys, CloseLoopback(k) PROVE RegTypes'
    BY <1>35 DEF CloseLoopback, CloseTunnel
<1>36. CASE UNCHANGED vars
    BY <1>36 DEF vars
<1> QED
    BY <1>1, <1>2, <1>3, <1>4, <1>5, <1>6, <1>7, <1>8, <1>9, <1>10, <1>11, <1>12, <1>13, <1>14, <1>15, <1>16, <1>17, <1>18,
       <1>19, <1>20, <1>21, <1>22, <1>23, <1>24, <1>25, <1>26, <1>27, <1>28, <1>29, <1>30, <1>31, <1>32, <1>33, <1>34, <1>35, <1>36
    DEF Next, ClientStep, HandlerStep, ReaderStep

\* The connections keep their types.
LEMMA ConnTypesStep == IInv /\ [Next]_vars => ConnTypes'
<1> SUFFICES ASSUME ConnTypes, [Next]_vars PROVE ConnTypes'
    BY TypeParts DEF IInv
<1> USE DEF ConnTypes
<1>1. ASSUME NEW c \in Conns, LockRegistry(c) PROVE ConnTypes'
    BY <1>1 DEF LockRegistry
<1>2. ASSUME NEW c \in Conns, FindTunnel(c) PROVE ConnTypes'
    BY <1>2 DEF FindTunnel, ReturnTunnel
<1>3. ASSUME NEW c \in Conns, DialBastion(c) PROVE ConnTypes'
    BY <1>3, UnusedFacts DEF DialBastion
<1>4. ASSUME NEW c \in Conns, DialBastionFails(c) PROVE ConnTypes'
    BY <1>4 DEF DialBastionFails, ReturnError
<1>5. ASSUME NEW c \in Conns, ListenSSH(c) PROVE ConnTypes'
    BY <1>5 DEF ListenSSH, ReturnTunnel
<1>6. ASSUME NEW c \in Conns, ListenSSHFails(c) PROVE ConnTypes'
    BY <1>6 DEF ListenSSHFails, ReturnError
<1>7. ASSUME NEW c \in Conns, StartLoopback(c) PROVE ConnTypes'
    BY <1>7, UnusedFacts DEF StartLoopback, ReturnTunnel
<1>8. ASSUME NEW c \in Conns, StartAzureFails(c) PROVE ConnTypes'
    BY <1>8 DEF StartAzureFails, ReturnError
<1>9. ASSUME NEW c \in Conns, StartGCPFails(c) PROVE ConnTypes'
    BY <1>9 DEF StartGCPFails, ReturnError
<1>10. ASSUME NEW c \in Conns, Dial(c) PROVE ConnTypes'
    BY <1>10 DEF Dial
<1>11. ASSUME NEW c \in Conns, ClientSends(c) PROVE ConnTypes'
    BY <1>11 DEF ClientSends
<1>12. ASSUME NEW c \in Conns, ClientCloses(c) PROVE ConnTypes'
    BY <1>12 DEF ClientCloses
<1>13. ASSUME NEW c \in Conns, Accept(c) PROVE ConnTypes'
    BY <1>13 DEF Accept
<1>14. ASSUME NEW c \in Conns, DialRemote(c) PROVE ConnTypes'
    BY <1>14 DEF DialRemote
<1>15. ASSUME NEW c \in Conns, DialRemoteFails(c) PROVE ConnTypes'
    BY <1>15 DEF DialRemoteFails, HandlerEnds
<1>16. ASSUME NEW c \in Conns, BridgeEnds(c) PROVE ConnTypes'
    BY <1>16 DEF BridgeEnds, HandlerEnds
<1>17. ASSUME NEW c \in Conns, OpenWebsocket(c) PROVE ConnTypes'
    BY <1>17 DEF OpenWebsocket
<1>18. ASSUME NEW c \in Conns, OpenAzureFails(c) PROVE ConnTypes'
    BY <1>18 DEF OpenAzureFails, HandlerEnds
<1>19. ASSUME NEW c \in Conns, OpenGCPFails(c) PROVE ConnTypes'
    BY <1>19 DEF OpenGCPFails, HandlerEnds
<1>20. ASSUME NEW c \in Conns, CheckClosed(c) PROVE ConnTypes'
    BY <1>20 DEF CheckClosed, HandlerEnds
<1>21. ASSUME NEW c \in Conns, ReadLocal(c) PROVE ConnTypes'
    BY <1>21 DEF ReadLocal
<1>22. ASSUME NEW c \in Conns, LocalEnds(c) PROVE ConnTypes'
    BY <1>22 DEF LocalEnds, HandlerEnds
<1>23. ASSUME NEW c \in Conns, LockWrite(c) PROVE ConnTypes'
    BY <1>23 DEF LockWrite
<1>24. ASSUME NEW c \in Conns, WriteData(c) PROVE ConnTypes'
    BY <1>24 DEF WriteData, HandlerEnds
<1>25. ASSUME NEW c \in Conns, ReadFails(c) PROVE ConnTypes'
    BY <1>25 DEF ReadFails, readerUnchanged, GoOn
<1>26. ASSUME NEW c \in Conns, ReadAzure(c) PROVE ConnTypes'
    BY <1>26 DEF ReadAzure, Deliver, readerUnchanged, GoOn
<1>27. ASSUME NEW c \in Conns, ReadGCP(c) PROVE ConnTypes'
    BY <1>27 DEF ReadGCP, NextLabel, readerUnchanged, GoOn
<1>28. ASSUME NEW c \in Conns, NextFrame(c) PROVE ConnTypes'
    BY <1>28 DEF NextFrame, Deliver, readerUnchanged, GoOn, NextLabel
<1>29. ASSUME NEW c \in Conns, LockAck(c) PROVE ConnTypes'
    BY <1>29 DEF LockAck, readerUnchanged, GoOn
<1>30. ASSUME NEW c \in Conns, WriteAck(c) PROVE ConnTypes'
    BY <1>30 DEF WriteAck, NextLabel, readerUnchanged, GoOn
<1>31. ASSUME NEW c \in Conns, RelaySends(c) PROVE ConnTypes'
    BY <1>31 DEF RelaySends
<1>32. ASSUME NEW c \in Conns, UpstreamLost(c) PROVE ConnTypes'
    BY <1>32 DEF UpstreamLost
<1>33. ASSUME NEW t \in Tunnels, BastionLost(t) PROVE ConnTypes'
    BY <1>33 DEF BastionLost
<1>34. ASSUME NEW k \in Keys, CloseSSH(k) PROVE ConnTypes'
    BY <1>34 DEF CloseSSH, CloseTunnel
<1>35. ASSUME NEW k \in Keys, CloseLoopback(k) PROVE ConnTypes'
    BY <1>35 DEF CloseLoopback, CloseTunnel
<1>36. CASE UNCHANGED vars
    BY <1>36 DEF vars
<1> QED
    BY <1>1, <1>2, <1>3, <1>4, <1>5, <1>6, <1>7, <1>8, <1>9, <1>10, <1>11, <1>12, <1>13, <1>14, <1>15, <1>16, <1>17, <1>18,
       <1>19, <1>20, <1>21, <1>22, <1>23, <1>24, <1>25, <1>26, <1>27, <1>28, <1>29, <1>30, <1>31, <1>32, <1>33, <1>34, <1>35, <1>36
    DEF Next, ClientStep, HandlerStep, ReaderStep

\* Counts stay natural numbers.
LEMMA CountsStep == IInv /\ [Next]_vars => Counts'
<1> SUFFICES ASSUME Counts, [Next]_vars PROVE Counts'
    BY TypeParts DEF IInv
<1> USE DEF Counts
<1>1. ASSUME NEW c \in Conns, LockRegistry(c) PROVE Counts'
    BY <1>1 DEF LockRegistry
<1>2. ASSUME NEW c \in Conns, FindTunnel(c) PROVE Counts'
    BY <1>2 DEF FindTunnel, ReturnTunnel
<1>3. ASSUME NEW c \in Conns, DialBastion(c) PROVE Counts'
    BY <1>3, UnusedFacts DEF DialBastion
<1>4. ASSUME NEW c \in Conns, DialBastionFails(c) PROVE Counts'
    BY <1>4 DEF DialBastionFails, ReturnError
<1>5. ASSUME NEW c \in Conns, ListenSSH(c) PROVE Counts'
    BY <1>5 DEF ListenSSH, ReturnTunnel
<1>6. ASSUME NEW c \in Conns, ListenSSHFails(c) PROVE Counts'
    BY <1>6 DEF ListenSSHFails, ReturnError
<1>7. ASSUME NEW c \in Conns, StartLoopback(c) PROVE Counts'
    BY <1>7, UnusedFacts DEF StartLoopback, ReturnTunnel
<1>8. ASSUME NEW c \in Conns, StartAzureFails(c) PROVE Counts'
    BY <1>8 DEF StartAzureFails, ReturnError
<1>9. ASSUME NEW c \in Conns, StartGCPFails(c) PROVE Counts'
    BY <1>9 DEF StartGCPFails, ReturnError
<1>10. ASSUME NEW c \in Conns, Dial(c) PROVE Counts'
    BY <1>10 DEF Dial
<1>11. ASSUME NEW c \in Conns, ClientSends(c) PROVE Counts'
    BY <1>11 DEF ClientSends
<1>12. ASSUME NEW c \in Conns, ClientCloses(c) PROVE Counts'
    BY <1>12 DEF ClientCloses
<1>13. ASSUME NEW c \in Conns, Accept(c) PROVE Counts'
    BY <1>13 DEF Accept
<1>14. ASSUME NEW c \in Conns, DialRemote(c) PROVE Counts'
    BY <1>14 DEF DialRemote
<1>15. ASSUME NEW c \in Conns, DialRemoteFails(c) PROVE Counts'
    BY <1>15 DEF DialRemoteFails, HandlerEnds
<1>16. ASSUME NEW c \in Conns, BridgeEnds(c) PROVE Counts'
    BY <1>16 DEF BridgeEnds, HandlerEnds
<1>17. ASSUME NEW c \in Conns, OpenWebsocket(c) PROVE Counts'
    BY <1>17 DEF OpenWebsocket
<1>18. ASSUME NEW c \in Conns, OpenAzureFails(c) PROVE Counts'
    BY <1>18 DEF OpenAzureFails, HandlerEnds
<1>19. ASSUME NEW c \in Conns, OpenGCPFails(c) PROVE Counts'
    BY <1>19 DEF OpenGCPFails, HandlerEnds
<1>20. ASSUME NEW c \in Conns, CheckClosed(c) PROVE Counts'
  <2>1. UNCHANGED <<late, sent, delivered, acked>>
      BY <1>20 DEF CheckClosed
  <2>2. outbox' = [outbox EXCEPT ![c] = 0] \/ outbox' = outbox
      BY <1>20 DEF CheckClosed, HandlerEnds
  <2>3. outbox' \in [Conns -> Nat]
    <3>1. CASE outbox' = [outbox EXCEPT ![c] = 0]
        BY <3>1
    <3>2. CASE outbox' = outbox
        BY <3>2
    <3> QED BY <2>2, <3>1, <3>2
  <2> QED BY <2>1, <2>3
<1>21. ASSUME NEW c \in Conns, ReadLocal(c) PROVE Counts'
  <2>1. outbox' \in [Conns -> Nat]
      BY <1>21 DEF ReadLocal
  <2>2. late' = [late EXCEPT ![c] = late[c] + 1] \/ late' = late
      BY <1>21 DEF ReadLocal
  <2>3. late' \in [Conns -> Nat]
    <3>1. CASE late' = [late EXCEPT ![c] = late[c] + 1]
        BY <3>1
    <3>2. CASE late' = late
        BY <3>2
    <3> QED BY <2>2, <3>1, <3>2
  <2>4. UNCHANGED <<sent, delivered, acked>>
      BY <1>21 DEF ReadLocal
  <2> QED BY <2>1, <2>3, <2>4
<1>22. ASSUME NEW c \in Conns, LocalEnds(c) PROVE Counts'
    BY <1>22 DEF LocalEnds, HandlerEnds
<1>23. ASSUME NEW c \in Conns, LockWrite(c) PROVE Counts'
    BY <1>23 DEF LockWrite
<1>24. ASSUME NEW c \in Conns, WriteData(c) PROVE Counts'
  <2>1. UNCHANGED <<late, sent, delivered, acked>>
      BY <1>24 DEF WriteData
  <2>2. outbox' = [outbox EXCEPT ![c] = 0] \/ outbox' = outbox
      BY <1>24 DEF WriteData, HandlerEnds
  <2>3. outbox' \in [Conns -> Nat]
    <3>1. CASE outbox' = [outbox EXCEPT ![c] = 0]
        BY <3>1
    <3>2. CASE outbox' = outbox
        BY <3>2
    <3> QED BY <2>2, <3>1, <3>2
  <2> QED BY <2>1, <2>3
<1>25. ASSUME NEW c \in Conns, ReadFails(c) PROVE Counts'
    BY <1>25 DEF ReadFails, readerUnchanged, GoOn
<1>26. ASSUME NEW c \in Conns, ReadAzure(c) PROVE Counts'
  <2>1. UNCHANGED <<outbox, late, sent, acked>>
      BY <1>26 DEF ReadAzure, readerUnchanged
  <2>2. delivered' = [delivered EXCEPT ![c] = delivered[c] + 1] \/ delivered' = delivered
      BY <1>26 DEF ReadAzure, Deliver
  <2>3. delivered' \in [Conns -> Nat]
    <3>1. CASE delivered' = [delivered EXCEPT ![c] = delivered[c] + 1]
        BY <3>1
    <3>2. CASE delivered' = delivered
        BY <3>2
    <3> QED BY <2>2, <3>1, <3>2
  <2> QED BY <2>1, <2>3
<1>27. ASSUME NEW c \in Conns, ReadGCP(c) PROVE Counts'
  <2>1. UNCHANGED <<outbox, late, sent, delivered, acked>>
      BY <1>27 DEF ReadGCP, readerUnchanged
  <2> QED BY <2>1
<1>28. ASSUME NEW c \in Conns, NextFrame(c) PROVE Counts'
  <2>1. UNCHANGED <<outbox, late, sent, acked>>
      BY <1>28 DEF NextFrame, readerUnchanged
  <2>2. delivered' = [delivered EXCEPT ![c] = delivered[c] + 1] \/ delivered' = delivered
      BY <1>28 DEF NextFrame, Deliver
  <2>3. delivered' \in [Conns -> Nat]
    <3>1. CASE delivered' = [delivered EXCEPT ![c] = delivered[c] + 1]
        BY <3>1
    <3>2. CASE delivered' = delivered
        BY <3>2
    <3> QED BY <2>2, <3>1, <3>2
  <2> QED BY <2>1, <2>3
<1>29. ASSUME NEW c \in Conns, LockAck(c) PROVE Counts'
    BY <1>29 DEF LockAck, readerUnchanged, GoOn
<1>30. ASSUME NEW c \in Conns, WriteAck(c) PROVE Counts'
    BY <1>30 DEF WriteAck, NextLabel, readerUnchanged, GoOn
<1>31. ASSUME NEW c \in Conns, RelaySends(c) PROVE Counts'
  <2>1. PICK m \in Messages : sent' = [sent EXCEPT ![c] = sent[c] + DataIn(m)]
      BY <1>31 DEF RelaySends
  <2>2. DataIn(m) \in Nat
      BY DataInType
  <2> QED BY <1>31, <2>1, <2>2 DEF RelaySends
<1>32. ASSUME NEW c \in Conns, UpstreamLost(c) PROVE Counts'
    BY <1>32 DEF UpstreamLost
<1>33. ASSUME NEW t \in Tunnels, BastionLost(t) PROVE Counts'
    BY <1>33 DEF BastionLost
<1>34. ASSUME NEW k \in Keys, CloseSSH(k) PROVE Counts'
    BY <1>34 DEF CloseSSH, CloseTunnel
<1>35. ASSUME NEW k \in Keys, CloseLoopback(k) PROVE Counts'
    BY <1>35 DEF CloseLoopback, CloseTunnel
<1>36. CASE UNCHANGED vars
    BY <1>36 DEF vars
<1> QED
    BY <1>1, <1>2, <1>3, <1>4, <1>5, <1>6, <1>7, <1>8, <1>9, <1>10, <1>11, <1>12, <1>13, <1>14, <1>15, <1>16, <1>17, <1>18,
       <1>19, <1>20, <1>21, <1>22, <1>23, <1>24, <1>25, <1>26, <1>27, <1>28, <1>29, <1>30, <1>31, <1>32, <1>33, <1>34, <1>35, <1>36
    DEF Next, ClientStep, HandlerStep, ReaderStep

\* Queues hold messages and frames.
LEMMA QueuesStep == IInv /\ [Next]_vars => Queues'
<1> SUFFICES ASSUME Queues, [Next]_vars PROVE Queues'
    BY TypeParts DEF IInv
<1> USE DEF Queues
<1>1. ASSUME NEW c \in Conns, LockRegistry(c) PROVE Queues'
    BY <1>1 DEF LockRegistry
<1>2. ASSUME NEW c \in Conns, FindTunnel(c) PROVE Queues'
    BY <1>2 DEF FindTunnel, ReturnTunnel
<1>3. ASSUME NEW c \in Conns, DialBastion(c) PROVE Queues'
    BY <1>3, UnusedFacts DEF DialBastion
<1>4. ASSUME NEW c \in Conns, DialBastionFails(c) PROVE Queues'
    BY <1>4 DEF DialBastionFails, ReturnError
<1>5. ASSUME NEW c \in Conns, ListenSSH(c) PROVE Queues'
    BY <1>5 DEF ListenSSH, ReturnTunnel
<1>6. ASSUME NEW c \in Conns, ListenSSHFails(c) PROVE Queues'
    BY <1>6 DEF ListenSSHFails, ReturnError
<1>7. ASSUME NEW c \in Conns, StartLoopback(c) PROVE Queues'
    BY <1>7, UnusedFacts DEF StartLoopback, ReturnTunnel
<1>8. ASSUME NEW c \in Conns, StartAzureFails(c) PROVE Queues'
    BY <1>8 DEF StartAzureFails, ReturnError
<1>9. ASSUME NEW c \in Conns, StartGCPFails(c) PROVE Queues'
    BY <1>9 DEF StartGCPFails, ReturnError
<1>10. ASSUME NEW c \in Conns, Dial(c) PROVE Queues'
    BY <1>10 DEF Dial
<1>11. ASSUME NEW c \in Conns, ClientSends(c) PROVE Queues'
    BY <1>11 DEF ClientSends
<1>12. ASSUME NEW c \in Conns, ClientCloses(c) PROVE Queues'
    BY <1>12 DEF ClientCloses
<1>13. ASSUME NEW c \in Conns, Accept(c) PROVE Queues'
    BY <1>13 DEF Accept
<1>14. ASSUME NEW c \in Conns, DialRemote(c) PROVE Queues'
    BY <1>14 DEF DialRemote
<1>15. ASSUME NEW c \in Conns, DialRemoteFails(c) PROVE Queues'
    BY <1>15 DEF DialRemoteFails, HandlerEnds
<1>16. ASSUME NEW c \in Conns, BridgeEnds(c) PROVE Queues'
    BY <1>16 DEF BridgeEnds, HandlerEnds
<1>17. ASSUME NEW c \in Conns, OpenWebsocket(c) PROVE Queues'
    BY <1>17 DEF OpenWebsocket
<1>18. ASSUME NEW c \in Conns, OpenAzureFails(c) PROVE Queues'
    BY <1>18 DEF OpenAzureFails, HandlerEnds
<1>19. ASSUME NEW c \in Conns, OpenGCPFails(c) PROVE Queues'
    BY <1>19 DEF OpenGCPFails, HandlerEnds
<1>20. ASSUME NEW c \in Conns, CheckClosed(c) PROVE Queues'
    BY <1>20 DEF CheckClosed, HandlerEnds
<1>21. ASSUME NEW c \in Conns, ReadLocal(c) PROVE Queues'
    BY <1>21 DEF ReadLocal
<1>22. ASSUME NEW c \in Conns, LocalEnds(c) PROVE Queues'
    BY <1>22 DEF LocalEnds, HandlerEnds
<1>23. ASSUME NEW c \in Conns, LockWrite(c) PROVE Queues'
    BY <1>23 DEF LockWrite
<1>24. ASSUME NEW c \in Conns, WriteData(c) PROVE Queues'
    BY <1>24 DEF WriteData, HandlerEnds
<1>25. ASSUME NEW c \in Conns, ReadFails(c) PROVE Queues'
    BY <1>25 DEF ReadFails, readerUnchanged, GoOn
<1>26. ASSUME NEW c \in Conns, ReadAzure(c) PROVE Queues'
  <2>1. Tail(inbox[c]) \in Seq(Messages)
      BY <1>26, SeqFacts DEF ReadAzure
  <2> QED BY <1>26, <2>1 DEF ReadAzure, Deliver, readerUnchanged, GoOn
<1>27. ASSUME NEW c \in Conns, ReadGCP(c) PROVE Queues'
  <2>1. Head(inbox[c]) \in Messages /\ Tail(inbox[c]) \in Seq(Messages)
      BY <1>27, SeqFacts DEF ReadGCP
  <2> QED BY <1>27, <2>1 DEF ReadGCP, NextLabel, readerUnchanged, GoOn
<1>28. ASSUME NEW c \in Conns, NextFrame(c) PROVE Queues'
  <2>1. Tail(rest[c]) \in Seq({"data", "other", "bad"})
      BY <1>28, SeqFacts DEF NextFrame
  <2> QED BY <1>28, <2>1 DEF NextFrame
<1>29. ASSUME NEW c \in Conns, LockAck(c) PROVE Queues'
    BY <1>29 DEF LockAck, readerUnchanged, GoOn
<1>30. ASSUME NEW c \in Conns, WriteAck(c) PROVE Queues'
    BY <1>30 DEF WriteAck, NextLabel, readerUnchanged, GoOn
<1>31. ASSUME NEW c \in Conns, RelaySends(c) PROVE Queues'
  <2>1. PICK m \in Messages : inbox' = [inbox EXCEPT ![c] = Append(inbox[c], m)]
      BY <1>31 DEF RelaySends
  <2>2. Append(inbox[c], m) \in Seq(Messages)
      OBVIOUS
  <2> QED BY <1>31, <2>1, <2>2 DEF RelaySends
<1>32. ASSUME NEW c \in Conns, UpstreamLost(c) PROVE Queues'
    BY <1>32 DEF UpstreamLost
<1>33. ASSUME NEW t \in Tunnels, BastionLost(t) PROVE Queues'
    BY <1>33 DEF BastionLost
<1>34. ASSUME NEW k \in Keys, CloseSSH(k) PROVE Queues'
    BY <1>34 DEF CloseSSH, CloseTunnel
<1>35. ASSUME NEW k \in Keys, CloseLoopback(k) PROVE Queues'
    BY <1>35 DEF CloseLoopback, CloseTunnel
<1>36. CASE UNCHANGED vars
    BY <1>36 DEF vars
<1> QED
    BY <1>1, <1>2, <1>3, <1>4, <1>5, <1>6, <1>7, <1>8, <1>9, <1>10, <1>11, <1>12, <1>13, <1>14, <1>15, <1>16, <1>17, <1>18,
       <1>19, <1>20, <1>21, <1>22, <1>23, <1>24, <1>25, <1>26, <1>27, <1>28, <1>29, <1>30, <1>31, <1>32, <1>33, <1>34, <1>35, <1>36
    DEF Next, ClientStep, HandlerStep, ReaderStep

\* The websocket's mutex is held over writes.
LEMMA WriterHoldsStep == IInv /\ [Next]_vars => WriterHolds'
<1> SUFFICES ASSUME ConnTypes, WriterHolds, [Next]_vars PROVE WriterHolds'
    BY TypeParts DEF IInv
<1> USE DEF ConnTypes, WriterHolds
<1>1. ASSUME NEW c \in Conns, LockRegistry(c) PROVE WriterHolds'
    BY <1>1 DEF LockRegistry
<1>2. ASSUME NEW c \in Conns, FindTunnel(c) PROVE WriterHolds'
    BY <1>2 DEF FindTunnel, ReturnTunnel
<1>3. ASSUME NEW c \in Conns, DialBastion(c) PROVE WriterHolds'
    BY <1>3, UnusedFacts DEF DialBastion
<1>4. ASSUME NEW c \in Conns, DialBastionFails(c) PROVE WriterHolds'
    BY <1>4 DEF DialBastionFails, ReturnError
<1>5. ASSUME NEW c \in Conns, ListenSSH(c) PROVE WriterHolds'
    BY <1>5 DEF ListenSSH, ReturnTunnel
<1>6. ASSUME NEW c \in Conns, ListenSSHFails(c) PROVE WriterHolds'
    BY <1>6 DEF ListenSSHFails, ReturnError
<1>7. ASSUME NEW c \in Conns, StartLoopback(c) PROVE WriterHolds'
    BY <1>7, UnusedFacts DEF StartLoopback, ReturnTunnel
<1>8. ASSUME NEW c \in Conns, StartAzureFails(c) PROVE WriterHolds'
    BY <1>8 DEF StartAzureFails, ReturnError
<1>9. ASSUME NEW c \in Conns, StartGCPFails(c) PROVE WriterHolds'
    BY <1>9 DEF StartGCPFails, ReturnError
<1>10. ASSUME NEW c \in Conns, Dial(c) PROVE WriterHolds'
    BY <1>10 DEF Dial
<1>11. ASSUME NEW c \in Conns, ClientSends(c) PROVE WriterHolds'
    BY <1>11 DEF ClientSends
<1>12. ASSUME NEW c \in Conns, ClientCloses(c) PROVE WriterHolds'
    BY <1>12 DEF ClientCloses
<1>13. ASSUME NEW c \in Conns, Accept(c) PROVE WriterHolds'
    BY <1>13 DEF Accept
<1>14. ASSUME NEW c \in Conns, DialRemote(c) PROVE WriterHolds'
    BY <1>14 DEF DialRemote
<1>15. ASSUME NEW c \in Conns, DialRemoteFails(c) PROVE WriterHolds'
    BY <1>15 DEF DialRemoteFails, HandlerEnds
<1>16. ASSUME NEW c \in Conns, BridgeEnds(c) PROVE WriterHolds'
    BY <1>16 DEF BridgeEnds, HandlerEnds
<1>17. ASSUME NEW c \in Conns, OpenWebsocket(c) PROVE WriterHolds'
    BY <1>17 DEF OpenWebsocket
<1>18. ASSUME NEW c \in Conns, OpenAzureFails(c) PROVE WriterHolds'
    BY <1>18 DEF OpenAzureFails, HandlerEnds
<1>19. ASSUME NEW c \in Conns, OpenGCPFails(c) PROVE WriterHolds'
    BY <1>19 DEF OpenGCPFails, HandlerEnds
<1>20. ASSUME NEW c \in Conns, CheckClosed(c) PROVE WriterHolds'
    BY <1>20 DEF CheckClosed, HandlerEnds
<1>21. ASSUME NEW c \in Conns, ReadLocal(c) PROVE WriterHolds'
    BY <1>21 DEF ReadLocal
<1>22. ASSUME NEW c \in Conns, LocalEnds(c) PROVE WriterHolds'
    BY <1>22 DEF LocalEnds, HandlerEnds
<1>23. ASSUME NEW c \in Conns, LockWrite(c) PROVE WriterHolds'
    BY <1>23 DEF LockWrite
<1>24. ASSUME NEW c \in Conns, WriteData(c) PROVE WriterHolds'
    BY <1>24 DEF WriteData, HandlerEnds
<1>25. ASSUME NEW c \in Conns, ReadFails(c) PROVE WriterHolds'
    BY <1>25 DEF ReadFails, readerUnchanged, GoOn
<1>26. ASSUME NEW c \in Conns, ReadAzure(c) PROVE WriterHolds'
    BY <1>26 DEF ReadAzure, Deliver, readerUnchanged, GoOn
<1>27. ASSUME NEW c \in Conns, ReadGCP(c) PROVE WriterHolds'
    BY <1>27 DEF ReadGCP, NextLabel, readerUnchanged, GoOn
<1>28. ASSUME NEW c \in Conns, NextFrame(c) PROVE WriterHolds'
    BY <1>28 DEF NextFrame, Deliver, readerUnchanged, GoOn, NextLabel
<1>29. ASSUME NEW c \in Conns, LockAck(c) PROVE WriterHolds'
    BY <1>29 DEF LockAck, readerUnchanged, GoOn
<1>30. ASSUME NEW c \in Conns, WriteAck(c) PROVE WriterHolds'
    BY <1>30 DEF WriteAck, NextLabel, readerUnchanged, GoOn
<1>31. ASSUME NEW c \in Conns, RelaySends(c) PROVE WriterHolds'
    BY <1>31 DEF RelaySends
<1>32. ASSUME NEW c \in Conns, UpstreamLost(c) PROVE WriterHolds'
    BY <1>32 DEF UpstreamLost
<1>33. ASSUME NEW t \in Tunnels, BastionLost(t) PROVE WriterHolds'
    BY <1>33 DEF BastionLost
<1>34. ASSUME NEW k \in Keys, CloseSSH(k) PROVE WriterHolds'
    BY <1>34 DEF CloseSSH, CloseTunnel
<1>35. ASSUME NEW k \in Keys, CloseLoopback(k) PROVE WriterHolds'
    BY <1>35 DEF CloseLoopback, CloseTunnel
<1>36. CASE UNCHANGED vars
    BY <1>36 DEF vars
<1> QED
    BY <1>1, <1>2, <1>3, <1>4, <1>5, <1>6, <1>7, <1>8, <1>9, <1>10, <1>11, <1>12, <1>13, <1>14, <1>15, <1>16, <1>17, <1>18,
       <1>19, <1>20, <1>21, <1>22, <1>23, <1>24, <1>25, <1>26, <1>27, <1>28, <1>29, <1>30, <1>31, <1>32, <1>33, <1>34, <1>35, <1>36
    DEF Next, ClientStep, HandlerStep, ReaderStep

\* The registry's lock is held over the start of a tunnel.
LEMMA StarterHoldsStep == IInv /\ [Next]_vars => StarterHolds'
<1> SUFFICES ASSUME RegTypes, ConnTypes, StarterHolds, RegistryOwns, [Next]_vars PROVE StarterHolds'
    BY TypeParts DEF IInv
<1> USE DEF RegTypes, ConnTypes, StarterHolds, RegistryOwns
<1>1. ASSUME NEW c \in Conns, LockRegistry(c) PROVE StarterHolds'
    BY <1>1 DEF LockRegistry
<1>2. ASSUME NEW c \in Conns, FindTunnel(c) PROVE StarterHolds'
    BY <1>2 DEF FindTunnel, ReturnTunnel
<1>3. ASSUME NEW c \in Conns, DialBastion(c) PROVE StarterHolds'
    BY <1>3, UnusedFacts DEF DialBastion
<1>4. ASSUME NEW c \in Conns, DialBastionFails(c) PROVE StarterHolds'
    BY <1>4 DEF DialBastionFails, ReturnError
<1>5. ASSUME NEW c \in Conns, ListenSSH(c) PROVE StarterHolds'
    BY <1>5 DEF ListenSSH, ReturnTunnel
<1>6. ASSUME NEW c \in Conns, ListenSSHFails(c) PROVE StarterHolds'
    BY <1>6 DEF ListenSSHFails, ReturnError
<1>7. ASSUME NEW c \in Conns, StartLoopback(c) PROVE StarterHolds'
    BY <1>7, UnusedFacts DEF StartLoopback, ReturnTunnel
<1>8. ASSUME NEW c \in Conns, StartAzureFails(c) PROVE StarterHolds'
    BY <1>8 DEF StartAzureFails, ReturnError
<1>9. ASSUME NEW c \in Conns, StartGCPFails(c) PROVE StarterHolds'
    BY <1>9 DEF StartGCPFails, ReturnError
<1>10. ASSUME NEW c \in Conns, Dial(c) PROVE StarterHolds'
    BY <1>10 DEF Dial
<1>11. ASSUME NEW c \in Conns, ClientSends(c) PROVE StarterHolds'
    BY <1>11 DEF ClientSends
<1>12. ASSUME NEW c \in Conns, ClientCloses(c) PROVE StarterHolds'
    BY <1>12 DEF ClientCloses
<1>13. ASSUME NEW c \in Conns, Accept(c) PROVE StarterHolds'
    BY <1>13 DEF Accept
<1>14. ASSUME NEW c \in Conns, DialRemote(c) PROVE StarterHolds'
    BY <1>14 DEF DialRemote
<1>15. ASSUME NEW c \in Conns, DialRemoteFails(c) PROVE StarterHolds'
    BY <1>15 DEF DialRemoteFails, HandlerEnds
<1>16. ASSUME NEW c \in Conns, BridgeEnds(c) PROVE StarterHolds'
    BY <1>16 DEF BridgeEnds, HandlerEnds
<1>17. ASSUME NEW c \in Conns, OpenWebsocket(c) PROVE StarterHolds'
    BY <1>17 DEF OpenWebsocket
<1>18. ASSUME NEW c \in Conns, OpenAzureFails(c) PROVE StarterHolds'
    BY <1>18 DEF OpenAzureFails, HandlerEnds
<1>19. ASSUME NEW c \in Conns, OpenGCPFails(c) PROVE StarterHolds'
    BY <1>19 DEF OpenGCPFails, HandlerEnds
<1>20. ASSUME NEW c \in Conns, CheckClosed(c) PROVE StarterHolds'
    BY <1>20 DEF CheckClosed, HandlerEnds
<1>21. ASSUME NEW c \in Conns, ReadLocal(c) PROVE StarterHolds'
    BY <1>21 DEF ReadLocal
<1>22. ASSUME NEW c \in Conns, LocalEnds(c) PROVE StarterHolds'
    BY <1>22 DEF LocalEnds, HandlerEnds
<1>23. ASSUME NEW c \in Conns, LockWrite(c) PROVE StarterHolds'
    BY <1>23 DEF LockWrite
<1>24. ASSUME NEW c \in Conns, WriteData(c) PROVE StarterHolds'
    BY <1>24 DEF WriteData, HandlerEnds
<1>25. ASSUME NEW c \in Conns, ReadFails(c) PROVE StarterHolds'
    BY <1>25 DEF ReadFails, readerUnchanged, GoOn
<1>26. ASSUME NEW c \in Conns, ReadAzure(c) PROVE StarterHolds'
    BY <1>26 DEF ReadAzure, Deliver, readerUnchanged, GoOn
<1>27. ASSUME NEW c \in Conns, ReadGCP(c) PROVE StarterHolds'
    BY <1>27 DEF ReadGCP, NextLabel, readerUnchanged, GoOn
<1>28. ASSUME NEW c \in Conns, NextFrame(c) PROVE StarterHolds'
    BY <1>28 DEF NextFrame, Deliver, readerUnchanged, GoOn, NextLabel
<1>29. ASSUME NEW c \in Conns, LockAck(c) PROVE StarterHolds'
    BY <1>29 DEF LockAck, readerUnchanged, GoOn
<1>30. ASSUME NEW c \in Conns, WriteAck(c) PROVE StarterHolds'
    BY <1>30 DEF WriteAck, NextLabel, readerUnchanged, GoOn
<1>31. ASSUME NEW c \in Conns, RelaySends(c) PROVE StarterHolds'
    BY <1>31 DEF RelaySends
<1>32. ASSUME NEW c \in Conns, UpstreamLost(c) PROVE StarterHolds'
    BY <1>32 DEF UpstreamLost
<1>33. ASSUME NEW t \in Tunnels, BastionLost(t) PROVE StarterHolds'
    BY <1>33 DEF BastionLost
<1>34. ASSUME NEW k \in Keys, CloseSSH(k) PROVE StarterHolds'
    BY <1>34 DEF CloseSSH, CloseTunnel
<1>35. ASSUME NEW k \in Keys, CloseLoopback(k) PROVE StarterHolds'
    BY <1>35 DEF CloseLoopback, CloseTunnel
<1>36. CASE UNCHANGED vars
    BY <1>36 DEF vars
<1> QED
    BY <1>1, <1>2, <1>3, <1>4, <1>5, <1>6, <1>7, <1>8, <1>9, <1>10, <1>11, <1>12, <1>13, <1>14, <1>15, <1>16, <1>17, <1>18,
       <1>19, <1>20, <1>21, <1>22, <1>23, <1>24, <1>25, <1>26, <1>27, <1>28, <1>29, <1>30, <1>31, <1>32, <1>33, <1>34, <1>35, <1>36
    DEF Next, ClientStep, HandlerStep, ReaderStep

\* Registered tunnels listen.
LEMMA RegistryOwnsStep == IInv /\ [Next]_vars => RegistryOwns'
<1> SUFFICES ASSUME RegTypes, StarterHolds, RegistryOwns, [Next]_vars PROVE RegistryOwns'
    BY TypeParts DEF IInv
<1> USE DEF RegTypes, StarterHolds, RegistryOwns
<1>1. ASSUME NEW c \in Conns, LockRegistry(c) PROVE RegistryOwns'
    BY <1>1 DEF LockRegistry
<1>2. ASSUME NEW c \in Conns, FindTunnel(c) PROVE RegistryOwns'
    BY <1>2 DEF FindTunnel, ReturnTunnel
<1>3. ASSUME NEW c \in Conns, DialBastion(c) PROVE RegistryOwns'
    BY <1>3, UnusedFacts DEF DialBastion
<1>4. ASSUME NEW c \in Conns, DialBastionFails(c) PROVE RegistryOwns'
    BY <1>4 DEF DialBastionFails, ReturnError
<1>5. ASSUME NEW c \in Conns, ListenSSH(c) PROVE RegistryOwns'
    BY <1>5 DEF ListenSSH, ReturnTunnel
<1>6. ASSUME NEW c \in Conns, ListenSSHFails(c) PROVE RegistryOwns'
    BY <1>6 DEF ListenSSHFails, ReturnError
<1>7. ASSUME NEW c \in Conns, StartLoopback(c) PROVE RegistryOwns'
    BY <1>7, UnusedFacts DEF StartLoopback, ReturnTunnel
<1>8. ASSUME NEW c \in Conns, StartAzureFails(c) PROVE RegistryOwns'
    BY <1>8 DEF StartAzureFails, ReturnError
<1>9. ASSUME NEW c \in Conns, StartGCPFails(c) PROVE RegistryOwns'
    BY <1>9 DEF StartGCPFails, ReturnError
<1>10. ASSUME NEW c \in Conns, Dial(c) PROVE RegistryOwns'
    BY <1>10 DEF Dial
<1>11. ASSUME NEW c \in Conns, ClientSends(c) PROVE RegistryOwns'
    BY <1>11 DEF ClientSends
<1>12. ASSUME NEW c \in Conns, ClientCloses(c) PROVE RegistryOwns'
    BY <1>12 DEF ClientCloses
<1>13. ASSUME NEW c \in Conns, Accept(c) PROVE RegistryOwns'
    BY <1>13 DEF Accept
<1>14. ASSUME NEW c \in Conns, DialRemote(c) PROVE RegistryOwns'
    BY <1>14 DEF DialRemote
<1>15. ASSUME NEW c \in Conns, DialRemoteFails(c) PROVE RegistryOwns'
    BY <1>15 DEF DialRemoteFails, HandlerEnds
<1>16. ASSUME NEW c \in Conns, BridgeEnds(c) PROVE RegistryOwns'
    BY <1>16 DEF BridgeEnds, HandlerEnds
<1>17. ASSUME NEW c \in Conns, OpenWebsocket(c) PROVE RegistryOwns'
    BY <1>17 DEF OpenWebsocket
<1>18. ASSUME NEW c \in Conns, OpenAzureFails(c) PROVE RegistryOwns'
    BY <1>18 DEF OpenAzureFails, HandlerEnds
<1>19. ASSUME NEW c \in Conns, OpenGCPFails(c) PROVE RegistryOwns'
    BY <1>19 DEF OpenGCPFails, HandlerEnds
<1>20. ASSUME NEW c \in Conns, CheckClosed(c) PROVE RegistryOwns'
    BY <1>20 DEF CheckClosed, HandlerEnds
<1>21. ASSUME NEW c \in Conns, ReadLocal(c) PROVE RegistryOwns'
    BY <1>21 DEF ReadLocal
<1>22. ASSUME NEW c \in Conns, LocalEnds(c) PROVE RegistryOwns'
    BY <1>22 DEF LocalEnds, HandlerEnds
<1>23. ASSUME NEW c \in Conns, LockWrite(c) PROVE RegistryOwns'
    BY <1>23 DEF LockWrite
<1>24. ASSUME NEW c \in Conns, WriteData(c) PROVE RegistryOwns'
    BY <1>24 DEF WriteData, HandlerEnds
<1>25. ASSUME NEW c \in Conns, ReadFails(c) PROVE RegistryOwns'
    BY <1>25 DEF ReadFails, readerUnchanged, GoOn
<1>26. ASSUME NEW c \in Conns, ReadAzure(c) PROVE RegistryOwns'
    BY <1>26 DEF ReadAzure, Deliver, readerUnchanged, GoOn
<1>27. ASSUME NEW c \in Conns, ReadGCP(c) PROVE RegistryOwns'
    BY <1>27 DEF ReadGCP, NextLabel, readerUnchanged, GoOn
<1>28. ASSUME NEW c \in Conns, NextFrame(c) PROVE RegistryOwns'
    BY <1>28 DEF NextFrame, Deliver, readerUnchanged, GoOn, NextLabel
<1>29. ASSUME NEW c \in Conns, LockAck(c) PROVE RegistryOwns'
    BY <1>29 DEF LockAck, readerUnchanged, GoOn
<1>30. ASSUME NEW c \in Conns, WriteAck(c) PROVE RegistryOwns'
    BY <1>30 DEF WriteAck, NextLabel, readerUnchanged, GoOn
<1>31. ASSUME NEW c \in Conns, RelaySends(c) PROVE RegistryOwns'
    BY <1>31 DEF RelaySends
<1>32. ASSUME NEW c \in Conns, UpstreamLost(c) PROVE RegistryOwns'
    BY <1>32 DEF UpstreamLost
<1>33. ASSUME NEW t \in Tunnels, BastionLost(t) PROVE RegistryOwns'
    BY <1>33 DEF BastionLost
<1>34. ASSUME NEW k \in Keys, CloseSSH(k) PROVE RegistryOwns'
    BY <1>34 DEF CloseSSH, CloseTunnel
<1>35. ASSUME NEW k \in Keys, CloseLoopback(k) PROVE RegistryOwns'
    BY <1>35 DEF CloseLoopback, CloseTunnel
<1>36. CASE UNCHANGED vars
    BY <1>36 DEF vars
<1> QED
    BY <1>1, <1>2, <1>3, <1>4, <1>5, <1>6, <1>7, <1>8, <1>9, <1>10, <1>11, <1>12, <1>13, <1>14, <1>15, <1>16, <1>17, <1>18,
       <1>19, <1>20, <1>21, <1>22, <1>23, <1>24, <1>25, <1>26, <1>27, <1>28, <1>29, <1>30, <1>31, <1>32, <1>33, <1>34, <1>35, <1>36
    DEF Next, ClientStep, HandlerStep, ReaderStep

\* What is open is owned.
LEMMA NothingLeftOpenStep == IInv /\ [Next]_vars => NothingLeftOpen'
<1> SUFFICES ASSUME RegTypes, ConnTypes, StarterHolds, RegistryOwns, NothingLeftOpen, [Next]_vars PROVE NothingLeftOpen'
    BY TypeParts DEF IInv
<1> USE DEF RegTypes, ConnTypes, StarterHolds, RegistryOwns, NothingLeftOpen
<1>1. ASSUME NEW c \in Conns, LockRegistry(c) PROVE NothingLeftOpen'
    BY <1>1 DEF LockRegistry
<1>2. ASSUME NEW c \in Conns, FindTunnel(c) PROVE NothingLeftOpen'
    BY <1>2 DEF FindTunnel, ReturnTunnel
<1>3. ASSUME NEW c \in Conns, DialBastion(c) PROVE NothingLeftOpen'
    BY <1>3, UnusedFacts DEF DialBastion
<1>4. ASSUME NEW c \in Conns, DialBastionFails(c) PROVE NothingLeftOpen'
    BY <1>4 DEF DialBastionFails, ReturnError
<1>5. ASSUME NEW c \in Conns, ListenSSH(c) PROVE NothingLeftOpen'
    BY <1>5 DEF ListenSSH, ReturnTunnel
<1>6. ASSUME NEW c \in Conns, ListenSSHFails(c) PROVE NothingLeftOpen'
    BY <1>6 DEF ListenSSHFails, ReturnError
<1>7. ASSUME NEW c \in Conns, StartLoopback(c) PROVE NothingLeftOpen'
  <2>1. PICK t \in Unused : /\ key' = [key EXCEPT ![t] = want[c]]
                            /\ registry' = [registry EXCEPT ![want[c]] = t]
                            /\ listening' = listening \cup {t}
      BY <1>7 DEF StartLoopback
  <2>2. t \in Tunnels /\ key[t] = None /\ t \notin listening \cup bastion \cup closed
      BY UnusedFacts
  <2>3. /\ registryLock = c /\ client[c] = "locked" /\ registry[want[c]] = None
        /\ UNCHANGED <<bastion, closed, want>> /\ registryLock' = None
      BY <1>7 DEF StartLoopback, ReturnTunnel
  <2>4. \A k \in Keys : registry'[k] # None => registry'[k] \in listening' \ closed'
      BY <2>1, <2>2, <2>3
  <2>5. ASSUME NEW u \in listening' \cup bastion' PROVE registry'[key'[u]] = u
    <3>1. CASE u = t
        BY <2>1, <2>2, <2>3, <3>1
    <3>2. CASE u # t
      <4>1. u \in listening \cup bastion /\ registry[key[u]] = u
          BY <2>1, <2>3, <2>5, <3>2
      <4> QED BY <2>1, <2>2, <2>3, <3>2, <4>1
    <3> QED BY <3>1, <3>2
  <2> QED BY <2>4, <2>5
<1>8. ASSUME NEW c \in Conns, StartAzureFails(c) PROVE NothingLeftOpen'
    BY <1>8 DEF StartAzureFails, ReturnError
<1>9. ASSUME NEW c \in Conns, StartGCPFails(c) PROVE NothingLeftOpen'
    BY <1>9 DEF StartGCPFails, ReturnError
<1>10. ASSUME NEW c \in Conns, Dial(c) PROVE NothingLeftOpen'
    BY <1>10 DEF Dial
<1>11. ASSUME NEW c \in Conns, ClientSends(c) PROVE NothingLeftOpen'
    BY <1>11 DEF ClientSends
<1>12. ASSUME NEW c \in Conns, ClientCloses(c) PROVE NothingLeftOpen'
    BY <1>12 DEF ClientCloses
<1>13. ASSUME NEW c \in Conns, Accept(c) PROVE NothingLeftOpen'
    BY <1>13 DEF Accept
<1>14. ASSUME NEW c \in Conns, DialRemote(c) PROVE NothingLeftOpen'
    BY <1>14 DEF DialRemote
<1>15. ASSUME NEW c \in Conns, DialRemoteFails(c) PROVE NothingLeftOpen'
    BY <1>15 DEF DialRemoteFails, HandlerEnds
<1>16. ASSUME NEW c \in Conns, BridgeEnds(c) PROVE NothingLeftOpen'
    BY <1>16 DEF BridgeEnds, HandlerEnds
<1>17. ASSUME NEW c \in Conns, OpenWebsocket(c) PROVE NothingLeftOpen'
    BY <1>17 DEF OpenWebsocket
<1>18. ASSUME NEW c \in Conns, OpenAzureFails(c) PROVE NothingLeftOpen'
    BY <1>18 DEF OpenAzureFails, HandlerEnds
<1>19. ASSUME NEW c \in Conns, OpenGCPFails(c) PROVE NothingLeftOpen'
    BY <1>19 DEF OpenGCPFails, HandlerEnds
<1>20. ASSUME NEW c \in Conns, CheckClosed(c) PROVE NothingLeftOpen'
    BY <1>20 DEF CheckClosed, HandlerEnds
<1>21. ASSUME NEW c \in Conns, ReadLocal(c) PROVE NothingLeftOpen'
    BY <1>21 DEF ReadLocal
<1>22. ASSUME NEW c \in Conns, LocalEnds(c) PROVE NothingLeftOpen'
    BY <1>22 DEF LocalEnds, HandlerEnds
<1>23. ASSUME NEW c \in Conns, LockWrite(c) PROVE NothingLeftOpen'
    BY <1>23 DEF LockWrite
<1>24. ASSUME NEW c \in Conns, WriteData(c) PROVE NothingLeftOpen'
    BY <1>24 DEF WriteData, HandlerEnds
<1>25. ASSUME NEW c \in Conns, ReadFails(c) PROVE NothingLeftOpen'
    BY <1>25 DEF ReadFails, readerUnchanged, GoOn
<1>26. ASSUME NEW c \in Conns, ReadAzure(c) PROVE NothingLeftOpen'
    BY <1>26 DEF ReadAzure, Deliver, readerUnchanged, GoOn
<1>27. ASSUME NEW c \in Conns, ReadGCP(c) PROVE NothingLeftOpen'
    BY <1>27 DEF ReadGCP, NextLabel, readerUnchanged, GoOn
<1>28. ASSUME NEW c \in Conns, NextFrame(c) PROVE NothingLeftOpen'
    BY <1>28 DEF NextFrame, Deliver, readerUnchanged, GoOn, NextLabel
<1>29. ASSUME NEW c \in Conns, LockAck(c) PROVE NothingLeftOpen'
    BY <1>29 DEF LockAck, readerUnchanged, GoOn
<1>30. ASSUME NEW c \in Conns, WriteAck(c) PROVE NothingLeftOpen'
    BY <1>30 DEF WriteAck, NextLabel, readerUnchanged, GoOn
<1>31. ASSUME NEW c \in Conns, RelaySends(c) PROVE NothingLeftOpen'
    BY <1>31 DEF RelaySends
<1>32. ASSUME NEW c \in Conns, UpstreamLost(c) PROVE NothingLeftOpen'
    BY <1>32 DEF UpstreamLost
<1>33. ASSUME NEW t \in Tunnels, BastionLost(t) PROVE NothingLeftOpen'
    BY <1>33 DEF BastionLost
<1>34. ASSUME NEW k \in Keys, CloseSSH(k) PROVE NothingLeftOpen'
    BY <1>34 DEF CloseSSH, CloseTunnel
<1>35. ASSUME NEW k \in Keys, CloseLoopback(k) PROVE NothingLeftOpen'
  <2> DEFINE t == registry[k]
  <2>1. /\ t \in Tunnels /\ key[t] = k /\ registry' = [registry EXCEPT ![k] = None]
        /\ closed' = closed \cup {t} /\ listening' = listening \ {t} /\ registryLock = None
        /\ UNCHANGED <<registryLock, key, bastion>>
      BY <1>35 DEF CloseLoopback, CloseTunnel
  <2>2. t \notin bastion
      BY <1>35 DEF CloseLoopback
  <2>3. \A j \in Keys : registry'[j] # None => registry'[j] \in listening' \ closed'
      BY <2>1
  <2>4. ASSUME NEW u \in listening' \cup bastion' PROVE registry'[key'[u]] = u
      BY <2>1, <2>2, <2>4
  <2> QED BY <2>3, <2>4
<1>36. CASE UNCHANGED vars
    BY <1>36 DEF vars
<1> QED
    BY <1>1, <1>2, <1>3, <1>4, <1>5, <1>6, <1>7, <1>8, <1>9, <1>10, <1>11, <1>12, <1>13, <1>14, <1>15, <1>16, <1>17, <1>18,
       <1>19, <1>20, <1>21, <1>22, <1>23, <1>24, <1>25, <1>26, <1>27, <1>28, <1>29, <1>30, <1>31, <1>32, <1>33, <1>34, <1>35, <1>36
    DEF Next, ClientStep, HandlerStep, ReaderStep


\* The inductive invariant of the tunnels (EnsureUp, the handlers, Close).
THEOREM Invariance == Spec => []IInv
<1>1. Init => IInv
    BY DEF Init, IInv, TypeOK, WriterHolds, StarterHolds, RegistryOwns, NothingLeftOpen
<1>2. IInv /\ [Next]_vars => IInv'
  <2> SUFFICES ASSUME IInv, [Next]_vars PROVE IInv'
      OBVIOUS
  <2>1. RegTypes' /\ ConnTypes' /\ Counts' /\ Queues'
      BY RegTypesStep, ConnTypesStep, CountsStep, QueuesStep
  <2>2. TypeOK'
      BY <2>1 DEF TypeOK, RegTypes, ConnTypes, Counts, Queues
  <2> QED BY <2>2, WriterHoldsStep, StarterHoldsStep, RegistryOwnsStep, NothingLeftOpenStep DEF IInv
<1> QED BY <1>1, <1>2, PTL DEF Spec

\* The handler and the reading goroutine never write to a websocket at once
\* (gcp_iap_tunnel.go:163-168).
THEOREM OneWriterAlways == Spec => []OneWriter
<1>1. IInv => OneWriter
    BY DEF IInv, TypeOK, WriterHolds, OneWriter
<1> QED BY <1>1, Invariance, PTL

\* Every open listener and bastion client is that of a registered tunnel or of the
\* one being started.
THEOREM OpenIsOwned == Spec => []NothingLeftOpen
<1>1. IInv => NothingLeftOpen
    BY DEF IInv
<1> QED BY <1>1, Invariance, PTL

\* What the handler can have read late, and where it is then: after that message
\* it looks whether the tunnel is closed.  A client without a connection has no
\* handler.
LateInv ==
    \A c \in Conns :
        /\ \/ late[c] = 0
           \/ late[c] = 1 /\ tunnel[c] \in closed /\ pc[c] \in {"send", "write", "check", "done"}
        /\ client[c] \in {"idle", "locked", "listen", "dial"} => pc[c] = "none"

\* A handler reads once after the closing (CheckClosed, ReadLocal), and no tunnel
\* is opened again.
LEMMA LateStep == IInv /\ LateInv /\ [Next]_vars => LateInv'
<1> SUFFICES ASSUME RegTypes, ConnTypes, Counts, LateInv, [Next]_vars PROVE LateInv'
    BY TypeParts DEF IInv
<1> USE DEF RegTypes, ConnTypes, Counts, LateInv
<1>1. ASSUME NEW c \in Conns, HandlerEnds(c), UNCHANGED late,
             pc[c] \in {"upstream", "bridge"} \cup Relaying
      PROVE  LateInv'
    BY <1>1 DEF HandlerEnds
<1>2. ASSUME NEW c \in Conns, ClientStep(c) PROVE LateInv'
  <2>1. CASE LockRegistry(c)
      BY <2>1 DEF LockRegistry
  <2>2. CASE FindTunnel(c)
      BY <2>2 DEF FindTunnel, ReturnTunnel
  <2>3. CASE DialBastion(c)
      BY <2>3 DEF DialBastion
  <2>4. CASE ListenSSH(c)
      BY <2>4 DEF ListenSSH, ReturnTunnel
  <2>5. CASE StartLoopback(c)
      BY <2>5 DEF StartLoopback, ReturnTunnel
  <2>6. CASE \/ DialBastionFails(c) \/ ListenSSHFails(c) \/ StartAzureFails(c)
             \/ StartGCPFails(c)
      BY <2>6 DEF DialBastionFails, ListenSSHFails, StartAzureFails, StartGCPFails, ReturnError
  <2>7. CASE Dial(c)
    <3>1. late[c] = 0 /\ client[c] = "dial" /\ pc[c] = "none"
        BY <2>7 DEF Dial
    <3>2. late' = late /\ tunnel' = tunnel /\ closed' = closed
        BY <2>7 DEF Dial, tunnelVars
    <3>3. CASE client' = [client EXCEPT ![c] = "dialled"] /\ pc' = [pc EXCEPT ![c] = "backlog"]
        BY <3>1, <3>2, <3>3
    <3>4. CASE client' = [client EXCEPT ![c] = "gone"] /\ pc' = pc
        BY <3>1, <3>2, <3>4
    <3> QED BY <2>7, <3>3, <3>4 DEF Dial, GoTo
  <2> QED BY <1>2, <2>1, <2>2, <2>3, <2>4, <2>5, <2>6, <2>7 DEF ClientStep
<1>3. ASSUME NEW c \in Conns, HandlerStep(c) PROVE LateInv'
  <2>1. CASE Accept(c)
      BY <2>1 DEF Accept
  <2>2. CASE DialRemote(c)
      BY <2>2 DEF DialRemote
  <2>3. CASE \/ DialRemoteFails(c) \/ BridgeEnds(c) \/ OpenAzureFails(c) \/ OpenGCPFails(c)
             \/ LocalEnds(c)
      BY <1>1, <2>3 DEF DialRemoteFails, BridgeEnds, OpenAzureFails, OpenGCPFails, LocalEnds
  <2>4. CASE OpenWebsocket(c)
      BY <2>4 DEF OpenWebsocket
  <2>5. CASE CheckClosed(c)
    <3>1. CASE tunnel[c] \in closed
        BY <1>1, <2>5, <3>1 DEF CheckClosed
    <3>2. CASE tunnel[c] \notin closed
        BY <2>5, <3>2 DEF CheckClosed
    <3> QED BY <3>1, <3>2
  <2>6. CASE ReadLocal(c)
      BY <2>6 DEF ReadLocal
  <2>7. CASE LockWrite(c)
      BY <2>7 DEF LockWrite
  <2>8. CASE WriteData(c)
    <3>1. CASE c \in up
        BY <2>8, <3>1 DEF WriteData
    <3>2. CASE c \notin up
        BY <1>1, <2>8, <3>2 DEF WriteData
    <3> QED BY <3>1, <3>2
  <2> QED BY <1>3, <2>1, <2>2, <2>3, <2>4, <2>5, <2>6, <2>7, <2>8 DEF HandlerStep
<1>4. ASSUME NEW c \in Conns,
             ReaderStep(c) \/ ClientSends(c) \/ ClientCloses(c) \/ RelaySends(c) \/ UpstreamLost(c)
      PROVE  LateInv'
  <2>1. UNCHANGED <<late, tunnel, closed, pc>>
      BY <1>4 DEF ReaderStep, ReadFails, ReadAzure, ReadGCP, NextFrame, LockAck, WriteAck,
         readerUnchanged, ClientSends, ClientCloses, RelaySends, UpstreamLost
  <2>2. client' = client \/ client' = [client EXCEPT ![c] = "gone"]
      BY <1>4 DEF ReaderStep, ReadFails, ReadAzure, ReadGCP, NextFrame, LockAck, WriteAck,
         ClientSends, ClientCloses, RelaySends, UpstreamLost
  <2> QED BY <2>1, <2>2
<1>5. ASSUME NEW t \in Tunnels, BastionLost(t) PROVE LateInv'
    BY <1>5 DEF BastionLost
<1>6. ASSUME NEW t, CloseTunnel(t), UNCHANGED <<late, tunnel>> PROVE LateInv'
    BY <1>6 DEF CloseTunnel
<1>7. ASSUME NEW k \in Keys, CloseSSH(k) \/ CloseLoopback(k) PROVE LateInv'
    BY <1>6, <1>7 DEF CloseSSH, CloseLoopback
<1>8. CASE UNCHANGED vars
    BY <1>8 DEF vars
<1> QED BY <1>2, <1>3, <1>4, <1>5, <1>7, <1>8 DEF Next

\* Of what a client sends, a closed tunnel takes one message at most, the one its
\* handler was waiting for (azure_bastion_tunnel.go, gcp_iap_tunnel.go: closed is
\* looked at before each read).
THEOREM OneLate == Spec => []AtMostOneLate
<1>1. Init => LateInv
    BY DEF Init, LateInv
<1>2. LateInv => AtMostOneLate
    BY DEF LateInv, AtMostOneLate
<1> QED BY <1>1, <1>2, LateStep, Invariance, PTL DEF Spec
=============================================================================
