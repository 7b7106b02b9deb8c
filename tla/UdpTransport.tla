---------------------------- MODULE UdpTransport ----------------------------
(***************************************************************************)
(* Transport/UdpTransport.cpp: a host and a client, each driven by its own *)
(* loop thread, over UDP, which loses, duplicates and reorders datagrams.  *)
(*                                                                         *)
(* tick() drains the socket and then resends what timed out.  One pass of  *)
(* its receive loop is one action (RecvHello, RecvAck, RecvUnreliable,     *)
(* RecvReliable), its final resendPending another.  Nothing else of the    *)
(* same peer runs in between, and a tick that finds one datagram, or none, *)
(* is possible at any time, so the split adds no behaviour.                *)
(*                                                                         *)
(* Payloads are not looked into by the transport: a blob is the number of  *)
(* the send that produced it, counted over the life of the player.         *)
(***************************************************************************)
EXTENDS Naturals, Sequences, FiniteSets

CONSTANTS
  Host, Client,    \* the two peers
  NoAddr,          \* m_peerKnown = false
  SeqSpace,        \* number of values of m_nextSeq (2^32 in the code)
  MayRestart,      \* the peers whose process may be restarted
  MaxReliable,     \* bound: reliable sends of each peer
  MaxUnreliable,   \* bound: unreliable sends of each peer
  MaxDups,         \* bound: datagrams the network duplicates
  MaxRestarts      \* bound: process restarts

Peers == {Host, Client}
Other(p) == IF p = Host THEN Client ELSE Host

ASSUME ConstantsAssumption ==
  /\ Host # Client
  /\ SeqSpace \in Nat \ {0, 1}
  /\ MayRestart \subseteq Peers
  /\ MaxReliable \in [Peers -> Nat]
  /\ MaxUnreliable \in [Peers -> Nat]
  /\ MaxDups \in Nat
  /\ MaxRestarts \in Nat

ConnState == {"Disconnected", "Listening", "Connecting", "Connected", "Failed"}
WireType == {"WT_Unreliable", "WT_Reliable", "WT_Ack", "WT_Hello"}
Address == [peer : Peers, port : Nat]

ASSUME NoAddrAssumption == NoAddr \notin Address

Datagram ==
  [from : Address, to : Address, type : WireType, seq : Nat, blob : Nat]
Pending == [seq : Nat, blob : Nat]

VARIABLES
  state,        \* m_state
  peerAddr,     \* m_peerKnown and m_peerAddr
  nextSeq,      \* m_nextSeq
  pending,      \* m_pending: reliable blobs sent and not acknowledged
  recvReliable, \* m_recvReliable: reliable sequence numbers seen
  inbox,        \* reliable blobs pushed on m_inbox, the drained ones included
  drained,      \* how many of them receive() has already taken out
  inboxU,       \* unreliable blobs now in m_inbox
  port,         \* the local port: fixed for the host, ephemeral for the client
  sentSeq,      \* history: the sequence number each reliable blob was sent with
  sentU,        \* history: number of unreliable sends
  had,          \* history: reliable blobs that any process of a peer has received
  net,          \* datagrams in flight
  dups,         \* datagrams duplicated so far
  restarts      \* restarts so far

endpointVars == <<nextSeq, pending, recvReliable, inbox, drained, inboxU>>
historyVars == <<sentSeq, sentU, had>>
envVars == <<port, dups, restarts>>
vars == <<state, peerAddr, endpointVars, historyVars, envVars, net>>

TypeOK ==
  /\ state \in [Peers -> ConnState]
  /\ peerAddr \in [Peers -> Address \cup {NoAddr}]
  /\ nextSeq \in [Peers -> Nat]
  /\ pending \in [Peers -> SUBSET Pending]
  /\ recvReliable \in [Peers -> SUBSET Nat]
  /\ inbox \in [Peers -> Seq(Nat)]
  /\ drained \in [Peers -> Nat]
  /\ inboxU \in [Peers -> Seq(Nat)]
  /\ port \in [Peers -> Nat]
  /\ sentSeq \in [Peers -> Seq(Nat)]
  /\ sentU \in [Peers -> Nat]
  /\ had \in [Peers -> SUBSET Nat]
  /\ net \subseteq Datagram
  /\ dups \in Nat
  /\ restarts \in Nat

-----------------------------------------------------------------------------
(* Addresses, and the datagrams a peer puts on the wire.                   *)

AddrOf(p) == [peer |-> p, port |-> port[p]]

\* rawSendTo: nothing leaves a peer that does not know the other's address.
RawSendTo(p, addr, type, contents) ==
  IF addr = NoAddr THEN {}
  ELSE {[from |-> AddrOf(p), to |-> addr, type |-> type,
         seq |-> c.seq, blob |-> c.blob] : c \in contents}

Opened(p) == state[p] \notin {"Disconnected", "Failed"}

\* A host whose bind() failed still has the socket that send() asks for.
HasSocket(p) == Opened(p) \/ (p = Host /\ state[p] = "Failed")

\* ++ on a uint32_t.
Increment(n) == IF n + 1 < SeqSpace THEN n + 1 ELSE 0

Received(p) == {inbox[p][i] : i \in DOMAIN inbox[p]}
Handed(p) == {inbox[p][i] : i \in 1 .. drained[p]}

Init ==
  /\ state = [p \in Peers |-> "Disconnected"]
  /\ peerAddr = [p \in Peers |-> NoAddr]
  /\ nextSeq = [p \in Peers |-> 1]
  /\ pending = [p \in Peers |-> {}]
  /\ recvReliable = [p \in Peers |-> {}]
  /\ inbox = [p \in Peers |-> <<>>]
  /\ drained = [p \in Peers |-> 0]
  /\ inboxU = [p \in Peers |-> <<>>]
  /\ port = [p \in Peers |-> 0]
  /\ sentSeq = [p \in Peers |-> <<>>]
  /\ sentU = [p \in Peers |-> 0]
  /\ had = [p \in Peers |-> {}]
  /\ net = {}
  /\ dups = 0
  /\ restarts = 0

-----------------------------------------------------------------------------
(* Opening the link.                                                       *)

\* A bind that fails leaves the host Failed for the life of the process.
StartHost ==
  /\ state[Host] = "Disconnected"
  /\ \E outcome \in {"Listening", "Failed"} :
       state' = [state EXCEPT ![Host] = outcome]
  /\ UNCHANGED <<peerAddr, endpointVars, historyVars, envVars, net>>

\* The client knows the host's address from its configuration, and says hello
\* to it once.
ConnectTo ==
  LET host == [peer |-> Host, port |-> 0] IN
  /\ state[Client] = "Disconnected"
  /\ state' = [state EXCEPT ![Client] = "Connecting"]
  /\ peerAddr' = [peerAddr EXCEPT ![Client] = host]
  /\ net' = net \cup RawSendTo(Client, host, "WT_Hello", {[seq |-> 0, blob |-> 0]})
  /\ UNCHANGED <<endpointVars, historyVars, envVars>>

\* The client gets no socket, and does nothing from then on.
ConnectToFails ==
  /\ state[Client] = "Disconnected"
  /\ state' = [state EXCEPT ![Client] = "Failed"]
  /\ UNCHANGED <<peerAddr, endpointVars, historyVars, envVars, net>>

\* The process of p ends and a new one runs the constructor: the transport
\* starts from scratch.  The host binds its port again, a client gets a new one.
Restart(p) ==
  /\ p \in MayRestart
  /\ restarts < MaxRestarts
  /\ state[p] # "Disconnected"
  /\ restarts' = restarts + 1
  /\ state' = [state EXCEPT ![p] = "Disconnected"]
  /\ peerAddr' = [peerAddr EXCEPT ![p] = NoAddr]
  /\ nextSeq' = [nextSeq EXCEPT ![p] = 1]
  /\ pending' = [pending EXCEPT ![p] = {}]
  /\ recvReliable' = [recvReliable EXCEPT ![p] = {}]
  /\ inbox' = [inbox EXCEPT ![p] = <<>>]
  /\ drained' = [drained EXCEPT ![p] = 0]
  /\ inboxU' = [inboxU EXCEPT ![p] = <<>>]
  /\ port' = [port EXCEPT ![p] = IF p = Host THEN @ ELSE @ + 1]
  /\ UNCHANGED <<historyVars, net, dups>>

-----------------------------------------------------------------------------
(* Sending.  The message layer sends whether the link is up or not.        *)

\* Mutation: m_nextSeq is not advanced.
SendReliable_SameSeq(p) ==
  LET blob == Len(sentSeq[p]) + 1
      entry == [seq |-> nextSeq[p], blob |-> blob]
  IN
  /\ HasSocket(p)
  /\ Len(sentSeq[p]) < MaxReliable[p]
  /\ net' = net \cup RawSendTo(p, peerAddr[p], "WT_Reliable", {entry})
  /\ pending' = [pending EXCEPT ![p] = @ \cup {entry}]
  /\ sentSeq' = [sentSeq EXCEPT ![p] = Append(@, nextSeq[p])]
  /\ UNCHANGED <<state, peerAddr, nextSeq, recvReliable, inbox, drained, inboxU, sentU, had, envVars>>

SendReliable(p) ==
  LET blob == Len(sentSeq[p]) + 1
      entry == [seq |-> nextSeq[p], blob |-> blob]
  IN
  /\ HasSocket(p)
  /\ Len(sentSeq[p]) < MaxReliable[p]
  /\ nextSeq' = [nextSeq EXCEPT ![p] = Increment(@)]
  /\ net' = net \cup RawSendTo(p, peerAddr[p], "WT_Reliable", {entry})
  /\ pending' = [pending EXCEPT ![p] = @ \cup {entry}]
  /\ sentSeq' = [sentSeq EXCEPT ![p] = Append(@, nextSeq[p])]
  /\ UNCHANGED <<state, peerAddr, recvReliable, inbox, drained, inboxU, sentU, had, envVars>>

SendUnreliable(p) ==
  /\ HasSocket(p)
  /\ sentU[p] < MaxUnreliable[p]
  /\ sentU' = [sentU EXCEPT ![p] = @ + 1]
  /\ net' = net \cup RawSendTo(p, peerAddr[p], "WT_Unreliable",
                               {[seq |-> 0, blob |-> sentU[p] + 1]})
  /\ UNCHANGED <<state, peerAddr, endpointVars, sentSeq, had, envVars>>

\* Mutation: a reliable blob is sent once.
ResendPending_Never(p, expired) ==
  /\ Opened(p)
  /\ expired # {}
  /\ UNCHANGED <<state, peerAddr, endpointVars, historyVars, envVars, net>>

\* The entries of m_pending whose kReliableRtoMs have elapsed are sent again.
ResendPending(p, expired) ==
  /\ Opened(p)
  /\ expired # {}
  /\ net' = net \cup RawSendTo(p, peerAddr[p], "WT_Reliable", expired)
  /\ UNCHANGED <<state, peerAddr, endpointVars, historyVars, envVars>>

-----------------------------------------------------------------------------
(* Receiving.                                                              *)

\* Mutation: the host keeps the machine of the sender and drops its port.
PeerSeen_NoPort(p, d) ==
  IF p = Host /\ peerAddr[p] = NoAddr THEN d.from.peer ELSE peerAddr[p]

\* The host takes the sender of the first datagram it sees for its peer.
PeerSeen(p, d) ==
  IF p = Host /\ peerAddr[p] = NoAddr THEN d.from ELSE peerAddr[p]

\* recvfrom returned d: it is gone from the network, unless UDP made a copy.
Take(p, d, type, replies) ==
  /\ Opened(p)
  /\ d \in net
  /\ d.to = AddrOf(p)
  /\ d.type = type
  /\ peerAddr' = [peerAddr EXCEPT ![p] = PeerSeen(p, d)]
  /\ \/ /\ net' = (net \ {d}) \cup replies
        /\ UNCHANGED dups
     \/ /\ dups < MaxDups
        /\ dups' = dups + 1
        /\ net' = net \cup replies

Connect(p) == state' = [state EXCEPT ![p] = "Connected"]

\* Mutation: a hello is taken for a new process whose numbers start over.
RecvHello_Forgets(p, d) ==
  /\ Take(p, d, "WT_Hello", {})
  /\ Connect(p)
  /\ recvReliable' = [recvReliable EXCEPT ![p] = {}]
  /\ UNCHANGED <<nextSeq, pending, inbox, drained, inboxU, historyVars, port, restarts>>

\* Mutation: after a hello, what the old process has not acknowledged is dropped.
RecvHello_DropsPending(p, d) ==
  /\ Take(p, d, "WT_Hello", {})
  /\ Connect(p)
  /\ pending' = [pending EXCEPT ![p] = {}]
  /\ UNCHANGED <<nextSeq, recvReliable, inbox, drained, inboxU, historyVars, port, restarts>>

RecvHello(p, d) ==
  /\ Take(p, d, "WT_Hello", {})
  /\ Connect(p)
  /\ UNCHANGED <<endpointVars, historyVars, port, restarts>>

\* The first entry of m_pending with the acknowledged number is erased.  An
\* acknowledgement alone connects nobody but a host that learns its peer.
RecvAck(p, d) ==
  /\ Take(p, d, "WT_Ack", {})
  /\ \/ /\ ~ \E e \in pending[p] : e.seq = d.seq
        /\ UNCHANGED pending
     \/ \E e \in pending[p] :
          /\ e.seq = d.seq
          /\ \A f \in pending[p] : f.seq = d.seq => e.blob <= f.blob
          /\ pending' = [pending EXCEPT ![p] = @ \ {e}]
  /\ IF peerAddr'[p] # peerAddr[p] THEN Connect(p) ELSE UNCHANGED state
  /\ UNCHANGED <<nextSeq, recvReliable, inbox, drained, inboxU, historyVars, port, restarts>>

RecvUnreliable(p, d) ==
  /\ Take(p, d, "WT_Unreliable", {})
  /\ inboxU' = [inboxU EXCEPT ![p] = Append(@, d.blob)]
  /\ Connect(p)
  /\ UNCHANGED <<nextSeq, pending, recvReliable, inbox, drained, historyVars, port, restarts>>

\* Mutation: m_recvReliable is not consulted.
RecvReliable_NoDedup(p, d) ==
  /\ Take(p, d, "WT_Reliable",
          RawSendTo(p, PeerSeen(p, d), "WT_Ack", {[seq |-> d.seq, blob |-> 0]}))
  /\ recvReliable' = [recvReliable EXCEPT ![p] = @ \cup {d.seq}]
  /\ inbox' = [inbox EXCEPT ![p] = Append(@, d.blob)]
  /\ had' = [had EXCEPT ![p] = @ \cup {d.blob}]
  /\ Connect(p)
  /\ UNCHANGED <<nextSeq, pending, drained, inboxU, sentSeq, sentU, port, restarts>>

\* Mutation: only the first copy is acknowledged.
RecvReliable_AckOnce(p, d) ==
  /\ Take(p, d, "WT_Reliable",
          IF d.seq \in recvReliable[p] THEN {}
          ELSE RawSendTo(p, PeerSeen(p, d), "WT_Ack", {[seq |-> d.seq, blob |-> 0]}))
  /\ recvReliable' = [recvReliable EXCEPT ![p] = @ \cup {d.seq}]
  /\ inbox' = [inbox EXCEPT ![p] =
                 IF d.seq \in recvReliable[p] THEN @ ELSE Append(@, d.blob)]
  /\ had' = [had EXCEPT ![p] =
               IF d.seq \in recvReliable[p] THEN @ ELSE @ \cup {d.blob}]
  /\ Connect(p)
  /\ UNCHANGED <<nextSeq, pending, drained, inboxU, sentSeq, sentU, port, restarts>>

\* Every copy is acknowledged; only the first one is pushed on m_inbox.
RecvReliable(p, d) ==
  /\ Take(p, d, "WT_Reliable",
          RawSendTo(p, PeerSeen(p, d), "WT_Ack", {[seq |-> d.seq, blob |-> 0]}))
  /\ recvReliable' = [recvReliable EXCEPT ![p] = @ \cup {d.seq}]
  /\ inbox' = [inbox EXCEPT ![p] =
                 IF d.seq \in recvReliable[p] THEN @ ELSE Append(@, d.blob)]
  /\ had' = [had EXCEPT ![p] =
               IF d.seq \in recvReliable[p] THEN @ ELSE @ \cup {d.blob}]
  /\ Connect(p)
  /\ UNCHANGED <<nextSeq, pending, drained, inboxU, sentSeq, sentU, port, restarts>>

\* receive(): the message layer takes everything that is in m_inbox.
Receive(p) ==
  /\ Opened(p)
  /\ drained' = [drained EXCEPT ![p] = Len(inbox[p])]
  /\ inboxU' = [inboxU EXCEPT ![p] = <<>>]
  /\ UNCHANGED <<state, peerAddr, nextSeq, pending, recvReliable, inbox,
                 historyVars, envVars, net>>

\* The network drops a datagram, or finds nobody at the address it is for.
Lose(d) ==
  /\ net' = net \ {d}
  /\ UNCHANGED <<state, peerAddr, endpointVars, historyVars, envVars>>

-----------------------------------------------------------------------------
Next ==
  \/ StartHost
  \/ ConnectTo
  \/ ConnectToFails
  \/ \E p \in Peers :
       \/ Restart(p)
       \/ SendReliable(p)
       \/ SendUnreliable(p)
       \/ \E expired \in SUBSET pending[p] : ResendPending(p, expired)
       \/ Receive(p)
  \/ \E d \in net :
       \/ Lose(d)
       \/ \E p \in Peers :
            \/ RecvHello(p, d)
            \/ RecvAck(p, d)
            \/ RecvUnreliable(p, d)
            \/ RecvReliable(p, d)

Spec == Init /\ [][Next]_vars

(***************************************************************************)
(* Fairness.  on_update() runs on every frame, so tick() keeps resending   *)
(* and receive() keeps draining (weak fairness).  The network is a fair-   *)
(* loss one: a datagram that is sent again and again gets through (strong  *)
(* fairness, as each loss disables the receive).                           *)
(***************************************************************************)
Fairness ==
  /\ WF_vars(StartHost)
  /\ WF_vars(ConnectTo \/ ConnectToFails)
  /\ \A p \in Peers :
       /\ WF_vars(ResendPending(p, pending[p]))
       /\ WF_vars(Receive(p))
       /\ SF_vars(\E d \in net : RecvHello(p, d))
       /\ \A k \in 1 .. MaxReliable[Other(p)] :
            SF_vars(\E d \in net : d.blob = k /\ RecvReliable(p, d))
       /\ \A k \in 0 .. MaxReliable[p] + 1 :
            SF_vars(\E d \in net : d.seq = k /\ RecvAck(p, d))

FairSpec == Spec /\ Fairness

-----------------------------------------------------------------------------
(* Correctness.                                                            *)

\* No blob reaches the message layer twice, whatever the network duplicates and
\* however often tick() sends it again: m_recvReliable is a complete filter.
AtMostOnce ==
  \A p \in Peers : \A i, j \in DOMAIN inbox[p] :
    inbox[p][i] = inbox[p][j] => i = j

\* A reliable blob is in m_pending until the other peer has it: resendPending
\* never gives up on a blob that was not delivered.
NoBlobLost ==
  \A p \in Peers : \A k \in DOMAIN sentSeq[p] :
    k \in Received(Other(p)) \/ \E e \in pending[p] : e.blob = k

\* Each restart of the client gave it a new port; the others were the host's.
NeverRestarted(p) ==
  IF p = Client THEN port[Client] = 0 ELSE restarts = port[Client]

NumbersDiffer(p) ==
  \A i, j \in DOMAIN sentSeq[p] : sentSeq[p][i] = sentSeq[p][j] => i = j

\* resendPending outlives the peer: a process that goes on running keeps a blob in
\* m_pending until some process of the other peer has received it, however often that
\* one is restarted, and whatever its predecessors have left on the wire.  (What the
\* restarted peer itself sends may be taken for duplicates.)
KeptOverRestarts ==
  \A p \in Peers : (NeverRestarted(p) /\ NumbersDiffer(p)) =>
    \A k \in DOMAIN sentSeq[p] :
      k \in had[Other(p)] \/ \E e \in pending[p] : e.blob = k

\* A reliable blob of a peer that knows where to send it is handed to the other
\* peer's message layer in the end, however many datagrams are lost.
EventuallyHanded ==
  \A p \in Peers : \A k \in 1 .. MaxReliable[p] :
    (k \in DOMAIN sentSeq[p] /\ peerAddr[p] # NoAddr)
      ~> (k \in Handed(Other(p)) \/ state[Host] = "Failed")

\* Retransmission comes to an end: what a peer that knows the other one has in
\* m_pending is acknowledged in the end.
PendingDrains ==
  \A p \in Peers : \A k \in 1 .. MaxReliable[p] :
    ((\E e \in pending[p] : e.blob = k) /\ peerAddr[p] # NoAddr)
      ~> ((\A e \in pending[p] : e.blob # k) \/ state[Host] = "Failed")

\* The transport implements ReliableLink: unordered, each blob at most once.
Link == INSTANCE ReliableLink WITH
  sent <- [p \in Peers |-> Len(sentSeq[p])],
  arrived <- inbox
LinkSpec == Link!Spec
=============================================================================
