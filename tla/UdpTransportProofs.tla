------------------------- MODULE UdpTransportProofs -------------------------
(***************************************************************************)
(* Proofs about UdpTransport, for any bounds and any number of datagrams.  *)
(*                                                                         *)
(*   TypeCorrect      the type invariant                                   *)
(*   NeverTwice       AtMostOnce, also across restarts of either process   *)
(*                    and wrap-around of the sequence numbers              *)
(*   NothingLost      NoBlobLost, while no process restarts and the        *)
(*                    sequence numbers do not wrap                         *)
(*   ImplementsLink   LinkSpec, while no process restarts                  *)
(*   KeepsOverRestarts  KeptOverRestarts, over restarts of either process  *)
(*                                                                         *)
(* and about the wire format of what it carries (Wire), for any size of a  *)
(* byte and any frames, messages and batches:                              *)
(*                                                                         *)
(*   FieldsAreRead    FieldsSurvive                                        *)
(*   EntriesAreRead   BatchSurvives                                        *)
(*   FramesAreRead    DatagramIsParsed                                     *)
(***************************************************************************)
EXTENDS UdpTransport, Algorithms, SequenceTheorems, WellFoundedInduction, TLAPS

LEMMA OtherPeer ==
  \A p \in Peers : Other(p) \in Peers /\ Other(p) # p /\ Other(Other(p)) = p
BY ConstantsAssumption DEF Peers, Other

\* What a peer puts on the wire is well-formed, from it, for the address it knows,
\* and carries the contents it was given.
LEMMA RawSendToShape ==
  ASSUME TypeOK, NEW p \in Peers, NEW addr \in Address \cup {NoAddr},
         NEW type \in WireType, NEW contents, contents \subseteq Pending
  PROVE  /\ RawSendTo(p, addr, type, contents) \subseteq Datagram
         /\ \A d \in RawSendTo(p, addr, type, contents) :
              /\ addr # NoAddr
              /\ d.from.peer = p
              /\ d.to = addr
              /\ d.type = type
              /\ \E c \in contents : d.seq = c.seq /\ d.blob = c.blob
<1> SUFFICES ASSUME NEW d \in RawSendTo(p, addr, type, contents)
             PROVE  /\ d \in Datagram
                    /\ addr # NoAddr
                    /\ d.from.peer = p
                    /\ d.to = addr
                    /\ d.type = type
                    /\ \E c \in contents : d.seq = c.seq /\ d.blob = c.blob
  OBVIOUS
<1>1. addr # NoAddr /\ addr \in Address
  BY DEF RawSendTo
<1>2. PICK c \in contents :
        d = [from |-> AddrOf(p), to |-> addr, type |-> type, seq |-> c.seq, blob |-> c.blob]
  BY <1>1 DEF RawSendTo
<1>3. c.seq \in Nat /\ c.blob \in Nat
  BY DEF Pending
<1>4. AddrOf(p) \in Address /\ AddrOf(p).peer = p
  BY DEF AddrOf, Address, TypeOK
<1>5. QED
  BY <1>1, <1>2, <1>3, <1>4 DEF Datagram

-----------------------------------------------------------------------------
(* Type correctness.                                                       *)

\* The part of TypeOK that a receive touches through Take.
LEMMA TakeTypes ==
  ASSUME TypeOK, NEW p \in Peers, NEW d \in net, NEW type,
         NEW replies, replies \subseteq Datagram, Take(p, d, type, replies)
  PROVE  /\ peerAddr' \in [Peers -> Address \cup {NoAddr}]
         /\ PeerSeen(p, d) \in Address \cup {NoAddr}
         /\ net' \subseteq Datagram
         /\ net' \subseteq net \cup replies
         /\ dups' \in Nat
<1>1. d.from \in Address
  BY DEF TypeOK, Datagram
<1>2. PeerSeen(p, d) \in Address \cup {NoAddr}
  BY <1>1 DEF PeerSeen, TypeOK
<1>3. QED
  BY <1>2 DEF Take, TypeOK

LEMMA TypeInit == Init => TypeOK
BY ConstantsAssumption DEF Init, TypeOK, ConnState, Peers

LEMMA TypeStep == TypeOK /\ [Next]_vars => TypeOK'
<1> SUFFICES ASSUME TypeOK, [Next]_vars PROVE TypeOK'
  OBVIOUS
<1> USE DEF endpointVars, historyVars, envVars
<1>1. CASE StartHost \/ ConnectToFails
  BY <1>1 DEF StartHost, ConnectToFails, TypeOK, ConnState, Peers
<1>2. CASE ConnectTo
  <2> DEFINE host == [peer |-> Host, port |-> 0]
             empty == {[seq |-> 0, blob |-> 0]}
  <2>1. host \in Address /\ Client \in Peers /\ empty \subseteq Pending
    BY DEF Address, Peers, Pending
  <2>2. "WT_Hello" \in WireType
    BY DEF WireType
  <2> HIDE DEF host, empty
  <2>3. RawSendTo(Client, host, "WT_Hello", empty) \subseteq Datagram
    BY <2>1, <2>2, RawSendToShape
  <2>4. net' = net \cup RawSendTo(Client, host, "WT_Hello", empty)
    BY <1>2 DEF ConnectTo, host, empty
  <2>5. state' \in [Peers -> ConnState] /\ peerAddr' \in [Peers -> Address \cup {NoAddr}]
    BY <1>2, <2>1 DEF ConnectTo, TypeOK, ConnState, host
  <2>6. QED
    BY <1>2, <2>3, <2>4, <2>5 DEF ConnectTo, TypeOK
<1>3. ASSUME NEW p \in Peers, Restart(p) PROVE TypeOK'
  BY <1>3 DEF Restart, TypeOK, ConnState
<1>4. ASSUME NEW p \in Peers, SendReliable(p) PROVE TypeOK'
  <2> DEFINE entry == [seq |-> nextSeq[p], blob |-> Len(sentSeq[p]) + 1]
  <2>1. entry \in Pending /\ Increment(nextSeq[p]) \in Nat
    BY DEF TypeOK, Pending, Increment
  <2>2. "WT_Reliable" \in WireType /\ peerAddr[p] \in Address \cup {NoAddr}
    BY DEF WireType, TypeOK
  <2>3. net' \subseteq Datagram
    <3>1. net' = net \cup RawSendTo(p, peerAddr[p], "WT_Reliable", {entry})
      BY <1>4 DEF SendReliable
    <3> HIDE DEF entry
    <3>2. RawSendTo(p, peerAddr[p], "WT_Reliable", {entry}) \subseteq Datagram
      BY <2>1, <2>2, RawSendToShape
    <3>3. QED
      BY <3>1, <3>2 DEF TypeOK
  <2>4. sentSeq' \in [Peers -> Seq(Nat)]
    <3>1. sentSeq[p] \in Seq(Nat) /\ nextSeq[p] \in Nat
      BY DEF TypeOK
    <3>2. Append(sentSeq[p], nextSeq[p]) \in Seq(Nat)
      BY <3>1
    <3>3. QED
      BY <1>4, <3>2 DEF SendReliable, TypeOK
  <2>5. pending' \in [Peers -> SUBSET Pending] /\ nextSeq' \in [Peers -> Nat]
    BY <1>4, <2>1 DEF SendReliable, TypeOK
  <2>6. QED
    BY <1>4, <2>3, <2>4, <2>5 DEF SendReliable, TypeOK
<1>5. ASSUME NEW p \in Peers, SendUnreliable(p) PROVE TypeOK'
  <2> DEFINE entry == [seq |-> 0, blob |-> sentU[p] + 1]
  <2>1. entry \in Pending
    BY DEF TypeOK, Pending
  <2>2. "WT_Unreliable" \in WireType /\ peerAddr[p] \in Address \cup {NoAddr}
    BY DEF WireType, TypeOK
  <2>3. net' = net \cup RawSendTo(p, peerAddr[p], "WT_Unreliable", {entry})
    BY <1>5 DEF SendUnreliable
  <2> HIDE DEF entry
  <2>4. RawSendTo(p, peerAddr[p], "WT_Unreliable", {entry}) \subseteq Datagram
    BY <2>1, <2>2, RawSendToShape
  <2>5. net' \subseteq Datagram
    BY <2>3, <2>4 DEF TypeOK
  <2>6. sentU' \in [Peers -> Nat]
    BY <1>5 DEF SendUnreliable, TypeOK
  <2>7. QED
    BY <1>5, <2>5, <2>6 DEF SendUnreliable, TypeOK
<1>6. ASSUME NEW p \in Peers, NEW expired \in SUBSET pending[p], ResendPending(p, expired)
      PROVE  TypeOK'
  <2>1. expired \subseteq Pending /\ peerAddr[p] \in Address \cup {NoAddr}
    BY DEF TypeOK
  <2>2. "WT_Reliable" \in WireType
    BY DEF WireType
  <2>3. RawSendTo(p, peerAddr[p], "WT_Reliable", expired) \subseteq Datagram
    BY <2>1, <2>2, RawSendToShape
  <2>4. QED
    BY <1>6, <2>3 DEF ResendPending, TypeOK
<1>7. ASSUME NEW p \in Peers, Receive(p) PROVE TypeOK'
  BY <1>7 DEF Receive, TypeOK
<1>8. ASSUME NEW d \in net, Lose(d) PROVE TypeOK'
  BY <1>8 DEF Lose, TypeOK
<1>9. ASSUME NEW p \in Peers, NEW d \in net, RecvHello(p, d) PROVE TypeOK'
  <2>1. Take(p, d, "WT_Hello", {})
    BY <1>9 DEF RecvHello
  <2>2. /\ peerAddr' \in [Peers -> Address \cup {NoAddr}]
        /\ net' \subseteq Datagram
        /\ dups' \in Nat
    BY <2>1, TakeTypes
  <2>3. QED
    BY <1>9, <2>2 DEF RecvHello, Connect, TypeOK, ConnState
<1>10. ASSUME NEW p \in Peers, NEW d \in net, RecvAck(p, d) PROVE TypeOK'
  <2>1. Take(p, d, "WT_Ack", {})
    BY <1>10 DEF RecvAck
  <2>2. /\ peerAddr' \in [Peers -> Address \cup {NoAddr}]
        /\ net' \subseteq Datagram
        /\ dups' \in Nat
    BY <2>1, TakeTypes
  <2>3. QED
    BY <1>10, <2>2 DEF RecvAck, Connect, TypeOK, ConnState
<1>11. ASSUME NEW p \in Peers, NEW d \in net, RecvUnreliable(p, d) PROVE TypeOK'
  <2>1. d.blob \in Nat
    BY DEF TypeOK, Datagram
  <2>2. Take(p, d, "WT_Unreliable", {})
    BY <1>11 DEF RecvUnreliable
  <2>3. /\ peerAddr' \in [Peers -> Address \cup {NoAddr}]
        /\ net' \subseteq Datagram
        /\ dups' \in Nat
    BY <2>2, TakeTypes
  <2>4. inboxU' \in [Peers -> Seq(Nat)]
    <3>1. Append(inboxU[p], d.blob) \in Seq(Nat)
      BY <2>1 DEF TypeOK
    <3>2. QED
      BY <1>11, <3>1 DEF RecvUnreliable, TypeOK
  <2>5. state' \in [Peers -> ConnState]
    BY <1>11 DEF RecvUnreliable, Connect, TypeOK, ConnState
  <2>6. QED
    BY <1>11, <2>3, <2>4, <2>5 DEF RecvUnreliable, TypeOK
<1>12. ASSUME NEW p \in Peers, NEW d \in net, RecvReliable(p, d) PROVE TypeOK'
  <2> DEFINE contents == {[seq |-> d.seq, blob |-> 0]}
             ack == RawSendTo(p, PeerSeen(p, d), "WT_Ack", contents)
  <2>1. d.blob \in Nat /\ d.seq \in Nat /\ d.from \in Address
    BY DEF TypeOK, Datagram
  <2>2. PeerSeen(p, d) \in Address \cup {NoAddr}
    BY <2>1 DEF PeerSeen, TypeOK
  <2>3. contents \subseteq Pending /\ "WT_Ack" \in WireType
    BY <2>1 DEF Pending, WireType
  <2>4. Take(p, d, "WT_Reliable", ack)
    BY <1>12 DEF RecvReliable
  <2> HIDE DEF contents
  <2>5. /\ peerAddr' \in [Peers -> Address \cup {NoAddr}]
        /\ net' \subseteq Datagram
        /\ dups' \in Nat
    <3>1. ack \subseteq Datagram
      BY <2>2, <2>3, RawSendToShape
    <3> HIDE DEF ack
    <3>2. QED
      BY <3>1, <2>4, TakeTypes
  <2>6. inbox' \in [Peers -> Seq(Nat)]
    <3>1. inbox[p] \in Seq(Nat) /\ Append(inbox[p], d.blob) \in Seq(Nat)
      BY <2>1 DEF TypeOK
    <3>2. QED
      BY <1>12, <3>1 DEF RecvReliable, TypeOK
  <2>7. state' \in [Peers -> ConnState] /\ recvReliable' \in [Peers -> SUBSET Nat]
    BY <1>12, <2>1 DEF RecvReliable, Connect, TypeOK, ConnState
  <2>8. had' \in [Peers -> SUBSET Nat]
    BY <1>12, <2>1 DEF RecvReliable, TypeOK
  <2>9. QED
    BY <1>12, <2>5, <2>6, <2>7, <2>8 DEF RecvReliable, TypeOK
<1>13. CASE UNCHANGED vars
  BY <1>13 DEF vars, TypeOK
<1>14. QED
  BY <1>1, <1>2, <1>3, <1>4, <1>5, <1>6, <1>7, <1>8, <1>9, <1>10, <1>11, <1>12, <1>13
  DEF Next

\* Every variable keeps its type in every reachable state of the two transports.
THEOREM TypeCorrect == Spec => []TypeOK
BY TypeInit, TypeStep, PTL DEF Spec

-----------------------------------------------------------------------------
(***************************************************************************)
(* At most once.  A blob keeps the sequence number it was sent with, on    *)
(* the wire and in m_pending (Numbered), and whatever is in an inbox has   *)
(* its number in m_recvReliable (Filtered): a datagram whose number is new *)
(* carries a blob that is new.  Only the other peer's datagrams reach a    *)
(* peer (Routed), so the numbers of the two directions never mix.          *)
(***************************************************************************)
Routed ==
  /\ \A d \in net : d.from.peer # d.to.peer
  /\ \A p \in Peers : peerAddr[p] # NoAddr => peerAddr[p].peer = Other(p)

Carries(p, c) == c.blob \in DOMAIN sentSeq[p] /\ sentSeq[p][c.blob] = c.seq

Numbered ==
  /\ \A d \in net : d.type = "WT_Reliable" => Carries(d.from.peer, d)
  /\ \A p \in Peers : \A e \in pending[p] : Carries(p, e)

Filtered ==
  \A p \in Peers : \A i \in DOMAIN inbox[p] :
    /\ inbox[p][i] \in DOMAIN sentSeq[Other(p)]
    /\ sentSeq[Other(p)][inbox[p][i]] \in recvReliable[p]

DedupInv == TypeOK /\ Routed /\ Numbered /\ Filtered /\ AtMostOnce

\* A peer receives only what the other one sent.
LEMMA TakeFrom ==
  ASSUME TypeOK, Routed, NEW p \in Peers, NEW d \in net, NEW type, NEW replies,
         Take(p, d, type, replies)
  PROVE  d.from.peer = Other(p) /\ d.type = type
<1>1. d.to.peer = p /\ d.type = type
  BY DEF Take, AddrOf
<1>2. d.from.peer \in Peers
  BY DEF TypeOK, Datagram, Address
<1>3. QED
  BY <1>1, <1>2 DEF Routed, Other, Peers

\* Routing survives a receive whose replies go to the peer just seen.
LEMMA TakeRouted ==
  ASSUME TypeOK, Routed, NEW p \in Peers, NEW d \in net, NEW type, NEW replies,
         Take(p, d, type, replies),
         \A r \in replies : r.from.peer = p /\ r.to = PeerSeen(p, d) /\ r.to # NoAddr
  PROVE  Routed'
<1>1. d.from.peer = Other(p)
  BY TakeFrom
<1>2. PeerSeen(p, d) # NoAddr => PeerSeen(p, d).peer = Other(p)
  BY <1>1 DEF PeerSeen, Routed
<1>3. \A q \in Peers : peerAddr'[q] # NoAddr => peerAddr'[q].peer = Other(q)
  BY <1>2 DEF Take, TypeOK, Routed
<1>4. \A r \in net' : r \in net \/ r \in replies
  BY DEF Take
<1>5. \A r \in net' : r.from.peer # r.to.peer
  BY <1>2, <1>4, OtherPeer DEF Routed
<1>6. QED
  BY <1>3, <1>5 DEF Routed

\* A send by p of what Carries allows keeps Routed and Numbered on the wire.
LEMMA SendWire ==
  ASSUME TypeOK, Routed, Numbered, NEW p \in Peers, NEW type \in WireType,
         NEW contents, contents \subseteq Pending,
         type = "WT_Reliable" => \A c \in contents : Carries(p, c),
         net' = net \cup RawSendTo(p, peerAddr[p], type, contents)
  PROVE  /\ \A d \in net' : d.from.peer # d.to.peer
         /\ \A d \in net' : d.type = "WT_Reliable" => Carries(d.from.peer, d)
<1> DEFINE new == RawSendTo(p, peerAddr[p], type, contents)
<1>1. peerAddr[p] \in Address \cup {NoAddr}
  BY DEF TypeOK
<1>2. \A d \in new :
        /\ peerAddr[p] # NoAddr
        /\ d.from.peer = p
        /\ d.to = peerAddr[p]
        /\ d.type = type
        /\ \E c \in contents : d.seq = c.seq /\ d.blob = c.blob
  BY <1>1, RawSendToShape
<1> HIDE DEF new
<1>3. \A d \in new : d.from.peer # d.to.peer
  BY <1>2, OtherPeer DEF Routed
<1>4. \A d \in new : d.type = "WT_Reliable" => Carries(d.from.peer, d)
  BY <1>2 DEF Carries
<1>5. net' = net \cup new
  BY DEF new
<1>6. QED
  BY <1>3, <1>4, <1>5 DEF Routed, Numbered

LEMMA DedupInit == Init => DedupInv
BY TypeInit DEF Init, DedupInv, Routed, Numbered, Filtered, AtMostOnce

\* Steps that touch neither the numbering nor the inboxes keep the rest.
LEMMA DedupFrame ==
  ASSUME DedupInv, TypeOK', Routed', UNCHANGED <<recvReliable, inbox, sentSeq>>,
         \A q \in Peers : pending'[q] \subseteq pending[q],
         \A d \in net' : d.type = "WT_Reliable" => Carries(d.from.peer, d)
  PROVE  DedupInv'
BY DEF DedupInv, Routed, Numbered, Filtered, AtMostOnce, Carries, TypeOK

LEMMA DedupStep == DedupInv /\ [Next]_vars => DedupInv'
<1> SUFFICES ASSUME DedupInv, [Next]_vars PROVE DedupInv'
  OBVIOUS
<1> USE DEF endpointVars, historyVars, envVars
<1>0. TypeOK /\ Routed /\ Numbered /\ Filtered /\ AtMostOnce /\ TypeOK'
  BY TypeStep DEF DedupInv
<1>w. \A d \in net : d.type = "WT_Reliable" => Carries(d.from.peer, d)
  BY <1>0 DEF Numbered
<1>1. CASE StartHost \/ ConnectToFails
  <2>1. Routed'
    BY <1>0, <1>1 DEF StartHost, ConnectToFails, Routed
  <2>2. QED
    BY <1>0, <1>1, <1>w, <2>1, DedupFrame DEF StartHost, ConnectToFails
<1>2. CASE ConnectTo
  <2> DEFINE host == [peer |-> Host, port |-> 0]
             empty == {[seq |-> 0, blob |-> 0]}
             hello == RawSendTo(Client, host, "WT_Hello", empty)
  <2>1. host \in Address /\ Client \in Peers /\ empty \subseteq Pending /\ "WT_Hello" \in WireType
    BY DEF Address, Peers, Pending, WireType
  <2>2. host.peer = Other(Client)
    BY ConstantsAssumption DEF Other
  <2>3. net' = net \cup hello
    BY <1>2 DEF ConnectTo
  <2>4. peerAddr' = [peerAddr EXCEPT ![Client] = host]
    BY <1>2 DEF ConnectTo
  <2> HIDE DEF host, empty
  <2>5. \A d \in hello : d.from.peer = Client /\ d.to = host /\ d.type = "WT_Hello"
    BY <1>0, <2>1, RawSendToShape
  <2> HIDE DEF hello
  <2>6. Routed'
    <3>1. Other(Client) # Client
      BY <2>1, OtherPeer
    <3>2. \A d \in net' : d.from.peer # d.to.peer
      BY <1>0, <2>2, <2>3, <2>5, <3>1 DEF Routed
    <3>3. \A q \in Peers : peerAddr'[q] # NoAddr => peerAddr'[q].peer = Other(q)
      BY <1>0, <2>2, <2>4 DEF Routed, TypeOK
    <3>4. QED
      BY <3>2, <3>3 DEF Routed
  <2>7. \A d \in net' : d.type = "WT_Reliable" => Carries(d.from.peer, d)
    BY <1>w, <2>3, <2>5
  <2>8. QED
    BY <1>0, <1>2, <2>6, <2>7, DedupFrame DEF ConnectTo
<1>3. ASSUME NEW p \in Peers, Restart(p) PROVE DedupInv'
  <2>1. Routed'
    BY <1>0, <1>3 DEF Restart, Routed, TypeOK
  <2>2. Numbered'
    BY <1>0, <1>3 DEF Restart, Numbered, Carries, TypeOK
  <2>3. /\ inbox'[p] = <<>>
        /\ \A q \in Peers : q # p => /\ inbox'[q] = inbox[q]
                                     /\ recvReliable'[q] = recvReliable[q]
        /\ sentSeq' = sentSeq
    BY <1>0, <1>3 DEF Restart, TypeOK
  <2>4. \A q \in Peers : \A i \in DOMAIN inbox'[q] : q # p
    BY <2>3
  <2>5. Filtered'
    BY <1>0, <2>3, <2>4 DEF Filtered
  <2>6. AtMostOnce'
    BY <1>0, <2>3, <2>4 DEF AtMostOnce
  <2>7. QED
    BY <1>0, <2>1, <2>2, <2>5, <2>6 DEF DedupInv
<1>4. ASSUME NEW p \in Peers, SendReliable(p) PROVE DedupInv'
  <2> DEFINE blob == Len(sentSeq[p]) + 1
             entry == [seq |-> nextSeq[p], blob |-> blob]
             new == RawSendTo(p, peerAddr[p], "WT_Reliable", {entry})
  <2>1. sentSeq[p] \in Seq(Nat) /\ nextSeq[p] \in Nat
    BY <1>0 DEF TypeOK
  <2>2. /\ sentSeq'[p] = Append(sentSeq[p], nextSeq[p])
        /\ \A q \in Peers : q # p => sentSeq'[q] = sentSeq[q]
    BY <1>0, <1>4 DEF SendReliable, TypeOK
  <2>3. \A q \in Peers : \A k \in DOMAIN sentSeq[q] :
          k \in DOMAIN sentSeq'[q] /\ sentSeq'[q][k] = sentSeq[q][k]
    <3>1. \A k \in DOMAIN sentSeq[p] :
            k \in DOMAIN sentSeq'[p] /\ sentSeq'[p][k] = sentSeq[p][k]
      BY <2>1, <2>2
    <3>2. QED
      BY <2>2, <3>1
  <2>4. blob \in DOMAIN sentSeq'[p] /\ sentSeq'[p][blob] = nextSeq[p]
    BY <2>1, <2>2
  <2>5. {entry} \subseteq Pending /\ "WT_Reliable" \in WireType
    BY <2>1 DEF Pending, WireType
  <2>6. peerAddr[p] \in Address \cup {NoAddr}
    BY <1>0 DEF TypeOK
  <2>7. net' = net \cup new /\ pending' = [pending EXCEPT ![p] = @ \cup {entry}]
    BY <1>4 DEF SendReliable
  <2>8. entry.seq = nextSeq[p] /\ entry.blob = blob
    OBVIOUS
  <2> HIDE DEF entry, blob
  <2>9. \A d \in new :
          /\ peerAddr[p] # NoAddr
          /\ d.from.peer = p
          /\ d.to = peerAddr[p]
          /\ d.seq = nextSeq[p]
          /\ d.blob = blob
    <3>1. \A d \in new :
            /\ peerAddr[p] # NoAddr
            /\ d.from.peer = p
            /\ d.to = peerAddr[p]
            /\ \E c \in {entry} : d.seq = c.seq /\ d.blob = c.blob
      BY <1>0, <2>5, <2>6, RawSendToShape
    <3>2. QED
      BY <3>1, <2>8
  <2> HIDE DEF new
  <2>10. Routed'
    <3>1. UNCHANGED peerAddr
      BY <1>4 DEF SendReliable
    <3>2. QED
      BY <1>0, <2>7, <2>9, <3>1, OtherPeer DEF Routed
  <2>11. \A d \in net : d.from.peer \in Peers
    BY <1>0 DEF TypeOK, Datagram, Address
  <2>12. Numbered'
    <3>1. \A d \in net' : d.type = "WT_Reliable" => Carries(d.from.peer, d)'
      BY <1>w, <2>3, <2>4, <2>7, <2>9, <2>11 DEF Carries
    <3>2. \A q \in Peers : \A e \in pending'[q] : Carries(q, e)'
      <4> SUFFICES ASSUME NEW q \in Peers, NEW e \in pending'[q] PROVE Carries(q, e)'
        OBVIOUS
      <4>1. e \in pending[q] \/ (q = p /\ e = entry)
        BY <1>0, <2>7 DEF TypeOK
      <4>2. CASE e \in pending[q]
        BY <1>0, <2>3, <4>2 DEF Carries, Numbered
      <4>3. CASE q = p /\ e = entry
        BY <2>4, <2>8, <4>3 DEF Carries
      <4>4. QED
        BY <4>1, <4>2, <4>3
    <3>3. QED
      BY <3>1, <3>2 DEF Numbered, Carries
  <2>13. Filtered' /\ AtMostOnce'
    <3>1. UNCHANGED <<inbox, recvReliable>>
      BY <1>4 DEF SendReliable
    <3>2. QED
      BY <1>0, <2>3, <3>1, OtherPeer DEF Filtered, AtMostOnce
  <2>14. QED
    BY <1>0, <2>10, <2>12, <2>13 DEF DedupInv
<1>5. ASSUME NEW p \in Peers, SendUnreliable(p) PROVE DedupInv'
  <2> DEFINE entry == [seq |-> 0, blob |-> sentU[p] + 1]
  <2>1. {entry} \subseteq Pending /\ "WT_Unreliable" \in WireType
    BY <1>0 DEF Pending, WireType, TypeOK
  <2>2. net' = net \cup RawSendTo(p, peerAddr[p], "WT_Unreliable", {entry})
    BY <1>5 DEF SendUnreliable
  <2> HIDE DEF entry
  <2>3. /\ \A d \in net' : d.from.peer # d.to.peer
        /\ \A d \in net' : d.type = "WT_Reliable" => Carries(d.from.peer, d)
    BY <1>0, <2>1, <2>2, SendWire
  <2>4. Routed'
    BY <1>0, <1>5, <2>3 DEF SendUnreliable, Routed
  <2>5. QED
    BY <1>0, <1>5, <2>3, <2>4, DedupFrame DEF SendUnreliable
<1>6. ASSUME NEW p \in Peers, NEW expired \in SUBSET pending[p], ResendPending(p, expired)
      PROVE  DedupInv'
  <2>1. expired \subseteq Pending /\ "WT_Reliable" \in WireType
    BY <1>0 DEF WireType, TypeOK
  <2>2. \A c \in expired : Carries(p, c)
    BY <1>0 DEF Numbered
  <2>3. net' = net \cup RawSendTo(p, peerAddr[p], "WT_Reliable", expired)
    BY <1>6 DEF ResendPending
  <2>4. /\ \A d \in net' : d.from.peer # d.to.peer
        /\ \A d \in net' : d.type = "WT_Reliable" => Carries(d.from.peer, d)
    BY <1>0, <2>1, <2>2, <2>3, SendWire
  <2>5. Routed'
    BY <1>0, <1>6, <2>4 DEF ResendPending, Routed
  <2>6. QED
    BY <1>0, <1>6, <2>4, <2>5, DedupFrame DEF ResendPending
<1>7. ASSUME NEW p \in Peers, Receive(p) PROVE DedupInv'
  <2>1. Routed'
    BY <1>0, <1>7 DEF Receive, Routed
  <2>2. QED
    BY <1>0, <1>7, <1>w, <2>1, DedupFrame DEF Receive
<1>8. ASSUME NEW d \in net, Lose(d) PROVE DedupInv'
  <2>1. Routed' /\ net' \subseteq net
    BY <1>0, <1>8 DEF Lose, Routed
  <2>2. QED
    BY <1>0, <1>8, <1>w, <2>1, DedupFrame DEF Lose
<1>t. ASSUME NEW p \in Peers, NEW d \in net, NEW type, Take(p, d, type, {})
      PROVE  Routed' /\ net' \subseteq net
  <2>1. \A r \in {} : r.from.peer = p /\ r.to = PeerSeen(p, d) /\ r.to # NoAddr
    OBVIOUS
  <2>2. Routed'
    BY <1>0, <1>t, <2>1, TakeRouted
  <2>3. QED
    BY <1>t, <2>2 DEF Take
<1>9. ASSUME NEW p \in Peers, NEW d \in net, RecvHello(p, d) PROVE DedupInv'
  <2>1. Routed' /\ net' \subseteq net
    BY <1>9, <1>t DEF RecvHello
  <2>2. QED
    BY <1>0, <1>9, <1>w, <2>1, DedupFrame DEF RecvHello
<1>10. ASSUME NEW p \in Peers, NEW d \in net, RecvAck(p, d) PROVE DedupInv'
  <2>1. Routed' /\ net' \subseteq net
    BY <1>10, <1>t DEF RecvAck
  <2>2. \A q \in Peers : pending'[q] \subseteq pending[q]
    BY <1>0, <1>10 DEF RecvAck, TypeOK
  <2>3. QED
    BY <1>0, <1>10, <1>w, <2>1, <2>2, DedupFrame DEF RecvAck
<1>11. ASSUME NEW p \in Peers, NEW d \in net, RecvUnreliable(p, d) PROVE DedupInv'
  <2>1. Routed' /\ net' \subseteq net
    BY <1>11, <1>t DEF RecvUnreliable
  <2>2. QED
    BY <1>0, <1>11, <1>w, <2>1, DedupFrame DEF RecvUnreliable
<1>12. ASSUME NEW p \in Peers, NEW d \in net, RecvReliable(p, d) PROVE DedupInv'
  <2> DEFINE contents == {[seq |-> d.seq, blob |-> 0]}
             ack == RawSendTo(p, PeerSeen(p, d), "WT_Ack", contents)
  <2>1. Take(p, d, "WT_Reliable", ack)
    BY <1>12 DEF RecvReliable
  <2>2. d.from.peer = Other(p) /\ d.type = "WT_Reliable"
    BY <1>0, <2>1, TakeFrom
  <2>3. contents \subseteq Pending /\ "WT_Ack" \in WireType
    BY <1>0 DEF Pending, WireType, TypeOK, Datagram
  <2>4. PeerSeen(p, d) \in Address \cup {NoAddr}
    BY <1>0 DEF PeerSeen, TypeOK, Datagram
  <2> HIDE DEF contents
  <2>5. \A r \in ack : /\ r.from.peer = p
                       /\ r.to = PeerSeen(p, d)
                       /\ r.to # NoAddr
                       /\ r.type = "WT_Ack"
    <3>1. \A r \in ack : /\ PeerSeen(p, d) # NoAddr
                         /\ r.from.peer = p
                         /\ r.to = PeerSeen(p, d)
                         /\ r.type = "WT_Ack"
      BY <1>0, <2>3, <2>4, RawSendToShape
    <3>2. QED
      BY <3>1
  <2> HIDE DEF ack
  <2>6. Routed'
    BY <1>0, <2>1, <2>5, TakeRouted
  <2>7. net' \subseteq net \cup ack
    BY <2>1 DEF Take
  <2>8. Numbered'
    BY <1>0, <1>12, <2>5, <2>7 DEF RecvReliable, Numbered, Carries
  <2>9. Carries(Other(p), d)
    BY <1>w, <2>2
  <2>10. recvReliable' = [recvReliable EXCEPT ![p] = @ \cup {d.seq}] /\ UNCHANGED sentSeq
    BY <1>12 DEF RecvReliable
  <2>11. CASE d.seq \in recvReliable[p]
    <3>1. inbox' = inbox
      BY <1>0, <1>12, <2>11 DEF RecvReliable, TypeOK
    <3>2. Filtered' /\ AtMostOnce'
      BY <1>0, <2>10, <3>1 DEF Filtered, AtMostOnce, TypeOK
    <3>3. QED
      BY <1>0, <2>6, <2>8, <3>2 DEF DedupInv
  <2>12. CASE d.seq \notin recvReliable[p]
    <3>1. inbox' = [inbox EXCEPT ![p] = Append(@, d.blob)]
      BY <1>12, <2>12 DEF RecvReliable
    <3>2. inbox[p] \in Seq(Nat) /\ d.blob \in Nat
      BY <1>0 DEF TypeOK, Datagram
    <3>3. /\ inbox'[p] = Append(inbox[p], d.blob)
          /\ \A q \in Peers : q # p => inbox'[q] = inbox[q]
      BY <1>0, <3>1 DEF TypeOK
    <3>4. \A i \in DOMAIN inbox'[p] :
            \/ i \in DOMAIN inbox[p] /\ inbox'[p][i] = inbox[p][i]
            \/ i = Len(inbox[p]) + 1 /\ inbox'[p][i] = d.blob
      BY <3>2, <3>3
    <3>5. \A i \in DOMAIN inbox[p] : inbox[p][i] # d.blob
      BY <1>0, <2>9, <2>12 DEF Filtered, Carries
    <3>6. Filtered'
      <4>1. \A q \in Peers : recvReliable[q] \subseteq recvReliable'[q]
        BY <1>0, <2>10 DEF TypeOK
      <4>2. d.seq \in recvReliable'[p]
        BY <1>0, <2>10 DEF TypeOK
      <4>3. \A i \in DOMAIN inbox'[p] :
              /\ inbox'[p][i] \in DOMAIN sentSeq[Other(p)]
              /\ sentSeq[Other(p)][inbox'[p][i]] \in recvReliable'[p]
        BY <1>0, <2>9, <3>4, <4>1, <4>2 DEF Filtered, Carries
      <4>4. QED
        BY <1>0, <2>10, <3>3, <4>1, <4>3 DEF Filtered
    <3>7. AtMostOnce'
      BY <1>0, <3>3, <3>4, <3>5 DEF AtMostOnce
    <3>8. QED
      BY <1>0, <2>6, <2>8, <3>6, <3>7 DEF DedupInv
  <2>13. QED
    BY <2>11, <2>12
<1>13. CASE UNCHANGED vars
  BY <1>0, <1>13 DEF vars, DedupInv, Routed, Numbered, Filtered, AtMostOnce, Carries
<1>14. QED
  BY <1>1, <1>2, <1>3, <1>4, <1>5, <1>6, <1>7, <1>8, <1>9, <1>10, <1>11, <1>12, <1>13
  DEF Next

\* No reliable blob is handed over twice, for any number of sends, duplicates,
\* restarts, and when the sequence numbers wrap: m_recvReliable filters them all.
THEOREM NeverTwice == Spec => []AtMostOnce
<1>1. DedupInv => AtMostOnce
  BY DEF DedupInv
<1>2. QED
  BY <1>1, DedupInit, DedupStep, PTL DEF Spec

-----------------------------------------------------------------------------
(* Delivery: what is acknowledged was received.                            *)

NoRestarts == MayRestart = {}
NoWrap == \A p \in Peers : MaxReliable[p] + 1 < SeqSpace

(***************************************************************************)
(* An acknowledgement names a number, a blob is lost if the number was     *)
(* that of another blob.  Without wrap-around the number of a blob is its  *)
(* place (Counted), so a number in m_recvReliable stands for a blob in the *)
(* inbox (Seen), and an acknowledgement in flight for a number in its      *)
(* sender's m_recvReliable (Acked).                                        *)
(***************************************************************************)
Counted ==
  \A p \in Peers :
    /\ nextSeq[p] = Len(sentSeq[p]) + 1
    /\ Len(sentSeq[p]) <= MaxReliable[p]
    /\ \A k \in DOMAIN sentSeq[p] : sentSeq[p][k] = k

Seen == \A p \in Peers : recvReliable[p] \subseteq Received(p)

Acked == \A d \in net : d.type = "WT_Ack" => d.seq \in recvReliable[d.from.peer]

DeliveryInv == DedupInv /\ Counted /\ Seen /\ Acked /\ NoBlobLost

LEMMA DeliveryInit == Init => DeliveryInv
BY DedupInit, ConstantsAssumption DEF Init, DeliveryInv, Counted, Seen, Acked, NoBlobLost, Peers

\* Steps that touch neither the numbering, the inboxes nor m_pending, and put no
\* acknowledgement on the wire.
LEMMA DeliveryFrame ==
  ASSUME DeliveryInv, DedupInv',
         UNCHANGED <<nextSeq, pending, recvReliable, inbox, sentSeq>>,
         \A d \in net' : d.type = "WT_Ack" => d \in net
  PROVE  DeliveryInv'
BY DEF DeliveryInv, Counted, Seen, Acked, NoBlobLost, Received

\* What Take leaves in the network was there, or is a reply.
LEMMA TakeNet ==
  ASSUME NEW p \in Peers, NEW d \in net, NEW type, NEW replies, Take(p, d, type, replies)
  PROVE  net' \subseteq net \cup replies
BY DEF Take

\* Nothing but an acknowledgement comes out of a send of another type.
LEMMA SendsNoAck ==
  ASSUME TypeOK, NEW p \in Peers, NEW addr \in Address \cup {NoAddr}, NEW type \in WireType,
         type # "WT_Ack", NEW contents, contents \subseteq Pending,
         net' = net \cup RawSendTo(p, addr, type, contents)
  PROVE  \A d \in net' : d.type = "WT_Ack" => d \in net
<1>1. \A d \in RawSendTo(p, addr, type, contents) : d.type = type
  BY RawSendToShape
<1>2. QED
  BY <1>1

\* An acknowledged entry of m_pending carries a blob the other peer has.
LEMMA AckedBlob ==
  ASSUME DeliveryInv, NEW p \in Peers, NEW d \in net, RecvAck(p, d),
         NEW e \in pending[p], e \notin pending'[p]
  PROVE  e.blob \in Received(Other(p))
<1>1. TypeOK /\ Routed /\ Numbered
  BY DEF DeliveryInv, DedupInv
<1>2. Take(p, d, "WT_Ack", {})
  BY DEF RecvAck
<1>3. d.from.peer = Other(p) /\ d.type = "WT_Ack"
  BY <1>1, <1>2, TakeFrom
<1>4. d.seq \in Received(Other(p))
  BY <1>3, OtherPeer DEF DeliveryInv, Acked, Seen
<1>5. e.seq = d.seq
  BY <1>1 DEF RecvAck, TypeOK
<1>6. Carries(p, e)
  BY <1>1 DEF Numbered
<1>7. e.blob = e.seq
  BY <1>6 DEF Carries, DeliveryInv, Counted
<1>8. QED
  BY <1>4, <1>5, <1>7

LEMMA DeliveryStep ==
  ASSUME NoRestarts, NoWrap
  PROVE  DeliveryInv /\ [Next]_vars => DeliveryInv'
<1> SUFFICES ASSUME DeliveryInv, [Next]_vars PROVE DeliveryInv'
  OBVIOUS
<1> USE DEF endpointVars, historyVars, envVars
<1>0. DedupInv /\ DedupInv' /\ TypeOK /\ Routed /\ Numbered
  BY DedupStep DEF DeliveryInv, DedupInv
<1>1. CASE StartHost \/ ConnectToFails
  BY <1>0, <1>1, DeliveryFrame DEF StartHost, ConnectToFails
<1>2. CASE ConnectTo
  <2> DEFINE host == [peer |-> Host, port |-> 0]
             empty == {[seq |-> 0, blob |-> 0]}
  <2>1. host \in Address /\ Client \in Peers /\ empty \subseteq Pending /\ "WT_Hello" \in WireType
    BY DEF Address, Peers, Pending, WireType
  <2>2. net' = net \cup RawSendTo(Client, host, "WT_Hello", empty)
    BY <1>2 DEF ConnectTo
  <2> HIDE DEF host, empty
  <2>3. \A d \in net' : d.type = "WT_Ack" => d \in net
    BY <1>0, <2>1, <2>2, SendsNoAck
  <2>4. QED
    BY <1>0, <1>2, <2>3, DeliveryFrame DEF ConnectTo
<1>3. ASSUME NEW p \in Peers, Restart(p) PROVE FALSE
  BY <1>3 DEF Restart, NoRestarts
<1>4. ASSUME NEW p \in Peers, SendReliable(p) PROVE DeliveryInv'
  <2> DEFINE blob == Len(sentSeq[p]) + 1
             entry == [seq |-> nextSeq[p], blob |-> blob]
  <2>1. sentSeq[p] \in Seq(Nat) /\ nextSeq[p] = blob /\ blob \in Nat
    BY <1>0 DEF TypeOK, DeliveryInv, Counted
  <2>2. /\ sentSeq'[p] = Append(sentSeq[p], blob)
        /\ \A q \in Peers : q # p => sentSeq'[q] = sentSeq[q]
    BY <1>0, <1>4, <2>1 DEF SendReliable, TypeOK
  <2>3. /\ Len(sentSeq'[p]) = blob
        /\ DOMAIN sentSeq'[p] = DOMAIN sentSeq[p] \cup {blob}
        /\ sentSeq'[p][blob] = blob
        /\ \A k \in DOMAIN sentSeq[p] : sentSeq'[p][k] = sentSeq[p][k]
    BY <2>1, <2>2
  <2>4. Counted'
    <3>1. blob <= MaxReliable[p] /\ MaxReliable[p] \in Nat
      BY <1>4, <2>1, ConstantsAssumption DEF SendReliable
    <3>2. Increment(blob) = blob + 1
      BY <2>1, <3>1, ConstantsAssumption DEF Increment, NoWrap
    <3>3. /\ nextSeq'[p] = blob + 1
          /\ \A q \in Peers : q # p => nextSeq'[q] = nextSeq[q]
      BY <1>0, <1>4, <2>1, <3>2 DEF SendReliable, TypeOK
    <3>4. \A k \in DOMAIN sentSeq'[p] : sentSeq'[p][k] = k
      BY <2>3 DEF DeliveryInv, Counted
    <3>5. QED
      BY <2>2, <2>3, <3>1, <3>3, <3>4 DEF DeliveryInv, Counted
  <2>5. Seen'
    BY <1>4 DEF SendReliable, DeliveryInv, Seen, Received
  <2>6. Acked'
    <3>1. {entry} \subseteq Pending /\ "WT_Reliable" \in WireType
      BY <2>1 DEF Pending, WireType
    <3>2. peerAddr[p] \in Address \cup {NoAddr}
      BY <1>0 DEF TypeOK
    <3>3. net' = net \cup RawSendTo(p, peerAddr[p], "WT_Reliable", {entry})
      BY <1>4 DEF SendReliable
    <3> HIDE DEF entry
    <3>4. \A d \in net' : d.type = "WT_Ack" => d \in net
      BY <1>0, <3>1, <3>2, <3>3, SendsNoAck
    <3>5. QED
      BY <1>4, <3>4 DEF SendReliable, DeliveryInv, Acked
  <2>7. NoBlobLost'
    <3>1. \A q \in Peers : pending[q] \subseteq pending'[q]
      BY <1>0, <1>4 DEF SendReliable, TypeOK
    <3>2. entry \in pending'[p] /\ entry.blob = blob
      BY <1>0, <1>4 DEF SendReliable, TypeOK
    <3>3. UNCHANGED inbox
      BY <1>4 DEF SendReliable
    <3> SUFFICES ASSUME NEW q \in Peers, NEW k \in DOMAIN sentSeq'[q]
                 PROVE  k \in Received(Other(q))' \/ \E e \in pending'[q] : e.blob = k
      BY DEF NoBlobLost
    <3>4. k \in DOMAIN sentSeq[q] \/ (q = p /\ k = blob)
      BY <2>2, <2>3
    <3>5. CASE k \in DOMAIN sentSeq[q]
      BY <3>1, <3>3, <3>5 DEF DeliveryInv, NoBlobLost, Received
    <3>6. CASE q = p /\ k = blob
      BY <3>2, <3>6
    <3>7. QED
      BY <3>4, <3>5, <3>6
  <2>8. QED
    BY <1>0, <2>4, <2>5, <2>6, <2>7 DEF DeliveryInv
<1>5. ASSUME NEW p \in Peers, SendUnreliable(p) PROVE DeliveryInv'
  <2> DEFINE entry == [seq |-> 0, blob |-> sentU[p] + 1]
  <2>1. {entry} \subseteq Pending /\ "WT_Unreliable" \in WireType
    BY <1>0 DEF Pending, WireType, TypeOK
  <2>2. peerAddr[p] \in Address \cup {NoAddr}
    BY <1>0 DEF TypeOK
  <2>3. net' = net \cup RawSendTo(p, peerAddr[p], "WT_Unreliable", {entry})
    BY <1>5 DEF SendUnreliable
  <2> HIDE DEF entry
  <2>4. \A d \in net' : d.type = "WT_Ack" => d \in net
    BY <1>0, <2>1, <2>2, <2>3, SendsNoAck
  <2>5. QED
    BY <1>0, <1>5, <2>4, DeliveryFrame DEF SendUnreliable
<1>6. ASSUME NEW p \in Peers, NEW expired \in SUBSET pending[p], ResendPending(p, expired)
      PROVE  DeliveryInv'
  <2>1. /\ expired \subseteq Pending
        /\ "WT_Reliable" \in WireType
        /\ peerAddr[p] \in Address \cup {NoAddr}
    BY <1>0 DEF WireType, TypeOK
  <2>2. net' = net \cup RawSendTo(p, peerAddr[p], "WT_Reliable", expired)
    BY <1>6 DEF ResendPending
  <2>3. \A d \in net' : d.type = "WT_Ack" => d \in net
    BY <1>0, <2>1, <2>2, SendsNoAck
  <2>4. QED
    BY <1>0, <1>6, <2>3, DeliveryFrame DEF ResendPending
<1>7. ASSUME NEW p \in Peers, Receive(p) PROVE DeliveryInv'
  BY <1>0, <1>7, DeliveryFrame DEF Receive
<1>8. ASSUME NEW d \in net, Lose(d) PROVE DeliveryInv'
  BY <1>0, <1>8, DeliveryFrame DEF Lose
<1>9. ASSUME NEW p \in Peers, NEW d \in net, RecvHello(p, d) PROVE DeliveryInv'
  BY <1>0, <1>9, TakeNet, DeliveryFrame DEF RecvHello
<1>10. ASSUME NEW p \in Peers, NEW d \in net, RecvAck(p, d) PROVE DeliveryInv'
  <2>1. net' \subseteq net
    BY <1>10, TakeNet DEF RecvAck
  <2>2. UNCHANGED <<nextSeq, recvReliable, inbox, sentSeq>>
    BY <1>10 DEF RecvAck
  <2>3. \A q \in Peers : q # p => pending'[q] = pending[q]
    BY <1>0, <1>10 DEF RecvAck, TypeOK
  <2>4. \A e \in pending[p] : e \in pending'[p] \/ e.blob \in Received(Other(p))
    BY <1>10, AckedBlob DEF DeliveryInv
  <2>5. NoBlobLost'
    BY <2>2, <2>3, <2>4 DEF DeliveryInv, NoBlobLost, Received
  <2>6. Counted' /\ Seen' /\ Acked'
    BY <2>1, <2>2 DEF DeliveryInv, Counted, Seen, Acked, Received
  <2>7. QED
    BY <1>0, <2>5, <2>6 DEF DeliveryInv
<1>11. ASSUME NEW p \in Peers, NEW d \in net, RecvUnreliable(p, d) PROVE DeliveryInv'
  BY <1>0, <1>11, TakeNet, DeliveryFrame DEF RecvUnreliable
<1>12. ASSUME NEW p \in Peers, NEW d \in net, RecvReliable(p, d) PROVE DeliveryInv'
  <2> DEFINE contents == {[seq |-> d.seq, blob |-> 0]}
             ack == RawSendTo(p, PeerSeen(p, d), "WT_Ack", contents)
  <2>1. Take(p, d, "WT_Reliable", ack)
    BY <1>12 DEF RecvReliable
  <2>2. d.from.peer = Other(p) /\ d.type = "WT_Reliable"
    BY <1>0, <2>1, TakeFrom
  <2>3. contents \subseteq Pending /\ "WT_Ack" \in WireType
    BY <1>0 DEF Pending, WireType, TypeOK, Datagram
  <2>4. PeerSeen(p, d) \in Address \cup {NoAddr}
    BY <1>0 DEF PeerSeen, TypeOK, Datagram
  <2>5. \A c \in contents : c.seq = d.seq
    OBVIOUS
  <2> HIDE DEF contents
  <2>6. \A r \in ack : r.from.peer = p /\ r.seq = d.seq
    <3>1. \A r \in ack : r.from.peer = p /\ \E c \in contents : r.seq = c.seq /\ r.blob = c.blob
      BY <1>0, <2>3, <2>4, RawSendToShape
    <3>2. QED
      BY <2>5, <3>1
  <2> HIDE DEF ack
  <2>7. net' \subseteq net \cup ack
    BY <2>1, TakeNet
  <2>8. /\ recvReliable'[p] = recvReliable[p] \cup {d.seq}
        /\ \A q \in Peers : q # p => recvReliable'[q] = recvReliable[q] /\ inbox'[q] = inbox[q]
        /\ UNCHANGED <<nextSeq, pending, sentSeq>>
    BY <1>0, <1>12 DEF RecvReliable, TypeOK
  <2>9. d.blob = d.seq
    BY <1>0, <2>2, OtherPeer DEF Numbered, Carries, DeliveryInv, Counted
  <2>10. Received(p) \subseteq Received(p)' /\ d.seq \in Received(p)'
    <3>1. inbox[p] \in Seq(Nat) /\ d.blob \in Nat
      BY <1>0 DEF TypeOK, Datagram
    <3>2. CASE d.seq \in recvReliable[p]
      <4>1. inbox'[p] = inbox[p]
        BY <1>0, <1>12, <3>2 DEF RecvReliable, TypeOK
      <4>2. QED
        BY <3>2, <4>1 DEF DeliveryInv, Seen, Received
    <3>3. CASE d.seq \notin recvReliable[p]
      <4>1. inbox'[p] = Append(inbox[p], d.blob)
        BY <1>0, <1>12, <3>3 DEF RecvReliable, TypeOK
      <4>2. /\ \A i \in DOMAIN inbox[p] : i \in DOMAIN inbox'[p] /\ inbox'[p][i] = inbox[p][i]
            /\ Len(inbox[p]) + 1 \in DOMAIN inbox'[p]
            /\ inbox'[p][Len(inbox[p]) + 1] = d.blob
        BY <3>1, <4>1
      <4>3. QED
        BY <2>9, <4>2 DEF Received
    <3>4. QED
      BY <3>2, <3>3
  <2>11. \A q \in Peers : Received(q) \subseteq Received(q)'
    BY <2>8, <2>10 DEF Received
  <2>12. Counted'
    BY <2>8 DEF DeliveryInv, Counted
  <2>13. Seen'
    <3>1. recvReliable'[p] \subseteq Received(p)'
      BY <2>8, <2>10 DEF DeliveryInv, Seen
    <3>2. \A q \in Peers : q # p => recvReliable'[q] \subseteq Received(q)'
      BY <2>8, <2>11 DEF DeliveryInv, Seen
    <3>3. QED
      BY <3>1, <3>2 DEF Seen
  <2>14. Acked'
    <3>1. \A q \in Peers : recvReliable[q] \subseteq recvReliable'[q]
      BY <2>8
    <3>2. \A r \in net : r.from.peer \in Peers
      BY <1>0 DEF TypeOK, Datagram, Address
    <3>3. QED
      BY <2>6, <2>7, <2>8, <3>1, <3>2 DEF DeliveryInv, Acked
  <2>15. NoBlobLost'
    BY <2>8, <2>11, OtherPeer DEF DeliveryInv, NoBlobLost
  <2>16. QED
    BY <1>0, <2>12, <2>13, <2>14, <2>15 DEF DeliveryInv
<1>13. CASE UNCHANGED vars
  BY <1>0, <1>13, DeliveryFrame DEF vars
<1>14. QED
  BY <1>1, <1>2, <1>3, <1>4, <1>5, <1>6, <1>7, <1>8, <1>9, <1>10, <1>11, <1>12, <1>13
  DEF Next

\* A reliable blob stays in m_pending until the other peer has it, for any number
\* of sends, losses and duplicates.
THEOREM NothingLost ==
  ASSUME NoRestarts, NoWrap
  PROVE  Spec => []NoBlobLost
<1>1. DeliveryInv => NoBlobLost
  BY DEF DeliveryInv
<1>2. QED
  BY <1>1, DeliveryInit, DeliveryStep, PTL DEF Spec

-----------------------------------------------------------------------------
(***************************************************************************)
(* Refinement.  The abstract link counts the sends (Len of sentSeq) and    *)
(* keeps what arrived (inbox).  SendReliable is its Send; RecvReliable is  *)
(* its Arrive when the number is new; every other step stutters.  That the *)
(* blob was sent and is new is what Numbered and Filtered say.             *)
(***************************************************************************)
LEMMA LinkInit == Init => Link!Init
BY DEF Init, Link!Init, Peers, Link!Peers

LEMMA LinkStep ==
  ASSUME NoRestarts
  PROVE  DedupInv /\ [Next]_vars => [Link!Next]_(Link!vars)
<1> SUFFICES ASSUME DedupInv, [Next]_vars PROVE [Link!Next]_(Link!vars)
  OBVIOUS
<1> USE DEF endpointVars, historyVars, envVars
<1>0. TypeOK /\ Numbered /\ Filtered /\ Routed
  BY DEF DedupInv
<1>a. Link!Peers = Peers /\ \A p \in Peers : Link!Other(p) = Other(p)
  BY DEF Link!Peers, Peers, Link!Other, Other
<1>1. ASSUME UNCHANGED <<sentSeq, inbox>> PROVE UNCHANGED Link!vars
  BY <1>1 DEF Link!vars
<1>2. CASE StartHost \/ ConnectTo \/ ConnectToFails
  BY <1>1, <1>2 DEF StartHost, ConnectTo, ConnectToFails
<1>3. ASSUME NEW p \in Peers, Restart(p) PROVE FALSE
  BY <1>3 DEF Restart, NoRestarts
<1>4. ASSUME NEW p \in Peers,
             \/ SendUnreliable(p)
             \/ Receive(p)
             \/ \E expired \in SUBSET pending[p] : ResendPending(p, expired)
      PROVE  UNCHANGED Link!vars
  BY <1>1, <1>4 DEF SendUnreliable, Receive, ResendPending
<1>5. ASSUME NEW p \in Peers, SendReliable(p) PROVE Link!Send(p)
  <2>1. sentSeq[p] \in Seq(Nat)
    BY <1>0 DEF TypeOK
  <2>2. /\ Len(sentSeq'[p]) = Len(sentSeq[p]) + 1
        /\ \A q \in Peers : q # p => sentSeq'[q] = sentSeq[q]
    BY <1>0, <1>5, <2>1 DEF SendReliable, TypeOK
  <2>3. UNCHANGED inbox
    BY <1>5 DEF SendReliable
  <2>4. [q \in Peers |-> Len(sentSeq'[q])]
          = [[q \in Peers |-> Len(sentSeq[q])] EXCEPT ![p] = @ + 1]
    BY <2>2
  <2>5. QED
    BY <2>3, <2>4 DEF Link!Send
<1>6. ASSUME NEW p \in Peers, NEW d \in net,
             Lose(d) \/ RecvHello(p, d) \/ RecvAck(p, d) \/ RecvUnreliable(p, d)
      PROVE  UNCHANGED Link!vars
  BY <1>1, <1>6 DEF Lose, RecvHello, RecvAck, RecvUnreliable
<1>7. ASSUME NEW p \in Peers, NEW d \in net, RecvReliable(p, d)
      PROVE  Link!Arrive(p, d.blob) \/ UNCHANGED Link!vars
  <2> DEFINE ack == RawSendTo(p, PeerSeen(p, d), "WT_Ack", {[seq |-> d.seq, blob |-> 0]})
  <2>1. Take(p, d, "WT_Reliable", ack) /\ UNCHANGED sentSeq
    BY <1>7 DEF RecvReliable
  <2> HIDE DEF ack
  <2>2. d.from.peer = Other(p) /\ d.type = "WT_Reliable"
    BY <1>0, <2>1, TakeFrom
  <2>3. Carries(Other(p), d)
    BY <1>0, <2>2 DEF Numbered
  <2>4. CASE d.seq \in recvReliable[p]
    <3>1. inbox' = inbox
      BY <1>0, <1>7, <2>4 DEF RecvReliable, TypeOK
    <3>2. QED
      BY <1>1, <2>1, <3>1
  <2>5. CASE d.seq \notin recvReliable[p]
    <3>1. inbox' = [inbox EXCEPT ![p] = Append(@, d.blob)]
      BY <1>7, <2>5 DEF RecvReliable
    <3>2. sentSeq[Other(p)] \in Seq(Nat)
      BY <1>0, OtherPeer DEF TypeOK
    <3>3. d.blob \in 1 .. Len(sentSeq[Other(p)])
      BY <2>3, <3>2 DEF Carries
    <3>4. \A i \in DOMAIN inbox[p] : inbox[p][i] # d.blob
      BY <1>0, <2>3, <2>5 DEF Filtered, Carries
    <3>5. QED
      BY <1>a, <2>1, <3>1, <3>3, <3>4, OtherPeer DEF Link!Arrive
  <2>6. QED
    BY <2>4, <2>5
<1>8. CASE UNCHANGED vars
  BY <1>1, <1>8 DEF vars
<1>9. \A p \in Peers, d \in net : Link!Arrive(p, d.blob) => Link!Next
  BY <1>a DEF Link!Next, Link!Arrive
<1>10. \A p \in Peers : Link!Send(p) => Link!Next
  BY <1>a DEF Link!Next
<1>11. QED
  BY <1>2, <1>3, <1>4, <1>5, <1>6, <1>7, <1>8, <1>9, <1>10 DEF Next, Peers

\* The transport implements the unordered, at-most-once channel of ReliableLink
\* as long as neither process restarts.
THEOREM ImplementsLink ==
  ASSUME NoRestarts
  PROVE  Spec => LinkSpec
<1>1. QED
  BY LinkInit, LinkStep, DedupInit, DedupStep, PTL DEF Spec, LinkSpec, Link!Spec

-----------------------------------------------------------------------------
(***************************************************************************)
(* Restarts.  A number in m_recvReliable, or in an acknowledgement, is     *)
(* that of a blob which a process of the receiver has had (Reached).  That *)
(* stays so when the process is gone, as nothing is forgotten by had, and  *)
(* a sender that was never restarted and gave no number twice therefore    *)
(* erases from m_pending only what was received.                           *)
(***************************************************************************)
Reached(p, s) == \E k \in DOMAIN sentSeq[p] : sentSeq[p][k] = s /\ k \in had[Other(p)]

SeenByAny == \A p \in Peers : \A s \in recvReliable[p] : Reached(Other(p), s)

AckedByAny == \A d \in net : d.type = "WT_Ack" => Reached(d.to.peer, d.seq)

RestartsInv ==
  DedupInv /\ port[Client] <= restarts /\ SeenByAny /\ AckedByAny /\ KeptOverRestarts

LEMMA RestartsInit == Init => RestartsInv
BY DedupInit, ConstantsAssumption
DEF Init, RestartsInv, SeenByAny, AckedByAny, KeptOverRestarts, Peers

\* Nothing that was sent or received is forgotten.
LEMMA HistoryGrows ==
  ASSUME RestartsInv, Next
  PROVE  /\ \A p \in Peers : had[p] \subseteq had'[p]
         /\ \A p \in Peers : \A k \in DOMAIN sentSeq[p] :
              k \in DOMAIN sentSeq'[p] /\ sentSeq'[p][k] = sentSeq[p][k]
         /\ DedupInv'
<1>1. TypeOK /\ DedupInv'
  BY DedupStep DEF RestartsInv, DedupInv
<1>2. ASSUME NEW p \in Peers, NEW d \in net, RecvReliable(p, d), NEW q \in Peers
      PROVE  had[q] \subseteq had'[q]
  BY <1>1, <1>2 DEF RecvReliable, TypeOK
<1>3. (\A p \in Peers, d \in net : ~ RecvReliable(p, d)) => UNCHANGED had
  BY DEF Next, StartHost, ConnectTo, ConnectToFails, Restart, SendReliable, SendUnreliable,
    ResendPending, Receive, Lose, RecvHello, RecvAck, RecvUnreliable, historyVars
<1>4. ASSUME NEW p \in Peers, SendReliable(p), NEW q \in Peers, NEW k \in DOMAIN sentSeq[q]
      PROVE  k \in DOMAIN sentSeq'[q] /\ sentSeq'[q][k] = sentSeq[q][k]
  <2>1. sentSeq[p] \in Seq(Nat) /\ nextSeq[p] \in Nat
    BY <1>1 DEF TypeOK
  <2>2. sentSeq'[q] = IF q = p THEN Append(sentSeq[p], nextSeq[p]) ELSE sentSeq[q]
    BY <1>1, <1>4 DEF SendReliable, TypeOK
  <2>3. QED
    BY <1>4, <2>1, <2>2
<1>5. (\A p \in Peers : ~ SendReliable(p)) => UNCHANGED sentSeq
  BY DEF Next, StartHost, ConnectTo, ConnectToFails, Restart, SendUnreliable,
    ResendPending, Receive, Lose, RecvHello, RecvAck, RecvUnreliable, RecvReliable, historyVars
<1>6. QED
  BY <1>1, <1>2, <1>3, <1>4, <1>5

LEMMA ReachedStays ==
  ASSUME RestartsInv, Next, NEW p \in Peers, NEW s, Reached(p, s)
  PROVE  Reached(p, s)'
BY HistoryGrows, OtherPeer DEF Reached

\* The peers of the datagrams under way.
LEMMA DatagramPeers ==
  ASSUME DedupInv, NEW d \in net
  PROVE  d.from.peer \in Peers /\ d.to.peer \in Peers
BY DEF DedupInv, TypeOK, Datagram, Address

\* Steps that erase nothing from a m_pending that is kept, and after which what is
\* acknowledged or in m_recvReliable was so before.
LEMMA RestartsFrame ==
  ASSUME RestartsInv, Next, UNCHANGED <<port, restarts, sentSeq, recvReliable>>,
         \A p \in Peers : pending[p] \subseteq pending'[p],
         \A d \in net' : d.type = "WT_Ack" => d \in net
  PROVE  RestartsInv'
<1>1. SeenByAny'
  BY ReachedStays, OtherPeer DEF RestartsInv, SeenByAny
<1>2. AckedByAny'
  BY ReachedStays, DatagramPeers DEF RestartsInv, AckedByAny
<1>3. KeptOverRestarts'
  BY HistoryGrows, OtherPeer DEF RestartsInv, KeptOverRestarts, NeverRestarted, NumbersDiffer
<1>4. QED
  BY <1>1, <1>2, <1>3, HistoryGrows DEF RestartsInv

\* The peer that goes on running keeps its m_pending while the other one is restarted.
LEMMA RestartKeeps ==
  ASSUME RestartsInv, Next, NEW r \in Peers, Restart(r)
  PROVE  RestartsInv'
<1>1. TypeOK /\ port[Client] \in Nat /\ restarts \in Nat /\ Host # Client /\ Client \in Peers
  BY ConstantsAssumption DEF RestartsInv, DedupInv, TypeOK, Peers
<1>2. /\ restarts' = restarts + 1
      /\ port'[Client] = IF r = Client THEN port[Client] + 1 ELSE port[Client]
      /\ recvReliable'[r] = {}
      /\ \A p \in Peers : p # r =>
           recvReliable'[p] = recvReliable[p] /\ pending'[p] = pending[p]
      /\ UNCHANGED <<sentSeq, net>>
  BY <1>1 DEF Restart, TypeOK, Peers, historyVars
<1>3. SeenByAny'
  BY <1>2, ReachedStays, OtherPeer DEF RestartsInv, SeenByAny
<1>4. AckedByAny'
  BY <1>2, ReachedStays, DatagramPeers DEF RestartsInv, AckedByAny
<1>5. port'[Client] <= restarts'
  BY <1>1, <1>2 DEF RestartsInv
<1>6. ~ NeverRestarted(r)'
  BY <1>1, <1>2 DEF RestartsInv, NeverRestarted, Peers
<1>7. \A p \in Peers : NeverRestarted(p)' /\ p # r => NeverRestarted(p)
  BY <1>1, <1>2 DEF NeverRestarted, Peers
<1>8. KeptOverRestarts'
  BY <1>2, <1>6, <1>7, HistoryGrows, OtherPeer DEF RestartsInv, KeptOverRestarts, NumbersDiffer
<1>9. QED
  BY <1>3, <1>4, <1>5, <1>8, HistoryGrows DEF RestartsInv

LEMMA SendKeeps ==
  ASSUME RestartsInv, Next, NEW p \in Peers, SendReliable(p)
  PROVE  RestartsInv'
<1> DEFINE blob == Len(sentSeq[p]) + 1
           entry == [seq |-> nextSeq[p], blob |-> blob]
<1>1. TypeOK /\ sentSeq[p] \in Seq(Nat) /\ nextSeq[p] \in Nat
  BY DEF RestartsInv, DedupInv, TypeOK
<1>2. /\ sentSeq'[p] = Append(sentSeq[p], nextSeq[p])
      /\ \A q \in Peers : q # p => sentSeq'[q] = sentSeq[q]
  BY <1>1 DEF SendReliable, TypeOK
<1>3. DOMAIN sentSeq'[p] = DOMAIN sentSeq[p] \cup {blob}
  BY <1>1, <1>2
<1>4. UNCHANGED <<recvReliable, port, restarts>>
  BY DEF SendReliable, envVars
<1>5. /\ \A q \in Peers : pending[q] \subseteq pending'[q]
      /\ \E e \in pending'[p] : e.blob = blob
  <2>1. pending' = [pending EXCEPT ![p] = @ \cup {entry}] /\ entry.blob = blob
    BY DEF SendReliable
  <2> HIDE DEF entry, blob
  <2>2. QED
    BY <1>1, <2>1 DEF TypeOK
<1>6. \A d \in net' : d.type = "WT_Ack" => d \in net
  <2>1. {entry} \subseteq Pending /\ "WT_Reliable" \in WireType
    BY <1>1 DEF Pending, WireType
  <2>2. peerAddr[p] \in Address \cup {NoAddr}
    BY <1>1 DEF TypeOK
  <2>3. net' = net \cup RawSendTo(p, peerAddr[p], "WT_Reliable", {entry})
    BY DEF SendReliable
  <2> HIDE DEF entry
  <2>4. TypeOK /\ "WT_Reliable" # "WT_Ack"
    BY <1>1
  <2>5. QED
    BY <2>1, <2>2, <2>3, <2>4, SendsNoAck
<1>7. SeenByAny'
  BY <1>4, ReachedStays, OtherPeer DEF RestartsInv, SeenByAny
<1>8. AckedByAny'
  BY <1>6, ReachedStays, DatagramPeers DEF RestartsInv, AckedByAny
<1>9. KeptOverRestarts'
  <2>1. SUFFICES ASSUME NEW q \in Peers, (NeverRestarted(q) /\ NumbersDiffer(q))',
                        NEW k \in DOMAIN sentSeq'[q]
                 PROVE  k \in had'[Other(q)] \/ \E e \in pending'[q] : e.blob = k
    BY DEF KeptOverRestarts
  <2>2. NeverRestarted(q) /\ NumbersDiffer(q)
    BY <1>4, <2>1, HistoryGrows DEF NeverRestarted, NumbersDiffer
  <2>3. k \in DOMAIN sentSeq[q] \/ (q = p /\ k = blob)
    BY <1>2, <1>3
  <2>4. CASE k \in DOMAIN sentSeq[q]
    BY <1>5, <2>2, <2>4, HistoryGrows, OtherPeer DEF RestartsInv, KeptOverRestarts
  <2>5. QED
    BY <1>5, <2>3, <2>4
<1>10. QED
  BY <1>4, <1>7, <1>8, <1>9, HistoryGrows DEF RestartsInv

LEMMA AckKeeps ==
  ASSUME RestartsInv, Next, NEW p \in Peers, NEW d \in net, RecvAck(p, d)
  PROVE  RestartsInv'
<1>1. TypeOK /\ Numbered
  BY DEF RestartsInv, DedupInv
<1>2. d.to.peer = p /\ d.type = "WT_Ack" /\ net' \subseteq net
  BY DEF RecvAck, Take, AddrOf
<1>3. UNCHANGED <<port, restarts, sentSeq, recvReliable>>
  BY DEF RecvAck, historyVars
<1>4. PICK k \in DOMAIN sentSeq[p] : sentSeq[p][k] = d.seq /\ k \in had[Other(p)]
  BY <1>2 DEF RestartsInv, AckedByAny, Reached
<1>5. \A q \in Peers : q # p => pending'[q] = pending[q]
  BY <1>1 DEF RecvAck, TypeOK
<1>6. \A e \in pending[p] : e \in pending'[p] \/ e.seq = d.seq
  BY <1>1 DEF RecvAck, TypeOK
<1>7. NumbersDiffer(p) => \A e \in pending[p] : e \in pending'[p] \/ e.blob \in had[Other(p)]
  BY <1>1, <1>4, <1>6 DEF Numbered, Carries, NumbersDiffer
<1>8. SeenByAny'
  BY <1>3, ReachedStays, OtherPeer DEF RestartsInv, SeenByAny
<1>9. AckedByAny'
  BY <1>2, ReachedStays, DatagramPeers DEF RestartsInv, AckedByAny
<1>10. KeptOverRestarts'
  BY <1>3, <1>5, <1>7, HistoryGrows, OtherPeer
  DEF RestartsInv, KeptOverRestarts, NeverRestarted, NumbersDiffer
<1>11. QED
  BY <1>3, <1>8, <1>9, <1>10, HistoryGrows DEF RestartsInv

LEMMA ReliableKeeps ==
  ASSUME RestartsInv, Next, NEW p \in Peers, NEW d \in net, RecvReliable(p, d)
  PROVE  RestartsInv'
<1> DEFINE contents == {[seq |-> d.seq, blob |-> 0]}
           ack == RawSendTo(p, PeerSeen(p, d), "WT_Ack", contents)
<1>1. TypeOK /\ Routed /\ Numbered
  BY DEF RestartsInv, DedupInv
<1>2. Take(p, d, "WT_Reliable", ack)
  BY DEF RecvReliable
<1>3. d.from.peer = Other(p) /\ Carries(Other(p), d)
  BY <1>1, <1>2, TakeFrom DEF Numbered
<1>4. /\ recvReliable'[p] = recvReliable[p] \cup {d.seq}
      /\ \A q \in Peers : q # p => recvReliable'[q] = recvReliable[q]
      /\ UNCHANGED <<port, restarts, sentSeq, pending>>
  BY <1>1 DEF RecvReliable, TypeOK, historyVars
<1>5. Reached(Other(p), d.seq)'
  <2>1. CASE d.seq \in recvReliable[p]
    BY <2>1, ReachedStays, OtherPeer DEF RestartsInv, SeenByAny
  <2>2. CASE d.seq \notin recvReliable[p]
    <3>1. d.blob \in had'[p]
      BY <1>1, <2>2 DEF RecvReliable, TypeOK
    <3>2. QED
      BY <1>3, <1>4, <3>1, OtherPeer DEF Carries, Reached
  <2>3. QED
    BY <2>1, <2>2
<1>6. \A r \in ack : r.to.peer = Other(p) /\ r.seq = d.seq
  <2>1. contents \subseteq Pending /\ "WT_Ack" \in WireType
    BY <1>1 DEF Pending, WireType, TypeOK, Datagram
  <2>2. PeerSeen(p, d) \in Address \cup {NoAddr}
    BY <1>1 DEF PeerSeen, TypeOK, Datagram
  <2>3. PeerSeen(p, d) # NoAddr => PeerSeen(p, d).peer = Other(p)
    BY <1>1, <1>3 DEF PeerSeen, Routed
  <2>4. \A c \in contents : c.seq = d.seq
    OBVIOUS
  <2> HIDE DEF contents
  <2>5. \A r \in ack : /\ PeerSeen(p, d) # NoAddr
                       /\ r.to = PeerSeen(p, d)
                       /\ \E c \in contents : r.seq = c.seq
    BY <1>1, <2>1, <2>2, RawSendToShape
  <2>6. QED
    BY <2>3, <2>4, <2>5
<1> HIDE DEF ack
<1>7. net' \subseteq net \cup ack
  BY <1>2, TakeNet
<1>8. SeenByAny'
  BY <1>4, <1>5, ReachedStays, OtherPeer DEF RestartsInv, SeenByAny
<1>9. AckedByAny'
  <2>1. SUFFICES ASSUME NEW r \in net', r.type = "WT_Ack" PROVE Reached(r.to.peer, r.seq)'
    BY DEF AckedByAny
  <2>2. CASE r \in ack
    BY <1>5, <1>6, <2>2
  <2>3. CASE r \in net
    BY <2>1, <2>3, ReachedStays, DatagramPeers DEF RestartsInv, AckedByAny
  <2>4. QED
    BY <1>7, <2>2, <2>3
<1>10. KeptOverRestarts'
  BY <1>4, HistoryGrows, OtherPeer DEF RestartsInv, KeptOverRestarts, NeverRestarted, NumbersDiffer
<1>11. QED
  BY <1>4, <1>8, <1>9, <1>10, HistoryGrows DEF RestartsInv

LEMMA RestartsStep == RestartsInv /\ [Next]_vars => RestartsInv'
<1> SUFFICES ASSUME RestartsInv, [Next]_vars PROVE RestartsInv'
  OBVIOUS
<1> USE DEF endpointVars, historyVars, envVars
<1>0. TypeOK
  BY DEF RestartsInv, DedupInv
<1>1. ASSUME Next, StartHost \/ ConnectToFails PROVE RestartsInv'
  BY <1>1, RestartsFrame DEF StartHost, ConnectToFails
<1>2. ASSUME Next, ConnectTo PROVE RestartsInv'
  <2> DEFINE host == [peer |-> Host, port |-> 0]
             empty == {[seq |-> 0, blob |-> 0]}
  <2>1. host \in Address /\ Client \in Peers /\ empty \subseteq Pending /\ "WT_Hello" \in WireType
    BY DEF Address, Peers, Pending, WireType
  <2>2. net' = net \cup RawSendTo(Client, host, "WT_Hello", empty)
    BY <1>2 DEF ConnectTo
  <2> HIDE DEF host, empty
  <2>3. \A d \in net' : d.type = "WT_Ack" => d \in net
    BY <1>0, <2>1, <2>2, SendsNoAck
  <2>4. QED
    BY <1>2, <2>3, RestartsFrame DEF ConnectTo
<1>3. ASSUME Next, NEW p \in Peers, SendUnreliable(p) PROVE RestartsInv'
  <2> DEFINE entry == [seq |-> 0, blob |-> sentU[p] + 1]
  <2>1. {entry} \subseteq Pending /\ "WT_Unreliable" \in WireType
    BY <1>0 DEF Pending, WireType, TypeOK
  <2>2. peerAddr[p] \in Address \cup {NoAddr}
    BY <1>0 DEF TypeOK
  <2>3. net' = net \cup RawSendTo(p, peerAddr[p], "WT_Unreliable", {entry})
    BY <1>3 DEF SendUnreliable
  <2> HIDE DEF entry
  <2>4. "WT_Unreliable" # "WT_Ack"
    OBVIOUS
  <2>5. \A d \in net' : d.type = "WT_Ack" => d \in net
    BY ONLY <1>0, <1>3, <2>1, <2>2, <2>3, <2>4, SendsNoAck
  <2>6. QED
    BY <1>3, <2>5, RestartsFrame DEF SendUnreliable
<1>4. ASSUME Next, NEW p \in Peers, NEW expired \in SUBSET pending[p],
             ResendPending(p, expired)
      PROVE  RestartsInv'
  <2>1. /\ expired \subseteq Pending
        /\ "WT_Reliable" \in WireType
        /\ peerAddr[p] \in Address \cup {NoAddr}
    BY <1>0 DEF WireType, TypeOK
  <2>2. net' = net \cup RawSendTo(p, peerAddr[p], "WT_Reliable", expired)
    BY <1>4 DEF ResendPending
  <2>3. \A d \in net' : d.type = "WT_Ack" => d \in net
    BY <1>0, <2>1, <2>2, SendsNoAck
  <2>4. QED
    BY <1>4, <2>3, RestartsFrame DEF ResendPending
<1>5. ASSUME Next, NEW p \in Peers, Receive(p) PROVE RestartsInv'
  BY <1>5, RestartsFrame DEF Receive
<1>6. ASSUME Next, NEW d \in net, Lose(d) PROVE RestartsInv'
  BY <1>6, RestartsFrame DEF Lose
<1>7. ASSUME Next, NEW p \in Peers, NEW d \in net, RecvHello(p, d) \/ RecvUnreliable(p, d)
      PROVE  RestartsInv'
  BY <1>7, TakeNet, RestartsFrame DEF RecvHello, RecvUnreliable
<1>8. CASE Next
  BY <1>1, <1>2, <1>3, <1>4, <1>5, <1>6, <1>7, <1>8, RestartKeeps, SendKeeps, AckKeeps,
     ReliableKeeps DEF Next
<1>9. CASE UNCHANGED vars
  BY <1>0, <1>9, DedupStep DEF vars, RestartsInv, SeenByAny, AckedByAny, Reached, KeptOverRestarts,
    NeverRestarted, NumbersDiffer
<1>10. QED
  BY <1>8, <1>9

\* Whichever peer is restarted and how often, and whatever is left on the wire of the
\* processes before: a process that goes on running and has not run out of numbers keeps a
\* blob in m_pending until some process of the other peer has received it.
THEOREM KeepsOverRestarts == Spec => []KeptOverRestarts
<1>1. RestartsInv => KeptOverRestarts
  BY DEF RestartsInv
<1>2. QED
  BY <1>1, RestartsInit, RestartsStep, PTL DEF Spec

-----------------------------------------------------------------------------
(* Loops.  What a recursive function computes is proved in the form of the *)
(* loop it stands for: a run of k turns, each taking a state of a set to   *)
(* the next, exists, so the function that CHOOSE finds is that run.        *)

\* A set of natural numbers has a least one.
LEMMA LeastNatural ==
  ASSUME NEW S \in SUBSET Nat, S # {}
  PROVE  \E m \in S : \A n \in S : m <= n
<1>1. PICK m \in S : \A n \in S : ~(<<n, m>> \in OpToRel(<, Nat))
  BY NatLessThanWellFounded, WFMin
<1>2. ASSUME NEW n \in S PROVE ~(n < m)
  BY <1>1 DEF OpToRel
<1>3. QED
  BY <1>2

\* Induction, for a set in place of a predicate.
LEMMA SetInduction ==
  ASSUME NEW S \in SUBSET Nat, 0 \in S, \A n \in S : n + 1 \in S
  PROVE  S = Nat
<1>1. SUFFICES ASSUME Nat \ S # {} PROVE FALSE
  OBVIOUS
<1>2. PICK m \in Nat \ S : \A n \in Nat \ S : m <= n
  BY <1>1, LeastNatural
<1>3. m # 0 /\ m - 1 \in Nat /\ m - 1 \in S
  BY <1>2
<1>4. QED
  BY <1>2, <1>3

\* What the provers have to be told of division.
LEMMA Division ==
  ASSUME NEW a \in Int, NEW m \in Nat \ {0}
  PROVE  /\ a % m \in 0 .. m - 1
         /\ a \div m \in Int
         /\ a = m * (a \div m) + (a % m)
BY Z3

\* A loop of k turns that take a state of S to the next, and a run of it.
Turning(S, k, turn) == turn \in [1 .. k -> [S -> S]]

RunOf(S, k, start, turn, f) ==
  /\ f \in [0 .. k -> S]
  /\ f[0] = start
  /\ \A n \in 1 .. k : f[n] = turn[n][f[n - 1]]

\* A loop runs to its end: the recursion that describes it has a solution.
LEMMA LoopRuns ==
  ASSUME NEW S, NEW k \in Nat, NEW start \in S, NEW turn, Turning(S, k, turn)
  PROVE  \E f : RunOf(S, k, start, turn, f)
<1> DEFINE Ran(m) == {f \in [0 .. m -> S] : /\ f[0] = start
                                           /\ \A n \in 1 .. m : f[n] = turn[n][f[n - 1]]}
           T == {m \in Nat : m <= k => Ran(m) # {}}
<1> USE DEF Turning
<1>1. 0 \in T
  <2>1. [n \in 0 .. 0 |-> start] \in Ran(0)
    OBVIOUS
  <2>2. QED
    BY <2>1
<1>2. ASSUME NEW m \in T PROVE m + 1 \in T
  <2>1. SUFFICES ASSUME m + 1 <= k PROVE Ran(m + 1) # {}
    OBVIOUS
  <2>2. m \in Nat /\ m <= k /\ m + 1 \in 1 .. k
    BY <2>1
  <2>3. PICK f \in Ran(m) : TRUE
    BY <2>2
  <2>4. PICK g : g = [n \in 0 .. m + 1 |-> IF n = m + 1 THEN turn[m + 1][f[m]] ELSE f[n]]
    OBVIOUS
  <2>5. f \in [0 .. m -> S] /\ f[m] \in S /\ turn[m + 1][f[m]] \in S
    BY <2>2, <2>3
  <2>6. g \in [0 .. m + 1 -> S]
    <3>1. ASSUME NEW n \in 0 .. m + 1 PROVE (IF n = m + 1 THEN turn[m + 1][f[m]] ELSE f[n]) \in S
      <4>1. CASE n = m + 1
        BY <2>5, <4>1
      <4>2. CASE n # m + 1
        <5>1. n \in 0 .. m
          BY <2>2, <4>2
        <5>2. QED
          BY <2>5, <4>2, <5>1
      <4>3. QED
        BY <4>1, <4>2
    <3>2. QED
      BY <2>4, <3>1
  <2>7. g[0] = start
    BY <2>2, <2>3, <2>4
  <2>8. ASSUME NEW n \in 1 .. m + 1 PROVE g[n] = turn[n][g[n - 1]]
    <3>1. CASE n = m + 1
      <4>1. n - 1 = m /\ m \in 0 .. m + 1 /\ m # m + 1
        BY <2>2, <3>1
      <4>2. QED
        BY <2>4, <3>1, <4>1
    <3>2. CASE n # m + 1
      <4>1. n \in 1 .. m /\ n \in 0 .. m + 1 /\ n - 1 \in 0 .. m + 1 /\ n - 1 # m + 1
        BY <2>2, <3>2
      <4>2. g[n] = f[n] /\ g[n - 1] = f[n - 1]
        BY <2>4, <3>2, <4>1
      <4>3. QED
        BY <2>3, <4>1, <4>2
    <3>3. QED
      BY <3>1, <3>2
  <2>9. g \in Ran(m + 1)
    BY <2>6, <2>7, <2>8
  <2>10. QED
    BY <2>9
<1>3. T = Nat
  <2> HIDE DEF Ran
  <2>1. T \in SUBSET Nat
    OBVIOUS
  <2> HIDE DEF T
  <2>2. QED
    BY <1>1, <1>2, <2>1, SetInduction
<1>4. PICK f \in Ran(k) : TRUE
  <2> HIDE DEF Ran
  <2>1. k \in T
    BY <1>3
  <2>2. QED
    BY <2>1
<1>5. QED
  BY <1>4 DEF RunOf

\* A turn of a run.
LEMMA RunTurns ==
  ASSUME NEW S, NEW k \in Nat, NEW start, NEW turn, NEW f, RunOf(S, k, start, turn, f),
         NEW n \in 1 .. k
  PROVE  f[n] = turn[n][f[n - 1]] /\ f[n - 1] \in S
BY DEF RunOf

\* Induction over the turns.
LEMMA Turns ==
  ASSUME NEW T, NEW k \in Nat, 0 \in T, \A n \in 1 .. k : n - 1 \in T => n \in T
  PROVE  \A n \in 0 .. k : n \in T
<1> DEFINE U == {m \in Nat : m <= k => m \in T}
<1>1. 0 \in U
  OBVIOUS
<1>2. ASSUME NEW m \in U PROVE m + 1 \in U
  <2>1. SUFFICES ASSUME m + 1 <= k PROVE m + 1 \in T
    OBVIOUS
  <2>2. m + 1 \in 1 .. k /\ (m + 1) - 1 = m /\ m <= k
    BY <2>1
  <2>3. QED
    BY <2>2
<1>3. U = Nat
  <2>1. U \in SUBSET Nat
    OBVIOUS
  <2> HIDE DEF U
  <2>2. QED
    BY <1>1, <1>2, <2>1, SetInduction
<1>4. QED
  BY <1>3

\* What holds of the start, and after a turn if before it, holds after each turn.
LEMMA LoopKeeps ==
  ASSUME NEW S, NEW k \in Nat, NEW f, f[0] \in S, \A n \in 1 .. k : f[n - 1] \in S => f[n] \in S
  PROVE  \A n \in 0 .. k : f[n] \in S
<1> DEFINE T == {n \in 0 .. k : f[n] \in S}
<1>1. 0 \in T /\ \A n \in 1 .. k : n - 1 \in T => n \in T
  OBVIOUS
<1> HIDE DEF T
<1>2. \A n \in 0 .. k : n \in T
  BY <1>1, Turns
<1>3. QED
  BY <1>2 DEF T

-----------------------------------------------------------------------------
(* Numbers.                                                                *)

\* The lowest byte of a number and the rest of it.
LEMMA DivisionByBase ==
  ASSUME NEW v \in Nat
  PROVE  v \div Base \in Nat /\ v % Base \in Byte /\ v = (v \div Base) * Base + (v % Base)
<1>1. Base \in Nat \ {0}
  BY WireAssumption
<1>2. /\ v % Base \in 0 .. Base - 1
      /\ v \div Base \in Int
      /\ v = Base * (v \div Base) + (v % Base)
  BY <1>1, Division
<1>3. v \div Base >= 0
  BY <1>1, Z3
<1>4. QED
  BY <1>1, <1>2, <1>3, Z3 DEF Byte

\* What is left of a number as its bytes are written.
LEMMA BytesWritten ==
  ASSUME NEW v \in Nat, NEW w \in Nat
  PROVE  \E rest : /\ \A i \in 0 .. w : rest[i] \in Nat
                   /\ rest[0] = v
                   /\ \A i \in 1 .. w : rest[i] = rest[i - 1] \div Base
                   /\ Bytes(v, w) = [i \in 1 .. w |-> rest[i - 1] % Base]
<1> DEFINE Recursion(f) == f = [i \in 0 .. w |-> IF i = 0 THEN v ELSE f[i - 1] \div Base]
<1>1. PICK S, start : S = Nat /\ start = v
  OBVIOUS
<1>2. PICK turn : turn = [n \in 1 .. w |-> [x \in S |-> x \div Base]]
  OBVIOUS
<1>3. start \in S /\ Turning(S, w, turn)
  BY <1>1, <1>2, DivisionByBase DEF Turning
<1>4. PICK f : RunOf(S, w, start, turn, f)
  BY <1>3, LoopRuns
<1>5. ASSUME NEW n \in 1 .. w PROVE f[n] = f[n - 1] \div Base
  <2>1. f[n] = turn[n][f[n - 1]] /\ f[n - 1] \in S
    BY <1>4, RunTurns
  <2>2. QED
    BY <1>2, <2>1
<1>6. Recursion(f)
  <2>1. \A n \in 0 .. w : n # 0 => n \in 1 .. w
    OBVIOUS
  <2>2. \A n \in 0 .. w : f[n] = IF n = 0 THEN v ELSE f[n - 1] \div Base
    BY <1>1, <1>4, <1>5, <2>1 DEF RunOf
  <2>3. QED
    BY <1>4, <2>2 DEF RunOf
<1>7. PICK rest : rest = CHOOSE h : Recursion(h)
  OBVIOUS
<1>8. Recursion(rest)
  <2> HIDE DEF Recursion
  <2>1. QED
    BY <1>6, <1>7
<1>9. Bytes(v, w) = [i \in 1 .. w |-> rest[i - 1] % Base]
  <2>1. Bytes(v, w) = [i \in 1 .. w |-> (CHOOSE h : Recursion(h))[i - 1] % Base]
    BY Zenon DEF Bytes
  <2> HIDE DEF Recursion
  <2>2. QED
    BY <1>7, <2>1
<1>10. rest[0] = v /\ \A i \in 1 .. w : rest[i] = rest[i - 1] \div Base
  BY <1>8
<1>11. \A i \in 0 .. w : rest[i] \in Nat
  <2> HIDE DEF Recursion
  <2>1. \A i \in 1 .. w : rest[i - 1] \in Nat => rest[i] \in Nat
    BY <1>10, DivisionByBase
  <2>2. QED
    BY <1>10, <2>1, LoopKeeps
<1>12. QED
  <2> HIDE DEF Recursion
  <2>1. QED
    BY <1>9, <1>10, <1>11

\* What the bytes read so far amount to, from the highest on.
LEMMA NumberRead ==
  ASSUME NEW data, NEW off \in Nat, NEW w \in Nat, \A i \in 1 .. w : data[off + i] \in Byte
  PROVE  \E high : /\ \A k \in 0 .. w : high[k] \in Nat
                   /\ high[0] = 0
                   /\ \A k \in 1 .. w : high[k] = high[k - 1] * Base + data[off + w - k + 1]
                   /\ Number(data, off, w) = high[w]
<1> DEFINE Recursion(f) ==
             f = [k \in 0 .. w |-> IF k = 0 THEN 0 ELSE f[k - 1] * Base + data[off + w - k + 1]]
<1>1. PICK S, start : S = Nat /\ start = 0
  OBVIOUS
<1>2. PICK turn : turn = [k \in 1 .. w |-> [x \in S |-> x * Base + data[off + w - k + 1]]]
  OBVIOUS
<1>3. ASSUME NEW k \in 1 .. w, NEW x \in Nat PROVE x * Base + data[off + w - k + 1] \in Nat
  <2>1. PICK i \in 1 .. w : off + i = off + w - k + 1
    <3>1. w - k + 1 \in 1 .. w /\ off + (w - k + 1) = off + w - k + 1
      OBVIOUS
    <3>2. QED
      BY <3>1
  <2>2. data[off + i] \in Nat
    BY WireAssumption DEF Byte
  <2>3. x * Base \in Nat
    BY WireAssumption
  <2>4. QED
    BY <2>1, <2>2, <2>3
<1>4. start \in S /\ Turning(S, w, turn)
  BY <1>1, <1>2, <1>3 DEF Turning
<1>5. PICK f : RunOf(S, w, start, turn, f)
  BY <1>4, LoopRuns
<1>6. ASSUME NEW n \in 1 .. w PROVE f[n] = f[n - 1] * Base + data[off + w - n + 1]
  <2>1. f[n] = turn[n][f[n - 1]] /\ f[n - 1] \in S
    BY <1>5, RunTurns
  <2>2. QED
    BY <1>2, <2>1
<1>7. Recursion(f)
  <2>1. \A n \in 0 .. w : n # 0 => n \in 1 .. w
    OBVIOUS
  <2>2. \A n \in 0 .. w : f[n] = IF n = 0 THEN 0 ELSE f[n - 1] * Base + data[off + w - n + 1]
    BY <1>1, <1>5, <1>6, <2>1 DEF RunOf
  <2>3. QED
    BY <1>5, <2>2 DEF RunOf
<1>8. PICK high : high = CHOOSE h : Recursion(h)
  OBVIOUS
<1>9. Recursion(high)
  <2> HIDE DEF Recursion
  <2>1. QED
    BY <1>7, <1>8
<1>10. Number(data, off, w) = high[w]
  BY <1>8 DEF Number
<1>11. high[0] = 0 /\ \A k \in 1 .. w : high[k] = high[k - 1] * Base + data[off + w - k + 1]
  BY <1>9
<1>12. \A k \in 0 .. w : high[k] \in Nat
  <2> HIDE DEF Recursion
  <2>1. \A k \in 1 .. w : high[k - 1] \in Nat => high[k] \in Nat
    BY <1>3, <1>11
  <2>2. high[0] \in Nat
    BY <1>11
  <2>3. QED
    BY <2>1, <2>2, LoopKeeps
<1>13. QED
  <2> HIDE DEF Recursion
  <2>1. QED
    BY <1>10, <1>11, <1>12

\* The limits of one byte, of two, and so on.
LEMMA LimitPowers ==
  ASSUME NEW w \in Nat
  PROVE  \E power : /\ \A i \in 0 .. w : power[i] \in Nat \ {0}
                    /\ power[0] = 1
                    /\ \A i \in 1 .. w : power[i] = Base * power[i - 1]
                    /\ Limit(w) = power[w]
<1> DEFINE Recursion(f) == f = [i \in 0 .. w |-> IF i = 0 THEN 1 ELSE Base * f[i - 1]]
<1>1. PICK S, start : S = Nat \ {0} /\ start = 1
  OBVIOUS
<1>2. PICK turn : turn = [n \in 1 .. w |-> [x \in S |-> Base * x]]
  OBVIOUS
<1>3. \A x \in Nat \ {0} : Base * x \in Nat \ {0}
  BY WireAssumption
<1>4. start \in S /\ Turning(S, w, turn)
  BY <1>1, <1>2, <1>3 DEF Turning
<1>5. PICK f : RunOf(S, w, start, turn, f)
  BY <1>4, LoopRuns
<1>6. ASSUME NEW n \in 1 .. w PROVE f[n] = Base * f[n - 1]
  <2>1. f[n] = turn[n][f[n - 1]] /\ f[n - 1] \in S
    BY <1>5, RunTurns
  <2>2. QED
    BY <1>2, <2>1
<1>7. Recursion(f)
  <2>1. \A n \in 0 .. w : n # 0 => n \in 1 .. w
    OBVIOUS
  <2>2. \A n \in 0 .. w : f[n] = IF n = 0 THEN 1 ELSE Base * f[n - 1]
    BY <1>1, <1>5, <1>6, <2>1 DEF RunOf
  <2>3. QED
    BY <1>5, <2>2 DEF RunOf
<1>8. PICK power : power = CHOOSE h : Recursion(h)
  OBVIOUS
<1>9. Recursion(power)
  <2> HIDE DEF Recursion
  <2>1. QED
    BY <1>7, <1>8
<1>10. Limit(w) = power[w]
  BY <1>8 DEF Limit
<1>11. power[0] = 1 /\ \A i \in 1 .. w : power[i] = Base * power[i - 1]
  BY <1>9
<1>12. \A i \in 0 .. w : power[i] \in Nat \ {0}
  <2> HIDE DEF Recursion
  <2>1. \A i \in 1 .. w : power[i - 1] \in Nat \ {0} => power[i] \in Nat \ {0}
    BY <1>3, <1>11
  <2>2. power[0] \in Nat \ {0}
    BY <1>11
  <2>3. QED
    BY <2>1, <2>2, LoopKeeps
<1>13. QED
  <2> HIDE DEF Recursion
  <2>1. QED
    BY <1>10, <1>11, <1>12

\* Without its lowest byte a number needs a byte less.
LEMMA QuotientSmaller ==
  ASSUME NEW v \in Nat, NEW p \in Nat, v < Base * p
  PROVE  v \div Base < p
<1>1. Base \in Nat /\ Base >= 1
  BY WireAssumption
<1>2. PICK q \in Nat, r \in Nat : q = v \div Base /\ r = v % Base /\ v = q * Base + r
  BY DivisionByBase, WireAssumption DEF Byte
<1>3. ASSUME q >= p PROVE FALSE
  <2>1. PICK d \in Nat : q = p + d
    BY <1>3
  <2>2. /\ q * Base = p * Base + d * Base /\ d * Base \in Nat
        /\ p * Base = Base * p /\ p * Base \in Nat
    BY <1>1, <2>1, Z3
  <2>3. QED
    BY <1>2, <2>2
<1>4. QED
  BY <1>2, <1>3

\* A number that fits into its bytes is read as it was written.
LEMMA NumberOfBytes ==
  ASSUME NEW v \in Nat, NEW w \in Nat, v < Limit(w), NEW data, NEW off \in Nat,
         \A i \in 1 .. w : data[off + i] = Bytes(v, w)[i]
  PROVE  Number(data, off, w) = v
<1>1. PICK rest : /\ \A i \in 0 .. w : rest[i] \in Nat
                  /\ rest[0] = v
                  /\ \A i \in 1 .. w : rest[i] = rest[i - 1] \div Base
                  /\ Bytes(v, w) = [i \in 1 .. w |-> rest[i - 1] % Base]
  BY BytesWritten
<1>2. \A i \in 1 .. w : i - 1 \in 0 .. w /\ data[off + i] = rest[i - 1] % Base
  BY <1>1
<1>3. \A i \in 1 .. w : data[off + i] \in Byte
  BY <1>1, <1>2, DivisionByBase
<1>4. PICK high : /\ \A k \in 0 .. w : high[k] \in Nat
                  /\ high[0] = 0
                  /\ \A k \in 1 .. w : high[k] = high[k - 1] * Base + data[off + w - k + 1]
                  /\ Number(data, off, w) = high[w]
  BY <1>3, NumberRead
<1>5. PICK power : /\ \A i \in 0 .. w : power[i] \in Nat \ {0}
                   /\ power[0] = 1
                   /\ \A i \in 1 .. w : power[i] = Base * power[i - 1]
                   /\ Limit(w) = power[w]
  BY LimitPowers
<1>6. rest[w] = 0
  <2> DEFINE T == {i \in 0 .. w : rest[i] < power[w - i]}
  <2>1. 0 \in T
    BY <1>1, <1>5
  <2>2. ASSUME NEW i \in 1 .. w, i - 1 \in T PROVE i \in T
    <3>1. /\ w - (i - 1) \in 1 .. w /\ w - i \in 0 .. w /\ i - 1 \in 0 .. w
          /\ (w - (i - 1)) - 1 = w - i
      OBVIOUS
    <3>2. rest[i - 1] < Base * power[w - i]
      BY <1>5, <2>2, <3>1
    <3>3. rest[i - 1] \in Nat /\ power[w - i] \in Nat /\ rest[i] = rest[i - 1] \div Base
      BY <1>1, <1>5, <3>1
    <3>4. rest[i - 1] \div Base < power[w - i]
      BY <3>2, <3>3, QuotientSmaller
    <3>5. QED
      BY <3>3, <3>4
  <2>3. \A i \in 0 .. w : i \in T
    <3> HIDE DEF T
    <3>1. QED
      BY <2>1, <2>2, Turns
  <2>4. w \in 0 .. w /\ w - w = 0 /\ w \in T
    BY <2>3
  <2>5. rest[w] < 1 /\ rest[w] \in Nat
    BY <1>1, <1>5, <2>4
  <2>6. QED
    BY <2>5
<1>7. \A k \in 0 .. w : high[k] = rest[w - k]
  <2> DEFINE T == {k \in 0 .. w : high[k] = rest[w - k]}
  <2>1. 0 \in T
    BY <1>4, <1>6
  <2>2. ASSUME NEW k \in 1 .. w, k - 1 \in T PROVE k \in T
    <3>1. PICK i \in 1 .. w : i = w - k + 1 /\ off + i = off + w - k + 1
      <4>1. w - k + 1 \in 1 .. w /\ off + (w - k + 1) = off + w - k + 1
        OBVIOUS
      <4>2. QED
        BY <4>1
    <3>2. high[k] = rest[i] * Base + (rest[i - 1] % Base)
      <4>1. w - (k - 1) = i
        BY <3>1
      <4>2. high[k - 1] = rest[i]
        BY <2>2, <4>1
      <4>3. high[k] = high[k - 1] * Base + data[off + i]
        BY <1>4, <3>1
      <4>4. QED
        BY <1>2, <4>2, <4>3
    <3>3. rest[i] = rest[i - 1] \div Base /\ rest[i - 1] \in Nat
      BY <1>1, <1>2
    <3>4. high[k] = rest[i - 1]
      BY <3>2, <3>3, DivisionByBase
    <3>5. i - 1 = w - k
      BY <3>1
    <3>6. QED
      BY <3>4, <3>5
  <2>3. \A k \in 0 .. w : k \in T
    <3> HIDE DEF T
    <3>1. QED
      BY <2>1, <2>2, Turns
  <2>4. QED
    BY <2>3
<1>8. w \in 0 .. w /\ w - w = 0
  OBVIOUS
<1>9. QED
  BY <1>1, <1>4, <1>7, <1>8

\* As many bytes as the width says.
LEMMA BytesAre ==
  ASSUME NEW v \in Nat, NEW w \in Nat
  PROVE  Bytes(v, w) \in Seq(Byte) /\ Len(Bytes(v, w)) = w
<1>1. PICK rest : /\ \A i \in 0 .. w : rest[i] \in Nat
                  /\ rest[0] = v
                  /\ \A i \in 1 .. w : rest[i] = rest[i - 1] \div Base
                  /\ Bytes(v, w) = [i \in 1 .. w |-> rest[i - 1] % Base]
  BY BytesWritten
<1>2. \A i \in 1 .. w : i - 1 \in 0 .. w
  OBVIOUS
<1>3. \A i \in 1 .. w : rest[i - 1] % Base \in Byte
  BY <1>1, <1>2, DivisionByBase
<1>4. QED
  BY <1>1, <1>3

\* The limits of the counts and lengths of the protocol.
LEMMA Limits ==
  /\ Limit(1) = Base
  /\ Limit(2) = Base * Base
<1>1. PICK one : /\ one[0] = 1
                 /\ \A i \in 1 .. 1 : one[i] = Base * one[i - 1]
                 /\ Limit(1) = one[1]
  BY LimitPowers
<1>2. PICK two : /\ two[0] = 1
                 /\ \A i \in 1 .. 2 : two[i] = Base * two[i - 1]
                 /\ Limit(2) = two[2]
  BY LimitPowers
<1>3. 1 \in 1 .. 1 /\ 1 \in 1 .. 2 /\ 2 \in 1 .. 2 /\ 1 - 1 = 0 /\ 2 - 1 = 1
  OBVIOUS
<1>4. Limit(1) = Base * 1 /\ two[1] = Base * 1 /\ Limit(2) = Base * two[1]
  BY <1>1, <1>2, <1>3
<1>5. QED
  BY <1>4, WireAssumption

-----------------------------------------------------------------------------
(* Bytes written one piece after the other.                                *)

Prefix(s, t) == Len(s) <= Len(t) /\ \A i \in 1 .. Len(s) : t[i] = s[i]

\* What is written after each of k pieces.
Pieces(S, k, written, piece) ==
  /\ \A n \in 0 .. k : written[n] \in Seq(S)
  /\ \A n \in 1 .. k : piece[n] \in Seq(S) /\ written[n] = written[n - 1] \o piece[n]

\* What is written once stays.
LEMMA EarlierIsPrefix ==
  ASSUME NEW S, NEW k \in Nat, NEW written, NEW piece, Pieces(S, k, written, piece),
         NEW n \in 0 .. k
  PROVE  Prefix(written[n], written[k])
<1> DEFINE T == {m \in 0 .. k : n <= m => Prefix(written[n], written[m])}
<1>1. 0 \in T
  BY DEF Prefix
<1>2. ASSUME NEW m \in 1 .. k, m - 1 \in T PROVE m \in T
  <2>1. SUFFICES ASSUME n <= m PROVE Prefix(written[n], written[m])
    OBVIOUS
  <2>2. CASE n = m
    BY <2>2 DEF Prefix
  <2>3. CASE n # m
    <3>1. n <= m - 1
      BY <2>1, <2>3
    <3>2. Prefix(written[n], written[m - 1])
      BY <1>2, <3>1
    <3>3. PICK s, t, p : s = written[n] /\ t = written[m - 1] /\ p = piece[m]
      OBVIOUS
    <3>4. s \in Seq(S) /\ t \in Seq(S) /\ p \in Seq(S) /\ written[m] = t \o p
      <4>1. m - 1 \in 0 .. k
        OBVIOUS
      <4>2. QED
        BY <3>3, <4>1 DEF Pieces
    <3>5. Len(s) \in Nat /\ Len(t) \in Nat /\ Len(p) \in Nat
      BY <3>4, LenProperties
    <3>6. Len(t \o p) = Len(t) + Len(p) /\ \A i \in 1 .. Len(t) : (t \o p)[i] = t[i]
      BY <3>4, <3>5, ConcatProperties
    <3>7. Len(s) <= Len(t) /\ \A i \in 1 .. Len(s) : t[i] = s[i]
      BY <3>2, <3>3 DEF Prefix
    <3>8. Len(s) <= Len(t \o p) /\ \A i \in 1 .. Len(s) : i \in 1 .. Len(t) /\ (t \o p)[i] = s[i]
      BY <3>5, <3>6, <3>7
    <3>9. QED
      BY <3>3, <3>4, <3>8 DEF Prefix
  <2>4. QED
    BY <2>2, <2>3
<1>3. \A m \in 0 .. k : m \in T
  <2> HIDE DEF T
  <2>1. QED
    BY <1>1, <1>2, Turns
<1>4. QED
  BY <1>3

\* Where the n-th piece lies in what is written in the end.
LiesIn(k, written, piece, n) ==
  /\ Len(written[n]) = Len(written[n - 1]) + Len(piece[n])
  /\ Len(written[n]) <= Len(written[k])
  /\ \A i \in 1 .. Len(piece[n]) : written[k][Len(written[n - 1]) + i] = piece[n][i]

LEMMA PieceLies ==
  ASSUME NEW S, NEW k \in Nat, NEW written, NEW piece, Pieces(S, k, written, piece),
         NEW n \in 1 .. k
  PROVE  LiesIn(k, written, piece, n)
<1>1. PICK s, t, p : s = written[n] /\ t = written[n - 1] /\ p = piece[n]
  OBVIOUS
<1>2. n \in 0 .. k /\ n - 1 \in 0 .. k
  OBVIOUS
<1>3. t \in Seq(S) /\ p \in Seq(S) /\ s = t \o p
  BY <1>1, <1>2 DEF Pieces
<1>4. Prefix(s, written[k])
  BY <1>1, <1>2, EarlierIsPrefix
<1>5. Len(t) \in Nat /\ Len(p) \in Nat
  BY <1>3, LenProperties
<1>6. /\ Len(s) = Len(t) + Len(p)
      /\ \A i \in 1 .. Len(t) + Len(p) : s[i] = IF i <= Len(t) THEN t[i] ELSE p[i - Len(t)]
  BY <1>3, ConcatProperties
<1>7. ASSUME NEW i \in 1 .. Len(p) PROVE written[k][Len(t) + i] = p[i]
  <2>1. Len(t) + i \in 1 .. Len(s) /\ ~(Len(t) + i <= Len(t)) /\ (Len(t) + i) - Len(t) = i
    BY <1>5, <1>6
  <2>2. s[Len(t) + i] = p[i]
    BY <1>6, <2>1
  <2>3. QED
    BY <1>4, <2>1, <2>2 DEF Prefix
<1>8. QED
  BY <1>1, <1>4, <1>6, <1>7 DEF Prefix, LiesIn

-----------------------------------------------------------------------------
(* Fields.                                                                 *)

\* encode writes field after field.
LEMMA EncodeWrites ==
  ASSUME NEW widths \in Seq(Nat), NEW fields, fields \in [1 .. Len(widths) -> Nat]
  PROVE  \E written : /\ \A n \in 0 .. Len(widths) : written[n] \in Seq(Byte)
                      /\ written[0] = <<>>
                      /\ \A n \in 1 .. Len(widths) :
                           written[n] = written[n - 1] \o Bytes(fields[n], widths[n])
                      /\ Encode(widths, fields) = written[Len(widths)]
<1> DEFINE Recursion(f) ==
             f = [n \in 0 .. Len(widths) |->
                   IF n = 0 THEN <<>> ELSE f[n - 1] \o Bytes(fields[n], widths[n])]
<1>1. PICK S, start : S = Seq(Byte) /\ start = <<>>
  OBVIOUS
<1>2. PICK k \in Nat : k = Len(widths)
  BY LenProperties
<1>3. PICK turn : turn = [n \in 1 .. k |-> [x \in S |-> x \o Bytes(fields[n], widths[n])]]
  OBVIOUS
<1>4. \A n \in 1 .. k : Bytes(fields[n], widths[n]) \in Seq(Byte)
  BY <1>2, BytesAre, ElementOfSeq
<1>5. \A n \in 1 .. k, x \in S : x \o Bytes(fields[n], widths[n]) \in S
  BY <1>1, <1>4, ConcatProperties
<1>6. start \in S
  BY <1>1, EmptySeq
<1>7. Turning(S, k, turn)
  BY <1>3, <1>5 DEF Turning
<1>8. PICK f : RunOf(S, k, start, turn, f)
  BY <1>2, <1>6, <1>7, LoopRuns
<1>9. ASSUME NEW n \in 1 .. k PROVE f[n] = f[n - 1] \o Bytes(fields[n], widths[n])
  <2>1. f[n] = turn[n][f[n - 1]] /\ f[n - 1] \in S
    BY <1>2, <1>8, RunTurns
  <2>2. QED
    BY <1>3, <2>1
<1>10. Recursion(f)
  <2>1. \A n \in 0 .. k : n # 0 => n \in 1 .. k
    OBVIOUS
  <2>2. \A n \in 0 .. k : f[n] = IF n = 0 THEN <<>> ELSE f[n - 1] \o Bytes(fields[n], widths[n])
    BY <1>1, <1>8, <1>9, <2>1 DEF RunOf
  <2>3. QED
    BY <1>2, <1>8, <2>2 DEF RunOf
<1>11. PICK written : written = CHOOSE h : Recursion(h)
  OBVIOUS
<1>12. Recursion(written)
  <2> HIDE DEF Recursion
  <2>1. QED
    BY <1>10, <1>11
<1>13. Encode(widths, fields) = written[Len(widths)]
  BY <1>11 DEF Encode
<1>14. /\ written[0] = start
       /\ \A n \in 1 .. k : written[n] = written[n - 1] \o Bytes(fields[n], widths[n])
  <2>1. \A n \in 0 .. k :
          written[n] = IF n = 0 THEN <<>> ELSE written[n - 1] \o Bytes(fields[n], widths[n])
    BY <1>2, <1>12
  <2> HIDE DEF Recursion
  <2>2. 0 \in 0 .. k /\ \A n \in 1 .. k : n \in 0 .. k /\ n # 0
    BY <1>2
  <2>3. QED
    BY <1>1, <2>1, <2>2
<1>15. \A n \in 0 .. k : written[n] \in S
  <2> HIDE DEF Recursion
  <2>1. \A n \in 1 .. k : written[n - 1] \in S => written[n] \in S
    BY <1>5, <1>14
  <2>2. QED
    BY <1>2, <1>6, <1>14, <2>1, LoopKeeps
<1>16. QED
  <2> HIDE DEF Recursion
  <2>1. QED
    BY <1>1, <1>2, <1>13, <1>14, <1>15

\* A number can be read wherever its bytes are there.
LEMMA NumberInBody ==
  ASSUME NEW body \in Seq(Byte), NEW off \in Nat, NEW w \in Nat, off + w <= Len(body)
  PROVE  Number(body, off, w) \in Nat
<1>1. Len(body) \in Nat /\ \A i \in 1 .. Len(body) : body[i] \in Byte
  BY LenProperties, ElementOfSeq
<1>2. \A i \in 1 .. w : off + i \in 1 .. Len(body)
  BY <1>1
<1>3. \A i \in 1 .. w : body[off + i] \in Byte
  BY <1>1, <1>2
<1>4. PICK high : /\ \A k \in 0 .. w : high[k] \in Nat
                  /\ high[0] = 0
                  /\ \A k \in 1 .. w : high[k] = high[k - 1] * Base + body[off + w - k + 1]
                  /\ Number(body, off, w) = high[w]
  BY <1>3, NumberRead
<1>5. QED
  BY <1>4

\* What decode has read so far: where it is, and the fields.
Decoded == [off : Nat, fields : Seq(Nat)]

\* A field read is a number, whether its bytes are there or not.
LEMMA ReadFieldTyped ==
  ASSUME NEW width \in Nat, NEW body \in Seq(Byte), NEW r \in Decoded
  PROVE  ReadField(width, body, r) \in Decoded
<1>1. r.off \in Nat /\ r.fields \in Seq(Nat) /\ Len(body) \in Nat
  BY LenProperties DEF Decoded
<1>2. CASE r.off + width > Len(body)
  <2>1. Append(r.fields, 0) \in Seq(Nat)
    BY <1>1, AppendProperties
  <2>2. QED
    BY <1>1, <1>2, <2>1 DEF ReadField, Decoded
<1>3. CASE ~(r.off + width > Len(body))
  <2>1. r.off + width <= Len(body)
    BY <1>1, <1>3
  <2>2. Number(body, r.off, width) \in Nat
    BY <1>1, <2>1, NumberInBody
  <2>3. Append(r.fields, Number(body, r.off, width)) \in Seq(Nat)
    BY <1>1, <2>2, AppendProperties
  <2>4. r.off + width \in Nat
    BY <1>1
  <2>5. QED
    BY <1>3, <2>3, <2>4 DEF ReadField, Decoded
<1>4. QED
  BY <1>2, <1>3

\* decode reads field after field.
LEMMA DecodeReads ==
  ASSUME NEW widths \in Seq(Nat), NEW body \in Seq(Byte), NEW off \in Nat
  PROVE  \E after : /\ \A n \in 0 .. Len(widths) : after[n] \in Decoded
                    /\ after[0] = [off |-> off, fields |-> <<>>]
                    /\ \A n \in 1 .. Len(widths) :
                         after[n] = ReadField(widths[n], body, after[n - 1])
                    /\ Decode(widths, body, off) = after[Len(widths)]
<1> DEFINE Recursion(f) ==
             f = [n \in 0 .. Len(widths) |->
                   IF n = 0 THEN [off |-> off, fields |-> <<>>]
                   ELSE ReadField(widths[n], body, f[n - 1])]
<1>1. PICK start : start = [off |-> off, fields |-> <<>>]
  OBVIOUS
<1>2. PICK k \in Nat : k = Len(widths)
  BY LenProperties
<1>3. PICK turn : turn = [n \in 1 .. k |-> [x \in Decoded |-> ReadField(widths[n], body, x)]]
  OBVIOUS
<1>4. \A n \in 1 .. k : widths[n] \in Nat
  BY <1>2, ElementOfSeq
<1>5. \A n \in 1 .. k, x \in Decoded : ReadField(widths[n], body, x) \in Decoded
  BY <1>4, ReadFieldTyped
<1>6. start \in Decoded
  BY <1>1, EmptySeq DEF Decoded
<1>7. Turning(Decoded, k, turn)
  BY <1>3, <1>5 DEF Turning
<1>8. PICK f : RunOf(Decoded, k, start, turn, f)
  BY <1>2, <1>6, <1>7, LoopRuns
<1>9. ASSUME NEW n \in 1 .. k PROVE f[n] = ReadField(widths[n], body, f[n - 1])
  <2>1. f[n] = turn[n][f[n - 1]] /\ f[n - 1] \in Decoded
    BY <1>2, <1>8, RunTurns
  <2>2. QED
    BY <1>3, <2>1
<1>10. Recursion(f)
  <2>1. \A n \in 0 .. k : n # 0 => n \in 1 .. k
    OBVIOUS
  <2>2. \A n \in 0 .. k : f[n] = IF n = 0 THEN [off |-> off, fields |-> <<>>]
                                 ELSE ReadField(widths[n], body, f[n - 1])
    BY <1>1, <1>8, <1>9, <2>1 DEF RunOf
  <2>3. QED
    BY <1>2, <1>8, <2>2 DEF RunOf
<1>11. PICK after : after = CHOOSE h : Recursion(h)
  OBVIOUS
<1>12. Recursion(after)
  <2> HIDE DEF Recursion
  <2>1. QED
    BY <1>10, <1>11
<1>13. Decode(widths, body, off) = after[Len(widths)]
  BY <1>11 DEF Decode
<1>14. /\ after[0] = start
       /\ \A n \in 1 .. k : after[n] = ReadField(widths[n], body, after[n - 1])
  <2>1. \A n \in 0 .. k : after[n] = IF n = 0 THEN [off |-> off, fields |-> <<>>]
                                     ELSE ReadField(widths[n], body, after[n - 1])
    BY <1>2, <1>12
  <2> HIDE DEF Recursion
  <2>2. 0 \in 0 .. k /\ \A n \in 1 .. k : n \in 0 .. k /\ n # 0
    BY <1>2
  <2>3. QED
    BY <1>1, <2>1, <2>2
<1>15. \A n \in 0 .. k : after[n] \in Decoded
  <2> HIDE DEF Recursion
  <2>1. \A n \in 1 .. k : after[n - 1] \in Decoded => after[n] \in Decoded
    BY <1>5, <1>14
  <2>2. after[0] \in Decoded
    BY <1>6, <1>14
  <2>3. QED
    BY <1>2, <2>1, <2>2, LoopKeeps
<1>16. QED
  <2> HIDE DEF Recursion
  <2>1. QED
    BY <1>1, <1>2, <1>13, <1>14, <1>15

\* Fields that lie in a body after off bytes are read out of it.
LEMMA DecodeEncoded ==
  ASSUME NEW widths \in Seq(Nat), NEW fields, Fit(widths, fields),
         NEW body \in Seq(Byte), NEW off \in Nat,
         off + Len(Encode(widths, fields)) <= Len(body),
         \A i \in 1 .. Len(Encode(widths, fields)) :
           body[off + i] = Encode(widths, fields)[i]
  PROVE  Decode(widths, body, off)
           = [off |-> off + Len(Encode(widths, fields)), fields |-> fields]
<1>1. PICK k \in Nat : k = Len(widths)
  BY LenProperties
<1>2. fields \in [1 .. k -> Nat] /\ \A n \in 1 .. k : fields[n] < Limit(widths[n])
  BY <1>1 DEF Fit
<1>3. PICK written : /\ \A n \in 0 .. k : written[n] \in Seq(Byte)
                     /\ written[0] = <<>>
                     /\ \A n \in 1 .. k : written[n] = written[n - 1] \o Bytes(fields[n], widths[n])
                     /\ Encode(widths, fields) = written[k]
  BY <1>1, <1>2, EncodeWrites
<1>4. PICK after : /\ \A n \in 0 .. k : after[n] \in Decoded
                   /\ after[0] = [off |-> off, fields |-> <<>>]
                   /\ \A n \in 1 .. k : after[n] = ReadField(widths[n], body, after[n - 1])
                   /\ Decode(widths, body, off) = after[k]
  BY <1>1, DecodeReads
<1>5. \A n \in 1 .. k : widths[n] \in Nat /\ fields[n] \in Nat
  BY <1>1, <1>2, ElementOfSeq
<1>6. PICK piece : piece = [n \in 1 .. k |-> Bytes(fields[n], widths[n])]
  OBVIOUS
<1>7. \A n \in 1 .. k : /\ piece[n] = Bytes(fields[n], widths[n])
                        /\ piece[n] \in Seq(Byte)
                        /\ Len(piece[n]) = widths[n]
                        /\ written[n] = written[n - 1] \o piece[n]
  BY <1>3, <1>5, <1>6, BytesAre
<1>8. ASSUME NEW n \in 1 .. k
      PROVE  /\ Len(written[n]) = Len(written[n - 1]) + widths[n]
             /\ Len(written[n]) <= Len(written[k])
             /\ \A i \in 1 .. widths[n] :
                  written[k][Len(written[n - 1]) + i] = Bytes(fields[n], widths[n])[i]
  <2>1. Pieces(Byte, k, written, piece)
    <3>1. \A m \in 0 .. k : written[m] \in Seq(Byte)
      BY <1>3
    <3>2. \A m \in 1 .. k : piece[m] \in Seq(Byte) /\ written[m] = written[m - 1] \o piece[m]
      BY <1>7
    <3>3. QED
      BY <3>1, <3>2 DEF Pieces
  <2>2. LiesIn(k, written, piece, n)
    BY <2>1, PieceLies
  <2>3. QED
    BY <1>7, <2>2 DEF LiesIn
<1>9. \A n \in 0 .. k : Len(written[n]) \in Nat
  BY <1>3, LenProperties
<1>10. Len(body) \in Nat
  BY LenProperties
<1> DEFINE T == {n \in 0 .. k : /\ after[n].off = off + Len(written[n])
                                /\ Len(after[n].fields) = n
                                /\ \A i \in 1 .. n : after[n].fields[i] = fields[i]}
<1>11. 0 \in T
  <2>1. Len(written[0]) = 0 /\ after[0].off = off /\ Len(after[0].fields) = 0
    BY <1>3, <1>4
  <2>2. after[0].off = off + Len(written[0]) /\ 0 \in 0 .. k /\ 1 .. 0 = {}
    BY <2>1
  <2>3. QED
    BY <2>1, <2>2
<1>12. ASSUME NEW n \in 1 .. k, n - 1 \in T PROVE n \in T
  <2>1. PICK at \in Nat, w \in Nat, v \in Nat, got \in Seq(Nat) :
          at = Len(written[n - 1]) /\ w = widths[n] /\ v = fields[n] /\ got = after[n - 1].fields
    <3>1. n - 1 \in 0 .. k
      OBVIOUS
    <3>2. QED
      BY <1>4, <1>5, <1>9, <3>1 DEF Decoded
  <2>2. after[n - 1].off = off + at /\ Len(got) = n - 1 /\ \A i \in 1 .. n - 1 : got[i] = fields[i]
    BY <1>12, <2>1
  <2>3. Len(written[n]) = at + w /\ off + at + w <= Len(body)
    <3>1. Len(written[n]) \in Nat /\ Len(written[k]) \in Nat /\ off + Len(written[k]) <= Len(body)
      BY <1>3, <1>9
    <3>2. Len(written[n]) = at + w /\ Len(written[n]) <= Len(written[k])
      BY <1>8, <2>1
    <3>3. QED
      BY <1>10, <3>1, <3>2
  <2>4. \A i \in 1 .. w : body[off + at + i] = Bytes(v, w)[i]
    <3>1. SUFFICES ASSUME NEW i \in 1 .. w PROVE body[off + at + i] = Bytes(v, w)[i]
      OBVIOUS
    <3>2. at + i \in 1 .. Len(written[k]) /\ off + (at + i) = off + at + i
      <4>1. Len(written[n]) <= Len(written[k])
        BY <1>8
      <4>2. Len(written[k]) \in Nat
        BY <1>9
      <4>3. QED
        BY <2>3, <4>1, <4>2
    <3>3. body[off + (at + i)] = written[k][at + i]
      BY <1>3, <3>2
    <3>4. written[k][at + i] = Bytes(v, w)[i]
      BY <1>8, <2>1
    <3>5. QED
      BY <3>2, <3>3, <3>4
  <2>5. v < Limit(w)
    BY <1>2, <2>1
  <2>6. off + at \in Nat
    OBVIOUS
  <2>7. Number(body, off + at, w) = v
    BY <2>4, <2>5, <2>6, NumberOfBytes
  <2>8. after[n] = ReadField(w, body, after[n - 1])
    BY <1>4, <2>1
  <2>9. after[n] = [off |-> off + at + w, fields |-> Append(got, v)]
    <3>1. ~(after[n - 1].off + w > Len(body))
      BY <1>10, <2>2, <2>3
    <3>2. QED
      BY <2>1, <2>2, <2>7, <2>8, <3>1 DEF ReadField
  <2>10. PICK new : new = Append(got, v)
    OBVIOUS
  <2>11. /\ Len(new) = n
         /\ \A i \in 1 .. n - 1 : new[i] = got[i]
         /\ new[n] = v
    <3>1. /\ Len(new) = Len(got) + 1
          /\ \A i \in 1 .. Len(got) : new[i] = got[i]
          /\ new[Len(got) + 1] = v
      BY <2>10, AppendProperties
    <3>2. Len(got) + 1 = n
      BY <2>2
    <3>3. QED
      BY <2>2, <3>1, <3>2
  <2>12. \A i \in 1 .. n : new[i] = fields[i]
    <3>1. \A i \in 1 .. n : i = n \/ i \in 1 .. n - 1
      OBVIOUS
    <3>2. QED
      BY <2>1, <2>2, <2>11, <3>1
  <2>13. after[n].off = off + Len(written[n]) /\ after[n].fields = new
    BY <2>3, <2>9, <2>10
  <2>14. QED
    BY <2>11, <2>12, <2>13
<1>13. k \in T
  <2> HIDE DEF T
  <2>1. \A n \in 0 .. k : n \in T
    BY <1>11, <1>12, Turns
  <2>2. QED
    BY <2>1
<1>14. PICK got \in Seq(Nat) : got = after[k].fields
  BY <1>4 DEF Decoded
<1>15. got = fields
  <2>1. Len(got) = k /\ \A i \in 1 .. k : got[i] = fields[i]
    BY <1>13, <1>14
  <2>2. got \in [1 .. k -> Nat]
    BY <2>1, LenProperties
  <2>3. fields \in [1 .. k -> Nat]
    BY <1>2
  <2> HIDE DEF T
  <2>4. QED
    BY <2>1, <2>2, <2>3
<1>16. after[k] = [off |-> off + Len(written[k]), fields |-> fields]
  <2>1. after[k].off = off + Len(written[k])
    BY <1>13
  <2>2. after[k] \in Decoded
    BY <1>4
  <2>3. QED
    BY <1>14, <1>15, <2>1, <2>2 DEF Decoded
<1>17. QED
  BY <1>3, <1>4, <1>16

\* encode and decode go through the fields of a message in the same widths.
LEMMA SameWidths ==
  ASSUME NEW type \in DOMAIN Writes
  PROVE  Reads[type] = Writes[type] /\ Writes[type] \in Seq(Nat)
<1>1. Reads = Writes
  BY DEF Reads, Writes
<1>2. PICK S : S = Seq(Nat)
  OBVIOUS
<1>3. PICK player, hello, seed, collected, pair, start, end, restart, spawn, hit, death, downed,
           bytes :
        /\ player = <<1, 2, 4, 4, 4, 2, 2, 2, 2, 1, 1, 2, 1, 1>>
        /\ hello = <<1, 4, 8, 1, 4>> /\ seed = <<8, 1, 4>> /\ collected = <<2, 1, 1, 4>>
        /\ pair = <<2, 1>> /\ start = <<4, 8, 2>> /\ end = <<4, 1, 1>> /\ restart = <<4, 8>>
        /\ spawn = <<2, 1, 4, 4, 4, 2, 2>> /\ hit = <<2, 1, 2, 4, 4, 4>>
        /\ death = <<1, 1, 2, 4, 4, 4>> /\ downed = <<1, 1, 1>> /\ bytes = <<1, 1>>
  OBVIOUS
<1>4. Writes = [PlayerState |-> player, Hello |-> hello, MazeSeed |-> seed,
                PickupCollected |-> collected, ObjectiveReached |-> pair, RunStart |-> start,
                RunEnd |-> end, Restart |-> restart, EnemySpawn |-> spawn, EnemyDespawn |-> pair,
                EnemyHit |-> hit, Death |-> death, DownedState |-> downed,
                ReviveStart |-> bytes, ReviveComplete |-> bytes]
  BY <1>3 DEF Writes
<1>5. /\ player \in S /\ hello \in S /\ seed \in S /\ collected \in S /\ pair \in S /\ start \in S
      /\ end \in S /\ restart \in S /\ spawn \in S /\ hit \in S /\ death \in S /\ downed \in S
      /\ bytes \in S
  BY <1>2, <1>3
<1>6. type \in {"PlayerState", "Hello", "MazeSeed", "PickupCollected", "ObjectiveReached",
                "RunStart", "RunEnd", "Restart", "EnemySpawn", "EnemyDespawn", "EnemyHit",
                "Death", "DownedState", "ReviveStart", "ReviveComplete"}
  BY <1>4
<1>7. Writes[type] \in S
  BY <1>4, <1>5, <1>6
<1>8. QED
  BY <1>1, <1>2, <1>7

\* encode writes bytes.
LEMMA EncodeBytes ==
  ASSUME NEW widths \in Seq(Nat), NEW fields, Fit(widths, fields)
  PROVE  Encode(widths, fields) \in Seq(Byte)
<1>1. fields \in [1 .. Len(widths) -> Nat]
  BY DEF Fit
<1>2. PICK written : /\ \A n \in 0 .. Len(widths) : written[n] \in Seq(Byte)
                     /\ Encode(widths, fields) = written[Len(widths)]
  BY <1>1, EncodeWrites
<1>3. Len(widths) \in Nat
  BY LenProperties
<1>4. QED
  BY <1>2, <1>3

\* A message that is an input is one of the protocol.
MessageInput == input.of = "fields" => IsMessage(input)

LEMMA InputIsMessage == InputSpec => []MessageInput
<1>1. InputInit => MessageInput
  BY DEF InputInit, Nothing, MessageInput
<1>2. MessageInput /\ [InputNext]_input => MessageInput'
  <2>1. SUFFICES ASSUME MessageInput, [InputNext]_input PROVE MessageInput'
    OBVIOUS
  <2>2. CASE PicksFields
    <3>1. PICK m \in Messages : input' = [of |-> "fields", type |-> m.type, fields |-> m.fields]
      BY <2>2 DEF PicksFields
    <3>2. IsMessage(m)
      BY InputsAssumption
    <3>3. QED
      BY <3>1, <3>2 DEF MessageInput, IsMessage, Fit
  <2>3. CASE PicksCheese
    BY <2>3 DEF PicksCheese, MessageInput
  <2>4. CASE PicksPickups
    BY <2>4 DEF PicksPickups, MessageInput
  <2>5. CASE PicksFrames
    BY <2>5 DEF PicksFrames, MessageInput
  <2>6. CASE PicksBatch
    BY <2>6 DEF PicksBatch, MessageInput
  <2>7. CASE UNCHANGED input
    BY <2>1, <2>7 DEF MessageInput, IsMessage, Fit
  <2>8. QED
    BY <2>1, <2>2, <2>3, <2>4, <2>5, <2>6, <2>7 DEF InputNext
<1>3. QED
  BY <1>1, <1>2, PTL DEF InputSpec

\* Every field of every message is read as it was written, whatever Base and the messages are
\* (encode and decode of the payloads in Net/Protocol.h).
THEOREM FieldsAreRead == InputSpec => []FieldsSurvive
<1>1. MessageInput => FieldsSurvive
  <2>1. SUFFICES ASSUME input.of = "fields", IsMessage(input)
        PROVE  Decode(Reads[input.type], Encode(Writes[input.type], input.fields), 0)
                 = [off |-> Len(Encode(Writes[input.type], input.fields)), fields |-> input.fields]
    BY DEF MessageInput, FieldsSurvive
  <2>2. PICK widths \in Seq(Nat) : widths = Writes[input.type] /\ widths = Reads[input.type]
    BY <2>1, SameWidths DEF IsMessage
  <2>3. PICK fields : fields = input.fields
    OBVIOUS
  <2>4. Fit(widths, fields)
    BY <2>1, <2>2, <2>3 DEF IsMessage
  <2>5. PICK body \in Seq(Byte) : body = Encode(widths, fields)
    BY <2>4, EncodeBytes
  <2>6. /\ Len(body) \in Nat /\ 0 + Len(body) = Len(body)
        /\ \A i \in 1 .. Len(body) : body[0 + i] = body[i]
    BY LenProperties
  <2>7. Decode(widths, body, 0) = [off |-> 0 + Len(body), fields |-> fields]
    <3>1. PICK off \in Nat : off = 0
      OBVIOUS
    <3>2. off + Len(Encode(widths, fields)) <= Len(body)
      BY <2>5, <2>6, <3>1
    <3>3. \A i \in 1 .. Len(Encode(widths, fields)) : body[off + i] = Encode(widths, fields)[i]
      BY <2>5, <2>6, <3>1
    <3>4. Decode(widths, body, off) = [off |-> off + Len(Encode(widths, fields)), fields |-> fields]
      BY <2>4, <3>2, <3>3, DecodeEncoded
    <3>5. QED
      BY <2>5, <3>1, <3>4
  <2>8. QED
    BY <2>2, <2>3, <2>5, <2>6, <2>7
<1>2. QED
  BY <1>1, InputIsMessage, PTL

-----------------------------------------------------------------------------
(* Batches.                                                                *)

\* The entries of both batches have fields of some width.
LEMMA EntryWidthsTyped ==
  ASSUME NEW type \in DOMAIN EntryWidths
  PROVE  EntryWidths[type] \in Seq(Nat)
<1>1. PICK S : S = Seq(Nat)
  OBVIOUS
<1>2. PICK pickup, enemy : pickup = <<2, 1>> /\ enemy = <<2, 4, 4, 4, 2, 1, 1, 1>>
  OBVIOUS
<1>3. pickup \in S /\ enemy \in S
  BY <1>1, <1>2
<1>4. EntryWidths = [PickupStateSync |-> pickup, EnemyState |-> enemy]
  BY <1>2 DEF EntryWidths
<1>5. EntryWidths[type] \in S
  BY <1>3, <1>4
<1>6. QED
  BY <1>1, <1>5

\* A number that is a byte.
LEMMA SmallNumber ==
  ASSUME NEW v \in Byte
  PROVE  v \in Nat /\ v < Limit(1) /\ Bytes(v, 1)[1] = v
<1>1. v \in Nat /\ v < Base /\ Base \in Nat \ {0}
  BY WireAssumption DEF Byte
<1>2. PICK w \in Nat : w = 1
  OBVIOUS
<1>3. PICK rest : /\ \A i \in 0 .. w : rest[i] \in Nat
                  /\ rest[0] = v
                  /\ \A i \in 1 .. w : rest[i] = rest[i - 1] \div Base
                  /\ Bytes(v, w) = [i \in 1 .. w |-> rest[i - 1] % Base]
  BY <1>1, BytesWritten
<1>4. Bytes(v, 1)[1] = v % Base
  BY <1>2, <1>3
<1>5. v % Base = v
  BY <1>1, Z3
<1>6. QED
  BY <1>1, <1>4, <1>5, Limits

\* The bytes of the count.
CountWidth(type) == IF type = "PickupStateSync" THEN 1 ELSE 2

\* How many of n entries the count tells of.
Told(type, n) == IF n <= Largest(CountWidth(type)) THEN n ELSE Largest(CountWidth(type))

\* The count tells of the entries, or of as many as it can.
LEMMA CountIsRead ==
  ASSUME NEW type, NEW n \in Nat, n < Limit(2)
  PROVE  /\ Told(type, n) \in Nat /\ Told(type, n) <= n
         /\ Count(type, n) \in Seq(Byte) /\ Len(Count(type, n)) = CountWidth(type)
         /\ \A data : (\A i \in 1 .. CountWidth(type) : data[i] = Count(type, n)[i])
                        => Number(data, 0, CountWidth(type)) = Told(type, n)
<1>1. Base \in Nat /\ Base > 1 /\ Limit(1) = Base /\ Limit(2) \in Nat
  <2>1. Base * Base \in Nat
    BY WireAssumption
  <2>2. QED
    BY <2>1, WireAssumption, Limits
<1>2. CASE type = "PickupStateSync"
  <2>1. CountWidth(type) = 1
    BY <1>2 DEF CountWidth
  <2>2. PICK v \in Byte : v = IF n < Base THEN n ELSE Base - 1
    BY <1>1 DEF Byte
  <2>3. v \in Nat /\ v < Limit(1) /\ Bytes(v, 1)[1] = v
    BY SmallNumber
  <2>4. Told(type, n) = v /\ v <= n
    BY <1>1, <2>1, <2>2, <2>3 DEF Told, Largest
  <2>5. Count(type, n) = <<v>>
    BY <1>2, <2>2 DEF Count
  <2>6. <<v>> \in Seq(Byte) /\ Len(<<v>>) = 1 /\ <<v>>[1] = v
    OBVIOUS
  <2>7. ASSUME NEW data, \A i \in 1 .. 1 : data[i] = <<v>>[i]
        PROVE  Number(data, 0, 1) = v
    <3>1. PICK off \in Nat, w \in Nat : off = 0 /\ w = 1
      OBVIOUS
    <3>2. \A i \in 1 .. w : data[off + i] = Bytes(v, w)[i]
      BY <2>3, <2>6, <2>7, <3>1
    <3>3. Number(data, off, w) = v
      BY <2>3, <3>1, <3>2, NumberOfBytes
    <3>4. QED
      BY <3>1, <3>3
  <2>8. QED
    BY <2>1, <2>3, <2>4, <2>5, <2>6, <2>7
<1>3. CASE type # "PickupStateSync"
  <2>1. CountWidth(type) = 2 /\ Count(type, n) = Bytes(n, 2)
    BY <1>3 DEF CountWidth, Count
  <2>2. Told(type, n) = n
    BY <1>1, <2>1 DEF Told, Largest
  <2>3. Bytes(n, 2) \in Seq(Byte) /\ Len(Bytes(n, 2)) = 2
    BY BytesAre
  <2>4. ASSUME NEW data, \A i \in 1 .. 2 : data[i] = Bytes(n, 2)[i]
        PROVE  Number(data, 0, 2) = n
    <3>1. PICK off \in Nat, w \in Nat : off = 0 /\ w = 2
      OBVIOUS
    <3>2. \A i \in 1 .. w : data[off + i] = Bytes(n, w)[i]
      BY <2>4, <3>1
    <3>3. Number(data, off, w) = n
      BY <3>1, <3>2, NumberOfBytes
    <3>4. QED
      BY <3>1, <3>3
  <2>5. QED
    BY <2>1, <2>2, <2>3, <2>4
<1>4. QED
  BY <1>2, <1>3

\* What encode has written after the count and after each of k entries.
WritesBatch(type, entries, k, widths, written) ==
  /\ \A n \in 0 .. k : written[n] \in Seq(Byte)
  /\ written[0] = Count(type, k)
  /\ \A n \in 1 .. k : written[n] = written[n - 1] \o Encode(widths, entries[n])
  /\ EncodeBatch(type, entries) = written[k]

\* encode of a batch writes entry after entry.
LEMMA EncodeBatchWrites ==
  ASSUME NEW type, NEW entries, NEW k \in Nat, k = Len(entries),
         NEW widths, widths = EntryWidths[type],
         Count(type, k) \in Seq(Byte), \A n \in 1 .. k : Encode(widths, entries[n]) \in Seq(Byte)
  PROVE  \E written : WritesBatch(type, entries, k, widths, written)
<1> DEFINE Recursion(f) ==
             f = [n \in 0 .. Len(entries) |->
                   IF n = 0 THEN Count(type, Len(entries))
                   ELSE f[n - 1] \o Encode(EntryWidths[type], entries[n])]
<1>1. PICK S, start : S = Seq(Byte) /\ start = Count(type, k)
  OBVIOUS
<1>2. PICK turn : turn = [n \in 1 .. k |-> [x \in S |-> x \o Encode(widths, entries[n])]]
  OBVIOUS
<1>3. \A n \in 1 .. k, x \in S : x \o Encode(widths, entries[n]) \in S
  BY <1>1, ConcatProperties
<1>4. start \in S
  BY <1>1
<1>5. Turning(S, k, turn)
  BY <1>2, <1>3 DEF Turning
<1>6. PICK f : RunOf(S, k, start, turn, f)
  BY <1>4, <1>5, LoopRuns
<1>7. ASSUME NEW n \in 1 .. k PROVE f[n] = f[n - 1] \o Encode(widths, entries[n])
  <2>1. f[n] = turn[n][f[n - 1]] /\ f[n - 1] \in S
    BY <1>6, RunTurns
  <2>2. QED
    BY <1>2, <2>1
<1>8. Recursion(f)
  <2>1. \A n \in 0 .. k : n # 0 => n \in 1 .. k
    OBVIOUS
  <2>2. \A n \in 0 .. k : f[n] = IF n = 0 THEN Count(type, Len(entries))
                                 ELSE f[n - 1] \o Encode(EntryWidths[type], entries[n])
    BY <1>1, <1>6, <1>7, <2>1 DEF RunOf
  <2>3. QED
    BY <1>6, <2>2 DEF RunOf
<1>9. PICK written : written = CHOOSE h : Recursion(h)
  OBVIOUS
<1>10. Recursion(written)
  <2> HIDE DEF Recursion
  <2>1. QED
    BY <1>8, <1>9
<1>11. EncodeBatch(type, entries) = written[k]
  BY <1>9 DEF EncodeBatch
<1>12. /\ written[0] = start
       /\ \A n \in 1 .. k : written[n] = written[n - 1] \o Encode(widths, entries[n])
  <2>1. \A n \in 0 .. k : written[n] = IF n = 0 THEN Count(type, k)
                                       ELSE written[n - 1] \o Encode(widths, entries[n])
    BY <1>10
  <2> HIDE DEF Recursion
  <2>2. 0 \in 0 .. k /\ \A n \in 1 .. k : n \in 0 .. k /\ n # 0
    OBVIOUS
  <2>3. QED
    BY <1>1, <2>1, <2>2
<1>13. \A n \in 0 .. k : written[n] \in S
  <2> HIDE DEF Recursion
  <2>1. \A n \in 1 .. k : written[n - 1] \in S => written[n] \in S
    BY <1>3, <1>12
  <2>2. written[0] \in S
    BY <1>4, <1>12
  <2>3. QED
    BY <2>1, <2>2, LoopKeeps
<1>14. QED
  <2> HIDE DEF Recursion
  <2>1. QED
    BY <1>1, <1>11, <1>12, <1>13 DEF WritesBatch

\* What decode of a batch has read so far.
DecodedBatch == [off : Nat, entries : Seq(Seq(Nat))]

\* An entry read is a list of numbers.
LEMMA ReadEntryTyped ==
  ASSUME NEW widths \in Seq(Nat), NEW body \in Seq(Byte), NEW r \in DecodedBatch
  PROVE  ReadEntry(widths, body, r) \in DecodedBatch
<1>1. r.off \in Nat /\ r.entries \in Seq(Seq(Nat))
  BY DEF DecodedBatch
<1>2. PICK d \in Decoded : d = Decode(widths, body, r.off)
  <2>1. PICK after : /\ \A n \in 0 .. Len(widths) : after[n] \in Decoded
                     /\ Decode(widths, body, r.off) = after[Len(widths)]
    BY <1>1, DecodeReads
  <2>2. Len(widths) \in 0 .. Len(widths)
    BY LenProperties
  <2>3. QED
    BY <2>1, <2>2
<1>3. d.off \in Nat /\ d.fields \in Seq(Nat)
  BY DEF Decoded
<1>4. PICK S, s, e : S = Seq(Nat) /\ s = r.entries /\ e = d.fields
  OBVIOUS
<1>5. Append(s, e) \in Seq(S)
  BY <1>1, <1>3, <1>4, AppendProperties
<1>6. QED
  BY <1>2, <1>3, <1>4, <1>5 DEF ReadEntry, DecodedBatch

\* What decode has read after the count and after each of its entries.
ReadsBatch(type, body, width, count, widths, after) ==
  /\ \A n \in 0 .. count : after[n] \in DecodedBatch
  /\ after[0] = [off |-> width, entries |-> <<>>]
  /\ \A n \in 1 .. count : after[n] = ReadEntry(widths, body, after[n - 1])
  /\ DecodeBatch(type, body) = after[count].entries

\* decode of a batch reads entry after entry.
LEMMA DecodeBatchReads ==
  ASSUME NEW type \in DOMAIN EntryWidths, NEW body \in Seq(Byte),
         NEW width \in Nat, width = CountWidth(type), NEW count \in Nat,
         count = Number(body, 0, width), NEW widths \in Seq(Nat), widths = EntryWidths[type]
  PROVE  \E after : ReadsBatch(type, body, width, count, widths, after)
<1> DEFINE Recursion(f) ==
             f = [n \in 0 .. count |->
                   IF n = 0 THEN [off |-> width, entries |-> <<>>]
                   ELSE ReadEntry(widths, body, f[n - 1])]
           Coded(f) ==
             f = [n \in 0 .. Number(body, 0, IF type = "PickupStateSync" THEN 1 ELSE 2) |->
                   IF n = 0
                   THEN [off |-> IF type = "PickupStateSync" THEN 1 ELSE 2, entries |-> <<>>]
                   ELSE ReadEntry(EntryWidths[type], body, f[n - 1])]
<1>1. PICK start : start = [off |-> width, entries |-> <<>>]
  OBVIOUS
<1>2. PICK turn : turn = [n \in 1 .. count |-> [x \in DecodedBatch |-> ReadEntry(widths, body, x)]]
  OBVIOUS
<1>3. \A n \in 1 .. count, x \in DecodedBatch : ReadEntry(widths, body, x) \in DecodedBatch
  BY ReadEntryTyped
<1>4. start \in DecodedBatch
  BY <1>1, EmptySeq DEF DecodedBatch
<1>5. Turning(DecodedBatch, count, turn)
  BY <1>2, <1>3 DEF Turning
<1>6. PICK f : RunOf(DecodedBatch, count, start, turn, f)
  BY <1>4, <1>5, LoopRuns
<1>7. ASSUME NEW n \in 1 .. count PROVE f[n] = ReadEntry(widths, body, f[n - 1])
  <2>1. f[n] = turn[n][f[n - 1]] /\ f[n - 1] \in DecodedBatch
    BY <1>6, RunTurns
  <2>2. QED
    BY <1>2, <2>1
<1>8. Recursion(f)
  <2>1. \A n \in 0 .. count : n # 0 => n \in 1 .. count
    OBVIOUS
  <2>2. \A n \in 0 .. count : f[n] = IF n = 0 THEN [off |-> width, entries |-> <<>>]
                                     ELSE ReadEntry(widths, body, f[n - 1])
    BY <1>1, <1>6, <1>7, <2>1 DEF RunOf
  <2>3. QED
    BY <1>6, <2>2 DEF RunOf
<1>9. PICK after : after = CHOOSE h : Coded(h)
  OBVIOUS
<1>10. \A h : Coded(h) <=> Recursion(h)
  <2>1. width = IF type = "PickupStateSync" THEN 1 ELSE 2
    BY DEF CountWidth
  <2>2. QED
    BY <2>1
<1>11. Recursion(after)
  <2> HIDE DEF Recursion, Coded
  <2>1. Coded(after)
    BY <1>8, <1>9, <1>10
  <2>2. QED
    BY <1>10, <2>1
<1>12. DecodeBatch(type, body) = after[count].entries
  <2>1. width = IF type = "PickupStateSync" THEN 1 ELSE 2
    BY DEF CountWidth
  <2>2. DecodeBatch(type, body)
          = after[Number(body, 0, IF type = "PickupStateSync" THEN 1 ELSE 2)].entries
    BY <1>9 DEF DecodeBatch
  <2>3. QED
    BY <2>1, <2>2
<1>13. /\ after[0] = start
       /\ \A n \in 1 .. count : after[n] = ReadEntry(widths, body, after[n - 1])
  <2>1. \A n \in 0 .. count : after[n] = IF n = 0 THEN [off |-> width, entries |-> <<>>]
                                         ELSE ReadEntry(widths, body, after[n - 1])
    BY <1>11
  <2> HIDE DEF Recursion, Coded
  <2>2. 0 \in 0 .. count /\ \A n \in 1 .. count : n \in 0 .. count /\ n # 0
    OBVIOUS
  <2>3. QED
    BY <1>1, <2>1, <2>2
<1>14. \A n \in 0 .. count : after[n] \in DecodedBatch
  <2> HIDE DEF Recursion, Coded
  <2>1. \A n \in 1 .. count : after[n - 1] \in DecodedBatch => after[n] \in DecodedBatch
    BY <1>3, <1>13
  <2>2. after[0] \in DecodedBatch
    BY <1>4, <1>13
  <2>3. QED
    BY <2>1, <2>2, LoopKeeps
<1>15. QED
  <2> HIDE DEF Recursion, Coded
  <2>1. QED
    BY <1>1, <1>12, <1>13, <1>14 DEF ReadsBatch

\* A batch that is read from its own bytes.
LEMMA BatchDecoded ==
  ASSUME NEW type \in DOMAIN EntryWidths, NEW entries \in Seq(Seq(Nat)),
         NEW k \in Nat, k = Len(entries), k < Limit(2),
         \A i \in 1 .. k : Fit(EntryWidths[type], entries[i])
  PROVE  DecodeBatch(type, EncodeBatch(type, entries)) = SubSeq(entries, 1, Told(type, k))
<1>1. PICK widths \in Seq(Nat) : widths = EntryWidths[type]
  BY EntryWidthsTyped
<1>2. PICK piece : piece = [n \in 1 .. k |-> Encode(widths, entries[n])]
  OBVIOUS
<1>3. \A n \in 1 .. k : /\ piece[n] = Encode(widths, entries[n])
                        /\ Encode(widths, entries[n]) \in Seq(Byte)
                        /\ Fit(widths, entries[n])
  BY <1>1, <1>2, EncodeBytes
<1>4. PICK width \in Nat, count \in Nat : width = CountWidth(type) /\ count = Told(type, k)
  BY CountIsRead DEF CountWidth
<1>5. /\ count <= k
      /\ Count(type, k) \in Seq(Byte) /\ Len(Count(type, k)) = width
      /\ \A data : (\A i \in 1 .. width : data[i] = Count(type, k)[i])
                     => Number(data, 0, width) = count
  BY <1>4, CountIsRead
<1>6. PICK written : WritesBatch(type, entries, k, widths, written)
  <2>1. Count(type, k) \in Seq(Byte)
    BY <1>5
  <2>2. \A n \in 1 .. k : Encode(widths, entries[n]) \in Seq(Byte)
    BY <1>3
  <2>3. QED
    BY <1>1, <2>1, <2>2, EncodeBatchWrites
<1>7. /\ \A n \in 0 .. k : written[n] \in Seq(Byte)
      /\ written[0] = Count(type, k)
      /\ \A n \in 1 .. k : written[n] = written[n - 1] \o Encode(widths, entries[n])
      /\ EncodeBatch(type, entries) = written[k]
  BY <1>6 DEF WritesBatch
<1>8. Pieces(Byte, k, written, piece)
  <2>1. \A m \in 0 .. k : written[m] \in Seq(Byte)
    BY <1>7
  <2>2. \A m \in 1 .. k : piece[m] \in Seq(Byte) /\ written[m] = written[m - 1] \o piece[m]
    BY <1>3, <1>7
  <2>3. QED
    BY <2>1, <2>2 DEF Pieces
<1>9. PICK body \in Seq(Byte) : body = written[k]
  BY <1>7
<1>10. Number(body, 0, width) = count
  <2>1. Prefix(written[0], written[k])
    <3>1. 0 \in 0 .. k
      OBVIOUS
    <3>2. QED
      BY <1>8, <3>1, EarlierIsPrefix
  <2>2. \A i \in 1 .. width : body[i] = Count(type, k)[i]
    BY <1>5, <1>7, <1>9, <2>1 DEF Prefix
  <2>3. QED
    BY <1>5, <2>2
<1>11. PICK after : ReadsBatch(type, body, width, count, widths, after)
  <2>1. width = CountWidth(type)
    BY <1>4
  <2>2. QED
    BY <1>1, <1>10, <2>1, DecodeBatchReads
<1>12. /\ \A n \in 0 .. count : after[n] \in DecodedBatch
       /\ after[0] = [off |-> width, entries |-> <<>>]
       /\ \A n \in 1 .. count : after[n] = ReadEntry(widths, body, after[n - 1])
       /\ DecodeBatch(type, body) = after[count].entries
  BY <1>11 DEF ReadsBatch
<1>13. \A n \in 0 .. k : Len(written[n]) \in Nat
  BY <1>7, LenProperties
<1> DEFINE T == {n \in 0 .. count : /\ after[n].off = Len(written[n])
                                    /\ Len(after[n].entries) = n
                                    /\ \A i \in 1 .. n : after[n].entries[i] = entries[i]}
<1>14. 0 \in T
  <2>1. Len(written[0]) = width /\ after[0].off = width /\ Len(after[0].entries) = 0
    BY <1>5, <1>7, <1>12
  <2>2. after[0].off = Len(written[0]) /\ 0 \in 0 .. count /\ 1 .. 0 = {}
    BY <2>1
  <2>3. QED
    BY <2>1, <2>2
<1>15. ASSUME NEW n \in 1 .. count, n - 1 \in T PROVE n \in T
  <2>1. n \in 1 .. k /\ n - 1 \in 0 .. k /\ n - 1 \in 0 .. count
    BY <1>5
  <2>2. PICK S : S = Seq(Nat)
    OBVIOUS
  <2>3. PICK at \in Nat, e \in S, got \in Seq(S) :
          at = Len(written[n - 1]) /\ e = entries[n] /\ got = after[n - 1].entries
    <3>1. Len(written[n - 1]) \in Nat
      BY <1>13, <2>1
    <3>2. entries[n] \in S
      BY <2>1, <2>2, ElementOfSeq
    <3>3. after[n - 1].entries \in Seq(S)
      BY <1>12, <2>1, <2>2 DEF DecodedBatch
    <3>4. QED
      BY <3>1, <3>2, <3>3
  <2>4. after[n - 1].off = at /\ Len(got) = n - 1 /\ \A i \in 1 .. n - 1 : got[i] = entries[i]
    BY <1>15, <2>3
  <2>5. PICK p \in Seq(Byte) : p = Encode(widths, e) /\ p = piece[n] /\ Fit(widths, e)
    BY <1>3, <2>1, <2>3
  <2>6. /\ Len(written[n]) = at + Len(p)
        /\ Len(written[n]) <= Len(written[k])
        /\ \A i \in 1 .. Len(p) : written[k][at + i] = p[i]
    <3>1. LiesIn(k, written, piece, n)
      BY <1>8, <2>1, PieceLies
    <3>2. QED
      BY <2>3, <2>5, <3>1 DEF LiesIn
  <2>7. at + Len(Encode(widths, e)) <= Len(body)
    BY <1>9, <2>5, <2>6
  <2>8. \A i \in 1 .. Len(Encode(widths, e)) : body[at + i] = Encode(widths, e)[i]
    BY <1>9, <2>5, <2>6
  <2>9. Decode(widths, body, at) = [off |-> at + Len(Encode(widths, e)), fields |-> e]
    BY <2>5, <2>7, <2>8, DecodeEncoded
  <2>10. after[n] = ReadEntry(widths, body, after[n - 1])
    BY <1>12
  <2>11. after[n] = [off |-> at + Len(p), entries |-> Append(got, e)]
    <3>1. Decode(widths, body, after[n - 1].off) = [off |-> at + Len(p), fields |-> e]
      BY <2>4, <2>5, <2>9
    <3>2. QED
      BY <2>3, <2>10, <3>1 DEF ReadEntry
  <2>12. PICK new : new = Append(got, e)
    OBVIOUS
  <2>13. /\ Len(new) = n
         /\ \A i \in 1 .. n - 1 : new[i] = got[i]
         /\ new[n] = e
    <3>1. /\ Len(new) = Len(got) + 1
          /\ \A i \in 1 .. Len(got) : new[i] = got[i]
          /\ new[Len(got) + 1] = e
      BY <2>12, AppendProperties
    <3>2. Len(got) + 1 = n
      BY <2>4
    <3>3. QED
      BY <2>4, <3>1, <3>2
  <2>14. \A i \in 1 .. n : new[i] = entries[i]
    <3>1. \A i \in 1 .. n : i = n \/ i \in 1 .. n - 1
      OBVIOUS
    <3>2. QED
      BY <2>3, <2>4, <2>13, <3>1
  <2>15. after[n].off = Len(written[n]) /\ after[n].entries = new
    BY <2>6, <2>11, <2>12
  <2>16. QED
    BY <2>13, <2>14, <2>15
<1>16. count \in T
  <2> HIDE DEF T
  <2>1. \A n \in 0 .. count : n \in T
    BY <1>14, <1>15, Turns
  <2>2. QED
    BY <2>1
<1>17. PICK S, got : S = Seq(Nat) /\ got = after[count].entries
  OBVIOUS
<1>18. got \in Seq(S) /\ Len(got) = count /\ \A i \in 1 .. count : got[i] = entries[i]
  BY <1>12, <1>16, <1>17 DEF DecodedBatch
<1>19. got = SubSeq(entries, 1, count)
  <2>1. PICK sub : sub = SubSeq(entries, 1, count)
    OBVIOUS
  <2>2. entries \in Seq(S) /\ 1 \in 1 .. k + 1 /\ count \in 0 .. k
    BY <1>5, <1>17
  <2>3. sub \in Seq(S) /\ Len(sub) = count /\ \A i \in 1 .. count : sub[i] = entries[i]
    <3>1. sub = [i \in 1 .. count |-> entries[i]]
      BY <2>1, <2>2
    <3>2. \A i \in 1 .. count : entries[i] \in S
      BY <2>2, ElementOfSeq
    <3>3. QED
      BY <3>1, <3>2
  <2>4. QED
    BY <1>18, <2>1, <2>3, SeqEqual
<1>20. QED
  BY <1>4, <1>7, <1>9, <1>12, <1>17, <1>19

\* A batch that is an input is one of the protocol.
BatchInput == input.of = "batch" => IsBatch(input)

LEMMA InputIsBatch == InputSpec => []BatchInput
<1>1. InputInit => BatchInput
  BY DEF InputInit, Nothing, BatchInput
<1>2. BatchInput /\ [InputNext]_input => BatchInput'
  <2>1. SUFFICES ASSUME BatchInput, [InputNext]_input PROVE BatchInput'
    OBVIOUS
  <2>2. CASE PicksBatch
    <3>1. PICK b \in Batches : input' = [of |-> "batch", type |-> b.type, entries |-> b.entries]
      BY <2>2 DEF PicksBatch
    <3>2. IsBatch(b)
      BY InputsAssumption
    <3>3. QED
      BY <3>1, <3>2 DEF BatchInput, IsBatch, Fit
  <2>3. CASE PicksCheese
    BY <2>3 DEF PicksCheese, BatchInput
  <2>4. CASE PicksPickups
    BY <2>4 DEF PicksPickups, BatchInput
  <2>5. CASE PicksFrames
    BY <2>5 DEF PicksFrames, BatchInput
  <2>6. CASE PicksFields
    BY <2>6 DEF PicksFields, BatchInput
  <2>7. CASE UNCHANGED input
    BY <2>1, <2>7 DEF BatchInput, IsBatch, Fit
  <2>8. QED
    BY <2>1, <2>2, <2>3, <2>4, <2>5, <2>6, <2>7 DEF InputNext
<1>3. QED
  BY <1>1, <1>2, PTL DEF InputSpec

\* The entries of a batch are read as they were written, up to the largest count, for any Base
\* and any number of entries (encode and decode of the batches in Net/Protocol.h).
THEOREM EntriesAreRead == InputSpec => []BatchSurvives
<1>1. BatchInput => BatchSurvives
  <2>1. SUFFICES ASSUME input.of = "batch", IsBatch(input)
        PROVE  DecodeBatch(input.type, EncodeBatch(input.type, input.entries))
                 = SubSeq(input.entries, 1, Told(input.type, Len(input.entries)))
    BY DEF BatchInput, BatchSurvives, Told, CountWidth
  <2>2. PICK type \in DOMAIN EntryWidths, entries \in Seq(Seq(Nat)) :
          type = input.type /\ entries = input.entries
    BY <2>1 DEF IsBatch
  <2>3. PICK k \in Nat : k = Len(entries)
    BY LenProperties
  <2>4. k < Limit(2) /\ \A i \in 1 .. k : Fit(EntryWidths[type], entries[i])
    BY <2>1, <2>2, <2>3 DEF IsBatch
  <2>5. QED
    BY <2>2, <2>3, <2>4, BatchDecoded
<1>2. QED
  BY <1>1, InputIsBatch, PTL

-----------------------------------------------------------------------------
(* Datagrams.                                                              *)

\* The bytes of a frame.
LEMMA FrameBytes ==
  ASSUME NEW f \in FrameSet
  PROVE  /\ f.body \in Seq(Byte) /\ Len(f.body) \in Nat /\ Len(f.body) < Limit(2)
         /\ f.chan \in Byte /\ f.type \in Byte
         /\ f = [chan |-> f.chan, type |-> f.type, body |-> f.body]
         /\ PackFrame(f) \in Seq(Byte)
         /\ Len(PackFrame(f)) = 4 + Len(f.body)
         /\ PackFrame(f)[1] = f.chan /\ PackFrame(f)[2] = f.type
         /\ \A i \in 1 .. 2 : PackFrame(f)[2 + i] = Bytes(Len(f.body), 2)[i]
         /\ \A i \in 1 .. Len(f.body) : PackFrame(f)[4 + i] = f.body[i]
<1>1. /\ f.body \in Seq(Byte) /\ Len(f.body) < Limit(2)
      /\ f.chan \in Byte /\ f.type \in Byte
      /\ f = [chan |-> f.chan, type |-> f.type, body |-> f.body]
  BY DEF FrameSet
<1>2. PICK S, head, size, body, n :
        /\ S = Byte /\ head = <<f.chan, f.type>> /\ body = f.body
        /\ n = Len(f.body) /\ size = Bytes(n, 2)
  OBVIOUS
<1>3. n \in Nat /\ n = Len(body) /\ body \in Seq(S)
  BY <1>1, <1>2, LenProperties
<1>4. size \in Seq(S) /\ Len(size) = 2
  BY <1>2, <1>3, BytesAre
<1>5. head \in Seq(S) /\ Len(head) = 2 /\ head[1] = f.chan /\ head[2] = f.type
  BY <1>1, <1>2
<1>6. PICK start : start = head \o size
  OBVIOUS
<1>7. /\ start \in Seq(S) /\ Len(start) = 4
      /\ start[1] = head[1] /\ start[2] = head[2]
      /\ start[3] = size[1] /\ start[4] = size[2]
  <2>1. /\ start \in Seq(S) /\ Len(start) = Len(head) + Len(size)
        /\ \A i \in 1 .. Len(head) + Len(size) :
             start[i] = IF i <= Len(head) THEN head[i] ELSE size[i - Len(head)]
    BY <1>4, <1>5, <1>6, ConcatProperties
  <2>2. Len(start) = 4 /\ \A i \in 1 .. 4 : start[i] = IF i <= 2 THEN head[i] ELSE size[i - 2]
    BY <1>4, <1>5, <2>1
  <2>3. start[1] = head[1] /\ start[2] = head[2] /\ start[3] = size[3 - 2] /\ start[4] = size[4 - 2]
    BY <2>2
  <2>4. 3 - 2 = 1 /\ 4 - 2 = 2
    OBVIOUS
  <2>5. QED
    BY <2>1, <2>2, <2>3, <2>4
<1>8. PICK all : all = start \o body
  OBVIOUS
<1>9. /\ all \in Seq(S) /\ Len(all) = 4 + n
      /\ \A i \in 1 .. 4 : all[i] = start[i]
      /\ \A i \in 1 .. n : all[4 + i] = body[i]
  <2>1. /\ all \in Seq(S) /\ Len(all) = Len(start) + Len(body)
        /\ \A i \in 1 .. Len(start) + Len(body) :
             all[i] = IF i <= Len(start) THEN start[i] ELSE body[i - Len(start)]
    BY <1>3, <1>7, <1>8, ConcatProperties
  <2>2. ASSUME NEW i \in 1 .. n PROVE all[4 + i] = body[i]
    <3>1. /\ 4 + i \in 1 .. Len(start) + Len(body) /\ ~(4 + i <= Len(start))
          /\ (4 + i) - Len(start) = i
      BY <1>3, <1>7
    <3>2. QED
      BY <2>1, <3>1
  <2>3. \A i \in 1 .. 4 : all[i] = start[i]
    BY <1>3, <1>7, <2>1
  <2>4. QED
    BY <1>3, <1>7, <2>1, <2>2, <2>3
<1>10. PackFrame(f) = all
  BY <1>2, <1>6, <1>8 DEF PackFrame
<1>11. /\ all[1] = f.chan /\ all[2] = f.type
       /\ all[2 + 1] = size[1] /\ all[2 + 2] = size[2]
  BY <1>5, <1>7, <1>9
<1>12. \A i \in 1 .. 2 : all[2 + i] = size[i]
  BY <1>11
<1>13. QED
  BY <1>1, <1>2, <1>3, <1>9, <1>10, <1>11, <1>12

\* The length in the header of a frame is that of its body.
LEMMA HeaderIsRead ==
  ASSUME NEW f \in FrameSet, NEW data, NEW off \in Nat,
         \A i \in 1 .. 4 : data[off + i] = PackFrame(f)[i]
  PROVE  BodyLength(data, off) = Len(f.body)
<1>1. PICK n \in Nat, w \in Nat, at \in Nat : n = Len(f.body) /\ w = 2 /\ at = off + 2
  <2>1. Len(f.body) \in Nat /\ 2 \in Nat /\ off + 2 \in Nat
    BY FrameBytes
  <2>2. QED
    BY <2>1
<1>2. n < Limit(w)
  BY <1>1, FrameBytes
<1>3. \A i \in 1 .. w : data[at + i] = Bytes(n, w)[i]
  <2>1. ASSUME NEW i \in 1 .. 2 PROVE data[off + 2 + i] = Bytes(n, 2)[i]
    <3>1. 2 + i \in 1 .. 4 /\ off + (2 + i) = off + 2 + i
      OBVIOUS
    <3>2. data[off + (2 + i)] = PackFrame(f)[2 + i]
      BY <3>1
    <3>3. PackFrame(f)[2 + i] = Bytes(n, 2)[i]
      BY <1>1, FrameBytes
    <3>4. QED
      BY <3>1, <3>2, <3>3
  <2>2. QED
    BY <1>1, <2>1
<1>4. Number(data, at, w) = n
  BY <1>2, <1>3, NumberOfBytes
<1>5. QED
  BY <1>1, <1>4 DEF BodyLength

\* A frame that is all there is read as it was packed.
LEMMA FrameIsRead ==
  ASSUME NEW f \in FrameSet, NEW data \in Seq(Byte), NEW off \in Nat,
         off + Len(PackFrame(f)) <= Len(data),
         \A i \in 1 .. Len(PackFrame(f)) : data[off + i] = PackFrame(f)[i]
  PROVE  FrameAt(data, off, off + Len(PackFrame(f))) = f
<1> DEFINE p == PackFrame(f)
<1>1. PICK n \in Nat, body \in Seq(Byte) :
        n = Len(f.body) /\ body = f.body /\ p = PackFrame(f) /\ Len(p) = 4 + n
  <2>1. /\ Len(f.body) \in Nat /\ f.body \in Seq(Byte)
        /\ Len(PackFrame(f)) = 4 + Len(f.body)
    BY FrameBytes
  <2>2. QED
    BY <2>1
<1>2. data[off + 1] = f.chan /\ data[off + 2] = f.type
  <2>1. 1 \in 1 .. Len(p) /\ 2 \in 1 .. Len(p)
    BY <1>1
  <2>2. QED
    BY <1>1, <2>1, FrameBytes
<1>3. PICK sub : sub = SubSeq(data, off + 5, off + 4 + n)
  OBVIOUS
<1>4. sub = [i \in 1 .. n |-> data[off + 4 + i]]
  <2>1. PICK from \in Nat, to \in Nat : from = off + 5 /\ to = off + 4 + n
    OBVIOUS
  <2>2. sub = [i \in 1 .. to - from + 1 |-> data[from + i - 1]]
    BY <1>3, <2>1
  <2>3. to - from + 1 = n /\ \A i \in 1 .. n : from + i - 1 = off + 4 + i
    BY <2>1
  <2>4. QED
    BY <2>2, <2>3
<1>5. ASSUME NEW i \in 1 .. n PROVE data[off + 4 + i] = body[i]
  <2>1. 4 + i \in 1 .. Len(p) /\ off + (4 + i) = off + 4 + i
    BY <1>1
  <2>2. data[off + (4 + i)] = p[4 + i]
    BY <1>1, <2>1
  <2>3. p[4 + i] = body[i]
    BY <1>1, FrameBytes
  <2>4. QED
    BY <2>1, <2>2, <2>3
<1>6. sub = body
  <2>1. body = [i \in 1 .. n |-> body[i]]
    BY <1>1
  <2>2. QED
    BY <1>4, <1>5, <2>1
<1>7. off + Len(p) = off + 4 + n
  <2>1. Len(p) = 4 + n
    BY <1>1
  <2>2. off + (4 + n) = off + 4 + n
    OBVIOUS
  <2>3. QED
    BY <2>1, <2>2
<1>8. FrameAt(data, off, off + 4 + n) = [chan |-> f.chan, type |-> f.type, body |-> body]
  BY <1>2, <1>3, <1>6 DEF FrameAt
<1>9. QED
  BY <1>1, <1>7, <1>8, FrameBytes

\* What has been packed after each of k frames.
WritesFrames(frames, k, written) ==
  /\ \A n \in 0 .. k : written[n] \in Seq(Byte)
  /\ written[0] = <<>>
  /\ \A n \in 1 .. k : written[n] = written[n - 1] \o PackFrame(frames[n])
  /\ Packed(frames) = written[k]

\* Frame after frame is packed into a datagram.
LEMMA PackedWrites ==
  ASSUME NEW frames \in Seq(FrameSet), NEW k \in Nat, k = Len(frames)
  PROVE  \E written : WritesFrames(frames, k, written)
<1> DEFINE Recursion(f) ==
             f = [n \in 0 .. Len(frames) |->
                   IF n = 0 THEN <<>> ELSE f[n - 1] \o PackFrame(frames[n])]
<1>1. PICK S, start : S = Seq(Byte) /\ start = <<>>
  OBVIOUS
<1>2. PICK turn : turn = [n \in 1 .. k |-> [x \in S |-> x \o PackFrame(frames[n])]]
  OBVIOUS
<1>3. \A n \in 1 .. k : PackFrame(frames[n]) \in Seq(Byte)
  BY FrameBytes, ElementOfSeq
<1>4. \A n \in 1 .. k, x \in S : x \o PackFrame(frames[n]) \in S
  BY <1>1, <1>3, ConcatProperties
<1>5. start \in S
  BY <1>1, EmptySeq
<1>6. Turning(S, k, turn)
  BY <1>2, <1>4 DEF Turning
<1>7. PICK f : RunOf(S, k, start, turn, f)
  BY <1>5, <1>6, LoopRuns
<1>8. ASSUME NEW n \in 1 .. k PROVE f[n] = f[n - 1] \o PackFrame(frames[n])
  <2>1. f[n] = turn[n][f[n - 1]] /\ f[n - 1] \in S
    BY <1>7, RunTurns
  <2>2. QED
    BY <1>2, <2>1
<1>9. Recursion(f)
  <2>1. \A n \in 0 .. k : n # 0 => n \in 1 .. k
    OBVIOUS
  <2>2. \A n \in 0 .. k : f[n] = IF n = 0 THEN <<>> ELSE f[n - 1] \o PackFrame(frames[n])
    BY <1>1, <1>7, <1>8, <2>1 DEF RunOf
  <2>3. QED
    BY <1>7, <2>2 DEF RunOf
<1>10. PICK written : written = CHOOSE h : Recursion(h)
  OBVIOUS
<1>11. Recursion(written)
  <2> HIDE DEF Recursion
  <2>1. QED
    BY <1>9, <1>10
<1>12. Packed(frames) = written[k]
  BY <1>10 DEF Packed
<1>13. /\ written[0] = start
       /\ \A n \in 1 .. k : written[n] = written[n - 1] \o PackFrame(frames[n])
  <2>1. \A n \in 0 .. k :
          written[n] = IF n = 0 THEN <<>> ELSE written[n - 1] \o PackFrame(frames[n])
    BY <1>11
  <2> HIDE DEF Recursion
  <2>2. 0 \in 0 .. k /\ \A n \in 1 .. k : n \in 0 .. k /\ n # 0
    OBVIOUS
  <2>3. QED
    BY <1>1, <2>1, <2>2
<1>14. \A n \in 0 .. k : written[n] \in S
  <2> HIDE DEF Recursion
  <2>1. \A n \in 1 .. k : written[n - 1] \in S => written[n] \in S
    BY <1>4, <1>13
  <2>2. written[0] \in S
    BY <1>5, <1>13
  <2>3. QED
    BY <2>1, <2>2, LoopKeeps
<1>15. QED
  <2> HIDE DEF Recursion
  <2>1. QED
    BY <1>1, <1>12, <1>13, <1>14 DEF WritesFrames

\* The first frames are packed as they are in all of them.
LEMMA PackedPrefix ==
  ASSUME NEW frames \in Seq(FrameSet), NEW k \in Nat, k = Len(frames), NEW written,
         WritesFrames(frames, k, written), NEW n \in 0 .. k
  PROVE  Packed(SubSeq(frames, 1, n)) = written[n]
<1>1. PICK first : first = SubSeq(frames, 1, n)
  OBVIOUS
<1>2. first \in Seq(FrameSet) /\ Len(first) = n /\ \A i \in 1 .. n : first[i] = frames[i]
  <2>1. first = [i \in 1 .. n |-> frames[i]]
    BY <1>1
  <2>2. \A i \in 1 .. n : frames[i] \in FrameSet
    BY ElementOfSeq
  <2>3. QED
    BY <2>1, <2>2
<1>3. PICK other : WritesFrames(first, n, other)
  BY <1>2, PackedWrites
<1> DEFINE T == {m \in 0 .. n : other[m] = written[m]}
<1>4. 0 \in T
  BY <1>3 DEF WritesFrames
<1>5. ASSUME NEW m \in 1 .. n, m - 1 \in T PROVE m \in T
  <2>1. m \in 1 .. k /\ other[m - 1] = written[m - 1] /\ first[m] = frames[m]
    BY <1>2, <1>5
  <2>2. other[m] = other[m - 1] \o PackFrame(first[m])
    BY <1>3 DEF WritesFrames
  <2>3. written[m] = written[m - 1] \o PackFrame(frames[m])
    BY <2>1 DEF WritesFrames
  <2>4. other[m] = written[m]
    BY <2>1, <2>2, <2>3
  <2>5. QED
    BY <2>4
<1>6. n \in T
  <2> HIDE DEF T
  <2>1. \A m \in 0 .. n : m \in T
    BY <1>4, <1>5, Turns
  <2>2. QED
    BY <2>1
<1>7. QED
  BY <1>1, <1>3, <1>6 DEF WritesFrames

\* What parseFrames has taken off a datagram.
Parsed ==
  [off : Nat, frames : Seq([chan : Byte, type : Byte, body : Seq(Byte)]), torn : BOOLEAN]

\* A turn of parseFrames keeps to the types.
LEMMA ParseFrameTyped ==
  ASSUME NEW data \in Seq(Byte), NEW p \in Parsed
  PROVE  ParseFrame(data, p) \in Parsed
<1>1. PICK L : L = [chan : Byte, type : Byte, body : Seq(Byte)]
  OBVIOUS
<1>2. /\ p.off \in Nat /\ p.frames \in Seq(L) /\ p.torn \in BOOLEAN
      /\ p = [off |-> p.off, frames |-> p.frames, torn |-> p.torn]
  BY <1>1 DEF Parsed
<1>3. Len(data) \in Nat /\ \A i \in 1 .. Len(data) : data[i] \in Byte
  BY LenProperties, ElementOfSeq
<1>4. CASE p.torn \/ p.off + 4 > Len(data)
  BY <1>4 DEF ParseFrame
<1>5. CASE ~(p.torn \/ p.off + 4 > Len(data))
  <2>1. PICK n \in Nat : n = BodyLength(data, p.off)
    <3>1. p.off + 2 \in Nat /\ p.off + 2 + 2 <= Len(data) /\ 2 \in Nat
      BY <1>2, <1>3, <1>5
    <3>2. Number(data, p.off + 2, 2) \in Nat
      BY <3>1, NumberInBody
    <3>3. QED
      BY <3>2 DEF BodyLength
  <2>2. PICK end \in Nat : end = p.off + 4 + n
    BY <1>2
  <2>3. CASE end > Len(data)
    <3>1. ParseFrame(data, p) = [p EXCEPT !.torn = TRUE]
      BY <1>5, <2>1, <2>2, <2>3 DEF ParseFrame
    <3>2. QED
      BY <1>2, <3>1 DEF Parsed
  <2>4. CASE ~(end > Len(data))
    <3>1. ParseFrame(data, p)
            = [off |-> end, frames |-> Append(p.frames, FrameAt(data, p.off, end)), torn |-> FALSE]
      BY <1>5, <2>1, <2>2, <2>4 DEF ParseFrame
    <3>2. PICK fr : fr = FrameAt(data, p.off, end)
      OBVIOUS
    <3>3. fr \in L
      <4>1. PICK body : body = SubSeq(data, p.off + 5, end)
        OBVIOUS
      <4>2. p.off + 5 \in 1 .. Len(data) + 1 /\ end \in (p.off + 5) - 1 .. Len(data)
        BY <1>2, <1>3, <1>5, <2>2, <2>4
      <4>3. body \in Seq(Byte)
        BY <4>1, <4>2, SubSeqProperties
      <4>4. p.off + 1 \in 1 .. Len(data) /\ p.off + 2 \in 1 .. Len(data)
        BY <1>2, <1>3, <1>5
      <4>5. data[p.off + 1] \in Byte /\ data[p.off + 2] \in Byte
        BY <1>3, <4>4
      <4>6. QED
        BY <1>1, <3>2, <4>1, <4>3, <4>5 DEF FrameAt
    <3>4. Append(p.frames, fr) \in Seq(L)
      BY <1>2, <3>3, AppendProperties
    <3>5. QED
      BY <1>1, <3>1, <3>2, <3>4 DEF Parsed
  <2>5. QED
    BY <2>3, <2>4
<1>6. QED
  BY <1>4, <1>5

\* What parseFrames has parsed after each turn.
ParsesFrames(data, k, after) ==
  /\ \A n \in 0 .. k : after[n] \in Parsed
  /\ after[0] = [off |-> 0, frames |-> <<>>, torn |-> FALSE]
  /\ \A n \in 1 .. k : after[n] = ParseFrame(data, after[n - 1])
  /\ ParseFrames(data) = [frames |-> after[k].frames, ok |-> ~after[k].torn /\ after[k].off = k]

\* parseFrames goes turn after turn.
LEMMA ParseFramesParses ==
  ASSUME NEW data \in Seq(Byte), NEW k \in Nat, k = Len(data)
  PROVE  \E after : ParsesFrames(data, k, after)
<1> DEFINE Recursion(f) ==
             f = [n \in 0 .. Len(data) |->
                   IF n = 0 THEN [off |-> 0, frames |-> <<>>, torn |-> FALSE]
                   ELSE ParseFrame(data, f[n - 1])]
<1>1. PICK start : start = [off |-> 0, frames |-> <<>>, torn |-> FALSE]
  OBVIOUS
<1>2. PICK turn : turn = [n \in 1 .. k |-> [x \in Parsed |-> ParseFrame(data, x)]]
  OBVIOUS
<1>3. \A n \in 1 .. k, x \in Parsed : ParseFrame(data, x) \in Parsed
  BY ParseFrameTyped
<1>4. start \in Parsed
  <2>1. PICK L : L = [chan : Byte, type : Byte, body : Seq(Byte)]
    OBVIOUS
  <2>2. <<>> \in Seq(L)
    BY EmptySeq
  <2>3. QED
    BY <1>1, <2>1, <2>2 DEF Parsed
<1>5. Turning(Parsed, k, turn)
  BY <1>2, <1>3 DEF Turning
<1>6. PICK f : RunOf(Parsed, k, start, turn, f)
  BY <1>4, <1>5, LoopRuns
<1>7. ASSUME NEW n \in 1 .. k PROVE f[n] = ParseFrame(data, f[n - 1])
  <2>1. f[n] = turn[n][f[n - 1]] /\ f[n - 1] \in Parsed
    BY <1>6, RunTurns
  <2>2. QED
    BY <1>2, <2>1
<1>8. Recursion(f)
  <2>1. \A n \in 0 .. k : n # 0 => n \in 1 .. k
    OBVIOUS
  <2>2. \A n \in 0 .. k : f[n] = IF n = 0 THEN [off |-> 0, frames |-> <<>>, torn |-> FALSE]
                                 ELSE ParseFrame(data, f[n - 1])
    BY <1>1, <1>6, <1>7, <2>1 DEF RunOf
  <2>3. QED
    BY <1>6, <2>2 DEF RunOf
<1>9. PICK after : after = CHOOSE h : Recursion(h)
  OBVIOUS
<1>10. Recursion(after)
  <2> HIDE DEF Recursion
  <2>1. QED
    BY <1>8, <1>9
<1>11. ParseFrames(data) = [frames |-> after[k].frames, ok |-> ~after[k].torn /\ after[k].off = k]
  <2>1. ParseFrames(data)
          = [frames |-> after[Len(data)].frames,
             ok |-> ~after[Len(data)].torn /\ after[Len(data)].off = Len(data)]
    BY <1>9, Zenon DEF ParseFrames
  <2>2. QED
    BY <2>1
<1>12. /\ after[0] = start
       /\ \A n \in 1 .. k : after[n] = ParseFrame(data, after[n - 1])
  <2>1. \A n \in 0 .. k : after[n] = IF n = 0 THEN [off |-> 0, frames |-> <<>>, torn |-> FALSE]
                                     ELSE ParseFrame(data, after[n - 1])
    BY <1>10
  <2> HIDE DEF Recursion
  <2>2. 0 \in 0 .. k /\ \A n \in 1 .. k : n \in 0 .. k /\ n # 0
    OBVIOUS
  <2>3. QED
    BY <1>1, <2>1, <2>2
<1>13. \A n \in 0 .. k : after[n] \in Parsed
  <2> HIDE DEF Recursion
  <2>1. \A n \in 1 .. k : after[n - 1] \in Parsed => after[n] \in Parsed
    BY <1>3, <1>12
  <2>2. after[0] \in Parsed
    BY <1>4, <1>12
  <2>3. QED
    BY <2>1, <2>2, LoopKeeps
<1>14. QED
  <2> HIDE DEF Recursion
  <2>1. QED
    BY <1>1, <1>11, <1>12, <1>13 DEF ParsesFrames

\* Where each of k frames ends in what is written.
EndOf(k, written, end) == \A n \in 0 .. k : end[n] = Len(written[n])

\* Of k frames, the n-th ending at end[n], the first last lie before the cut.
LieBefore(k, end, cut, last) ==
  /\ \A m \in 0 .. last : end[m] <= cut
  /\ last < k => cut < end[last + 1]
  /\ last = k => cut = end[last]

\* Some frames lie before the cut, and the next does not.
LEMMA FramesBeforeCut ==
  ASSUME NEW k \in Nat, NEW end, \A n \in 0 .. k : end[n] \in Nat, end[0] = 0,
         NEW cut \in 0 .. end[k]
  PROVE  \E n \in 0 .. k : LieBefore(k, end, cut, n)
<1> DEFINE Beyond == {n \in 0 .. k : cut < end[n]}
<1>1. CASE Beyond = {}
  <2>1. \A m \in 0 .. k : end[m] <= cut
    BY <1>1
  <2>2. end[k] \in Nat /\ k \in 0 .. k
    OBVIOUS
  <2>3. cut = end[k]
    BY <2>1, <2>2
  <2>4. QED
    BY <2>1, <2>2, <2>3 DEF LieBefore
<1>2. CASE Beyond # {}
  <2>1. PICK m \in Beyond : \A n \in Beyond : m <= n
    <3>1. Beyond \in SUBSET Nat
      OBVIOUS
    <3> HIDE DEF Beyond
    <3>2. QED
      BY <1>2, <3>1, LeastNatural
  <2>2. m \in 0 .. k /\ cut < end[m] /\ m # 0
    BY <2>1
  <2>3. PICK n \in 0 .. k : n + 1 = m /\ n < k
    <3>1. m - 1 \in 0 .. k /\ (m - 1) + 1 = m /\ m - 1 < k
      BY <2>2
    <3>2. QED
      BY <3>1
  <2>4. ASSUME NEW i \in 0 .. n PROVE end[i] <= cut
    <3>1. i \in 0 .. k /\ ~(m <= i) /\ end[i] \in Nat
      BY <2>3
    <3>2. ~(i \in Beyond)
      BY <2>1, <3>1
    <3>3. QED
      BY <3>1, <3>2
  <2>5. cut < end[n + 1] /\ n # k
    BY <2>2, <2>3
  <2>6. QED
    BY <2>4, <2>5 DEF LieBefore
<1>3. QED
  BY <1>1, <1>2

\* Of a datagram that is cut, the frames before the cut are parsed, and no other.
LEMMA CutIsParsed ==
  ASSUME NEW frames \in Seq(FrameSet), NEW k \in Nat, k = Len(frames), NEW written,
         WritesFrames(frames, k, written), NEW cut \in 0 .. Len(written[k]),
         NEW end, EndOf(k, written, end),
         NEW last \in 0 .. k, LieBefore(k, end, cut, last)
  PROVE  ParseFrames(SubSeq(written[k], 1, cut))
           = [frames |-> SubSeq(frames, 1, last), ok |-> cut = Len(written[last])]
<1>1. PICK piece : piece = [n \in 1 .. k |-> PackFrame(frames[n])]
  OBVIOUS
<1>2. \A n \in 1 .. k : /\ frames[n] \in FrameSet
                        /\ piece[n] = PackFrame(frames[n])
                        /\ piece[n] \in Seq(Byte)
                        /\ Len(piece[n]) = 4 + Len(frames[n].body)
                        /\ Len(frames[n].body) \in Nat
  <2>1. \A n \in 1 .. k : frames[n] \in FrameSet
    BY ElementOfSeq
  <2>2. QED
    BY <1>1, <2>1, FrameBytes
<1>3. /\ \A n \in 0 .. k : written[n] \in Seq(Byte)
      /\ written[0] = <<>>
      /\ \A n \in 1 .. k : written[n] = written[n - 1] \o piece[n]
  BY <1>2 DEF WritesFrames
<1>4. Pieces(Byte, k, written, piece)
  <2>1. \A n \in 1 .. k : piece[n] \in Seq(Byte) /\ written[n] = written[n - 1] \o piece[n]
    BY <1>2, <1>3
  <2>2. QED
    BY <1>3, <2>1 DEF Pieces
<1>6. \A n \in 0 .. k : end[n] = Len(written[n]) /\ end[n] \in Nat
  BY <1>3, LenProperties DEF EndOf
<1>7. ASSUME NEW n \in 1 .. k
      PROVE  /\ end[n] = end[n - 1] + 4 + Len(frames[n].body)
             /\ \A i \in 1 .. Len(piece[n]) : end[n - 1] + i <= end[k]
             /\ \A i \in 1 .. Len(piece[n]) : written[k][end[n - 1] + i] = piece[n][i]
  <2>1. LiesIn(k, written, piece, n)
    BY <1>4, PieceLies
  <2>2. PICK m \in 0 .. k : m = n - 1
    OBVIOUS
  <2>3. n \in 0 .. k /\ k \in 0 .. k
    OBVIOUS
  <2>4. PICK start \in Nat, stop \in Nat, top \in Nat, size \in Nat, len \in Nat :
          /\ start = end[m] /\ stop = end[n] /\ top = end[k]
          /\ size = Len(frames[n].body) /\ len = Len(piece[n]) /\ len = 4 + size
          /\ end[n] = Len(written[n]) /\ end[m] = Len(written[m]) /\ end[k] = Len(written[k])
    <3>1. /\ end[n] \in Nat /\ end[m] \in Nat /\ end[k] \in Nat
          /\ end[n] = Len(written[n]) /\ end[m] = Len(written[m]) /\ end[k] = Len(written[k])
      BY <1>6, <2>3
    <3>2. Len(frames[n].body) \in Nat /\ Len(piece[n]) = 4 + Len(frames[n].body)
      BY <1>2
    <3>3. 4 + Len(frames[n].body) \in Nat
      BY <3>2
    <3>4. QED
      BY <3>1, <3>2, <3>3
  <2>5. /\ stop = start + len /\ stop <= top
        /\ \A i \in 1 .. len : written[k][start + i] = piece[n][i]
    BY <2>1, <2>2, <2>4 DEF LiesIn
  <2>6. stop = start + 4 + size /\ \A i \in 1 .. len : start + i <= top
    <3>1. start + (4 + size) = start + 4 + size
      OBVIOUS
    <3>2. stop = start + (4 + size)
      BY <2>4, <2>5
    <3>3. \A i \in 1 .. len : start + i <= start + len
      OBVIOUS
    <3>4. start + len <= top
      BY <2>5
    <3>5. \A i \in 1 .. len : start + i <= top
      BY <3>3, <3>4
    <3>6. QED
      BY <3>1, <3>2, <3>5
  <2>7. QED
    BY <2>2, <2>4, <2>5, <2>6
<1>8. \A n \in 0 .. k : n <= end[n]
  <2> DEFINE T == {n \in 0 .. k : n <= end[n]}
  <2>1. 0 \in T
    BY <1>6
  <2>2. ASSUME NEW n \in 1 .. k, n - 1 \in T PROVE n \in T
    <3>1. end[n] = end[n - 1] + 4 + Len(frames[n].body)
      BY <1>7
    <3>2. n - 1 \in 0 .. k /\ n - 1 <= end[n - 1]
      BY <2>2
    <3>3. end[n - 1] \in Nat /\ Len(frames[n].body) \in Nat
      BY <1>2, <1>6, <3>2
    <3>4. n <= end[n]
      BY <3>1, <3>2, <3>3
    <3>5. QED
      BY <3>4
  <2>3. \A n \in 0 .. k : n \in T
    <3> HIDE DEF T
    <3>1. QED
      BY <2>1, <2>2, Turns
  <2>4. QED
    BY <2>3
<1>9. cut \in Nat /\ cut <= end[k]
  BY <1>6
<1>10. /\ \A m \in 0 .. last : end[m] <= cut
       /\ last < k => cut < end[last + 1]
       /\ last = k => cut = end[last]
  BY DEF LieBefore
<1>11. PICK data : data = SubSeq(written[k], 1, cut)
  OBVIOUS
<1>12. data \in Seq(Byte) /\ Len(data) = cut /\ \A i \in 1 .. cut : data[i] = written[k][i]
  <2>1. data = [i \in 1 .. cut |-> written[k][i]]
    BY <1>9, <1>11
  <2>2. \A i \in 1 .. cut : i \in 1 .. Len(written[k])
    BY <1>9
  <2>3. \A i \in 1 .. cut : written[k][i] \in Byte
    BY <1>3, <2>2, ElementOfSeq
  <2>4. QED
    BY <1>9, <2>1, <2>3
<1>13. PICK after : ParsesFrames(data, cut, after)
  BY <1>9, <1>12, ParseFramesParses
<1>14. /\ \A n \in 0 .. cut : after[n] \in Parsed
       /\ after[0] = [off |-> 0, frames |-> <<>>, torn |-> FALSE]
       /\ \A n \in 1 .. cut : after[n] = ParseFrame(data, after[n - 1])
       /\ ParseFrames(data)
            = [frames |-> after[cut].frames, ok |-> ~after[cut].torn /\ after[cut].off = cut]
  BY <1>13 DEF ParsesFrames
\* The bytes of the n-th frame as far as they are there.
<1>15. ASSUME NEW n \in 1 .. k, NEW i \in 1 .. Len(piece[n]), end[n - 1] + i <= cut
       PROVE  data[end[n - 1] + i] = PackFrame(frames[n])[i]
  <2>1. n - 1 \in 0 .. k /\ end[n - 1] \in Nat
    BY <1>6
  <2>2. end[n - 1] + i \in 1 .. cut
    <3>1. i \in Nat /\ i >= 1
      OBVIOUS
    <3>2. QED
      BY <1>15, <2>1, <3>1
  <2>3. QED
    BY <1>2, <1>7, <1>12, <2>2
<1>16. ASSUME NEW n \in 1 .. k, end[n - 1] + 4 <= cut
       PROVE  BodyLength(data, end[n - 1]) = Len(frames[n].body)
  <2>1. PICK off \in Nat, f \in FrameSet : off = end[n - 1] /\ f = frames[n]
    <3>1. n - 1 \in 0 .. k
      OBVIOUS
    <3>2. QED
      BY <1>2, <1>6, <3>1
  <2>2. ASSUME NEW i \in 1 .. 4 PROVE data[off + i] = PackFrame(f)[i]
    <3>1. i \in 1 .. Len(piece[n])
      <4>1. PICK size \in Nat : Len(piece[n]) = 4 + size
        BY <1>2
      <4>2. i \in 1 .. 4 + size
        OBVIOUS
      <4>3. QED
        BY <4>1, <4>2
    <3>2. end[n - 1] + i <= cut
      BY <1>9, <1>16, <2>1
    <3>3. QED
      BY <1>15, <2>1, <3>1, <3>2
  <2>3. QED
    BY <2>1, <2>2, HeaderIsRead
\* After n turns, frames up to the n-th or the last are parsed; the next turn finds it torn.
<1> DEFINE Least(n) == IF n <= last THEN n ELSE last
           T == {n \in 0 .. cut :
                  /\ after[n].off = end[Least(n)]
                  /\ Len(after[n].frames) = Least(n)
                  /\ \A i \in 1 .. Least(n) : after[n].frames[i] = frames[i]
                  /\ after[n].torn <=> (n > last /\ end[last] + 4 <= cut)}
<1>17. 0 \in T
  <2>1. /\ Least(0) = 0 /\ end[0] = 0
        /\ Len(after[0].frames) = 0 /\ after[0].off = 0 /\ after[0].torn = FALSE
    BY <1>3, <1>6, <1>14
  <2>2. ~(0 > last)
    OBVIOUS
  <2>3. 0 \in 0 .. cut /\ 1 .. 0 = {}
    BY <1>9
  <2> HIDE DEF Least
  <2>4. QED
    BY <2>1, <2>2, <2>3
<1>18. ASSUME NEW n \in 1 .. cut, n - 1 \in T, n <= last PROVE n \in T
  <2>1. n \in 1 .. k /\ n - 1 \in 0 .. k /\ n - 1 \in 0 .. cut /\ n \in 0 .. last /\ n \in 0 .. k
    BY <1>18
  <2>2. Least(n - 1) = n - 1 /\ Least(n) = n /\ ~(n > last) /\ ~(n - 1 > last)
    BY <1>18
  <2>3. PICK off \in Nat, stop \in Nat, size \in Nat, len \in Nat, p \in Parsed, f \in FrameSet :
          /\ off = end[n - 1] /\ stop = end[n] /\ size = Len(f.body) /\ len = Len(PackFrame(f))
          /\ p = after[n - 1] /\ f = frames[n] /\ len = 4 + size /\ len = Len(piece[n])
    <3>1. end[n - 1] \in Nat /\ end[n] \in Nat
      BY <1>6, <2>1
    <3>2. after[n - 1] \in Parsed
      BY <1>14, <2>1
    <3>3. PICK f \in FrameSet : f = frames[n]
      BY <1>2, <2>1
    <3>4. PICK size \in Nat, len \in Nat :
            size = Len(f.body) /\ len = 4 + size /\ len = Len(PackFrame(f)) /\ len = Len(piece[n])
      <4>1. PICK size \in Nat : size = Len(f.body) /\ Len(PackFrame(f)) = 4 + size
        BY FrameBytes
      <4>2. PackFrame(f) = piece[n] /\ 4 + size \in Nat
        BY <1>2, <2>1, <3>3
      <4>3. QED
        BY <4>1, <4>2
    <3>5. QED
      BY <3>1, <3>2, <3>3, <3>4
  <2>4. PICK L : L = [chan : Byte, type : Byte, body : Seq(Byte)]
    OBVIOUS
  <2>5. /\ p.off = off /\ p.torn = FALSE /\ p.frames \in Seq(L)
        /\ Len(p.frames) = n - 1 /\ \A i \in 1 .. n - 1 : p.frames[i] = frames[i]
    BY <1>18, <2>2, <2>3, <2>4 DEF Parsed
  <2>6. stop = off + 4 + size /\ stop <= cut
    BY <1>7, <1>10, <2>1, <2>3
  <2>7. stop = off + len /\ off + 4 <= cut
    <3>1. off + (4 + size) = off + 4 + size /\ off + 4 <= off + 4 + size
      OBVIOUS
    <3>2. len = 4 + size
      BY <2>3
    <3>3. QED
      BY <1>9, <2>6, <3>1, <3>2
  <2>8. BodyLength(data, off) = size
    BY <1>16, <2>1, <2>3, <2>7
  <2>9. FrameAt(data, off, stop) = f
    <3>1. ASSUME NEW i \in 1 .. Len(PackFrame(f)) PROVE data[off + i] = PackFrame(f)[i]
      <4>1. i \in 1 .. Len(piece[n]) /\ i \in 1 .. len
        BY <2>3
      <4>2. off + i <= cut
        BY <1>9, <2>6, <2>7, <4>1
      <4>3. QED
        BY <1>15, <2>1, <2>3, <4>1, <4>2
    <3>2. off + Len(PackFrame(f)) <= Len(data)
      BY <1>12, <2>3, <2>6, <2>7
    <3>3. FrameAt(data, off, off + Len(PackFrame(f))) = f
      BY <1>12, <3>1, <3>2, FrameIsRead
    <3>4. QED
      BY <2>3, <2>7, <3>3
  <2>10. after[n] = ParseFrame(data, p)
    BY <1>14, <2>3
  <2>11. ParseFrame(data, p) = [off |-> stop, frames |-> Append(p.frames, f), torn |-> FALSE]
    <3>1. p.off + 4 + BodyLength(data, p.off) = stop
      BY <2>5, <2>6, <2>8
    <3>2. ~(p.torn \/ p.off + 4 > Len(data))
      <4>1. ~(off + 4 > cut)
        BY <1>9, <2>7
      <4>2. QED
        BY <1>12, <2>5, <4>1
    <3>3. ~(stop > Len(data))
      <4>1. ~(stop > cut)
        BY <1>9, <2>6
      <4>2. QED
        BY <1>12, <4>1
    <3>4. FrameAt(data, p.off, stop) = f
      BY <2>5, <2>9
    <3>5. QED
      BY <3>1, <3>2, <3>3, <3>4 DEF ParseFrame
  <2>12. PICK new : new = Append(p.frames, f)
    OBVIOUS
  <2>13. f \in L
    BY <2>4, FrameBytes
  <2>14. /\ Len(new) = n
         /\ \A i \in 1 .. n - 1 : new[i] = p.frames[i]
         /\ new[n] = f
    <3>1. /\ Len(new) = Len(p.frames) + 1
          /\ \A i \in 1 .. Len(p.frames) : new[i] = p.frames[i]
          /\ new[Len(p.frames) + 1] = f
      BY <2>5, <2>12, <2>13, AppendProperties
    <3>2. Len(p.frames) + 1 = n
      BY <2>5
    <3>3. QED
      BY <2>5, <3>1, <3>2
  <2>15. \A i \in 1 .. n : new[i] = frames[i]
    <3>1. \A i \in 1 .. n : i = n \/ i \in 1 .. n - 1
      OBVIOUS
    <3>2. QED
      BY <2>3, <2>5, <2>14, <3>1
  <2>16. after[n].off = end[n] /\ after[n].frames = new /\ after[n].torn = FALSE
    BY <2>3, <2>10, <2>11, <2>12
  <2> HIDE DEF Least
  <2>17. QED
    BY <2>2, <2>14, <2>15, <2>16
<1>19. ASSUME NEW n \in 1 .. cut, n - 1 \in T, n > last PROVE n \in T
  <2>1. n - 1 \in 0 .. cut /\ n - 1 >= last /\ last \in 0 .. last /\ Least(n) = last
    BY <1>19
  <2>2. Least(n - 1) = last
    BY <2>1
  <2>3. PICK off \in Nat, p \in Parsed : off = end[last] /\ p = after[n - 1] /\ off <= cut
    BY <1>6, <1>10, <1>14, <2>1
  <2>4. /\ p.off = off /\ Len(p.frames) = last
        /\ \A i \in 1 .. last : p.frames[i] = frames[i]
        /\ p.torn <=> (n - 1 > last /\ off + 4 <= cut)
    BY <1>19, <2>2, <2>3
  <2>5. after[n] = ParseFrame(data, p)
    BY <1>14, <2>3
  <2>6. CASE p.torn \/ off + 4 > cut
    <3>1. after[n] = p
      BY <1>12, <2>4, <2>5, <2>6 DEF ParseFrame
    <3>2. p.torn <=> (n > last /\ off + 4 <= cut)
      BY <1>9, <1>19, <2>4, <2>6
    <3>3. /\ after[n].off = end[last] /\ Len(after[n].frames) = last
          /\ \A i \in 1 .. last : after[n].frames[i] = frames[i]
          /\ after[n].torn <=> (n > last /\ end[last] + 4 <= cut)
      BY <2>3, <2>4, <3>1, <3>2
    <3> HIDE DEF Least
    <3>4. QED
      BY <2>1, <3>3
  <2>7. CASE ~(p.torn \/ off + 4 > cut)
    <3>1. off + 4 <= cut
      BY <1>9, <2>7
    <3>2. last # k
      BY <1>9, <1>10, <2>3, <3>1
    <3>3. PICK m \in 1 .. k : m = last + 1 /\ m - 1 = last
      BY <3>2
    <3>4. BodyLength(data, off) = Len(frames[m].body)
      BY <1>16, <2>3, <3>1, <3>3
    <3>5. off + 4 + BodyLength(data, off) = end[m] /\ end[m] > cut
      BY <1>7, <1>10, <2>3, <3>2, <3>3, <3>4
    <3>6. ParseFrame(data, p) = [p EXCEPT !.torn = TRUE]
      BY <1>12, <2>4, <2>7, <3>5 DEF ParseFrame
    <3>7. after[n].off = off /\ after[n].frames = p.frames /\ after[n].torn = TRUE
      BY <2>4, <2>5, <3>6 DEF Parsed
    <3>8. after[n].torn <=> (n > last /\ end[last] + 4 <= cut)
      BY <1>19, <2>3, <3>1, <3>7
    <3> HIDE DEF Least
    <3>9. QED
      BY <2>1, <2>3, <2>4, <3>7, <3>8
  <2>8. QED
    BY <2>6, <2>7
<1>20. cut \in T
  <2>1. \A n \in 1 .. cut : n - 1 \in T => n \in T
    <3>1. \A n \in 1 .. cut : n <= last \/ n > last
      OBVIOUS
    <3> HIDE DEF T
    <3>2. QED
      BY <1>18, <1>19, <3>1
  <2> HIDE DEF T
  <2>2. \A n \in 0 .. cut : n \in T
    BY <1>9, <1>17, <2>1, Turns
  <2>3. QED
    BY <1>9, <2>2
<1>21. last <= cut /\ end[last] \in Nat /\ end[last] <= cut /\ last \in 0 .. last
  BY <1>6, <1>8, <1>9, <1>10
<1>22. Least(cut) = last
  BY <1>9, <1>21
<1>23. PICK got : got = after[cut].frames
  OBVIOUS
<1>24. /\ after[cut].off = end[last] /\ Len(got) = last
       /\ \A i \in 1 .. last : got[i] = frames[i]
       /\ after[cut].torn <=> (cut > last /\ end[last] + 4 <= cut)
  BY <1>20, <1>22, <1>23
<1>25. (~after[cut].torn /\ after[cut].off = cut) = (cut = end[last])
  <2>1. CASE cut = end[last]
    <3>1. ~(end[last] + 4 <= cut)
      BY <1>9, <2>1
    <3>2. QED
      BY <1>24, <2>1, <3>1
  <2>2. CASE cut # end[last]
    BY <1>24, <2>2
  <2>3. QED
    BY <2>1, <2>2
<1>26. got = SubSeq(frames, 1, last)
  <2>1. PICK sub : sub = SubSeq(frames, 1, last)
    OBVIOUS
  <2>2. PICK L : L = [chan : Byte, type : Byte, body : Seq(Byte)]
    OBVIOUS
  <2>3. got \in Seq(L)
    <3>1. cut \in 0 .. cut
      BY <1>9
    <3>2. after[cut] \in Parsed
      BY <1>14, <3>1
    <3>3. QED
      BY <1>23, <2>2, <3>2 DEF Parsed
  <2>4. sub = [i \in 1 .. last |-> frames[i]]
    BY <2>1
  <2>5. got = [i \in 1 .. last |-> got[i]]
    BY <1>24, <2>3
  <2>6. QED
    BY <1>24, <2>1, <2>4, <2>5
<1>27. QED
  BY <1>6, <1>11, <1>14, <1>23, <1>25, <1>26

\* Frames that are an input can be packed, and the cut is in what they are packed into.
FramesInput ==
  input.of = "frames" =>
    input.frames \in Seq(FrameSet) /\ input.cut \in 0 .. Len(Packed(input.frames))

LEMMA InputIsFrames == InputSpec => []FramesInput
<1>1. InputInit => FramesInput
  BY DEF InputInit, Nothing, FramesInput
<1>2. FramesInput /\ [InputNext]_input => FramesInput'
  <2>1. SUFFICES ASSUME FramesInput, [InputNext]_input PROVE FramesInput'
    OBVIOUS
  <2>2. CASE PicksFrames
    <3>1. PICK frames \in FrameLists : \E cut \in 0 .. Len(Packed(frames)) :
            input' = [of |-> "frames", frames |-> frames, cut |-> cut]
      BY <2>2 DEF PicksFrames
    <3>2. PICK cut \in 0 .. Len(Packed(frames)) :
            input' = [of |-> "frames", frames |-> frames, cut |-> cut]
      BY <3>1
    <3>3. frames \in Seq(FrameSet)
      BY InputsAssumption
    <3>4. QED
      BY <3>2, <3>3 DEF FramesInput
  <2>3. CASE PicksCheese
    BY <2>3 DEF PicksCheese, FramesInput
  <2>4. CASE PicksPickups
    BY <2>4 DEF PicksPickups, FramesInput
  <2>5. CASE PicksBatch
    BY <2>5 DEF PicksBatch, FramesInput
  <2>6. CASE PicksFields
    BY <2>6 DEF PicksFields, FramesInput
  <2>7. CASE UNCHANGED input
    BY <2>1, <2>7 DEF FramesInput
  <2>8. QED
    BY <2>1, <2>2, <2>3, <2>4, <2>5, <2>6, <2>7 DEF InputNext
<1>3. QED
  BY <1>1, <1>2, PTL DEF InputSpec

\* Of a datagram of any frames, cut anywhere, parseFrames finds exactly the frames that are all
\* there, as they were packed, and ok says whether anything is left over (Net/Protocol.h).
THEOREM FramesAreRead == InputSpec => []DatagramIsParsed
<1>1. FramesInput => DatagramIsParsed
  <2>1. SUFFICES ASSUME NEW frames \in Seq(FrameSet), NEW cut \in 0 .. Len(Packed(frames)),
                        frames = input.frames, cut = input.cut
        PROVE  \E n \in 0 .. Len(frames) :
                 /\ Len(Packed(SubSeq(frames, 1, n))) <= cut
                 /\ n < Len(frames) => cut < Len(Packed(SubSeq(frames, 1, n + 1)))
                 /\ ParseFrames(SubSeq(Packed(frames), 1, cut))
                      = [frames |-> SubSeq(frames, 1, n),
                         ok |-> cut = Len(Packed(SubSeq(frames, 1, n)))]
    BY DEF FramesInput, DatagramIsParsed
  <2>2. PICK k \in Nat : k = Len(frames)
    BY LenProperties
  <2>3. PICK written : WritesFrames(frames, k, written)
    BY <2>2, PackedWrites
  <2>4. PICK end : end = [n \in 0 .. k |-> Len(written[n])]
    OBVIOUS
  <2>5. \A n \in 0 .. k : /\ end[n] = Len(written[n]) /\ end[n] \in Nat
                          /\ Packed(SubSeq(frames, 1, n)) = written[n]
    <3>1. \A n \in 0 .. k : written[n] \in Seq(Byte)
      BY <2>3 DEF WritesFrames
    <3>2. \A n \in 0 .. k : Packed(SubSeq(frames, 1, n)) = written[n]
      BY <2>2, <2>3, PackedPrefix
    <3>3. QED
      BY <2>4, <3>1, <3>2, LenProperties
  <2>6. Packed(frames) = written[k] /\ written[0] = <<>>
    BY <2>3 DEF WritesFrames
  <2>7. k \in 0 .. k /\ 0 \in 0 .. k
    OBVIOUS
  <2>8. end[0] = 0 /\ cut \in 0 .. end[k]
    BY <2>5, <2>6, <2>7
  <2>9. PICK n \in 0 .. k : LieBefore(k, end, cut, n)
    BY <2>5, <2>8, FramesBeforeCut
  <2>10. ParseFrames(SubSeq(written[k], 1, cut))
           = [frames |-> SubSeq(frames, 1, n), ok |-> cut = Len(written[n])]
    <3>1. cut \in 0 .. Len(written[k])
      BY <2>6
    <3>2. EndOf(k, written, end)
      BY <2>5 DEF EndOf
    <3>3. QED
      BY <2>2, <2>3, <2>9, <3>1, <3>2, CutIsParsed
  <2>11. end[n] <= cut /\ (n < k => cut < end[n + 1])
    BY <2>9 DEF LieBefore
  <2>12. /\ Len(Packed(SubSeq(frames, 1, n))) = end[n]
         /\ n < k => Len(Packed(SubSeq(frames, 1, n + 1))) = end[n + 1]
         /\ Len(written[n]) = end[n]
    <3>1. n < k => n + 1 \in 0 .. k
      OBVIOUS
    <3>2. QED
      BY <2>5, <3>1
  <2>13. QED
    BY <2>2, <2>6, <2>10, <2>11, <2>12
<1>2. QED
  BY <1>1, InputIsFrames, PTL
=============================================================================
