-------------------------- MODULE CoopSessionProofs -------------------------
(***************************************************************************)
(* Proofs about CoopSession, for any versions, configured seeds and rolls, *)
(* and any number of mazes.                                                *)
(*                                                                         *)
(*   SessionHolds        the inductive invariant: what is on its way       *)
(*                       between the peers, and what each knows of the     *)
(*                       other                                             *)
(*   ReadyAndSeeded      SessionInv                                        *)
(*   ReadyTogether       ReadinessIsMutual                                 *)
(*   ForcedMazesAgree    SameMazeIfForced                                  *)
(*   HostSeedIsMirrored  HostSeedWins                                      *)
(***************************************************************************)
EXTENDS CoopSession, TLAPS

SameVersions == protoVersion[Host] = protoVersion[Client]

\* The host has built a maze from the seed, and from its configured one if it has one.
OfHost(seed) ==
  /\ seed \in Nat
  /\ \E i \in DOMAIN built[Host] : built[Host][i] = seed
  /\ forceSeed[Host] >= 0 => seed = forceSeed[Host]

\* Only the host acknowledges, once it is ready, and only the host sends seeds.
MayTravelTo(p, f) ==
  \/ f = Hello(Other(p))
  \/ p = Client /\ f = HelloAck /\ SameVersions /\ peerReady[Host]
  \/ p = Client /\ f.type = "MazeSeed" /\ OfHost(f.seed)

WireInv == \A p \in Peers : \A f \in wire[p] : MayTravelTo(p, f)

QueueInv ==
  /\ outFrames[Client] = <<>>
  /\ \A i \in DOMAIN outFrames[Host] :
       outFrames[Host][i].type = "MazeSeed" /\ OfHost(outFrames[Host][i].seed)

SeedInv == netSeed[Client] # NoSeed => OfHost(netSeed[Client])

\* A configured seed of the host is in each of its mazes; one of both, in the client's too.
ForcedInv ==
  /\ forceSeed[Host] >= 0 =>
       \A i \in DOMAIN built[Host] : built[Host][i] = forceSeed[Host]
  /\ (forceSeed[Host] >= 0 /\ forceSeed[Host] = forceSeed[Client]) =>
       \A i \in DOMAIN built[Client] : built[Client][i] = forceSeed[Host]

\* A client gets ready after it has sent its Hello, and the Hello, once sent, is on its
\* way or has made the host ready.
IntroducedInv ==
  /\ peerReady[Client] => helloSent[Client]
  /\ helloSent[Client] => Hello(Client) \in wire[Host] \/ (SameVersions => peerReady[Host])

HandshakeInv ==
  /\ TypeOK
  /\ WireInv /\ QueueInv
  /\ SeedInv /\ ForcedInv
  /\ IntroducedInv /\ ReadyOnlyIfCompatible

-----------------------------------------------------------------------------
LEMMA OtherPeer ==
  /\ \A p \in Peers : Other(p) \in Peers /\ Other(p) # p
  /\ Other(Host) = Client /\ Other(Client) = Host
  /\ Host \in Peers /\ Client \in Peers
BY SessionAssumption DEF Peers, Other

LEMMA FrameShapes ==
  /\ \A p \in Peers : TypeOK => Hello(p) \in Frames
  /\ \A p : Hello(p).type = "Hello" /\ Hello(p).protoVer = protoVersion[p]
  /\ HelloAck \in Frames /\ HelloAck.type = "HelloAck"
  /\ \A n, seed : /\ MazeSeed(n, seed).type = "MazeSeed"
                  /\ MazeSeed(n, seed).seed = seed
                  /\ (n \in Nat /\ seed \in Nat) => MazeSeed(n, seed) \in Frames
  /\ \A f \in Frames : f.type = "MazeSeed" => f.seed \in Nat
BY DEF Hello, HelloAck, MazeSeed, Frames, TypeOK

LEMMA HandshakeInit == Init => HandshakeInv
<1> SUFFICES ASSUME Init PROVE HandshakeInv
  OBVIOUS
<1>1. <<>> \in Seq(Frames) /\ <<>> \in Seq(Int) /\ Len(<<>>) = 0
  OBVIOUS
<1>2. TypeOK
  BY <1>1, SessionAssumption DEF Init, TypeOK, NoSeed
<1>3. QED
  BY <1>2, OtherPeer DEF Init, HandshakeInv, WireInv, QueueInv, SeedInv, ForcedInv,
     IntroducedInv, ReadyOnlyIfCompatible

\* A step of the loop thread builds nothing and takes no readiness back.
LoopStep ==
  /\ UNCHANGED <<configVars, built>>
  /\ \A p \in Peers : peerReady[p] => peerReady'[p]

\* What may travel, may still travel after a step of the loop thread.
LEMMA MayTravelKept ==
  ASSUME LoopStep, NEW p \in Peers, NEW f, MayTravelTo(p, f)
  PROVE  MayTravelTo(p, f)'
<1>1. Hello(Other(p))' = Hello(Other(p)) /\ SameVersions' = SameVersions
  BY DEF LoopStep, configVars, Hello, SameVersions
<1>2. OfHost(f.seed) => OfHost(f.seed)'
  BY DEF LoopStep, configVars, OfHost
<1>3. peerReady[Host] => peerReady'[Host]
  BY OtherPeer DEF LoopStep
<1>4. QED
  BY <1>1, <1>2, <1>3 DEF MayTravelTo

\* Frames that may travel keep the channel sound when they are sent.
LEMMA SendKeeps ==
  ASSUME HandshakeInv, LoopStep, NEW p \in Peers,
         NEW frames, frames \subseteq Frames, \A f \in frames : MayTravelTo(Other(p), f),
         Send(p, frames)
  PROVE  /\ wire' \in [Peers -> SUBSET Frames]
         /\ WireInv'
         /\ \A q \in Peers : wire[q] \subseteq wire'[q]
         /\ frames \subseteq wire'[Other(p)]
<1>1. wire' = [wire EXCEPT ![Other(p)] = @ \cup frames]
  BY DEF Send
<1>2. /\ wire' \in [Peers -> SUBSET Frames]
      /\ wire'[Other(p)] = wire[Other(p)] \cup frames
      /\ \A q \in Peers \ {Other(p)} : wire'[q] = wire[q]
  BY <1>1, OtherPeer DEF HandshakeInv, TypeOK
<1>3. ASSUME NEW q \in Peers, NEW f \in wire'[q] PROVE MayTravelTo(q, f)'
  <2>1. MayTravelTo(q, f)
    BY <1>2, <1>3 DEF HandshakeInv, WireInv
  <2>2. QED
    BY <2>1, MayTravelKept
<1>4. QED
  BY <1>2, <1>3 DEF WireInv

\* A frame taken from the channel: the receiver has introduced itself, what it sends may
\* travel, and the client's Hello is not lost unless it has made the host ready.
LEMMA DeliverKeeps ==
  ASSUME HandshakeInv, LoopStep, NEW p \in Peers, NEW f,
         NEW replies, replies \subseteq Frames, \A r \in replies : MayTravelTo(Other(p), r)',
         Deliver(p, f, replies),
         (p = Host /\ f = Hello(Client) /\ SameVersions) => peerReady'[Host],
         \A q \in Peers \ {p} : peerReady'[q] = peerReady[q]
  PROVE  /\ connected' \in [Peers -> BOOLEAN] /\ helloSent' \in [Peers -> BOOLEAN]
         /\ wire' \in [Peers -> SUBSET Frames]
         /\ WireInv' /\ IntroducedInv'
<1> DEFINE hello == IF helloSent[p] THEN {} ELSE {Hello(p)}
<1>1. /\ f \in wire[p]
      /\ connected' = [connected EXCEPT ![p] = TRUE]
      /\ helloSent' = [helloSent EXCEPT ![p] = TRUE]
      /\ wire' = [wire EXCEPT ![p] = @ \ {f}, ![Other(p)] = @ \cup replies \cup hello]
  BY DEF Deliver
<1>2. hello \subseteq Frames /\ \A h \in hello : MayTravelTo(Other(p), h)
  BY FrameShapes, SessionAssumption DEF HandshakeInv, MayTravelTo, Peers, Other
<1>3. ~helloSent[p] => Hello(p) \in hello
  OBVIOUS
<1> HIDE DEF hello
<1>4. /\ wire' \in [Peers -> SUBSET Frames]
      /\ wire'[p] = wire[p] \ {f}
      /\ wire'[Other(p)] = wire[Other(p)] \cup replies \cup hello
  BY <1>1, <1>2, OtherPeer DEF HandshakeInv, TypeOK
<1>5. \A q \in Peers : q = p \/ q = Other(p)
  BY DEF Peers, Other
<1>6. WireInv'
  <2>1. ASSUME NEW g \in wire'[p] PROVE MayTravelTo(p, g)'
    <3>1. MayTravelTo(p, g)
      BY <1>4, <2>1 DEF HandshakeInv, WireInv
    <3>2. QED
      BY <3>1, MayTravelKept
  <2>2. ASSUME NEW g \in wire'[Other(p)] PROVE MayTravelTo(Other(p), g)'
    <3>1. CASE g \in wire[Other(p)] \cup hello
      <4>1. MayTravelTo(Other(p), g)
        BY <1>2, <3>1, OtherPeer DEF HandshakeInv, WireInv
      <4>2. QED
        BY <4>1, OtherPeer, MayTravelKept
    <3>2. CASE g \in replies
      BY <3>2
    <3>3. QED
      BY <1>4, <2>2, <3>1, <3>2
  <2>3. QED
    BY <1>5, <2>1, <2>2 DEF WireInv
<1>7. IntroducedInv'
  <2>1. Hello(Client)' = Hello(Client) /\ SameVersions' = SameVersions
    BY DEF LoopStep, configVars, Hello, SameVersions
  <2>2. peerReady[Host] => peerReady'[Host]
    BY OtherPeer DEF LoopStep
  <2>3. CASE p = Host
    <3>1. helloSent'[Client] = helloSent[Client] /\ peerReady'[Client] = peerReady[Client]
      BY <1>1, <2>3, OtherPeer DEF HandshakeInv, TypeOK
    <3>2. Hello(Client) \in wire[Host] => Hello(Client) \in wire'[Host] \/ f = Hello(Client)
      BY <1>4, <2>3
    <3>3. QED
      BY <2>1, <2>2, <2>3, <3>1, <3>2 DEF HandshakeInv, IntroducedInv
  <2>4. CASE p = Client
    <3>1. helloSent'[Client] /\ wire[Host] \cup hello \subseteq wire'[Host]
      BY <1>1, <1>4, <2>4, OtherPeer DEF HandshakeInv, TypeOK
    <3>2. ~helloSent[Client] => Hello(Client) \in wire'[Host]
      BY <1>3, <2>4, <3>1
    <3>3. QED
      BY <2>1, <2>2, <3>1, <3>2 DEF HandshakeInv, IntroducedInv
  <2>5. QED
    BY <2>3, <2>4 DEF Peers
<1>8. QED
  BY <1>1, <1>4, <1>6, <1>7 DEF HandshakeInv, TypeOK

\* What a step of the loop thread leaves alone.
LEMMA LoopStepKeeps ==
  ASSUME HandshakeInv, LoopStep
  PROVE  /\ ForcedInv'
         /\ UNCHANGED outFrames => QueueInv'
         /\ UNCHANGED netSeed => SeedInv'
<1>1. UNCHANGED <<protoVersion, forceSeed, built>>
  BY DEF LoopStep, configVars
<1>2. \A seed : OfHost(seed) => OfHost(seed)'
  BY <1>1 DEF OfHost
<1>3. QED
  BY <1>1, <1>2 DEF HandshakeInv, ForcedInv, QueueInv, SeedInv

LEMMA LinkOpensKeeps ==
  ASSUME HandshakeInv, LinkOpens
  PROVE  HandshakeInv'
<1>1. /\ connected' = [connected EXCEPT ![Host] = TRUE]
      /\ UNCHANGED <<protoVersion, forceSeed, helloSent, peerReady, netSeed, outFrames, wire, built>>
  BY DEF LinkOpens, configVars
<1>2. LoopStep
  BY <1>1 DEF LoopStep, configVars
<1>3. WireInv'
  BY <1>1, <1>2, MayTravelKept DEF HandshakeInv, WireInv
<1>4. TypeOK'
  BY <1>1 DEF HandshakeInv, TypeOK
<1>5. IntroducedInv' /\ ReadyOnlyIfCompatible'
  BY <1>1 DEF HandshakeInv, IntroducedInv, ReadyOnlyIfCompatible, Hello, SameVersions
<1>6. QED
  BY <1>1, <1>2, <1>3, <1>4, <1>5, LoopStepKeeps DEF HandshakeInv

LEMMA SayHelloKeeps ==
  ASSUME HandshakeInv, NEW p \in Peers, SayHello(p)
  PROVE  HandshakeInv'
<1>1. /\ helloSent' = [helloSent EXCEPT ![p] = TRUE]
      /\ Send(p, {Hello(p)})
      /\ UNCHANGED <<protoVersion, forceSeed, connected, peerReady, netSeed, outFrames, built>>
  BY DEF SayHello, configVars
<1>2. LoopStep
  BY <1>1 DEF LoopStep, configVars
<1>3. {Hello(p)} \subseteq Frames /\ \A f \in {Hello(p)} : MayTravelTo(Other(p), f)
  BY FrameShapes, SessionAssumption DEF HandshakeInv, MayTravelTo, Peers, Other
<1>4. /\ wire' \in [Peers -> SUBSET Frames]
      /\ WireInv'
      /\ \A q \in Peers : wire[q] \subseteq wire'[q]
      /\ {Hello(p)} \subseteq wire'[Other(p)]
  BY <1>1, <1>2, <1>3, SendKeeps
<1>5. TypeOK'
  BY <1>1, <1>4 DEF HandshakeInv, TypeOK
<1>6. IntroducedInv'
  <2>1. Hello(Client)' = Hello(Client) /\ SameVersions' = SameVersions
    BY <1>1 DEF Hello, SameVersions
  <2>2. CASE p = Client
    <3>1. Hello(Client) \in wire'[Host] /\ helloSent'[Client]
      BY <1>1, <1>4, <2>2, OtherPeer DEF HandshakeInv, TypeOK
    <3>2. QED
      BY <2>1, <3>1 DEF IntroducedInv
  <2>3. CASE p = Host
    <3>1. helloSent'[Client] = helloSent[Client] /\ wire[Host] \subseteq wire'[Host]
      BY <1>1, <1>4, <2>3, OtherPeer DEF HandshakeInv, TypeOK
    <3>2. QED
      BY <1>1, <2>1, <3>1 DEF HandshakeInv, IntroducedInv
  <2>4. QED
    BY <2>2, <2>3 DEF Peers
<1>7. ReadyOnlyIfCompatible'
  BY <1>1 DEF HandshakeInv, ReadyOnlyIfCompatible
<1>8. QED
  BY <1>1, <1>2, <1>4, <1>5, <1>6, <1>7, LoopStepKeeps DEF HandshakeInv

\* A Hello makes its receiver ready only if it is of the same version, and the host's
\* acknowledgement follows its readiness.
LEMMA DispatchHelloKeeps ==
  ASSUME HandshakeInv, NEW p \in Peers, NEW f \in wire[p], DispatchHello(p, f)
  PROVE  HandshakeInv'
<1> DEFINE replies == IF p = Host /\ SameVersion(p, f) THEN {HelloAck} ELSE {}
<1>1. /\ f.type = "Hello"
      /\ Deliver(p, f, replies)
      /\ peerReady' = [peerReady EXCEPT ![p] = @ \/ SameVersion(p, f)]
      /\ UNCHANGED <<protoVersion, forceSeed, netSeed, outFrames, built>>
  BY DEF DispatchHello, configVars
<1>2. f = Hello(Other(p))
  BY <1>1, FrameShapes DEF HandshakeInv, WireInv, MayTravelTo
<1>3. SameVersion(p, f) <=> SameVersions
  BY <1>2, FrameShapes, OtherPeer DEF SameVersion, SameVersions, Peers
<1>4. /\ peerReady' \in [Peers -> BOOLEAN]
      /\ peerReady'[p] <=> peerReady[p] \/ SameVersions
      /\ \A q \in Peers \ {p} : peerReady'[q] = peerReady[q]
  BY <1>1, <1>3 DEF HandshakeInv, TypeOK
<1>5. LoopStep
  BY <1>1, <1>4 DEF LoopStep, configVars
<1>6. replies \subseteq Frames /\ \A r \in replies : MayTravelTo(Other(p), r)'
  <2>1. SameVersions' = SameVersions
    BY <1>1 DEF SameVersions
  <2>2. QED
    BY <1>3, <1>4, <2>1, FrameShapes, OtherPeer DEF MayTravelTo
<1> HIDE DEF replies
<1>7. /\ connected' \in [Peers -> BOOLEAN] /\ helloSent' \in [Peers -> BOOLEAN]
      /\ wire' \in [Peers -> SUBSET Frames]
      /\ WireInv' /\ IntroducedInv'
  BY <1>1, <1>4, <1>5, <1>6, DeliverKeeps
<1>8. TypeOK'
  BY <1>1, <1>4, <1>7 DEF HandshakeInv, TypeOK
<1>9. ReadyOnlyIfCompatible'
  BY <1>1, <1>4 DEF HandshakeInv, ReadyOnlyIfCompatible, SameVersions
<1>10. QED
  BY <1>1, <1>5, <1>7, <1>8, <1>9, LoopStepKeeps DEF HandshakeInv

LEMMA DispatchHelloAckKeeps ==
  ASSUME HandshakeInv, NEW p \in Peers, NEW f \in wire[p], DispatchHelloAck(p, f)
  PROVE  HandshakeInv'
<1>1. /\ f.type = "HelloAck"
      /\ Deliver(p, f, {})
      /\ peerReady' = [peerReady EXCEPT ![p] = TRUE]
      /\ UNCHANGED <<protoVersion, forceSeed, netSeed, outFrames, built>>
  BY DEF DispatchHelloAck, configVars
<1>2. SameVersions /\ f # Hello(Client)
  BY <1>1, FrameShapes DEF HandshakeInv, WireInv, MayTravelTo
<1>3. /\ peerReady' \in [Peers -> BOOLEAN]
      /\ \A q \in Peers \ {p} : peerReady'[q] = peerReady[q]
      /\ \A q \in Peers : peerReady[q] => peerReady'[q]
  BY <1>1 DEF HandshakeInv, TypeOK
<1>4. LoopStep
  BY <1>1, <1>3 DEF LoopStep, configVars
<1>5. /\ connected' \in [Peers -> BOOLEAN] /\ helloSent' \in [Peers -> BOOLEAN]
      /\ wire' \in [Peers -> SUBSET Frames]
      /\ WireInv' /\ IntroducedInv'
  <2>1. \A r \in {} : MayTravelTo(Other(p), r)'
    OBVIOUS
  <2>2. ~(p = Host /\ f = Hello(Client))
    BY <1>2
  <2>3. Deliver(p, f, {}) /\ {} \subseteq Frames
    BY <1>1
  <2>4. QED
    BY <1>3, <1>4, <2>1, <2>2, <2>3, DeliverKeeps
<1>6. TypeOK' /\ ReadyOnlyIfCompatible'
  BY <1>1, <1>2, <1>3, <1>5 DEF HandshakeInv, TypeOK, ReadyOnlyIfCompatible, SameVersions
<1>7. QED
  BY <1>1, <1>4, <1>5, <1>6, LoopStepKeeps DEF HandshakeInv

LEMMA DispatchMazeSeedKeeps ==
  ASSUME HandshakeInv, NEW p \in Peers, NEW f \in wire[p], DispatchMazeSeed(p, f)
  PROVE  HandshakeInv'
<1>1. /\ f.type = "MazeSeed"
      /\ Deliver(p, f, {})
      /\ netSeed' = [netSeed EXCEPT ![p] = f.seed]
      /\ UNCHANGED <<protoVersion, forceSeed, peerReady, outFrames, built>>
  BY DEF DispatchMazeSeed, configVars
<1>2. p = Client /\ OfHost(f.seed) /\ f # Hello(Client)
  BY <1>1, FrameShapes DEF HandshakeInv, WireInv, MayTravelTo
<1>3. LoopStep
  BY <1>1 DEF LoopStep, configVars
<1>4. /\ connected' \in [Peers -> BOOLEAN] /\ helloSent' \in [Peers -> BOOLEAN]
      /\ wire' \in [Peers -> SUBSET Frames]
      /\ WireInv' /\ IntroducedInv'
  BY <1>1, <1>2, <1>3, DeliverKeeps
<1>5. netSeed' \in [Peers -> Nat \cup {NoSeed}] /\ netSeed'[Client] = f.seed
  BY <1>1, <1>2 DEF HandshakeInv, TypeOK, OfHost
<1>6. SeedInv'
  <2>1. OfHost(f.seed)'
    BY <1>1, <1>2 DEF OfHost
  <2>2. QED
    BY <1>5, <2>1 DEF SeedInv
<1>7. TypeOK' /\ ReadyOnlyIfCompatible'
  BY <1>1, <1>4, <1>5 DEF HandshakeInv, TypeOK, ReadyOnlyIfCompatible
<1>8. QED
  BY <1>1, <1>3, <1>4, <1>6, <1>7, LoopStepKeeps DEF HandshakeInv

\* Only the host queues frames, so only it flushes any.
LEMMA FlushOutFramesKeeps ==
  ASSUME HandshakeInv, NEW p \in Peers, FlushOutFrames(p)
  PROVE  HandshakeInv'
<1> DEFINE frames == {outFrames[p][i] : i \in DOMAIN outFrames[p]}
<1>1. /\ outFrames[p] # <<>>
      /\ Send(p, frames)
      /\ outFrames' = [outFrames EXCEPT ![p] = <<>>]
      /\ UNCHANGED <<protoVersion, forceSeed, connected, helloSent, peerReady, netSeed, built>>
  BY DEF FlushOutFrames, configVars, sessionVars
<1>2. p = Host
  BY <1>1 DEF HandshakeInv, QueueInv, Peers
<1>3. LoopStep
  BY <1>1 DEF LoopStep, configVars
<1>4. frames \subseteq Frames
  <2>1. outFrames[p] \in Seq(Frames)
    BY DEF HandshakeInv, TypeOK
  <2>2. QED
    BY <2>1
<1>5. \A f \in frames : MayTravelTo(Other(p), f)
  BY <1>2, OtherPeer DEF HandshakeInv, QueueInv, MayTravelTo
<1> HIDE DEF frames
<1>6. /\ wire' \in [Peers -> SUBSET Frames]
      /\ WireInv'
      /\ \A q \in Peers : wire[q] \subseteq wire'[q]
  BY <1>1, <1>3, <1>4, <1>5, SendKeeps
<1>7. outFrames' \in [Peers -> Seq(Frames)]
  <2>1. <<>> \in Seq(Frames)
    OBVIOUS
  <2>2. QED
    BY <1>1, <2>1 DEF HandshakeInv, TypeOK
<1>8. TypeOK' /\ ReadyOnlyIfCompatible'
  BY <1>1, <1>6, <1>7 DEF HandshakeInv, TypeOK, ReadyOnlyIfCompatible
<1>9. QueueInv'
  BY <1>1, <1>2, OtherPeer DEF HandshakeInv, TypeOK, QueueInv
<1>10. IntroducedInv'
  BY <1>1, <1>6, OtherPeer DEF HandshakeInv, IntroducedInv, Hello, SameVersions
<1>11. QED
  BY <1>1, <1>3, <1>6, <1>8, <1>9, <1>10, LoopStepKeeps DEF HandshakeInv

-----------------------------------------------------------------------------
\* Once the host has built a maze, what it has built stays built, and a seed of a maze
\* it builds is one it may send.
LEMMA HostMazeGenBeginKeeps ==
  ASSUME HandshakeInv, NEW roll \in Rolls, HostMazeGenBegin(roll)
  PROVE  HandshakeInv'
<1>a. forceSeed[Host] \in Int /\ roll \in Int
  BY SessionAssumption, OtherPeer DEF HandshakeInv, TypeOK
<1>b. PICK seed \in Int : seed = IF forceSeed[Host] >= 0 THEN forceSeed[Host] ELSE roll
  BY <1>a
<1>c. PICK maze : maze = Len(built[Host]) + 1
  OBVIOUS
<1>1. /\ maze <= MaxMazes
      /\ built' = [built EXCEPT ![Host] = Append(@, seed)]
      /\ IF peerReady[Host] /\ seed >= 0
         THEN Queue(Host, MazeSeed(maze, seed))
         ELSE UNCHANGED outFrames
      /\ UNCHANGED <<protoVersion, forceSeed, connected, helloSent, peerReady, netSeed, wire>>
  BY <1>b, <1>c DEF HostMazeGenBegin, configVars, sessionVars
<1>3. /\ seed \in Int
      /\ forceSeed[Host] >= 0 => seed = forceSeed[Host]
  BY <1>b
<1>4. maze \in Nat /\ built[Host] \in Seq(Int) /\ Len(built[Host]) + 1 = maze
  BY <1>c, OtherPeer DEF HandshakeInv, TypeOK
<1>5. /\ built' \in [Peers -> Seq(Int)]
      /\ built'[Host] = Append(built[Host], seed)
      /\ built'[Client] = built[Client]
  BY <1>1, <1>3, <1>4, OtherPeer, SessionAssumption DEF HandshakeInv, TypeOK
<1>6. /\ Len(built'[Host]) = maze
      /\ DOMAIN built'[Host] = DOMAIN built[Host] \cup {maze}
      /\ \A i \in DOMAIN built[Host] : built'[Host][i] = built[Host][i]
      /\ built'[Host][maze] = seed
  BY <1>3, <1>4, <1>5
<1>7. \A s : OfHost(s) => OfHost(s)'
  BY <1>1, <1>6 DEF OfHost
<1>8. seed >= 0 => OfHost(seed)'
  <2>1. seed >= 0 => seed \in Nat
    BY <1>3
  <2>2. forceSeed' = forceSeed
    BY <1>1
  <2>3. QED
    BY <1>3, <1>6, <2>1, <2>2 DEF OfHost
<1>9. \A p \in Peers : Len(built'[p]) <= MaxMazes
  BY <1>1, <1>5, <1>6 DEF HandshakeInv, TypeOK, Peers
<1>10. outFrames' \in [Peers -> Seq(Frames)] /\ QueueInv'
  <2>1. CASE peerReady[Host] /\ seed >= 0
    <3>a. PICK frame : frame = MazeSeed(maze, seed)
      OBVIOUS
    <3>1. frame \in Frames /\ frame.type = "MazeSeed" /\ frame.seed = seed
      BY <1>3, <1>4, <2>1, <3>a, FrameShapes
    <3>2. outFrames' = [outFrames EXCEPT ![Host] = Append(@, frame)]
      BY <1>1, <2>1, <3>a DEF Queue
    <3>3. outFrames[Host] \in Seq(Frames)
      BY OtherPeer DEF HandshakeInv, TypeOK
    <3>4. Append(outFrames[Host], frame) \in Seq(Frames)
      BY <3>1, <3>3
    <3>5. /\ outFrames' \in [Peers -> Seq(Frames)]
          /\ outFrames'[Host] = Append(outFrames[Host], frame)
          /\ outFrames'[Client] = outFrames[Client]
      BY <3>2, <3>4, OtherPeer, SessionAssumption DEF HandshakeInv, TypeOK
    <3>6. \A i \in DOMAIN outFrames'[Host] :
            outFrames'[Host][i] = frame
              \/ (i \in DOMAIN outFrames[Host] /\ outFrames'[Host][i] = outFrames[Host][i])
      BY <3>1, <3>3, <3>5
    <3>7. OfHost(frame.seed)'
      BY <1>8, <2>1, <3>1
    <3>8. QED
      BY <1>7, <3>1, <3>5, <3>6, <3>7 DEF HandshakeInv, QueueInv
  <2>2. CASE ~(peerReady[Host] /\ seed >= 0)
    BY <1>1, <1>7, <2>2 DEF HandshakeInv, QueueInv, TypeOK
  <2>3. QED
    BY <2>1, <2>2
<1>11. WireInv'
  <2>1. ASSUME NEW p \in Peers, NEW f \in wire[p] PROVE MayTravelTo(p, f)'
    <3>1. MayTravelTo(p, f)
      BY DEF HandshakeInv, WireInv
    <3>2. Hello(Other(p))' = Hello(Other(p)) /\ SameVersions' = SameVersions
      BY <1>1 DEF Hello, SameVersions
    <3>3. QED
      BY <1>1, <1>7, <3>1, <3>2 DEF MayTravelTo
  <2>2. QED
    BY <1>1, <2>1 DEF WireInv
<1>12. TypeOK'
  BY <1>1, <1>5, <1>9, <1>10 DEF HandshakeInv, TypeOK
<1>13. SeedInv'
  BY <1>1, <1>7 DEF HandshakeInv, SeedInv
<1>14. ForcedInv'
  BY <1>1, <1>3, <1>5, <1>6 DEF HandshakeInv, ForcedInv
<1>15. IntroducedInv' /\ ReadyOnlyIfCompatible'
  BY <1>1 DEF HandshakeInv, IntroducedInv, ReadyOnlyIfCompatible, Hello, SameVersions
<1>16. QED
  BY <1>10, <1>11, <1>12, <1>13, <1>14, <1>15 DEF HandshakeInv

\* The next maze of the client: the seed it has heard of, else its configured one, else
\* the one rolled.
NextOfClient(roll) ==
  LET seed == IF netSeed[Client] # NoSeed THEN netSeed[Client] ELSE forceSeed[Client]
  IN  IF seed >= 0 THEN seed ELSE roll

LEMMA ClientBuilds ==
  ASSUME HandshakeInv, NEW roll \in Rolls, ClientMazeGenBegin(roll)
  PROVE  /\ Len(built[Client]) < MaxMazes
         /\ UNCHANGED <<protoVersion, forceSeed, connected, helloSent, peerReady, netSeed,
                        outFrames, wire>>
         /\ built' \in [Peers -> Seq(Int)]
         /\ built'[Host] = built[Host]
         /\ Len(built'[Client]) = Len(built[Client]) + 1
         /\ DOMAIN built'[Client] = DOMAIN built[Client] \cup {Len(built'[Client])}
         /\ \A i \in DOMAIN built[Client] : built'[Client][i] = built[Client][i]
         /\ built'[Client][Len(built'[Client])] = NextOfClient(roll)
<1> DEFINE next == NextOfClient(roll)
<1>1. /\ Len(built[Client]) < MaxMazes
      /\ UNCHANGED <<protoVersion, forceSeed, connected, helloSent, peerReady, netSeed,
                     outFrames, wire>>
      /\ built' = [built EXCEPT ![Client] = Append(@, next)]
  BY DEF ClientMazeGenBegin, NextOfClient, configVars, sessionVars
<1>2. next \in Int
  <2>1. netSeed[Client] \in Int /\ forceSeed[Client] \in Int /\ roll \in Int
    <3>1. netSeed[Client] \in Nat \cup {-1}
      BY OtherPeer DEF HandshakeInv, TypeOK, NoSeed
    <3>2. netSeed[Client] \in Int
      BY <3>1
    <3>3. forceSeed[Client] \in Int
      BY SessionAssumption, OtherPeer DEF HandshakeInv, TypeOK
    <3>4. QED
      BY <3>2, <3>3, SessionAssumption
  <2>2. QED
    BY <2>1 DEF NextOfClient
<1> HIDE DEF next
<1>3. built[Client] \in Seq(Int)
  BY OtherPeer DEF HandshakeInv, TypeOK
<1>4. /\ built' \in [Peers -> Seq(Int)]
      /\ built'[Host] = built[Host]
      /\ built'[Client] = Append(built[Client], next)
  BY <1>1, <1>2, <1>3, OtherPeer, SessionAssumption DEF HandshakeInv, TypeOK
<1>5. /\ Len(built'[Client]) = Len(built[Client]) + 1
      /\ DOMAIN built'[Client] = DOMAIN built[Client] \cup {Len(built'[Client])}
      /\ \A i \in DOMAIN built[Client] : built'[Client][i] = built[Client][i]
      /\ built'[Client][Len(built'[Client])] = next
  BY <1>2, <1>3, <1>4
<1>6. QED
  BY <1>1, <1>4, <1>5 DEF next

LEMMA NextIsForced ==
  ASSUME HandshakeInv, NEW roll, forceSeed[Host] >= 0
  PROVE  /\ netSeed[Client] # NoSeed => NextOfClient(roll) = forceSeed[Host]
         /\ forceSeed[Host] = forceSeed[Client] => NextOfClient(roll) = forceSeed[Host]
BY DEF HandshakeInv, SeedInv, OfHost, NextOfClient

LEMMA ClientMazeGenBeginKeeps ==
  ASSUME HandshakeInv, NEW roll \in Rolls, ClientMazeGenBegin(roll)
  PROVE  HandshakeInv'
<1>1. /\ Len(built[Client]) < MaxMazes
      /\ UNCHANGED <<protoVersion, forceSeed, connected, helloSent, peerReady, netSeed,
                     outFrames, wire>>
      /\ built' \in [Peers -> Seq(Int)]
      /\ built'[Host] = built[Host]
      /\ Len(built'[Client]) = Len(built[Client]) + 1
      /\ DOMAIN built'[Client] = DOMAIN built[Client] \cup {Len(built'[Client])}
      /\ \A i \in DOMAIN built[Client] : built'[Client][i] = built[Client][i]
      /\ built'[Client][Len(built'[Client])] = NextOfClient(roll)
  BY ClientBuilds
<1>2. \A p \in Peers : Len(built'[p]) <= MaxMazes
  <2>1. Len(built[Client]) \in Nat /\ MaxMazes \in Nat
    BY SessionAssumption, OtherPeer DEF HandshakeInv, TypeOK
  <2>2. QED
    BY <1>1, <2>1 DEF HandshakeInv, TypeOK, Peers
<1>3. TypeOK'
  BY <1>1, <1>2 DEF HandshakeInv, TypeOK
<1>4. \A s : OfHost(s) => OfHost(s)'
  BY <1>1 DEF OfHost
<1>5. WireInv' /\ QueueInv' /\ SeedInv'
  <2>1. ASSUME NEW p \in Peers, NEW f \in wire[p] PROVE MayTravelTo(p, f)'
    <3>1. MayTravelTo(p, f)
      BY DEF HandshakeInv, WireInv
    <3>2. Hello(Other(p))' = Hello(Other(p)) /\ SameVersions' = SameVersions
      BY <1>1 DEF Hello, SameVersions
    <3>3. QED
      BY <1>1, <1>4, <3>1, <3>2 DEF MayTravelTo
  <2>2. QED
    BY <1>1, <1>4, <2>1 DEF HandshakeInv, WireInv, QueueInv, SeedInv
<1>6. ForcedInv'
  <2>1. forceSeed[Host] >= 0 /\ forceSeed[Host] = forceSeed[Client] =>
          built'[Client][Len(built'[Client])] = forceSeed[Host]
    BY <1>1, NextIsForced
  <2>2. QED
    BY <1>1, <2>1 DEF HandshakeInv, ForcedInv
<1>7. IntroducedInv' /\ ReadyOnlyIfCompatible'
  BY <1>1 DEF HandshakeInv, IntroducedInv, ReadyOnlyIfCompatible, Hello, SameVersions
<1>8. QED
  BY <1>3, <1>5, <1>6, <1>7 DEF HandshakeInv

-----------------------------------------------------------------------------
LEMMA HandshakeStep ==
  ASSUME HandshakeInv, [Next]_vars
  PROVE  HandshakeInv'
<1>1. CASE UNCHANGED vars
  BY <1>1 DEF vars, configVars, sessionVars, HandshakeInv, TypeOK, WireInv, MayTravelTo,
     OfHost, Hello, SameVersions, QueueInv, SeedInv, ForcedInv, IntroducedInv,
     ReadyOnlyIfCompatible
<1>2. CASE LinkOpens
  BY <1>2, LinkOpensKeeps
<1>3. ASSUME NEW p \in Peers, SayHello(p) PROVE HandshakeInv'
  BY <1>3, SayHelloKeeps
<1>4. ASSUME NEW p \in Peers, FlushOutFrames(p) PROVE HandshakeInv'
  BY <1>4, FlushOutFramesKeeps
<1>5. ASSUME NEW p \in Peers, NEW f \in wire[p], DispatchHello(p, f) PROVE HandshakeInv'
  BY <1>5, DispatchHelloKeeps
<1>6. ASSUME NEW p \in Peers, NEW f \in wire[p], DispatchHelloAck(p, f) PROVE HandshakeInv'
  BY <1>6, DispatchHelloAckKeeps
<1>7. ASSUME NEW p \in Peers, NEW f \in wire[p], DispatchMazeSeed(p, f) PROVE HandshakeInv'
  BY <1>7, DispatchMazeSeedKeeps
<1>8. ASSUME NEW roll \in Rolls, HostMazeGenBegin(roll) PROVE HandshakeInv'
  BY <1>8, HostMazeGenBeginKeeps
<1>9. ASSUME NEW roll \in Rolls, ClientMazeGenBegin(roll) PROVE HandshakeInv'
  BY <1>9, ClientMazeGenBeginKeeps
<1>10. QED
  BY <1>1, <1>2, <1>3, <1>4, <1>5, <1>6, <1>7, <1>8, <1>9 DEF Next

\* Whatever the order of the two Hellos, the HelloAck and the seeds, the inductive
\* invariant of the handshake holds (dispatch and onMazeGenBegin, dllmain.cpp).
THEOREM SessionHolds == Spec => []HandshakeInv
<1>1. Init => HandshakeInv
  BY HandshakeInit
<1>2. HandshakeInv /\ [Next]_vars => HandshakeInv'
  BY HandshakeStep
<1>3. QED
  BY <1>1, <1>2, PTL DEF Spec

\* Only peers of one version get ready, and a seed the client holds is one of the host's.
THEOREM ReadyAndSeeded == Spec => []SessionInv
<1>1. HandshakeInv => SessionInv
  BY DEF HandshakeInv, SeedInv, OfHost, SessionInv, SeedComesFromHost
<1>2. QED
  BY <1>1, SessionHolds, PTL

\* A ready client has a ready host, or one that its Hello is on the way to.
THEOREM ReadyTogether == Spec => []ReadinessIsMutual
<1>1. HandshakeInv => ReadinessIsMutual
  BY OtherPeer DEF HandshakeInv, IntroducedInv, ReadyOnlyIfCompatible, ReadinessIsMutual,
     SameVersions
<1>2. QED
  BY <1>1, SessionHolds, PTL

\* Peers configured with one seed build the same mazes.
THEOREM ForcedMazesAgree == Spec => []SameMazeIfForced
<1>1. HandshakeInv => SameMazeIfForced
  BY DEF HandshakeInv, ForcedInv, SameMazeIfForced, SameMaze
<1>2. QED
  BY <1>1, SessionHolds, PTL

\* Once it has heard from a host that plays a configured seed, the client builds no
\* maze from any other (onMazeGenBegin, dllmain.cpp).
THEOREM HostSeedIsMirrored == Spec => HostSeedWins
<1>1. ASSUME HandshakeInv, [Next]_vars PROVE [MirrorsHost]_vars
  <2>1. ASSUME NEW roll \in Rolls, ClientMazeGenBegin(roll) PROVE MirrorsHost
    BY <1>1, <2>1, ClientBuilds, NextIsForced DEF MirrorsHost
  <2>2. ASSUME NEW roll \in Rolls, HostMazeGenBegin(roll) PROVE MirrorsHost
    BY <1>1, <2>2, SessionAssumption DEF HostMazeGenBegin, MirrorsHost, HandshakeInv, TypeOK
  <2>3. CASE UNCHANGED built
    BY <2>3 DEF MirrorsHost
  <2>4. QED
    BY <1>1, <2>1, <2>2, <2>3 DEF Next, vars, LinkOpens, SayHello, FlushOutFrames,
       DispatchHello, DispatchHelloAck, DispatchMazeSeed
<1>2. QED
  BY <1>1, SessionHolds, PTL DEF Spec, HostSeedWins
=============================================================================
