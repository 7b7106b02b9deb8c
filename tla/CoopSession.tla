---------------------------- MODULE CoopSession -----------------------------
(***************************************************************************)
(* dllmain.cpp: the handshake and the maze seed.                           *)
(*                                                                         *)
(* In each process the loop thread runs on_update(): it dispatches what    *)
(* the transport received, sends Hello once the link is up, and flushes    *)
(* the frames queued by the game thread.  The game thread runs the         *)
(* pre-hook of Maze_Generator:ReceiveBeginPlay, which picks the seed the   *)
(* maze is built from.  The threads share m_peerReady (atomic), m_netSeed  *)
(* (m_mtx) and m_outFrames (m_outMtx); each action holds at most one of    *)
(* them, so the two threads of a process interleave action by action.      *)
(* Frames of the other parts (cheese, enemies, deaths) change none of this *)
(* state and are left out.                                                 *)
(*                                                                         *)
(* Frames travel over the reliable channel as ReliableLink describes it:   *)
(* at most once, in any order.                                             *)
(***************************************************************************)
EXTENDS Integers, Sequences, FiniteSets

CONSTANTS
  Host, Client,    \* the two peers
  Versions,        \* the values of kProtoVersion a peer may be built with
  Seeds,           \* the values of m_forceSeed; -1: none configured
  Rolls,           \* what the game may roll as "Random Seed Roll"
  MaxMazes         \* bound: mazes each peer enters

Peers == {Host, Client}
Other(p) == IF p = Host THEN Client ELSE Host

ASSUME SessionAssumption ==
  /\ Host # Client
  /\ Seeds \subseteq Int
  /\ Rolls \subseteq Int
  /\ MaxMazes \in Nat

VARIABLES
  protoVersion, \* kProtoVersion: fixed when the peer is built
  forceSeed,  \* m_forceSeed: read from its configuration when it starts
  connected,  \* the transport's state is Connected
  helloSent,  \* m_helloSent
  peerReady,  \* m_peerReady
  netSeed,    \* the client's m_netSeed; NoSeed while m_haveNetSeed is false
  outFrames,  \* m_outFrames: frames queued by the game thread
  wire,       \* wire[p]: reliable frames on their way to p
  built       \* built[p]: the seeds of the mazes p has entered, in order

configVars == <<protoVersion, forceSeed>>
sessionVars == <<connected, helloSent, peerReady, netSeed>>
vars == <<configVars, sessionVars, outFrames, wire, built>>

NoSeed == -1

\* n tells the seeds of different mazes apart on the wire.
Hello(p) == [type |-> "Hello", n |-> 0, protoVer |-> protoVersion[p]]
HelloAck == [type |-> "HelloAck", n |-> 0]
MazeSeed(n, seed) == [type |-> "MazeSeed", n |-> n, seed |-> seed]

Frames ==
  [type : {"Hello"}, n : {0}, protoVer : Versions]
    \cup {HelloAck}
    \cup [type : {"MazeSeed"}, n : Nat, seed : Nat]

TypeOK ==
  /\ protoVersion \in [Peers -> Versions]
  /\ forceSeed \in [Peers -> Seeds]
  /\ connected \in [Peers -> BOOLEAN]
  /\ helloSent \in [Peers -> BOOLEAN]
  /\ peerReady \in [Peers -> BOOLEAN]
  /\ netSeed \in [Peers -> Nat \cup {NoSeed}]
  /\ outFrames \in [Peers -> Seq(Frames)]
  /\ wire \in [Peers -> SUBSET Frames]
  /\ built \in [Peers -> Seq(Int)]
  /\ \A p \in Peers : Len(built[p]) <= MaxMazes

Init ==
  /\ protoVersion \in [Peers -> Versions]
  /\ forceSeed \in [Peers -> Seeds]
  /\ connected = [p \in Peers |-> FALSE]
  /\ helloSent = [p \in Peers |-> FALSE]
  /\ peerReady = [p \in Peers |-> FALSE]
  /\ netSeed = [p \in Peers |-> NoSeed]
  /\ outFrames = [p \in Peers |-> <<>>]
  /\ wire = [p \in Peers |-> {}]
  /\ built = [p \in Peers |-> <<>>]

-----------------------------------------------------------------------------
(* The loop thread.                                                        *)

Send(p, frames) == wire' = [wire EXCEPT ![Other(p)] = @ \cup frames]

\* The transport's own WT_Hello reached the host.
LinkOpens ==
  /\ ~connected[Host]
  /\ connected' = [connected EXCEPT ![Host] = TRUE]
  /\ UNCHANGED <<configVars, helloSent, peerReady, netSeed, outFrames, wire, built>>

\* The first on_update() that finds the link up introduces this peer.
SayHello(p) ==
  /\ connected[p]
  /\ ~helloSent[p]
  /\ helloSent' = [helloSent EXCEPT ![p] = TRUE]
  /\ Send(p, {Hello(p)})
  /\ UNCHANGED <<configVars, connected, peerReady, netSeed, outFrames, built>>

\* Any frame from the peer makes the transport Connected: a client that was
\* still Connecting says hello in the same on_update(), before it dispatches.
Deliver(p, f, replies) ==
  /\ f \in wire[p]
  /\ connected' = [connected EXCEPT ![p] = TRUE]
  /\ helloSent' = [helloSent EXCEPT ![p] = TRUE]
  /\ wire' = [wire EXCEPT
       ![p] = @ \ {f},
       ![Other(p)] = @ \cup replies \cup (IF helloSent[p] THEN {} ELSE {Hello(p)})]

SameVersion(p, f) == f.protoVer = protoVersion[p]

\* Mutation: the host acknowledges a Hello and does not become ready itself.
DispatchHello_HostNotReady(p, f) ==
  /\ f.type = "Hello"
  /\ Deliver(p, f, IF p = Host /\ SameVersion(p, f) THEN {HelloAck} ELSE {})
  /\ peerReady' = [peerReady EXCEPT ![p] = @ \/ (p = Client /\ SameVersion(p, f))]
  /\ UNCHANGED <<configVars, netSeed, outFrames, built>>

\* Mutation: a Hello is not answered, and readies the client only.
DispatchHello_NoAck(p, f) ==
  /\ f.type = "Hello"
  /\ Deliver(p, f, {})
  /\ peerReady' = [peerReady EXCEPT ![p] = @ \/ (p = Client /\ SameVersion(p, f))]
  /\ UNCHANGED <<configVars, netSeed, outFrames, built>>

\* Mutation: the version is not looked at.
DispatchHello_AnyVersion(p, f) ==
  /\ f.type = "Hello"
  /\ Deliver(p, f, IF p = Host THEN {HelloAck} ELSE {})
  /\ peerReady' = [peerReady EXCEPT ![p] = TRUE]
  /\ UNCHANGED <<configVars, netSeed, outFrames, built>>

DispatchHello(p, f) ==
  /\ f.type = "Hello"
  /\ Deliver(p, f, IF p = Host /\ SameVersion(p, f) THEN {HelloAck} ELSE {})
  /\ peerReady' = [peerReady EXCEPT ![p] = @ \/ SameVersion(p, f)]
  /\ UNCHANGED <<configVars, netSeed, outFrames, built>>

DispatchHelloAck(p, f) ==
  /\ f.type = "HelloAck"
  /\ Deliver(p, f, {})
  /\ peerReady' = [peerReady EXCEPT ![p] = TRUE]
  /\ UNCHANGED <<configVars, netSeed, outFrames, built>>

DispatchMazeSeed(p, f) ==
  /\ f.type = "MazeSeed"
  /\ Deliver(p, f, {})
  /\ netSeed' = [netSeed EXCEPT ![p] = f.seed]
  /\ UNCHANGED <<configVars, peerReady, outFrames, built>>

\* on_update() sends what the game thread has queued, whatever the link's state.
FlushOutFrames(p) ==
  /\ outFrames[p] # <<>>
  /\ Send(p, {outFrames[p][i] : i \in DOMAIN outFrames[p]})
  /\ outFrames' = [outFrames EXCEPT ![p] = <<>>]
  /\ UNCHANGED <<configVars, sessionVars, built>>

-----------------------------------------------------------------------------
(* The game thread.                                                        *)

Queue(p, f) == outFrames' = [outFrames EXCEPT ![p] = Append(@, f)]

\* onMazeGenBegin at the host, which is about to build its next maze from a
\* configured seed or the one the game rolled, and shares it if a peer is there.
HostMazeGenBegin(roll) ==
  LET seed == IF forceSeed[Host] >= 0 THEN forceSeed[Host] ELSE roll
      maze == Len(built[Host]) + 1
  IN
  /\ maze <= MaxMazes
  /\ built' = [built EXCEPT ![Host] = Append(@, seed)]
  /\ IF peerReady[Host] /\ seed >= 0
     THEN Queue(Host, MazeSeed(maze, seed))
     ELSE UNCHANGED outFrames
  /\ UNCHANGED <<configVars, sessionVars, wire>>

\* Mutation: the client has no use for a configured seed.
ClientMazeGenBegin_NoForce(roll) ==
  LET seed == netSeed[Client] IN
  /\ Len(built[Client]) < MaxMazes
  /\ built' = [built EXCEPT ![Client] = Append(@, IF seed >= 0 THEN seed ELSE roll)]
  /\ UNCHANGED <<configVars, sessionVars, outFrames, wire>>

\* Mutation: a configured seed goes before the one of the host.
ClientMazeGenBegin_ForceFirst(roll) ==
  LET seed == IF forceSeed[Client] >= 0 THEN forceSeed[Client] ELSE netSeed[Client] IN
  /\ Len(built[Client]) < MaxMazes
  /\ built' = [built EXCEPT ![Client] = Append(@, IF seed >= 0 THEN seed ELSE roll)]
  /\ UNCHANGED <<configVars, sessionVars, outFrames, wire>>

\* onMazeGenBegin at the client: the seed last heard of, else a configured one,
\* else the one its own game rolled.
ClientMazeGenBegin(roll) ==
  LET seed == IF netSeed[Client] # NoSeed THEN netSeed[Client] ELSE forceSeed[Client] IN
  /\ Len(built[Client]) < MaxMazes
  /\ built' = [built EXCEPT ![Client] = Append(@, IF seed >= 0 THEN seed ELSE roll)]
  /\ UNCHANGED <<configVars, sessionVars, outFrames, wire>>

-----------------------------------------------------------------------------
Next ==
  \/ LinkOpens
  \/ \E p \in Peers :
       \/ SayHello(p)
       \/ FlushOutFrames(p)
       \/ \E f \in wire[p] :
            \/ DispatchHello(p, f)
            \/ DispatchHelloAck(p, f)
            \/ DispatchMazeSeed(p, f)
  \/ \E roll \in Rolls : HostMazeGenBegin(roll) \/ ClientMazeGenBegin(roll)

Spec == Init /\ [][Next]_vars

\* on_update() keeps running in both processes, and the reliable channel hands
\* over every frame; nothing makes the players enter a maze.
Fairness ==
  /\ WF_vars(LinkOpens)
  /\ \A p \in Peers :
       /\ WF_vars(SayHello(p))
       /\ WF_vars(FlushOutFrames(p))
       /\ WF_vars(\E f \in wire[p] : DispatchHello(p, f))
       /\ WF_vars(\E f \in wire[p] : DispatchHelloAck(p, f))

FairSpec == Spec /\ Fairness

-----------------------------------------------------------------------------
(* Correctness.                                                            *)

\* Peers built with different protocol versions never consider each other ready,
\* in whatever order Hello and HelloAck arrive.
ReadyOnlyIfCompatible ==
  \A p \in Peers : peerReady[p] => protoVersion[Host] = protoVersion[Client]

\* A client that is ready has a host that is ready, or whose Hello it has answered
\* with one of its own that is still on the way.
ReadinessIsMutual ==
  peerReady[Client] =>
    \/ peerReady[Host]
    \/ Hello(Client) \in wire[Host]

\* Once the link opens, both peers of the same version get ready.
BothGetReady ==
  (connected[Host] /\ protoVersion[Host] = protoVersion[Client])
    ~> (peerReady[Host] /\ peerReady[Client])

\* The maze a client builds from a seed it was sent is one the host has built.
SeedComesFromHost ==
  netSeed[Client] # NoSeed => \E i \in DOMAIN built[Host] : built[Host][i] = netSeed[Client]

\* The n-th maze of the client is the n-th maze of the host.
SameMaze ==
  \A i \in DOMAIN built[Host] \cap DOMAIN built[Client] : built[Host][i] = built[Client][i]

\* Two peers configured with one seed build the same mazes from the first on,
\* linked or not, and whatever seeds are under way between them.
SameMazeIfForced ==
  (forceSeed[Host] = forceSeed[Client] /\ forceSeed[Host] >= 0) => SameMaze

\* "Client mirrors the host's seed (preferred)" (dllmain.cpp): once it has heard from
\* a host that plays a configured seed, the client builds no other maze, not even
\* from a seed of its own configuration.
MirrorsHost ==
  (forceSeed[Host] >= 0 /\ netSeed[Client] # NoSeed /\ built'[Client] # built[Client])
    => built'[Client][Len(built'[Client])] = forceSeed[Host]

HostSeedWins == [][MirrorsHost]_vars

\* In whatever order the two Hellos, the HelloAck and the seeds of two mazes arrive: only
\* peers of one version get ready, and a client never holds a seed that is not the host's.
SessionInv == TypeOK /\ ReadyOnlyIfCompatible /\ SeedComesFromHost
=============================================================================
