----------------------------- MODULE MazeModule -----------------------------
(***************************************************************************)
(* Game/MazeModule.cpp, the validated seed exchange that is to replace     *)
(* that of dllmain.cpp.  The host broadcasts the seed its maze is built    *)
(* from; a client whose maze was built before the seed arrived builds it   *)
(* again; and each peer compares a fingerprint of its rooms with the       *)
(* peer's (MazeReady), and logs MATCH or MISMATCH once.                    *)
(*                                                                         *)
(* The game thread runs onMazeGenBegin and the rat tick, the loop thread   *)
(* on_net_tick and on_message.  They share m_mtx, which onMazeGenBegin     *)
(* lets go after it has copied the seed and before it acts on the copy:    *)
(* two actions.                                                            *)
(*                                                                         *)
(* One run, as the module's first milestone has it.  The fingerprint of a  *)
(* maze is the seed it was built from: equal seeds give equal rooms, and   *)
(* no two seeds of an instance collide in the hash.                        *)
(***************************************************************************)
EXTENDS Integers

CONSTANTS
  Host, Client,  \* the two peers
  Seeds,         \* values of "Random Seed Roll"
  None,          \* no seed, no hash, no verdict
  Params,        \* values of room amount, biome and rat id
  RegenPaths     \* how the client can build its maze again (tryRegenIfLateSeed)

Peers == {Host, Client}

Hashes == [seed : Seeds, params : Params]
MazeSeeds == [type : {"MazeSeed"}, seed : Seeds, paramHash : Hashes]
MazeReadys == [type : {"MazeReady"}, hash : Seeds]

\* None is a value of its own.
ASSUME MazeAssumption ==
  /\ Host # Client
  /\ None \notin Seeds \cup MazeSeeds \cup {"match", "mismatch"}
  /\ RegenPaths \subseteq {"function", "reload", "none"}

VARIABLES
  force,        \* m_forceSeed, None for -1
  params,       \* what captureParamHash reads besides the seed
  path,         \* the way that tryRegenIfLateSeed finds
  game,         \* "menu", "begun" (within onMazeGenBegin), "playing", "loading"
  gi,           \* "Random Seed Roll" of the game instance
  built,        \* the seed the maze was built from
  link,         \* *m_peerReady
  wire,         \* wire[p]: frames on their way to p
  localHash,    \* m_localHash; None while m_localRooms is 0
  fpComputed, readyToSend, readySent,
  peerHash,     \* m_peerHash; None while m_havePeerHash is false
  verdict,      \* what was logged since the maze began
  seedToSend,   \* the host's frame while m_hostSeedPending
  netSeed,      \* the client's last MazeSeed
  seen,         \* the copy of it that the client's onMazeGenBegin works with
  lateSeedArrived, ranUnseeded, lateRegenDone,
  warned,       \* history: the client has logged a paramHash mismatch
  regenerated   \* history: the client has built its maze again

settings == <<force, params, path>>
gameVars == <<game, gi, built>>
readyVars == <<localHash, fpComputed, readyToSend, readySent>>
verdictVars == <<peerHash, verdict>>
clientVars == <<netSeed, seen, lateSeedArrived, ranUnseeded, lateRegenDone>>
historyVars == <<warned, regenerated>>
vars == <<settings, gameVars, link, wire, readyVars, verdictVars, seedToSend,
          clientVars, historyVars>>

TypeOK ==
  /\ force \in [Peers -> Seeds \cup {None}]
  /\ params \in [Peers -> Params]
  /\ path \in RegenPaths
  /\ game \in [Peers -> {"menu", "begun", "playing", "loading"}]
  /\ gi \in [Peers -> Seeds]
  /\ built \in [Peers -> Seeds \cup {None}]
  /\ link \in [Peers -> BOOLEAN]
  /\ wire \in [Peers -> SUBSET (MazeSeeds \cup MazeReadys)]
  /\ localHash \in [Peers -> Seeds \cup {None}]
  /\ {fpComputed, readyToSend, readySent} \subseteq [Peers -> BOOLEAN]
  /\ peerHash \in [Peers -> Seeds \cup {None}]
  /\ verdict \in [Peers -> {"match", "mismatch", None}]
  /\ seedToSend \in MazeSeeds \cup {None}
  /\ {netSeed, seen} \subseteq MazeSeeds \cup {None}
  /\ {lateSeedArrived, ranUnseeded, lateRegenDone} \subseteq BOOLEAN
  /\ warned \in BOOLEAN /\ regenerated \in BOOLEAN

Nowhere == [p \in Peers |-> None]
Nobody == [p \in Peers |-> FALSE]

Init ==
  /\ force \in [Peers -> Seeds \cup {None}]
  /\ params \in [Peers -> Params]
  /\ path \in RegenPaths
  /\ game = [p \in Peers |-> "menu"]
  /\ gi \in [Peers -> Seeds]
  /\ built = Nowhere
  /\ link = Nobody
  /\ wire = [p \in Peers |-> {}]
  /\ localHash = Nowhere /\ fpComputed = Nobody
  /\ readyToSend = Nobody /\ readySent = Nobody
  /\ peerHash = Nowhere /\ verdict = Nowhere
  /\ seedToSend = None
  /\ netSeed = None /\ seen = None
  /\ lateSeedArrived = FALSE /\ ranUnseeded = FALSE /\ lateRegenDone = FALSE
  /\ warned = FALSE /\ regenerated = FALSE

-----------------------------------------------------------------------------
(* The game thread: onMazeGenBegin.                                        *)

\* The begin of onMazeGenBegin: the latches of the last maze, and under the lock those
\* that the loop thread uses, are reset; the host's seed is copied under the lock.
GenReset(p) ==
  /\ game[p] \in {"menu", "loading"}
  /\ game' = [game EXCEPT ![p] = "begun"]
  /\ fpComputed' = [fpComputed EXCEPT ![p] = FALSE]
  /\ readyToSend' = [readyToSend EXCEPT ![p] = FALSE]
  /\ readySent' = [readySent EXCEPT ![p] = FALSE]
  /\ localHash' = [localHash EXCEPT ![p] = None]
  /\ peerHash' = [peerHash EXCEPT ![p] = None]
  /\ verdict' = [verdict EXCEPT ![p] = None]
  /\ seen' = IF p = Client THEN netSeed ELSE seen
  /\ ranUnseeded' = IF p = Client THEN FALSE ELSE ranUnseeded
  /\ lateRegenDone' = IF p = Client THEN FALSE ELSE lateRegenDone
  /\ UNCHANGED <<settings, gi, built, link, wire, seedToSend, netSeed, lateSeedArrived,
                 historyVars>>

\* captureParamHash, when the game instance has the seed.
ParamHash(p, seed) == [seed |-> seed, params |-> params[p]]

\* The game builds the maze that onMazeGenBegin has left the seed for.
Build(p, seed) ==
  /\ gi' = [gi EXCEPT ![p] = seed]
  /\ built' = [built EXCEPT ![p] = seed]

\* The configured seed wins over the rolled one.
HostSeed == IF force[Host] # None THEN force[Host] ELSE gi[Host]

\* The rest of onMazeGenBegin at the host, the authority.
HostGenerates ==
  /\ game[Host] = "begun"
  /\ game' = [game EXCEPT ![Host] = "playing"]
  /\ Build(Host, HostSeed)
  /\ seedToSend' = [type |-> "MazeSeed", seed |-> HostSeed,
                    paramHash |-> ParamHash(Host, HostSeed)]
  /\ UNCHANGED <<settings, link, wire, readyVars, verdictVars, clientVars, historyVars>>

ClientParamHash(seed) == ParamHash(Client, seed)

\* The rest of it at a client that has a seed, a configured or the host's.
ClientGenerates ==
  LET seed == IF force[Client] # None THEN force[Client] ELSE seen.seed IN
  /\ game[Client] = "begun"
  /\ force[Client] # None \/ seen # None
  /\ game' = [game EXCEPT ![Client] = "playing"]
  /\ Build(Client, seed)
  /\ warned' = (warned \/ (seen # None /\ seen.paramHash # ClientParamHash(seed)))
  /\ UNCHANGED <<settings, link, wire, readyVars, verdictVars, seedToSend, clientVars,
                 regenerated>>

\* And at a client without one: it lets the maze be built from its own seed.
ClientGeneratesUnseeded ==
  /\ game[Client] = "begun"
  /\ force[Client] = None /\ seen = None
  /\ game' = [game EXCEPT ![Client] = "playing"]
  /\ Build(Client, gi[Client])
  /\ ranUnseeded' = TRUE
  /\ UNCHANGED <<settings, link, wire, readyVars, verdictVars, seedToSend, netSeed,
                 seen, lateSeedArrived, lateRegenDone, historyVars>>

-----------------------------------------------------------------------------
(* The game thread: the rat tick.                                          *)

\* Mutation: the seed in the game instance stands for the maze.
RoomFingerprint_OfSeed(p) == gi[p]

\* computeRoomFingerprint, over the rooms that were really spawned.
RoomFingerprint(p) == built[p]

\* maybeComputeFingerprint, in the first tick after kSettleFrames.
MaybeFingerprint(p) ==
  /\ ~fpComputed[p]
  /\ fpComputed' = [fpComputed EXCEPT ![p] = TRUE]
  /\ localHash' = [localHash EXCEPT ![p] = RoomFingerprint(p)]
  /\ readyToSend' = [readyToSend EXCEPT ![p] = TRUE]
  /\ UNCHANGED readySent

\* The client has a seed that its maze was not built from.
LateSeed == ranUnseeded /\ ~lateRegenDone /\ netSeed # None /\ lateSeedArrived

\* A tick in which no late seed is due.
RatTick(p) ==
  /\ game[p] = "playing"
  /\ ~(p = Client /\ LateSeed)
  /\ MaybeFingerprint(p)
  /\ UNCHANGED <<settings, gameVars, link, wire, verdictVars, seedToSend, clientVars,
                 historyVars>>

\* tryRegenIfLateSeed finds a function that builds the maze again; what was sent of the
\* last one stays sent.
RegenByFunction ==
  /\ game[Client] = "playing" /\ LateSeed /\ path = "function"
  /\ lateRegenDone' = TRUE
  /\ Build(Client, netSeed.seed)
  /\ fpComputed' = [fpComputed EXCEPT ![Client] = FALSE]
  /\ regenerated' = TRUE
  /\ UNCHANGED <<settings, game, link, wire, localHash, readyToSend, readySent,
                 verdictVars, seedToSend, netSeed, seen, lateSeedArrived, ranUnseeded, warned>>

\* It has the level loaded again: the maze is gone until the next onMazeGenBegin.
RegenByReload ==
  /\ game[Client] = "playing" /\ LateSeed /\ path = "reload"
  /\ lateRegenDone' = TRUE
  /\ gi' = [gi EXCEPT ![Client] = netSeed.seed]
  /\ built' = [built EXCEPT ![Client] = None]
  /\ game' = [game EXCEPT ![Client] = "loading"]
  /\ fpComputed' = [fpComputed EXCEPT ![Client] = FALSE]
  /\ regenerated' = TRUE
  /\ UNCHANGED <<settings, link, wire, localHash, readyToSend, readySent, verdictVars,
                 seedToSend, netSeed, seen, lateSeedArrived, ranUnseeded, warned>>

\* It finds no way; the tick goes on, and may compute the fingerprint.
RegenNotPossible ==
  /\ game[Client] = "playing" /\ LateSeed /\ path = "none"
  /\ lateRegenDone' = TRUE
  /\ gi' = [gi EXCEPT ![Client] = netSeed.seed]
  /\ MaybeFingerprint(Client) \/ UNCHANGED readyVars
  /\ UNCHANGED <<settings, game, built, link, wire, verdictVars, seedToSend, netSeed,
                 seen, lateSeedArrived, ranUnseeded, historyVars>>

-----------------------------------------------------------------------------
(* The loop thread.                                                        *)

\* The handshake ends (CoopSession).
LinkUp(p) ==
  /\ ~link[p]
  /\ link' = [link EXCEPT ![p] = TRUE]
  /\ UNCHANGED <<settings, gameVars, wire, readyVars, verdictVars, seedToSend, clientVars,
                 historyVars>>

DoVerdict(p) ==
  /\ verdict[p] = None
  /\ localHash[p] # None
  /\ peerHash[p] # None
  /\ readyToSend[p] \/ readySent[p]

\* Mutation: the verdict is due in the tick that sends MazeReady only.
Judge_WhenSending(p, sends) == DoVerdict(p) /\ sends

Judge(p, sends) == DoVerdict(p)

\* on_net_tick.
NetTick(p) ==
  LET sendSeed == p = Host /\ seedToSend # None
      sendReady == readyToSend[p] /\ ~readySent[p]
      other == IF p = Host THEN Client ELSE Host
  IN
  /\ link[p]
  /\ sendSeed \/ sendReady \/ DoVerdict(p)
  /\ wire' = [wire EXCEPT ![other] = @
       \cup (IF sendSeed THEN {seedToSend} ELSE {})
       \cup (IF sendReady THEN {[type |-> "MazeReady", hash |-> localHash[p]]} ELSE {})]
  /\ seedToSend' = IF sendSeed THEN None ELSE seedToSend
  /\ readySent' = [readySent EXCEPT ![p] = @ \/ sendReady]
  /\ verdict' = [verdict EXCEPT ![p] =
       IF ~Judge(p, sendReady) THEN @
       ELSE IF localHash[p] = peerHash[p] THEN "match" ELSE "mismatch"]
  /\ UNCHANGED <<settings, gameVars, link, localHash, fpComputed, readyToSend, peerHash,
                 clientVars, historyVars>>

\* Mutation: a late seed is noted only by a client that is waiting for it.
NoteLateSeed_IfWaiting == lateSeedArrived \/ ranUnseeded

NoteLateSeed == TRUE

\* on_message: MazeSeed, which only the host sends.
OnMazeSeed(f) ==
  /\ f \in wire[Client] /\ f.type = "MazeSeed"
  /\ wire' = [wire EXCEPT ![Client] = @ \ {f}]
  /\ netSeed' = f
  /\ lateSeedArrived' = NoteLateSeed
  /\ UNCHANGED <<settings, gameVars, link, readyVars, verdictVars, seedToSend, seen,
                 ranUnseeded, lateRegenDone, historyVars>>

\* on_message: MazeReady.
OnMazeReady(p, f) ==
  /\ f \in wire[p] /\ f.type = "MazeReady"
  /\ wire' = [wire EXCEPT ![p] = @ \ {f}]
  /\ peerHash' = [peerHash EXCEPT ![p] = f.hash]
  /\ UNCHANGED <<settings, gameVars, link, readyVars, verdict, seedToSend, clientVars,
                 historyVars>>

-----------------------------------------------------------------------------
OnMessage(p) == \E f \in wire[p] : (p = Client /\ OnMazeSeed(f)) \/ OnMazeReady(p, f)

Generates(p) ==
  \/ p = Host /\ HostGenerates
  \/ p = Client /\ (ClientGenerates \/ ClientGeneratesUnseeded)

TriesRegen == RegenByFunction \/ RegenByReload \/ RegenNotPossible

Next ==
  \/ \E p \in Peers :
       GenReset(p) \/ Generates(p) \/ RatTick(p) \/ LinkUp(p) \/ NetTick(p) \/ OnMessage(p)
  \/ TriesRegen

Spec == Init /\ [][Next]_vars

\* A level that is loading begins, rats and loop threads tick, the handshake ends and
\* the reliable channel hands its frames over.  Nobody has to leave the menu.
Fairness ==
  /\ WF_vars(game[Client] = "loading" /\ GenReset(Client))
  /\ WF_vars(TriesRegen)
  /\ \A p \in Peers :
       /\ WF_vars(Generates(p)) /\ WF_vars(RatTick(p)) /\ WF_vars(LinkUp(p))
       /\ WF_vars(NetTick(p)) /\ WF_vars(OnMessage(p))

FairSpec == Spec /\ Fairness

-----------------------------------------------------------------------------
(* Correctness.                                                            *)

\* "confirm the mazes are identical" (MazeModule.hpp): a peer that logs MATCH is in the
\* maze its peer is in, whenever the seed came, however the client built its maze again
\* and whatever it failed to build.
MatchIsTrue ==
  \A p \in Peers : verdict[p] = "match" => built[Client] \in {built[Host], None}

\* And a peer logs MISMATCH only of different mazes, unless the client has built its
\* maze again: then it compares with the fingerprint of the maze that is gone.
MismatchIsTrue ==
  \A p \in Peers : verdict[p] = "mismatch" => built[Host] # built[Client] \/ regenerated

\* The paramHash warning does not come from the seed's being written late: if it is
\* logged, the levels differ or the client's configured seed is not the host's.
WarningIsTrue ==
  warned => \/ params[Host] # params[Client]
            \/ force[Client] \notin {built[Host], None}

\* "self-heals the client when the host's seed lands late" (MazeModule.hpp): wherever
\* the MazeSeed falls into onMazeGenBegin, the client comes to play the host's maze, if
\* it has no seed configured and has a way to build a maze again.
ClientHeals ==
  (built[Host] # None /\ built[Client] # None /\ force[Client] = None /\ path # "none")
    ~> [](built[Client] = built[Host])

\* A fingerprint that arrives while the peer plays is judged, unless the maze is left.
VerdictComes ==
  \A p \in Peers :
    (peerHash[p] # None /\ game[p] = "playing")
      ~> (verdict[p] # None \/ game[p] = "loading")

\* What the peers log of each other's maze is true, wherever MazeSeed and MazeReady fall.
VerdictInv == TypeOK /\ MatchIsTrue /\ MismatchIsTrue /\ WarningIsTrue
=============================================================================
