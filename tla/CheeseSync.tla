----------------------------- MODULE CheeseSync -----------------------------
(***************************************************************************)
(* dllmain.cpp, "M4 cheese sync".  Both peers play the same maze (one seed *)
(* is forced on both).  When the local rat takes a cheese, the pre-hook of *)
(* BP_Cheese_Pickup:Interact announces its id; the peer replays Interact   *)
(* on its own copy, on its next rat tick.                                  *)
(*                                                                         *)
(* The game thread runs the hooks; the loop thread dispatches a received   *)
(* PickupCollected into m_pendingReplay, under m_mtx.  Each action touches *)
(* m_pendingReplay once, so the threads interleave action by action.  The  *)
(* Interact a replay calls re-enters the pre-hook: the loop of             *)
(* drainPickupReplays goes step by step, and the game thread does nothing  *)
(* else until it is through.                                               *)
(* Frames wait in m_outFrames and cross the reliable channel, which loses  *)
(* none and may reorder them (ReliableLink): both are one set, wire.       *)
(*                                                                         *)
(* The game is modelled from how the code uses it: "Spawn All Cheese"      *)
(* spawns the whole set, Interact counts the cheese and destroys it.       *)
(***************************************************************************)
EXTENDS CheeseIds

CONSTANTS
  Host, Client,  \* the two peers
  HashOf,        \* cheeseHash() of each cheese's position
  MaxMazes       \* bound: mazes each peer enters

Peers == {Host, Client}
Other(p) == IF p = Host THEN Client ELSE Host

ASSUME SyncAssumption ==
  /\ Host # Client
  /\ HashOf \in [Cheese -> Ids]
  /\ MaxMazes \in Nat

VARIABLES
  maze,           \* number of the maze each peer is in; 0 before the first
  spawned,        \* the maze has its cheese
  alive,          \* the cheese actors that exist
  eaten,          \* how often the game has counted a cheese in this maze
  armed,          \* m_cheeseInteractFn is cached: Interact is observed
  registry,       \* m_cheeseById (and m_cheeseIdOf, its inverse)
  processed,      \* m_cheeseProcessed
  pendingReplay,  \* m_pendingReplay
  replays,        \* drainPickupReplays: ids it has taken and is yet to replay
  calling,        \* the one of them whose Interact it calls
  replaying,      \* m_replayingInteract
  wire,           \* wire[p]: PickupCollected frames on their way to p
  taken           \* history: which rat took which cheese of which maze, and
                  \* whether the pre-hook was armed and told the peer

gameVars == <<maze, spawned, alive, eaten>>
loopVars == <<replays, calling, replaying>>
modVars == <<armed, registry, processed, pendingReplay, loopVars>>
vars == <<gameVars, modVars, wire, taken>>

\* A frame carries the id only; maze and cheese are what it stood for when sent.
Frame(m, c, id) == [maze |-> m, cheese |-> c, id |-> id]
Taking(p, m, c, told) == [by |-> p, maze |-> m, cheese |-> c, told |-> told]

RegistryBuilt(p) == registry[p] # NoIds

\* What a registry can be.
Registries == UNION {[ids -> Cheese] : ids \in SUBSET Ids}

TypeOK ==
  /\ maze \in [Peers -> 0 .. MaxMazes]
  /\ spawned \in [Peers -> BOOLEAN]
  /\ alive \in [Peers -> SUBSET Cheese]
  /\ eaten \in [Peers -> Nat]
  /\ armed \in [Peers -> BOOLEAN]
  /\ registry \in [Peers -> Registries]
  /\ processed \in [Peers -> SUBSET Ids]
  /\ pendingReplay \in [Peers -> SUBSET Ids]
  /\ replays \in [Peers -> SUBSET Ids]
  /\ calling \in [Peers -> SUBSET Ids]
  /\ replaying \in [Peers -> BOOLEAN]
  /\ wire \in [Peers -> SUBSET [maze : 1 .. MaxMazes, cheese : Cheese, id : Ids]]
  /\ taken \subseteq
       [by : Peers, maze : 1 .. MaxMazes, cheese : Cheese, told : BOOLEAN]

Init ==
  /\ maze = [p \in Peers |-> 0]
  /\ spawned = [p \in Peers |-> FALSE]
  /\ alive = [p \in Peers |-> {}]
  /\ eaten = [p \in Peers |-> 0]
  /\ armed = [p \in Peers |-> FALSE]
  /\ registry = [p \in Peers |-> NoIds]
  /\ processed = [p \in Peers |-> {}]
  /\ pendingReplay = [p \in Peers |-> {}]
  /\ replays = [p \in Peers |-> {}]
  /\ calling = [p \in Peers |-> {}]
  /\ replaying = [p \in Peers |-> FALSE]
  /\ wire = [p \in Peers |-> {}]
  /\ taken = {}

-----------------------------------------------------------------------------
(* The game thread.                                                        *)

\* No loop of drainPickupReplays is under way.
GameThreadFree(p) == replays[p] = {}

\* Mutation: m_cheeseRegistryBuilt is not reset.
BeginMaze_KeepsRegistry(p) ==
  /\ GameThreadFree(p)
  /\ maze[p] < MaxMazes
  /\ maze' = [maze EXCEPT ![p] = @ + 1]
  /\ spawned' = [spawned EXCEPT ![p] = FALSE]
  /\ alive' = [alive EXCEPT ![p] = {}]
  /\ eaten' = [eaten EXCEPT ![p] = 0]
  /\ processed' = [processed EXCEPT ![p] = {}]
  /\ pendingReplay' = [pendingReplay EXCEPT ![p] = {}]
  /\ UNCHANGED <<armed, registry, loopVars, wire, taken>>

\* onMazeGenBegin: the pre-hook of Maze_Generator:ReceiveBeginPlay drops all the
\* mod knows of the last maze; only the cached Interact function survives.
BeginMaze(p) ==
  /\ GameThreadFree(p)
  /\ maze[p] < MaxMazes
  /\ maze' = [maze EXCEPT ![p] = @ + 1]
  /\ spawned' = [spawned EXCEPT ![p] = FALSE]
  /\ alive' = [alive EXCEPT ![p] = {}]
  /\ eaten' = [eaten EXCEPT ![p] = 0]
  /\ registry' = [registry EXCEPT ![p] = NoIds]
  /\ processed' = [processed EXCEPT ![p] = {}]
  /\ pendingReplay' = [pendingReplay EXCEPT ![p] = {}]
  /\ UNCHANGED <<armed, loopVars, wire, taken>>

SpawnAllCheese(p) ==
  /\ GameThreadFree(p)
  /\ maze[p] > 0
  /\ ~spawned[p]
  /\ spawned' = [spawned EXCEPT ![p] = TRUE]
  /\ alive' = [alive EXCEPT ![p] = Cheese]
  /\ UNCHANGED <<maze, eaten, modVars, wire, taken>>

\* The registry onCheeseInteract looks into, built by then.
Known(p) == IF RegistryBuilt(p) THEN registry[p] ELSE RegistryOf(HashOf, alive[p])

\* Mutation: a replayed Interact is announced like any other.
Announced_Rebroadcasts(p, c) ==
  IF armed[p] THEN {id \in DOMAIN Known(p) : Known(p)[id] = c} \ processed[p] ELSE {}

\* The ids onCheeseInteract announces when Interact is called on c: none if the hook
\* is not armed, or finds that the mod itself is calling.
Announced(p, c) ==
  IF armed[p] /\ ~replaying[p]
  THEN {id \in DOMAIN Known(p) : Known(p)[id] = c} \ processed[p]
  ELSE {}

\* Interact on c, whoever calls it: the pre-hook, then the game's own function.
Interact(p, c) ==
  /\ registry' = [registry EXCEPT ![p] = IF armed[p] /\ ~replaying[p] THEN Known(p) ELSE @]
  /\ wire' = [wire EXCEPT ![Other(p)] =
                @ \cup {Frame(maze[p], c, id) : id \in Announced(p, c)}]
  /\ alive' = [alive EXCEPT ![p] = @ \ {c}]
  /\ eaten' = [eaten EXCEPT ![p] = @ + 1]

\* The local rat takes c.
LocalInteract(p, c) ==
  /\ GameThreadFree(p)
  /\ c \in alive[p]
  /\ Interact(p, c)
  /\ processed' = [processed EXCEPT ![p] = @ \cup Announced(p, c)]
  /\ taken' = taken \cup {Taking(p, maze[p], c, armed[p])}
  /\ UNCHANGED <<maze, spawned, armed, pendingReplay, loopVars>>

\* The registry a tick works with: built late (m_mazeGenFrames > 30), or earlier if
\* a replay needs it.
TickIds(p, late) ==
  IF ~RegistryBuilt(p) /\ (late \/ pendingReplay[p] # {})
  THEN RegistryOf(HashOf, alive[p]) ELSE registry[p]

\* Mutation: what cannot be replayed yet is not kept for the next tick.
RatTick_NoRequeue(p, late) ==
  LET ids == TickIds(p, late) IN
  /\ GameThreadFree(p)
  /\ maze[p] > 0
  /\ armed' = [armed EXCEPT ![p] = @ \/ alive[p] # {}]
  /\ registry' = [registry EXCEPT ![p] = ids]
  /\ pendingReplay' = [pendingReplay EXCEPT ![p] = {}]
  /\ IF ids = NoIds
     THEN UNCHANGED <<replays, processed>>
     ELSE /\ replays' = [replays EXCEPT ![p] = (pendingReplay[p] \ processed[p]) \cap DOMAIN ids]
          /\ processed' = [processed EXCEPT ![p] = @ \cup (pendingReplay[p] \ DOMAIN ids)]
  /\ UNCHANGED <<maze, spawned, alive, eaten, calling, replaying, wire, taken>>

\* The mod's work on a tick of any rat: arm the hook once a cheese exists, build the
\* registry, and take what the peer has announced (drainPickupReplays).  It is kept
\* while there is no cheese yet; an id that no cheese has is dropped as processed.
RatTick(p, late) ==
  LET ids == TickIds(p, late) IN
  /\ GameThreadFree(p)
  /\ maze[p] > 0
  /\ armed' = [armed EXCEPT ![p] = @ \/ alive[p] # {}]
  /\ registry' = [registry EXCEPT ![p] = ids]
  /\ IF ids = NoIds
     THEN /\ pendingReplay' = [pendingReplay EXCEPT ![p] = @ \ processed[p]]
          /\ UNCHANGED <<replays, processed>>
     ELSE /\ pendingReplay' = [pendingReplay EXCEPT ![p] = {}]
          /\ replays' = [replays EXCEPT ![p] = (pendingReplay[p] \ processed[p]) \cap DOMAIN ids]
          /\ processed' = [processed EXCEPT ![p] = @ \cup (pendingReplay[p] \ DOMAIN ids)]
  /\ UNCHANGED <<maze, spawned, alive, eaten, calling, replaying, wire, taken>>

\* drainPickupReplays sets the flag and calls Interact on the actor of id.
StartReplay(p, id) ==
  /\ id \in replays[p]
  /\ calling[p] = {}
  /\ calling' = [calling EXCEPT ![p] = {id}]
  /\ replaying' = [replaying EXCEPT ![p] = TRUE]
  /\ UNCHANGED <<gameVars, armed, registry, processed, pendingReplay, replays, wire, taken>>

\* The call runs and returns; then the flag is reset and the id is processed.
ReplayInteract(p, id) ==
  /\ id \in calling[p]
  /\ Interact(p, registry[p][id])
  /\ calling' = [calling EXCEPT ![p] = {}]
  /\ replays' = [replays EXCEPT ![p] = @ \ {id}]
  /\ replaying' = [replaying EXCEPT ![p] = FALSE]
  /\ processed' = [processed EXCEPT ![p] = @ \cup Announced(p, registry[p][id]) \cup {id}]
  /\ UNCHANGED <<maze, spawned, armed, pendingReplay, taken>>

-----------------------------------------------------------------------------
(* The loop thread.                                                        *)

DispatchPickupCollected(p, f) ==
  /\ f \in wire[p]
  /\ wire' = [wire EXCEPT ![p] = @ \ {f}]
  /\ pendingReplay' = [pendingReplay EXCEPT ![p] = @ \cup {f.id}]
  /\ UNCHANGED <<gameVars, armed, registry, processed, loopVars, taken>>

-----------------------------------------------------------------------------
Next ==
  \E p \in Peers :
    \/ BeginMaze(p)
    \/ SpawnAllCheese(p)
    \/ \E c \in Cheese : LocalInteract(p, c)
    \/ \E late \in BOOLEAN : RatTick(p, late)
    \/ \E id \in Ids : StartReplay(p, id) \/ ReplayInteract(p, id)
    \/ \E f \in wire[p] : DispatchPickupCollected(p, f)

Spec == Init /\ [][Next]_vars

\* A maze that is begun gets its cheese, rats tick, and the reliable channel hands
\* every frame over.  No player has to do anything.
Fairness ==
  \A p \in Peers :
    /\ WF_vars(SpawnAllCheese(p))
    /\ WF_vars(\E late \in BOOLEAN : RatTick(p, late))
    /\ WF_vars(\E id \in Ids : StartReplay(p, id) \/ ReplayInteract(p, id))
    /\ WF_vars(\E f \in wire[p] : DispatchPickupCollected(p, f))

FairSpec == Spec /\ Fairness

-----------------------------------------------------------------------------
(* Correctness.                                                            *)

\* "dedup should make each count it once; no double-count" (docs/test-plan.md):
\* however takes and replays of a cheese cross, the game counts it when it goes
\* and never again, so Interact is never replayed on a destroyed actor.
CountedOnce ==
  \A p \in Peers : spawned[p] => eaten[p] = Cardinality(Cheese \ alive[p])

\* "our own replayed call" (dllmain.cpp) is silenced: only the peer whose rat
\* took a cheese announces it, although each replay re-enters the hook, and when the
\* replays are through the hook is not left silenced for the rat's next take.
AnnouncedByTaker ==
  \A p \in Peers :
    /\ \A f \in wire[p] : Taking(Other(p), f.maze, f.cheese, TRUE) \in taken
    /\ GameThreadFree(p) => ~replaying[p]

\* "both peers derive the SAME id for the same physical cheese" (dllmain.cpp), at
\* whatever moment each of them builds its registry.
SameIds ==
  \A id \in DOMAIN registry[Host] \cap DOMAIN registry[Client] :
    registry[Host][id] = registry[Client][id]

\* "no ghost cheese" (docs/test-plan.md): a cheese that is gone from a peer's maze
\* was taken in that maze, by one of the two rats.
NoGhostCheese ==
  \A p \in Peers : spawned[p] =>
    \A c \in Cheese \ alive[p] :
      \E q \in Peers, told \in BOOLEAN : Taking(q, maze[p], c, told) \in taken

Gone(p, c) == spawned[p] /\ c \notin alive[p]

\* A take announced to a peer in the same maze is replayed there, whether its
\* cheese has spawned and its registry is built or not, unless it leaves the maze.
TakeIsReplayed ==
  \A p \in Peers, m \in 1 .. MaxMazes, c \in Cheese :
    (maze[p] = m /\ \E f \in wire[p] : f.maze = m /\ f.cheese = c)
      ~> (maze[p] # m \/ Gone(p, c))

\* Nothing is on its way between the peers or waits to be replayed.
Quiet == \A p \in Peers : wire[p] = {} /\ pendingReplay[p] = {} /\ replays[p] = {}

\* "The same cheese disappears in both games; both cheese counters advance
\* together" (docs/test-plan.md): peers in one maze, of which every take has been
\* announced, agree once all messages have been applied.
SameCheeseGone ==
  (/\ Quiet
   /\ maze[Host] = maze[Client]
   /\ \A p \in Peers : spawned[p]
   /\ \A t \in taken : t.maze = maze[Host] => t.told)
    => alive[Host] = alive[Client]

\* Within one maze the peers' registries agree, and only what a rat has taken is gone,
\* whenever each peer builds its registry and replays what it was told.
CheeseInv == TypeOK /\ SameIds /\ NoGhostCheese
=============================================================================
