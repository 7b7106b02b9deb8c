----------------------------- MODULE EnemySync ------------------------------
(***************************************************************************)
(* dllmain.cpp, "M5 host-authoritative enemies".  The host polls its live  *)
(* enemies, numbers them, and tells the client of each that is new or gone *)
(* (reliably) and where all of them are (unreliably).  The client hides    *)
(* the enemies its own game spawns and shows a puppet per host enemy.  The *)
(* client learns the class to spawn puppets from only by meeting a local   *)
(* enemy of that archetype; until then a spawn is deferred and retried.    *)
(*                                                                         *)
(* The client's loop thread queues what arrives (dispatch, under m_mtx);   *)
(* its game thread takes the queues over on each rat tick.  The reliable   *)
(* channel loses nothing and may reorder (ReliableLink); the unreliable    *)
(* one loses, reorders and duplicates.                                     *)
(***************************************************************************)
EXTENDS Integers, Sequences, FiniteSets

CONSTANTS
  Enemies,       \* addresses of the host's enemy actors
  Locals,        \* addresses of the enemy actors the client's game spawns
  Archetype,     \* archetype of the actor at each address
  MaxRetries,    \* a spawn is deferred that often: 600 in the code
  MaxIds,        \* bound: enemies the host numbers in one maze
  MaxMazes,      \* bound: mazes each peer enters
  MaxStates      \* bound: EnemyState frames the host sends

Ids == 1 .. MaxIds
Archetypes == {Archetype[e] : e \in DOMAIN Archetype}

ASSUME EnemiesAssumption ==
  /\ IsFiniteSet(Enemies)
  /\ DOMAIN Archetype = Enemies \cup Locals
  /\ {MaxRetries, MaxIds, MaxMazes, MaxStates} \subseteq Nat

VARIABLES
  \* the host
  hostMaze,       \* number of the maze it is in
  actors,         \* its live enemies
  idOf,           \* m_enemyIdOf (m_enemyById is its inverse)
  nextId,         \* m_nextEnemyId
  statesSent,     \* number of EnemyState frames sent
  \* the client
  clientMaze,     \* number of the maze it is in
  locals,         \* live enemies of its own game
  neutralized,    \* m_neutralizedLocal: addresses
  hidden,         \* those of them that are hidden and inert (neutralizeActor)
  classKnown,     \* the archetypes with an entry in m_archetypeClass
  inSpawn,        \* m_inEnemySpawn
  inDespawn,      \* m_inEnemyDespawn
  inState,        \* m_inEnemyState; NoState when m_haveEnemyState is false
  puppet,         \* m_enemyPuppet: what stands for which enemy
  recentDespawn,  \* m_recentDespawn
  retries,        \* m_deferRetry
  \* between them
  wire,           \* reliable frames on their way to the client
  stateWire,      \* EnemyState frames on their way to the client
  removed,        \* history: the enemies whose despawn the client has applied in its maze
  failed          \* history: those whose puppet SpawnActor did not give

hostVars == <<hostMaze, actors, idOf, nextId, statesSent>>
inVars == <<inSpawn, inDespawn, inState>>
puppetVars == <<puppet, recentDespawn, retries>>
localVars == <<locals, neutralized, hidden, classKnown>>
historyVars == <<removed, failed>>
vars == <<hostVars, clientMaze, localVars, inVars, puppetVars, wire, stateWire, historyVars>>

\* The maze a frame is about is not in it: it only says which enemy an id means.
EnemySpawn(m, id, a) == [type |-> "Spawn", maze |-> m, id |-> id, archetype |-> a]
EnemyDespawn(m, id) == [type |-> "Despawn", maze |-> m, id |-> id]
EnemyState(n, ids) == [n |-> n, ids |-> ids]
NoState == EnemyState(0, {})

\* at: the number of the EnemyState that moved the puppet last; 0 if none has.
Puppet(m, n) == [maze |-> m, at |-> n]

NoPuppets == <<>>
NoRetries == [id \in Ids |-> 0]

\* puppets in which p stands for enemy id as well.
WithPuppet(puppets, id, p) ==
  [i \in DOMAIN puppets \cup {id} |-> IF i = id THEN p ELSE puppets[i]]

\* What the variables hold.
Spawns == [type : {"Spawn"}, maze : 1 .. MaxMazes, id : Ids, archetype : Archetypes]
Despawns == [type : {"Despawn"}, maze : 1 .. MaxMazes, id : Ids]
States == [n : 0 .. MaxStates, ids : SUBSET Ids]
Puppets == UNION {[ids -> [maze : 1 .. MaxMazes, at : 0 .. MaxStates]] : ids \in SUBSET Ids}
Retries == [Ids -> 0 .. MaxRetries + 1]
EnemiesOfMazes == (1 .. MaxMazes) \X Ids

TypeOK ==
  /\ hostMaze \in 0 .. MaxMazes /\ clientMaze \in 0 .. MaxMazes
  /\ actors \subseteq Enemies /\ DOMAIN idOf \subseteq Enemies
  /\ \A e \in DOMAIN idOf : idOf[e] \in 1 .. nextId - 1
  /\ nextId \in 1 .. MaxIds + 1
  /\ statesSent \in 0 .. MaxStates
  /\ locals \subseteq Locals /\ neutralized \subseteq Locals /\ hidden \subseteq locals
  /\ classKnown \subseteq Archetypes
  /\ inSpawn \in Seq(Spawns) /\ inDespawn \subseteq Despawns /\ inState \in States
  /\ puppet \in Puppets /\ recentDespawn \subseteq Ids /\ retries \in Retries
  /\ wire \subseteq Spawns \cup Despawns /\ stateWire \subseteq States
  /\ removed \subseteq EnemiesOfMazes /\ failed \subseteq EnemiesOfMazes

Init ==
  /\ hostMaze = 0 /\ actors = {} /\ idOf = <<>> /\ nextId = 1 /\ statesSent = 0
  /\ clientMaze = 0 /\ locals = {} /\ neutralized = {} /\ hidden = {} /\ classKnown = {}
  /\ inSpawn = <<>> /\ inDespawn = {} /\ inState = NoState
  /\ puppet = NoPuppets /\ recentDespawn = {} /\ retries = NoRetries
  /\ wire = {} /\ stateWire = {} /\ removed = {} /\ failed = {}

-----------------------------------------------------------------------------
(* The host.                                                               *)

\* onMazeGenBegin / resetEnemies: the numbering starts over in each maze.
HostBeginMaze ==
  /\ hostMaze < MaxMazes
  /\ hostMaze' = hostMaze + 1
  /\ actors' = {}
  /\ idOf' = <<>>
  /\ nextId' = 1
  /\ UNCHANGED <<statesSent, clientMaze, localVars, inVars, puppetVars, wire, stateWire, historyVars>>

\* The game adds and removes enemies between two polls; an address may be reused.
HostGame ==
  /\ hostMaze > 0
  /\ \E e \in Enemies : actors' = IF e \in actors THEN actors \ {e} ELSE actors \cup {e}
  /\ UNCHANGED <<hostMaze, idOf, nextId, statesSent>>
  /\ UNCHANGED <<clientMaze, localVars, inVars, puppetVars, wire, stateWire, historyVars>>

\* FindAllOf gives the new enemies in no particular order.
Numberings(new) ==
  {f \in [new -> nextId .. nextId + Cardinality(new) - 1] :
    \A d, e \in new : d # e => f[d] # f[e]}

\* The enemies that came and that went since the last poll.
New == actors \ DOMAIN idOf
Left == DOMAIN idOf \ actors

Numbered(number) == [e \in actors |-> IF e \in New THEN number[e] ELSE idOf[e]]

\* Mutation: the next id is one past the number of live enemies.
HostPoll_ReusesIds ==
  /\ hostMaze > 0
  /\ nextId + Cardinality(New) <= MaxIds + 1
  /\ \E number \in Numberings(New) :
       /\ idOf' = Numbered(number)
       /\ wire' = wire
            \cup {EnemySpawn(hostMaze, number[e], Archetype[e]) : e \in New}
            \cup {EnemyDespawn(hostMaze, idOf[e]) : e \in Left}
  /\ nextId' = Cardinality(actors) + 1
  /\ UNCHANGED <<hostMaze, actors, statesSent, stateWire>>
  /\ UNCHANGED <<clientMaze, localVars, inVars, puppetVars, historyVars>>

\* hostEnemyPoll.
HostPoll ==
  /\ hostMaze > 0
  /\ nextId + Cardinality(New) <= MaxIds + 1
  /\ \E number \in Numberings(New) :
       /\ idOf' = Numbered(number)
       /\ wire' = wire
            \cup {EnemySpawn(hostMaze, number[e], Archetype[e]) : e \in New}
            \cup {EnemyDespawn(hostMaze, idOf[e]) : e \in Left}
       /\ IF actors # {} /\ statesSent < MaxStates
          THEN /\ statesSent' = statesSent + 1
               /\ stateWire' = stateWire
                    \cup {EnemyState(statesSent + 1, {Numbered(number)[e] : e \in actors})}
          ELSE UNCHANGED <<statesSent, stateWire>>
  /\ nextId' = nextId + Cardinality(New)
  /\ UNCHANGED <<hostMaze, actors, clientMaze, localVars, inVars, puppetVars, historyVars>>

-----------------------------------------------------------------------------
(* The client's loop thread.                                               *)

DispatchEnemySpawn(f) ==
  /\ f \in wire /\ f.type = "Spawn"
  /\ wire' = wire \ {f}
  /\ inSpawn' = Append(inSpawn, f)
  /\ UNCHANGED <<inDespawn, inState>>
  /\ UNCHANGED <<hostVars, clientMaze, localVars, puppetVars, stateWire, historyVars>>

DispatchEnemyDespawn(f) ==
  /\ f \in wire /\ f.type = "Despawn"
  /\ wire' = wire \ {f}
  /\ inDespawn' = inDespawn \cup {f}
  /\ UNCHANGED <<inSpawn, inState>>
  /\ UNCHANGED <<hostVars, clientMaze, localVars, puppetVars, stateWire, historyVars>>

\* Nothing tells an older EnemyState from a newer one; it may arrive once more.
DispatchEnemyState(f) ==
  /\ f \in stateWire
  /\ \/ stateWire' = stateWire
     \/ stateWire' = stateWire \ {f}
  /\ inState' = f
  /\ UNCHANGED <<inSpawn, inDespawn>>
  /\ UNCHANGED <<hostVars, clientMaze, localVars, puppetVars, wire, historyVars>>

LoseEnemyState(f) ==
  /\ stateWire' = stateWire \ {f}
  /\ UNCHANGED <<hostVars, clientMaze, localVars, inVars, puppetVars, wire, historyVars>>

-----------------------------------------------------------------------------
(* The client's game thread.                                               *)

\* onMazeGenBegin / resetEnemies: only the classes survive.
ClientBeginMaze ==
  /\ clientMaze < MaxMazes
  /\ clientMaze' = clientMaze + 1
  /\ locals' = {} /\ neutralized' = {} /\ hidden' = {}
  /\ inSpawn' = <<>> /\ inDespawn' = {} /\ inState' = NoState
  /\ puppet' = NoPuppets /\ recentDespawn' = {} /\ retries' = NoRetries
  /\ removed' = {}
  /\ UNCHANGED <<hostVars, classKnown, wire, stateWire, failed>>

\* The client's own game adds and removes enemies, and may reuse an address.
ClientGame ==
  /\ clientMaze > 0
  /\ \E e \in Locals : locals' = IF e \in locals THEN locals \ {e} ELSE locals \cup {e}
  /\ hidden' = hidden \cap locals'
  /\ UNCHANGED <<neutralized, classKnown>>
  /\ UNCHANGED <<hostVars, clientMaze, inVars, puppetVars, wire, stateWire, historyVars>>

\* clientEnemyNeutralize.
ClientNeutralize ==
  /\ clientMaze > 0
  /\ classKnown' = classKnown \cup {Archetype[e] : e \in locals}
  /\ neutralized' = neutralized \cup locals
  /\ hidden' = hidden \cup (locals \ neutralized)
  /\ UNCHANGED <<locals, hostVars, clientMaze, inVars, puppetVars, wire, stateWire, historyVars>>

\* Mutation: what was despawned is not looked up.
Show_Resurrects(s, f, gone, failing) ==
  IF f.id \in DOMAIN s.puppet THEN s
  ELSE IF f.archetype \notin classKnown
  THEN [s EXCEPT
    !.retries[f.id] = IF @ > MaxRetries THEN @ ELSE @ + 1,
    !.deferred = IF s.retries[f.id] < MaxRetries THEN Append(@, f) ELSE @]
  ELSE [s EXCEPT
    !.retries[f.id] = 0,
    !.puppet = IF f.id \in failing THEN @ ELSE WithPuppet(@, f.id, Puppet(f.maze, 0)),
    !.failed = IF f.id \in failing THEN @ \cup {<<f.maze, f.id>>} ELSE @]

\* Mutation: a spawn whose class is not known is dropped.
Show_NotDeferred(s, f, gone, failing) ==
  IF f.id \in DOMAIN s.puppet \/ f.id \in gone \/ f.archetype \notin classKnown THEN s
  ELSE [s EXCEPT
    !.retries[f.id] = 0,
    !.puppet = IF f.id \in failing THEN @ ELSE WithPuppet(@, f.id, Puppet(f.maze, 0)),
    !.failed = IF f.id \in failing THEN @ \cup {<<f.maze, f.id>>} ELSE @]

\* One turn of drainEnemyEvents' loop over the queued spawns.  s holds the puppets,
\* the retry counts and the spawns deferred so far; SpawnActor fails on failing.
Show(s, f, gone, failing) ==
  IF f.id \in DOMAIN s.puppet \/ f.id \in gone THEN s
  ELSE IF f.archetype \notin classKnown
  THEN [s EXCEPT
    !.retries[f.id] = IF @ > MaxRetries THEN @ ELSE @ + 1,
    !.deferred = IF s.retries[f.id] < MaxRetries THEN Append(@, f) ELSE @]
  ELSE [s EXCEPT
    !.retries[f.id] = 0,
    !.puppet = IF f.id \in failing THEN @ ELSE WithPuppet(@, f.id, Puppet(f.maze, 0)),
    !.failed = IF f.id \in failing THEN @ \cup {<<f.maze, f.id>>} ELSE @]

\* What drainEnemyEvents drops first, and what it remembers from then on.
GoneIds == {f.id : f \in inDespawn}
Gone == recentDespawn \cup GoneIds

\* The loop over the queued spawns, after the puppets of the gone are destroyed.
Drained(failing) ==
  LET After[n \in 0 .. Len(inSpawn)] ==
        IF n = 0
        THEN [puppet |-> [id \in DOMAIN puppet \ GoneIds |-> puppet[id]],
              retries |-> [id \in Ids |-> IF id \in GoneIds THEN 0 ELSE retries[id]],
              deferred |-> <<>>,
              failed |-> failed]
        ELSE Show(After[n - 1], inSpawn[n], Gone, failing)
  IN After[Len(inSpawn)]

\* drainEnemyEvents, on every rat tick: despawns, then spawns, then the last state.
ClientDrain(failing) ==
  LET s == Drained(failing) IN
  /\ clientMaze > 0
  /\ inSpawn' = s.deferred
  /\ inDespawn' = {}
  /\ inState' = NoState
  /\ puppet' = [id \in DOMAIN s.puppet |->
       IF id \in inState.ids THEN Puppet(s.puppet[id].maze, inState.n) ELSE s.puppet[id]]
  /\ recentDespawn' = Gone
  /\ retries' = s.retries
  /\ removed' = removed \cup {<<f.maze, f.id>> : f \in inDespawn}
  /\ failed' = s.failed
  /\ UNCHANGED <<hostVars, clientMaze, localVars, wire, stateWire>>

-----------------------------------------------------------------------------
Next ==
  \/ HostBeginMaze
  \/ HostGame
  \/ HostPoll
  \/ \E f \in wire : DispatchEnemySpawn(f) \/ DispatchEnemyDespawn(f)
  \/ \E f \in stateWire : DispatchEnemyState(f) \/ LoseEnemyState(f)
  \/ ClientBeginMaze
  \/ ClientGame
  \/ ClientNeutralize
  \/ \E failing \in SUBSET Ids : ClientDrain(failing)

Spec == Init /\ [][Next]_vars

\* Rats tick at the client, which drains on each and polls on every sixth, and the
\* reliable channel hands every frame over.
Fairness ==
  /\ WF_vars(ClientNeutralize)
  /\ WF_vars(\E failing \in SUBSET Ids : ClientDrain(failing))
  /\ WF_vars(\E f \in wire : DispatchEnemySpawn(f))
  /\ WF_vars(\E f \in wire : DispatchEnemyDespawn(f))

FairSpec == Spec /\ Fairness

-----------------------------------------------------------------------------
(* Correctness.                                                            *)

\* "Despawns FIRST so a deferred spawn for the same id is dropped, never
\* resurrected" (dllmain.cpp): an enemy whose despawn the client has applied in its
\* maze has no puppet there, in whatever order its spawn and despawn arrive.
NeverResurrected ==
  \A id \in DOMAIN puppet : <<puppet[id].maze, id>> \notin removed

\* "host ids are monotonic -> safe to remember for the maze" (dllmain.cpp): the
\* client remembers no id as despawned that an enemy of its maze has.
SafeToRemember ==
  clientMaze = hostMaze => \A e \in DOMAIN idOf : idOf[e] \notin recentDespawn

\* The spawn of enemy id of maze m is on its way.
SpawnComing(m, id) == \E f \in wire : f.type = "Spawn" /\ f.maze = m /\ f.id = id

\* A host enemy announced to a client in the same maze gets its puppet, unless the
\* host takes it back, the client leaves the maze, SpawnActor fails, or no class is
\* found in time.
EnemyIsShown ==
  \A m \in 1 .. MaxMazes, id \in Ids :
    (clientMaze = m /\ SpawnComing(m, id)) ~>
      \/ id \in DOMAIN puppet /\ puppet[id].maze = m
      \/ <<m, id>> \in removed \cup failed
      \/ retries[id] > MaxRetries
      \/ clientMaze # m

\* The ids of enemies are in the range the host has given out, and none that the client
\* refuses to show is in use, however enemies come, go and share addresses.
EnemyInv == TypeOK /\ SafeToRemember
=============================================================================
