# CyberRatsCoop in TLA+

A verification project for the co-op mod in `src/mod/CyberRatsCoop`: TLA+ models of
its transport, its handshake, its synchronisation of the game world and its encodings,
TLC runs on small instances, and TLAPS proofs about every component. Paths below are relative to
`src/mod/CyberRatsCoop` unless they start with `docs/`.

## 1. The system

Two players, a **host** and a **client**, each run the game with the mod loaded. Only
`dllmain.cpp` and `Transport/UdpTransport.cpp` are compiled (`xmake.lua:18-20`);
`Game/MazeModule.*` and `Game/Pickups.*` are the repository's work in progress; they
are modelled as their headers say that `dllmain.cpp` is to bind them.

In each process two threads matter:

- the **loop thread** runs `on_update()`: `tick()` of the transport, the `Hello`, the
  dispatch of received frames, the flush of `m_outFrames`, a `PlayerState` at 20 Hz;
- the **game thread** runs the `ProcessEvent` hooks: the maze generator's
  `ReceiveBeginPlay`, a cheese's `Interact`, `Kill Rat`, and every rat's tick.

They share the in- and out-queues (`m_mtx`, `m_outMtx`) and the atomic `m_peerReady`.

### Inventory

| component | state | operations | interacts with | hard behaviours | correct when |
|---|---|---|---|---|---|
| UDP transport | `m_state`, `m_peerAddr`, `m_nextSeq`, `m_pending`, `m_recvReliable`, `m_inbox` | `startHost`, `connectTo`, `send`, `tick`, `receive`, `resendPending` | the network; the message layer | loss, duplication, reordering, retransmission, restarts, sequence wrap | a reliable blob arrives once, and is not forgotten before |
| Session and maze seed | `m_helloSent`, `m_peerReady`, `m_netSeed`, `m_outFrames`, `m_forceSeed` | hello, dispatch of `Hello`/`HelloAck`/`MazeSeed`, flush, `onMazeGenBegin` | transport; the game's maze generator | Hello and HelloAck in any order, a seed that comes late or out of order | ready means compatible and mutual; one maze on both sides |
| Cheese sync (M4) | `m_cheeseById`, `m_cheeseProcessed`, `m_pendingReplay`, `m_replayingInteract` | registry, `onCheeseInteract`, `drainPickupReplays`, dispatch | transport; the game's `Interact` | crossing takes, the hook re-entered by each replay, hash collisions, takes that come early or in the wrong maze | each cheese counted once and gone from both games |
| Enemy sync (M5) | host: `m_enemyIdOf`, `m_nextEnemyId`; client: `m_enemyPuppet`, `m_recentDespawn`, `m_deferRetry`, `m_neutralizedLocal`, in-queues | `hostEnemyPoll`, `clientEnemyNeutralize`, `drainEnemyEvents`, `resetEnemies`, dispatch | transport; the game's actors | spawn after despawn, deferral, reused ids and addresses, failing `SpawnActor` | a puppet per announced enemy, none for one that is gone |
| Death sync (M6) | `m_ratDead`, `m_pendingApplyOwnDeath`, `m_applyingRemoteDeath` | `onRatKilled`, Is-Dead polls, dispatch | transport; `Kill Rat` | latch cleared by the poll, unlocked flag of two threads, re-entered hook | each death announced and applied once |
| Player presence | `m_outLocal`, `m_inRemote`, `m_puppet`, `m_curWorld` | 20 Hz snapshot, dispatch, `maintainPuppet` | transport; level loads | stale snapshots, freed worlds, reused addresses | no freed puppet is touched; the puppet follows the rat |
| Message framing | none | `packFrame`, `parseFrames`, encoders, decoders | all of the above | 8-bit and 16-bit counts, truncated datagrams | decoding undoes encoding |
| Maze module (WIP) | seed, fingerprint and verdict latches, shared with the loop thread | `onMazeGenBegin`, rat tick, `tryRegenIfLateSeed`, `on_net_tick`, `on_message` | transport; the generator | late seed, a lock let go between copy and use, fingerprints of a maze that is gone | verdicts are true; a late client heals |
| Pickups (WIP) | `m_pickupState`, `m_cheeseCount`, `m_applyQueue`, outgoing queues | enumeration, collect hook, proximity scan, requests, deltas, keyframes | transport; the game's cheese | both rats take at once, early requests, lost keyframes | the host decides once; the client converges |
| Configuration, Lua diagnostics, scripts | none at run time | - | - | - | - |

## 2. Modules

| module | models | how state and actions correspond to the code |
|---|---|---|
| `ReliableLink` | the channel the message layer may rely on | abstract: `sent` and `arrived`; at most once, no order |
| `UdpTransport` | `UdpTransport.cpp`, both ends, and UDP | one variable per field; one action per operation, and one per kind of datagram for a turn of `tick()`'s loop (`RecvHello`, `RecvAck`, `RecvUnreliable`, `RecvReliable`), then `ResendPending`. A datagram's sender address is in it, a restarted client has a new port. `inbox` keeps what `receive()` has drained so that properties can speak of it, `had` what the processes before a restart have received |
| `...Proofs` | - | theorems about the module of that name (section 5) |
| `CoopSession` | hello, versions, maze seed | `connected` is the transport's state, `wire` the reliable channel; `Deliver` is `on_update()`'s hello-before-dispatch; `built` is the list of mazes entered |
| `CheeseIds` | `buildCheeseRegistry`'s ids | `RegistryOf(hash, found)`, a recursive function over cheese in position order |
| `CheeseSync` | cheese sync, on top of `CheeseIds` | `BeginMaze`, `DispatchPickupCollected`; `Interact` is a call of the game's `Interact` with the pre-hook (`onCheeseInteract`) that it passes, whoever calls it: the rat (`LocalInteract`) or a replay. `drainPickupReplays` is `RatTick`, which takes the queue, then `StartReplay` (the flag `replaying` is set, the call begins) and `ReplayInteract` (the call re-enters the hook and returns, the flag is reset) for each id; the game thread does nothing else until it is through (`GameThreadFree`). `SpawnAllCheese` is the game's |
| `EnemySync` | enemy sync | `HostPoll`, `ClientNeutralize`, `ClientDrain`, three dispatch cases, the reset on both sides; `HostGame` and `ClientGame` are the game's comings and goings of enemies, which may reuse an address |
| `DeathSync` | death sync | `KillOwnRat` and `KillPuppet` are `onRatKilled` and the body after it, `RatTick` the poll, the applied death and the host's poll of the puppet, in the code's order; `FoundDead`, `KnownDead` and `Latch` are its parts |
| `PlayerPresence` | player presence, one direction | `SenderTick`, `SendSnapshot`, `DispatchPlayerState`, `RatTick` (`maintainPuppet`), `BeginMaze` (the puppet's part of `onMazeGenBegin`); `LoadLevel` is the engine, which frees actors and reuses addresses |
| `MazeModule` | `Game/MazeModule.cpp` | `GenReset` is `onMazeGenBegin` up to where it lets the lock go, `Generates` the rest; `RatTick` and `TriesRegen` the hook on the rat tick; `NetTick`, `OnMessage` the loop thread |
| `PickupAuthority` | what the host promises | abstract: collected once, counted once |
| `Pickups` | `Game/Pickups.cpp` | `NotifyRunBegin`, `Enumerate`, `HostTakes`, `Drain`, `Request` on the game thread, `OnPickupCollected`, `SendKeyframe`, `OnDelta`, `OnKeyframe` on the loop thread |
| `PickupIds` | `enumerateAndAssignIds`' ids, on top of `CheeseIds` | `FoundList` merges the two queries (`Collect` is a turn of the loop of `collect`), `Sortings` are the orders `std::sort` may leave, `PickupRegistry` walks |
| `Wire` | `Net/Protocol.h` | bytes of a small base; `Writes` and `Reads` are the widths of the fields as `encode` writes and `decode` reads them |
| `Algorithms` | - | the inputs of `CheeseIds`, `PickupIds` and `Wire`, one step of a behaviour each, and what is promised of what comes out |
| `MC...` | - | constants of the instances TLC checks |

How the modules compose: `UdpTransport` is shown to implement `ReliableLink`
(`LinkSpec`, by refinement mapping). The modules above it use the channel that
`ReliableLink` describes, a set `wire` from which frames are taken in any order, each
once. Except in `CoopSession` the wait in `m_outFrames` or in a queue of the module is
part of the way, as a set that is left in any order does not tell them apart. Snapshots
and keyframes go over the unreliable channel: their sets may lose members as well.
`Pickups` is shown to implement `PickupAuthority` (`AuthoritySpec`), the table of the
host being the abstract state.

An operator under a comment `Mutation:` is a way the code could plausibly be wrong.
No specification uses it; each property is violated when the operator's original is
replaced by it, which shows that the property can fail.

### Abstractions

- Payload bytes: blobs are numbered; positions of enemies are the number of the
  `EnemyState` they came with; a cheese is the rank of its position.
- Time: `kReliableRtoMs`, `m_mazeGenFrames > 30` and the like are nondeterministic
  (any subset of `m_pending` may have expired, a registry may be built on any tick, a
  maze may settle on any tick).
- One turn of `tick()`'s receive loop is an action. Only the resends follow in the same
  tick, and a tick may find one datagram or none, so no behaviour is added.
- A maze is the seed it was built from: equal seeds give equal rooms, and the seeds of
  an instance do not collide in the fingerprint.
- Threads: where two of them share a field, what happens under one lock is one action.
  `m_pendingApplyOwnDeath` has no lock, but the loop thread only sets it, so what it does
  within a rat tick it might as well do before.
- The engine: an actor is freed by its destruction or with its world; rats tick in a new
  world only after its generator has begun play; a new world is not put at the address
  `m_curWorld` points to; `Kill Rat` sets `Is Dead` before the next tick; a new maze
  brings a living rat. Without the third of these `sameWorld` cannot tell worlds apart.
- History variables (`sentSeq`, `sentU`, `taken`, `removed`, `failed`, `built` of
  `CoopSession`, `announced`, `killer`, `killedTwice`, `deadUsed`, `warned`,
  `regenerated`, `early`, `had`) are never read by a guard, except that the sends and mazes
  they count are bounded.
- Frames carry the number of their maze where a property needs it (`CheeseSync`,
  `EnemySync`, `DeathSync`, `PlayerPresence`). No handler looks at it, as the real frames do not have it.

## 3. Runs

Every cfg says `CHECK_DEADLOCK FALSE`: once the bounds are used up, and in the code
when players and network are idle, nothing needs to happen.

| run | checks | bounds, and why they are enough |
|---|---|---|
| `transport_delivery` | no blob twice, none forgotten early, the refinement of `ReliableLink`, delivery and end of retransmission | two reliable blobs of the client (they can overtake each other, and an acknowledgement can be of the other one) and an unreliable one, one duplicated datagram; any number of losses and resends. The client's direction is the one where the receiver does not know its peer at first |
| `transport_restart` | no blob twice when a process is restarted; a process that goes on running keeps a blob in `m_pending` until some process of its peer has had it | one restart of either side, sends in both directions, `SeqSpace = 2` so that `m_nextSeq` wraps |
| `session` | readiness, compatibility, origin of seeds, forced seeds | all pairs of two versions and of `{-1, 7, 8}` as configured seeds, a rolled seed that is negative and one that is not, two mazes (so that a seed of the last one is stale) |
| `algorithms` | ids of cheese and pickups, frames, fields, batches | all 256 hash functions of four cheese into four ids (the space is full, so every walk length occurs) and all sets of loaded cheese, each against the sets of what another peer may lack of it; three pickups in two cells in any order of the game's list, any of them the last cheese, whose class is derived from the other or not; bytes of base 2, so that the 8-bit count ends at 1 and the 16-bit one at 3: up to two frames with bodies up to that limit, cut anywhere; every message with each field the largest among zeros and zero among the largest |
| `cheese_one_maze` | ids, no ghosts, replay | three cheese, distinct hashes that are not in position order |
| `cheese_mazes` | counting and announcing over a change of maze, although every replay re-enters the hook | two cheese of one hash, so that the second id is walked to, or is the first one in a registry built when the first cheese is gone; two mazes: messages of the first reach the second |
| `cheese_late_entry` | *violated:* the same cheese goes in both games | two cheese, one maze |
| `enemy_one_maze` | no resurrection, ids safe to remember, enemies are shown | two addresses and two ids (simultaneous and successive enemies), one deferral, one `EnemyState`, any `SpawnActor` may fail |
| `presence` | no freed puppet is touched, none is left, snapshots are fresh, the puppet keeps up | two world addresses and three level loads (so that an address comes back), three mazes built by the receiver (in a new world and in the same), two mazes of two places of the sender (an old snapshot of the same and of the last maze) |
| `death` | a death is announced once, by who may, and applied once; no dead rat is killed | two mazes of each peer, entered at different times; any number of calls of `Kill Rat` |
| `maze_check` | verdicts and the warning are true, a late client heals, a verdict comes | two seeds, all configured and rolled ones, two values of the parameters, all three ways to build a maze again; one run of each peer |
| `pickups` | refinement of `PickupAuthority`, no phantom, the mirror converges and leaves no request pending, collected means hidden | two pickups (a keyframe and a delta that differ), one keyframe on its way at a time, one run of each peer, begun in either order |

The invariant of a module that ends in `Inv` is its `TypeOK` with its named parts:
`SessionInv` has `ReadyOnlyIfCompatible` and `SeedComesFromHost`; `CheeseInv` has
`SameIds` and `NoGhostCheese`; `EnemyInv` has `SafeToRemember`; `PuppetInv` has
`OnePuppet` and `FreshPuppet`; `DeathInv` has `KillsTheLiving`; `VerdictInv` has
`MatchIsTrue`, `MismatchIsTrue` and `WarningIsTrue`; `PickupsInv` has `NoPhantom`. So does
`RegistryIsSound` put together `EachHasOneId`, `IdsDependOnEarlierOnly` and
`IdsDifferByCollisionOnly` (a peer that lacks some cheese names the others alike if and only
if none was walked past the id of one it lacks). That no blob
arrives twice is part of `LinkSpec` in `transport_delivery`.

`MaxReliable`, `MaxUnreliable`, `MaxDups`, `MaxRestarts`, `MaxMazes`, `MaxIds`,
`MaxStates`, `MaxSteps`, `MaxLevels`, `MaxBegins`, `MaxRuns` and `MaxKeyframes` are
bounds of the models, as the comments at their declaration say.
`MaxRetries` and `SeqSpace` are constants of the code (600 and 2^32) made small.

### Fairness

- `on_update()` runs on every frame: the start of the transport, `tick()`'s resends,
  `receive()`, hello, flush and dispatch are weakly fair.
- The network is fair-lossy: what is sent again and again gets through, so the receive
  of a given blob or acknowledgement is strongly fair. A `WT_Hello` is strongly fair
  too, which does not help one that is sent once and lost.
- Rats tick on every frame, and a maze that was begun gets its cheese: weakly fair.
- A snapshot or keyframe that is sent again and again arrives in the end (strongly
  fair); an older one arrives or is lost. `SpawnActor` for the puppet is tried on every
  tick and does not fail for ever.
- The handshake ends and a level that is loading begins: weakly fair, in `MazeModule`.
- Nothing a player does is fair: nobody has to enter a maze or take a cheese.
- `UdpTransport`'s liveness properties leave out the case that the host cannot bind its
  port (`Failed`), after which it never listens.

## 4. Where code and documentation part

Shown by the run `cheese_late_entry`: a take that arrives before its receiver enters the
maze is in `m_pendingReplay` when `onMazeGenBegin` clears it, so the cheese stays in one
of the games (`docs/test-plan.md:52` says that it disappears in both).

Known from the models and described here without a run:

- The reliable channel is not ordered, as `INetTransport.h:32` and `docs/protocol.md:19`
  say: `tick()` hands a blob over when it arrives. `ReliableLink` has no order.
- `connectTo()` sends its `WT_Hello` once. If it is lost the host stays `Listening` until
  the client's game queues a frame of its own.
- The seed is sent when the host's maze begins, if the peer is ready then, and read when
  the client's begins. A host that was in its maze before the link came up, or a seed
  that is still under way, gives two mazes (`dllmain.cpp:466`: "identical maze").
- `resetEnemies` starts the ids over (`docs/protocol.md:80`: monotonic), so a late
  despawn of the last maze makes the client refuse a new enemy: `SafeToRemember` holds
  within the host's first maze.
- Nothing keeps the pickup id of a cheese the same on a peer that has not loaded, or no
  longer has, an earlier cheese of the same hash (`dllmain.cpp:513-516`: "both peers derive
  the SAME id"): its walk stops one step earlier, and a take is replayed on another cheese.
- A `Death` of the host's last maze that reaches the client in its next one kills the new
  rat; one that arrives before the client enters is cleared.
- `MazeModule.cpp:143` says that a second run validates cleanly. `m_netSeed` and
  `m_lateSeedArrived` are never cleared, and a `MazeReady` that arrives before the
  receiver's `onMazeGenBegin` is wiped by it, after which no verdict comes.
- After the client has built its maze again through a function, `MazeReady` is not sent
  again and the peer compares with the maze that is gone: a false MISMATCH.
- The parameter hash includes each player's own rat, so that the warning about the
  difficulty appears for different rats too.
- The host never hides a pickup that the client has collected, nor counts it on its HUD
  (`Pickups.cpp:385-388` says that both converge); a pickup the client has hidden is never
  shown again; a request answered before the host has enumerated hides one that is there
  (`early` in `NoPhantom`).
- Frames of pickups name no run: one of the last run collects in the next.
- `Protocol.h:170` says that state 1 is present, `Pickups.hpp:81` that 0 is.

Boundaries of the properties that hold, known from the models and not kept as runs:

- `NoBlobLost` needs that nobody restarts: a restarted host numbers from 1, and the client
  acknowledges and drops its blobs as duplicates; a restarted client has a new port, which a
  host that knows the old one never learns (`UdpTransport.cpp:118`). `KeptOverRestarts` is
  what remains, for the blobs of the peer that goes on running. A wrap of `m_nextSeq` does the same to one's own blobs.
- `NoGhostCheese` and `SameIds` hold within one maze and with distinct hashes: a late
  take of the last maze is replayed in the new one if an id agrees, and a cheese taken
  before the hook is armed is missing from a registry in which others collide with it.
- `NeverResurrected` speaks of what was despawned in the client's present maze. The next
  one clears `m_recentDespawn`: a spawn that its despawn has overtaken, and that arrives only
  then, is shown there.
- `DeathIsApplied` speaks of a `Death` that reaches its receiver within the maze it was sent in.
- `SessionInv` and `HostSeedWins` allow a seed of an earlier maze of the host, which the client
  takes when the new one is late: `m_netSeed` is never cleared.
- `NoPhantom` holds in the host's first run: a delta of that run hides a pickup of the
  next one.
- `EnemyState` has no number, so a late one moves puppets back; a local enemy at a
  reused address is skipped by `clientEnemyNeutralize` and stays visible.
- `docs/protocol.md:24` says that a version mismatch refuses the connection; the code
  leaves `m_peerReady` false and dispatches everything else.

## 5. Proofs

Eight modules hold theorems, one for each component with state; what the pure algorithms
compute is proved with the component that uses them. Each theorem is for every
value of the constants that the `ASSUME` of its module allows, so for any bounds; the runs
show the same property on a small instance. The assumptions say that bounds are numbers,
that the two peers differ, and in particular: `NoAddr` and `None` are values of their own;
there are at least as many ids as cheese, and the multiples of `IdStep` modulo `IdSpace`
are all the ids (as with the code's odd step and 2^16); there are at least as many ids as
pickups; `Enemies` is finite; `MaxSteps` is at least 1; a byte has at least two values. The
inputs of `Algorithms` are bounded by what the encodings can tell (`InputsAssumption`): a
field is below the limit of its width, a frame's body and a batch's list are no longer than
two bytes can count.

**`UdpTransportProofs`.** `TypeCorrect`: `Spec => []TypeOK`, one step per action.
`NeverTwice`: `Spec => []AtMostOnce`, with losses, duplicates, restarts of both sides and
wraps of `m_nextSeq`. `AtMostOnce` says nothing about what is in flight or in `m_pending`,
so it is not inductive. `DedupInv` adds: every blob in a reliable datagram or in
`m_pending` carries the number it was sent with (`Numbered`), a datagram was sent by the
peer its address names (`Routed`), and whatever is in the inbox has its number in
`m_recvReliable` (`Filtered`). A blob that is already there is then always filtered.
`NothingLost`, `ImplementsLink`: `NoBlobLost` and the refinement `Spec => Link!Spec`, the
first from two more assumptions, `NoRestarts` (`MayRestart = {}`) and `NoWrap` (fewer sends
than `SeqSpace`), the second from `NoRestarts`. Both are needed, see section 4.
`DeliveryInv` adds that numbers are unique per blob, that an acknowledgement in flight is
of a blob that has arrived, and that a number in `m_recvReliable` is of a blob in the
inbox. The step proof maps a first `RecvReliable` to `Arrive`, `SendReliable` to `Send`,
and every other action to a stutter.
`KeepsOverRestarts` (`Spec => []KeptOverRestarts`) needs neither: whatever number is in
an `m_recvReliable` or in an acknowledgement is that of a blob which some process of the
receiver has had (`Reached`), and that stays true when the process is gone.

The same module proves what `Wire` computes, for any size of a byte: `FieldsAreRead`
(`FieldsSurvive`), `EntriesAreRead` (`BatchSurvives`), `FramesAreRead` (`DatagramIsParsed`).
A number is its lowest byte and the rest (`DivisionByBase`), so `NumberOfBytes` shows by
induction that as many bytes as the width says give it back. What is written is described
by where its pieces lie (`PieceLies`, `EarlierIsPrefix`), what is read by what is at an
offset, and a second induction over fields, entries or frames puts the two together. The
frame before the cut and the one it runs through are found by `FramesBeforeCut`.

**`CoopSessionProofs`.** The properties speak of flags and mazes, and which frames may be
on their way decides how those change. `HandshakeInv` therefore says what may travel where
(`MayTravelTo`: only a ready host acknowledges, only the host sends seeds, and each seed
is of a maze it built), what the host has queued, that a ready client has introduced
itself (`IntroducedInv`), and that forced seeds are in every maze built (`ForcedInv`).
From it: `ReadyAndSeeded` (`SessionInv`), `ReadyTogether` (`ReadinessIsMutual`),
`ForcedMazesAgree` (`SameMazeIfForced`) and the action property `HostSeedIsMirrored`
(`HostSeedWins`).

**`CheeseSyncProofs`.** `RegistryIsBuilt` says what the loop of `buildCheeseRegistry`
computes for every hash and set of cheese: each cheese found gets an id, no id is given
twice, and without collisions it is the hash. `LaterCheeseKeepIds`: more cheese found
behind it does not change the id of a cheese. `MissingCheeseKeepIds`: cheese that is
missing changes the ids of others if and only if one of these was walked past the id of one
that is missing; the induction compares the two loops turn by turn, and what a walk passes is
told by `Walked`. `CheeseIdsSound` (`RegistryIsSound`) states all three for the inputs of
`Algorithms`. `WalkReaches` shows that the collision walk passes every id, so that a free one is
found. `EachCountsOnce` (`CountedOnce`): the counter is right because a registered cheese
exists or its id is processed, and no cheese has two ids (`CountInv`); this needs no
condition on the hash and holds over any number of mazes. `TakerAnnounces` is
`AnnouncedByTaker`: while an `Interact` of a replay runs, and only then, the flag is set
(part of `CountInv`), so the hook it re-enters announces nothing, and the rat's next take
is not silenced. `SameCheeseSameId` and `OnlyTakenIsGone` need `NoCollision(HashOf)`,
as section 4 says; `CauseInv` traces every id under way to a cheese that a rat took.
`SameIds` is then proved for every maze, the whole `CheeseInv` for the first.

Of the pickups, `PickupIdsUnique` (`EachPickupHasOneId`) and `SamePickupSameId`
(`PickupIdsAgree`). A found list is described by the set of pickups and slots it holds, each
once (`Listed`): `collect` keeps it so (`CollectAllLists`), sorting does not change the set
(`SortingIsListed`), and while a pickup is left, so is an id (`AnIdIsLeft`). If no two
pickups have one cell and slot, a set has exactly one sorted list: there is one because
each entry goes where its rank says (`SortingExists`), and no other by the least index where
two differ (`SortedAlike`).

**`EnemySyncProofs`.** `DrainEffect` describes the loop of `drainEnemyEvents` for a queue
of any length, from a lemma about one turn (`ShowKeeps`). `MemoryInv`: no puppet has a
remembered id; what was despawned in the client's present maze is remembered; in the host's
first maze ids are distinct, below `m_nextEnemyId`, and no live enemy has a retired one,
wherever the client's knowledge of it is (`Retired`). `ResurrectsNone` is `NeverResurrected`
in every maze, `RemembersSafely` is `EnemyInv` while the host is in its first. `TypeOK` is
proved for every maze (`MemoryHolds`). Of later mazes, with whatever frames are left of
earlier ones, `FramesInv` says that all that is spoken of has been given out (`PollSpeaks`,
`NothingNew`) and that an enemy that is to go from the host's maze has no live namesake.
From it `GivesIdsOnce`: no live enemy has an id whose despawn in that maze is under way or
applied; and `ShowsOnlyGiven`: each puppet stands for an enemy that the host numbered.

**`DeathSyncProofs`.** `LatchInv`: what was announced in this maze is in `m_ratDead`, an
announced own death is one of a dead rat the game killed, so the poll cannot clear its
latch, and a death that was applied is latched. From it `DeathsTyped` (`DeathInv`),
`NeverAnnouncedTwice` (`AnnouncedOnce`), `OnlyByAuthority` (`AnnouncedByAuthority`).

**`PlayerPresenceProofs`.** `TrackInv`: exactly while `m_curWorld` is the world that runs,
the stored pointer names the one puppet that exists; otherwise none exists. From it
`NeverUsesDead` (`NoDeadPuppetUsed`) and `OneFreshPuppet` (`PuppetInv`). What the engine
does is part of the model (section 2, Abstractions), so of the theorems too.

**`MazeModuleProofs`.** `ExchangeInv` ties each frame, latch and fingerprint to the maze
it speaks of, or to one that was built again (`Claim`), and says who cannot have spoken
yet. `VerdictsTrue` is `VerdictInv`, for one run of each peer, as the model.

**`PickupsProofs`.** `TablesTyped` and `ImplementsAuthority` (`AuthoritySpec`, the
refinement of `PickupAuthority`) hold in any number of runs; every step of `Pickups` is a
collect or a new run of the host's table, or a stutter. `ReasonInv` traces what the client
hides, has queued or is told back to the host's table; `HiddenWithCause` is `PickupsInv`
in the host's first run.

Induction: the library's induction theorems take an operator, which the installed provers
cannot instantiate. `UdpTransportProofs`, `CheeseSyncProofs` and `EnemySyncProofs` state
induction for a set of numbers instead (`SetInduction`, from the well-foundedness of `<`).
A recursive function is a CHOOSE of one that satisfies its equation, so that the equation
may be used only if such a function exists. `LoopRuns` shows it once for all loops that are
a finite number of turns over some set of states; `RegistryOf` and `Drained` have a
`LoopExists` of their own.

Only model-checked:

- Liveness: `EventuallyHanded`, `PendingDrains`, `BothGetReady`, `TakeIsReplayed`,
  `EnemyIsShown`, `PuppetKeepsUp`, `DeathIsAnnounced`, `DeathIsApplied`, `ClientHeals`,
  `VerdictComes`, `MirrorConverges`, `CollectedIsHidden`. Fairness and ENABLED are out of
  the prover's reach.

Every other property of a passing run is a theorem, under the conditions given above.

## 6. Not modelled, and plan

Not modelled by choice: configuration parsing (its results are constants), logging, the
Lua diagnostics, build and launch scripts, the resolution of classes and functions by
name, and the engine's memory but for the actors and worlds of `PlayerPresence` and the
addresses of `EnemySync`. Of `Game/Pickups.cpp` the objective and the lifecycle frames
are left out. The receivers of `RunStart` and `RunEnd` log them or keep a number that only
labels frames, the host sends an `ObjectiveReached` on and nobody acts on it; that of
`Restart` also clears the pickup tables, but nothing sends it today.

Planned: `EnemySync` with the identity of actors behind addresses.
