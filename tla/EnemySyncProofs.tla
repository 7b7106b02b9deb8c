-------------------------- MODULE EnemySyncProofs ---------------------------
(***************************************************************************)
(* Proofs about EnemySync, for any enemies, archetypes, bounds and number  *)
(* of retries.                                                             *)
(*                                                                         *)
(*   MemoryHolds      the inductive invariant: which despawned ids the     *)
(*                    client remembers, and which the host has given out   *)
(*   ResurrectsNone   NeverResurrected, in every maze                      *)
(*   RemembersSafely  EnemyInv, in the host's first maze                   *)
(*   GivesIdsOnce     in every maze, no enemy has the id of one of that    *)
(*                    maze that is gone                                    *)
(*   ShowsOnlyGiven   in every maze, a puppet stands for an enemy that the *)
(*                    host has numbered                                    *)
(*                                                                         *)
(* DrainEffect is what drainEnemyEvents' loop does for every queue, by     *)
(* induction over its turns.                                               *)
(***************************************************************************)
EXTENDS EnemySync, FiniteSetTheorems, WellFoundedInduction, TLAPS

\* The ids of enemies that are gone, wherever the client's knowledge of it is.
Retired ==
  {f.id : f \in {g \in wire : g.type = "Despawn"} \cup inDespawn} \cup recentDespawn

\* Why nothing is resurrected: no puppet has an id that is remembered as despawned,
\* and what was despawned in the client's maze is remembered.  Why it is safe to
\* remember: ids are given out once in a maze and never given to the retired.
MemoryInv ==
  /\ TypeOK
  /\ DOMAIN puppet \cap recentDespawn = {}
  /\ \A x \in removed : x[2] \in recentDespawn
  /\ \A d, e \in DOMAIN idOf : idOf[d] = idOf[e] => d = e
  /\ hostMaze = 0 => Retired = {} /\ idOf = <<>>
  /\ hostMaze <= 1 =>
       \A id \in Retired : id < nextId /\ \A e \in DOMAIN idOf : idOf[e] # id

-----------------------------------------------------------------------------
(* Induction, as a fact about sets of numbers.                             *)

LEMMA LeastNatural ==
  ASSUME NEW S \in SUBSET Nat, S # {}
  PROVE  \E m \in S : \A n \in S : m <= n
<1>1. PICK m \in S : \A n \in S : ~(<<n, m>> \in OpToRel(<, Nat))
  BY NatLessThanWellFounded, WFMin
<1>2. ASSUME NEW n \in S PROVE ~(n < m)
  BY <1>1 DEF OpToRel
<1>3. QED
  BY <1>2

LEMMA SetInduction ==
  ASSUME NEW S \in SUBSET Nat, 0 \in S, \A n \in S : n + 1 \in S
  PROVE  S = Nat
<1>1. SUFFICES ASSUME Nat \ S # {} PROVE FALSE
  OBVIOUS
<1>2. PICK m \in Nat \ S : \A n \in Nat \ S : m <= n
  BY <1>1, LeastNatural
<1>3. m # 0 /\ m - 1 \in Nat /\ m - 1 \in S
  BY <1>2
<1>4. QED
  BY <1>2, <1>3

-----------------------------------------------------------------------------
(* The loop of drainEnemyEvents.                                           *)

\* What the loop works on.
Loops == [puppet : Puppets, retries : Retries, deferred : Seq(Spawns),
          failed : SUBSET EnemiesOfMazes]

LEMMA WithPuppetTyped ==
  ASSUME NEW puppets \in Puppets, NEW id \in Ids,
         NEW p \in [maze : 1 .. MaxMazes, at : 0 .. MaxStates]
  PROVE  /\ WithPuppet(puppets, id, p) \in Puppets
         /\ DOMAIN WithPuppet(puppets, id, p) = DOMAIN puppets \cup {id}
<1>1. PICK D \in SUBSET Ids : puppets \in [D -> [maze : 1 .. MaxMazes, at : 0 .. MaxStates]]
  BY DEF Puppets
<1>2. D \cup {id} \in SUBSET Ids
  OBVIOUS
<1>3. WithPuppet(puppets, id, p) \in
        [D \cup {id} -> [maze : 1 .. MaxMazes, at : 0 .. MaxStates]]
  BY <1>1 DEF WithPuppet
<1>4. QED
  BY <1>1, <1>2, <1>3 DEF Puppets

\* A turn shows no enemy that is gone.
LEMMA ShowKeeps ==
  ASSUME NEW s \in Loops, NEW f \in Spawns, NEW gone, NEW failing,
         DOMAIN s.puppet \cap gone = {}
  PROVE  /\ Show(s, f, gone, failing) \in Loops
         /\ DOMAIN Show(s, f, gone, failing).puppet \cap gone = {}
<1>1. /\ s.puppet \in Puppets /\ s.retries \in Retries
      /\ s.deferred \in Seq(Spawns) /\ s.failed \in SUBSET EnemiesOfMazes
  BY DEF Loops
<1>2. f.id \in Ids /\ f.maze \in 1 .. MaxMazes
  BY DEF Spawns
<1>3. MaxRetries \in Nat /\ MaxStates \in Nat
  BY EnemiesAssumption
<1>4. CASE f.id \in DOMAIN s.puppet \/ f.id \in gone
  BY <1>4 DEF Show
<1>5. CASE ~(f.id \in DOMAIN s.puppet \/ f.id \in gone) /\ f.archetype \notin classKnown
  <2>1. PICK more : more = IF s.retries[f.id] > MaxRetries
                           THEN s.retries[f.id] ELSE s.retries[f.id] + 1
    OBVIOUS
  <2>2. PICK later : later = IF s.retries[f.id] < MaxRetries
                             THEN Append(s.deferred, f) ELSE s.deferred
    OBVIOUS
  <2>3. more \in 0 .. MaxRetries + 1
    <3>1. s.retries[f.id] \in 0 .. MaxRetries + 1
      BY <1>1, <1>2 DEF Retries
    <3>2. QED
      BY <1>3, <2>1, <3>1
  <2>4. later \in Seq(Spawns)
    <3>1. Append(s.deferred, f) \in Seq(Spawns)
      BY <1>1
    <3>2. QED
      BY <1>1, <2>2, <3>1
  <2>5. [s.retries EXCEPT ![f.id] = more] \in Retries
    BY <1>1, <1>2, <2>3 DEF Retries
  <2>6. Show(s, f, gone, failing) =
          [s EXCEPT !.retries = [s.retries EXCEPT ![f.id] = more], !.deferred = later]
    BY <1>5, <2>1, <2>2 DEF Show
  <2>7. QED
    BY <1>1, <2>4, <2>5, <2>6 DEF Loops
<1>6. CASE ~(f.id \in DOMAIN s.puppet \/ f.id \in gone) /\ f.archetype \in classKnown
  <2>1. PICK shown : shown = IF f.id \in failing THEN s.puppet
                             ELSE WithPuppet(s.puppet, f.id, Puppet(f.maze, 0))
    OBVIOUS
  <2>2. PICK lost : lost = IF f.id \in failing THEN s.failed \cup {<<f.maze, f.id>>} ELSE s.failed
    OBVIOUS
  <2>3. Puppet(f.maze, 0) \in [maze : 1 .. MaxMazes, at : 0 .. MaxStates]
    BY <1>2, <1>3 DEF Puppet
  <2>4. shown \in Puppets /\ DOMAIN shown \cap gone = {}
    <3>1. PICK with : with = WithPuppet(s.puppet, f.id, Puppet(f.maze, 0))
      OBVIOUS
    <3>2. with \in Puppets /\ DOMAIN with = DOMAIN s.puppet \cup {f.id}
      BY <1>1, <1>2, <2>3, <3>1, WithPuppetTyped
    <3>3. shown = s.puppet \/ shown = with
      BY <2>1, <3>1
    <3>4. QED
      BY <1>1, <1>6, <3>2, <3>3
  <2>5. lost \in SUBSET EnemiesOfMazes
    BY <1>1, <1>2, <2>2 DEF EnemiesOfMazes
  <2>6. [s.retries EXCEPT ![f.id] = 0] \in Retries
    BY <1>1, <1>2, <1>3 DEF Retries
  <2>7. Show(s, f, gone, failing) =
          [s EXCEPT !.retries = [s.retries EXCEPT ![f.id] = 0], !.puppet = shown, !.failed = lost]
    BY <1>6, <2>1, <2>2 DEF Show
  <2>8. QED
    BY <1>1, <2>4, <2>5, <2>6, <2>7 DEF Loops
<1>7. QED
  BY <1>4, <1>5, <1>6

\* Whatever the loop shows or defers again is one of these enemies.
Traced(s, known) ==
  /\ \A id \in DOMAIN s.puppet : <<s.puppet[id].maze, id>> \in known
  /\ \A i \in DOMAIN s.deferred : <<s.deferred[i].maze, s.deferred[i].id>> \in known

LEMMA ShowTraces ==
  ASSUME NEW s \in Loops, NEW f \in Spawns, NEW gone, NEW failing, NEW known,
         Traced(s, known), <<f.maze, f.id>> \in known
  PROVE  Traced(Show(s, f, gone, failing), known)
<1>1. s.deferred \in Seq(Spawns) /\ s \in [puppet : Puppets, retries : Retries,
        deferred : Seq(Spawns), failed : SUBSET EnemiesOfMazes]
  BY DEF Loops
<1>2. PICK s1 : s1 = Show(s, f, gone, failing)
  OBVIOUS
<1>3. PICK with : with = WithPuppet(s.puppet, f.id, Puppet(f.maze, 0))
  OBVIOUS
<1>4. PICK later : later = Append(s.deferred, f)
  OBVIOUS
<1>5. /\ s1.puppet = s.puppet \/ s1.puppet = with
      /\ s1.deferred = s.deferred \/ s1.deferred = later
  <2>1. CASE f.id \in DOMAIN s.puppet \/ f.id \in gone
    BY <1>2, <2>1 DEF Show
  <2>2. CASE ~(f.id \in DOMAIN s.puppet \/ f.id \in gone) /\ f.archetype \notin classKnown
    BY <1>1, <1>2, <1>4, <2>2 DEF Show
  <2>3. CASE ~(f.id \in DOMAIN s.puppet \/ f.id \in gone) /\ f.archetype \in classKnown
    BY <1>1, <1>2, <1>3, <2>3 DEF Show
  <2>4. QED
    BY <2>1, <2>2, <2>3
<1>6. ASSUME NEW id \in DOMAIN with PROVE <<with[id].maze, id>> \in known
  <2>1. with[id] = IF id = f.id THEN Puppet(f.maze, 0) ELSE s.puppet[id]
    BY <1>3 DEF WithPuppet
  <2>2. id = f.id \/ id \in DOMAIN s.puppet
    BY <1>3 DEF WithPuppet
  <2>3. QED
    BY <2>1, <2>2 DEF Traced, Puppet
<1>7. ASSUME NEW i \in DOMAIN later PROVE <<later[i].maze, later[i].id>> \in known
  <2>1. later[i] = f \/ (i \in DOMAIN s.deferred /\ later[i] = s.deferred[i])
    BY <1>1, <1>4
  <2>2. QED
    BY <2>1 DEF Traced
<1>8. Traced(s1, known)
  BY <1>5, <1>6, <1>7 DEF Traced
<1>9. QED
  BY <1>2, <1>8

\* What the loop starts from: the puppets and counts of the gone are dropped.
Start(goneIds) ==
  [puppet |-> [id \in DOMAIN puppet \ goneIds |-> puppet[id]],
   retries |-> [id \in Ids |-> IF id \in goneIds THEN 0 ELSE retries[id]],
   deferred |-> <<>>,
   failed |-> failed]

Turn(f, n, failing) ==
  IF n = 0 THEN Start(GoneIds) ELSE Show(f[n - 1], inSpawn[n], Gone, failing)

\* The loop has a result: the recursion is well defined.
LEMMA LoopExists ==
  ASSUME NEW failing, NEW k \in Nat
  PROVE  \E f : f = [n \in 0 .. k |-> Turn(f, n, failing)]
<1> DEFINE S == {m \in Nat : \E f : f = [n \in 0 .. m |-> Turn(f, n, failing)]}
<1>1. 0 \in S
  <2>1. PICK f : f = [n \in 0 .. 0 |-> Start(GoneIds)]
    OBVIOUS
  <2>2. f = [n \in 0 .. 0 |-> Turn(f, n, failing)]
    BY <2>1 DEF Turn
  <2>3. QED
    BY <2>2
<1>2. ASSUME NEW m \in S PROVE m + 1 \in S
  <2>1. PICK f : f = [n \in 0 .. m |-> Turn(f, n, failing)]
    OBVIOUS
  <2>2. PICK g : g = [n \in 0 .. m + 1 |->
                        IF n = m + 1 THEN Show(f[m], inSpawn[m + 1], Gone, failing) ELSE f[n]]
    OBVIOUS
  <2>3. ASSUME NEW n \in 0 .. m + 1 PROVE g[n] = Turn(g, n, failing)
    <3>1. CASE n = m + 1
      <4>1. g[n] = Show(f[m], inSpawn[m + 1], Gone, failing) /\ n # 0
        BY <2>2, <3>1
      <4>2. n - 1 = m /\ m \in 0 .. m + 1 /\ m # m + 1
        BY <3>1
      <4>3. g[m] = f[m]
        BY <2>2, <4>2
      <4>4. QED
        BY <3>1, <4>1, <4>2, <4>3 DEF Turn
    <3>2. CASE n # m + 1
      <4>1. n \in 0 .. m
        BY <3>2
      <4>2. g[n] = f[n] /\ f[n] = Turn(f, n, failing)
        BY <2>1, <2>2, <3>2, <4>1
      <4>3. n # 0 => g[n - 1] = f[n - 1]
        BY <2>2, <4>1
      <4>4. QED
        BY <4>2, <4>3 DEF Turn
    <3>3. QED
      BY <3>1, <3>2
  <2>4. g = [n \in 0 .. m + 1 |-> g[n]]
    BY <2>2
  <2>5. g = [n \in 0 .. m + 1 |-> Turn(g, n, failing)]
    BY <2>3, <2>4
  <2>6. QED
    BY <2>5
<1> HIDE DEF S
<1>3. S = Nat
  <2>1. S \in SUBSET Nat
    BY DEF S
  <2>2. QED
    BY <1>1, <1>2, <2>1, SetInduction
<1>4. QED
  BY <1>3 DEF S
LEMMA StartKeeps ==
  ASSUME TypeOK, NEW goneIds, DOMAIN puppet \cap recentDespawn = {}
  PROVE  /\ Start(goneIds) \in Loops
         /\ DOMAIN Start(goneIds).puppet \cap (recentDespawn \cup goneIds) = {}
<1>1. /\ retries \in Retries /\ failed \in SUBSET EnemiesOfMazes /\ MaxRetries \in Nat
  BY EnemiesAssumption DEF TypeOK
<1>2. PICK kept : kept = [id \in DOMAIN puppet \ goneIds |-> puppet[id]]
  OBVIOUS
<1>3. kept \in Puppets /\ DOMAIN kept \cap (recentDespawn \cup goneIds) = {}
  <2>1. PICK D \in SUBSET Ids : puppet \in [D -> [maze : 1 .. MaxMazes, at : 0 .. MaxStates]]
    BY DEF TypeOK, Puppets
  <2>2. kept \in [D \ goneIds -> [maze : 1 .. MaxMazes, at : 0 .. MaxStates]]
    BY <1>2, <2>1
  <2>3. D \ goneIds \in SUBSET Ids
    OBVIOUS
  <2>4. QED
    BY <1>2, <2>2, <2>3 DEF Puppets
<1>4. PICK counts : counts = [id \in Ids |-> IF id \in goneIds THEN 0 ELSE retries[id]]
  OBVIOUS
<1>5. counts \in Retries
  BY <1>1, <1>4 DEF Retries
<1>6. <<>> \in Seq(Spawns)
  OBVIOUS
<1>7. Start(goneIds) = [puppet |-> kept, retries |-> counts, deferred |-> <<>>, failed |-> failed]
  BY <1>2, <1>4 DEF Start
<1>8. QED
  BY <1>1, <1>3, <1>5, <1>6, <1>7 DEF Loops

\* The enemies the client has a puppet of, and those whose spawn is queued there.
Shown == {<<puppet[id].maze, id>> : id \in DOMAIN puppet}
Queued == {<<inSpawn[i].maze, inSpawn[i].id>> : i \in DOMAIN inSpawn}

LEMMA StartTraces ==
  ASSUME NEW goneIds
  PROVE  Traced(Start(goneIds), Shown \cup Queued)
<1>1. \A id \in DOMAIN Start(goneIds).puppet :
         id \in DOMAIN puppet /\ Start(goneIds).puppet[id] = puppet[id]
  BY DEF Start
<1>2. DOMAIN Start(goneIds).deferred = {}
  BY DEF Start
<1>3. QED
  BY <1>1, <1>2 DEF Traced, Shown

\* What drainEnemyEvents does, the loop as a whole.
LEMMA DrainEffect ==
  ASSUME MemoryInv, NEW failing, ClientDrain(failing)
  PROVE  \E s \in Loops :
           /\ DOMAIN s.puppet \cap recentDespawn' = {}
           /\ Traced(s, Shown \cup Queued)
           /\ clientMaze > 0
           /\ inSpawn' = s.deferred
           /\ inDespawn' = {}
           /\ inState' = NoState
           /\ puppet' = [id \in DOMAIN s.puppet |->
                IF id \in inState.ids THEN Puppet(s.puppet[id].maze, inState.n)
                ELSE s.puppet[id]]
           /\ recentDespawn' = recentDespawn \cup {f.id : f \in inDespawn}
           /\ retries' = s.retries
           /\ removed' = removed \cup {<<f.maze, f.id>> : f \in inDespawn}
           /\ failed' = s.failed
           /\ UNCHANGED <<hostVars, clientMaze, localVars, wire, stateWire>>
<1>1. TypeOK /\ DOMAIN puppet \cap recentDespawn = {}
  BY DEF MemoryInv
<1>2. inSpawn \in Seq(Spawns) /\ Len(inSpawn) \in Nat
  BY <1>1 DEF TypeOK
<1>3. \E f : f = [n \in 0 .. Len(inSpawn) |-> Turn(f, n, failing)]
  BY <1>2, LoopExists
<1>4. PICK After :
        /\ After = CHOOSE f : f = [n \in 0 .. Len(inSpawn) |->
                                     Turn(f, n, failing)]
        /\ After = [n \in 0 .. Len(inSpawn) |-> Turn(After, n, failing)]
  BY <1>3
<1>5. \A n \in 0 .. Len(inSpawn) : After[n] = Turn(After, n, failing)
  BY <1>4
<1> DEFINE Good(n) == /\ After[n] \in Loops /\ DOMAIN After[n].puppet \cap Gone = {}
                      /\ Traced(After[n], Shown \cup Queued)
           S == {n \in Nat : n <= Len(inSpawn) => Good(n)}
<1>6. Good(0)
  <2>1. After[0] = Start(GoneIds)
    BY <1>2, <1>5 DEF Turn
  <2>2. QED
    BY <1>1, <2>1, StartKeeps, StartTraces DEF Gone
<1>7. ASSUME NEW n \in S PROVE n + 1 \in S
  <2>1. SUFFICES ASSUME n + 1 <= Len(inSpawn) PROVE Good(n + 1)
    OBVIOUS
  <2>2. n \in Nat /\ Good(n) /\ inSpawn[n + 1] \in Spawns
    BY <1>2, <2>1
  <2>0. n + 1 \in 0 .. Len(inSpawn) /\ n + 1 # 0 /\ (n + 1) - 1 = n
    BY <1>2, <2>1
  <2>3. After[n + 1] = Show(After[n], inSpawn[n + 1], Gone, failing)
    BY <1>5, <2>0 DEF Turn
  <2>4. PICK f : f = inSpawn[n + 1] /\ f \in Spawns /\ <<f.maze, f.id>> \in Shown \cup Queued
    <3>1. n + 1 \in DOMAIN inSpawn
      BY <1>2, <2>1
    <3>2. QED
      BY <2>2, <3>1 DEF Queued
  <2>5. After[n + 1] \in Loops /\ DOMAIN After[n + 1].puppet \cap Gone = {}
    BY <2>2, <2>3, ShowKeeps
  <2>6. Traced(After[n + 1], Shown \cup Queued)
    BY <2>2, <2>3, <2>4, ShowTraces
  <2>7. QED
    BY <2>5, <2>6
<1>8. S = Nat
  <2> HIDE DEF Good
  <2>1. 0 \in S
    BY <1>6
  <2> HIDE DEF S
  <2>2. S \in SUBSET Nat
    BY DEF S
  <2>3. QED
    BY <1>7, <2>1, <2>2, SetInduction
<1>9. PICK s : s = After[Len(inSpawn)]
  OBVIOUS
<1>10. s \in Loops /\ DOMAIN s.puppet \cap Gone = {} /\ Traced(s, Shown \cup Queued)
  <2>1. Good(Len(inSpawn))
    <3> HIDE DEF Good
    <3>1. QED
      BY <1>2, <1>8
  <2>2. QED
    BY <1>9, <2>1
<1>11. s = Drained(failing)
  BY <1>4, <1>9 DEF Drained, Turn, Start
<1>12. /\ clientMaze > 0
       /\ inSpawn' = s.deferred
       /\ inDespawn' = {}
       /\ inState' = NoState
       /\ puppet' = [id \in DOMAIN s.puppet |->
            IF id \in inState.ids THEN Puppet(s.puppet[id].maze, inState.n) ELSE s.puppet[id]]
       /\ recentDespawn' = Gone
       /\ retries' = s.retries
       /\ removed' = removed \cup {<<f.maze, f.id>> : f \in inDespawn}
       /\ failed' = s.failed
       /\ UNCHANGED <<hostVars, clientMaze, localVars, wire, stateWire>>
  BY <1>11 DEF ClientDrain
<1>13. QED
  BY <1>10, <1>12 DEF Gone, GoneIds
-----------------------------------------------------------------------------
(* Types.                                                                  *)

LEMMA FrameTypes ==
  ASSUME TypeOK, NEW f \in wire
  PROVE  /\ f.type = "Spawn" => f \in Spawns
         /\ f.type = "Despawn" => f \in Despawns
BY DEF TypeOK, Spawns, Despawns

\* The poll of the host, with the numbers the new enemies get.
LEMMA PollEffect ==
  ASSUME HostPoll
  PROVE  /\ nextId + Cardinality(New) <= MaxIds + 1
         /\ nextId' = nextId + Cardinality(New)
         /\ \E number \in Numberings(New) :
              /\ idOf' = Numbered(number)
              /\ wire' = wire
                   \cup {EnemySpawn(hostMaze, number[e], Archetype[e]) : e \in New}
                   \cup {EnemyDespawn(hostMaze, idOf[e]) : e \in Left}
              /\ \/ UNCHANGED <<statesSent, stateWire>>
                 \/ /\ statesSent < MaxStates
                    /\ statesSent' = statesSent + 1
                    /\ stateWire' = stateWire
                         \cup {EnemyState(statesSent + 1, {Numbered(number)[e] : e \in actors})}
BY DEF HostPoll

\* Ids are given out once: the new ones are past all that were given.
LEMMA PollNumbers ==
  ASSUME MemoryInv, NEW number \in Numberings(New), nextId + Cardinality(New) <= MaxIds + 1,
         NEW ids, ids = Numbered(number), NEW last, last = nextId + Cardinality(New)
  PROVE  /\ last \in 1 .. MaxIds + 1 /\ nextId <= last
         /\ \A e \in New : ids[e] = number[e] /\ ids[e] \in nextId .. last - 1
         /\ \A e \in actors \ New : e \in DOMAIN idOf /\ ids[e] = idOf[e]
         /\ \A e \in actors : ids[e] \in 1 .. last - 1 /\ ids[e] \in Ids
         /\ \A d, e \in actors : ids[d] = ids[e] => d = e
<1>1. TypeOK /\ MaxIds \in Nat /\ nextId \in 1 .. MaxIds + 1
  BY EnemiesAssumption DEF MemoryInv, TypeOK
<1>2. Cardinality(New) \in Nat
  <2>1. New \in SUBSET Enemies
    BY <1>1 DEF TypeOK, New
  <2>2. IsFiniteSet(New)
    BY <2>1, EnemiesAssumption, FS_Subset
  <2>3. QED
    BY <2>2, FS_CardinalityType
<1>3. last \in 1 .. MaxIds + 1 /\ nextId <= last /\ last - 1 = nextId + Cardinality(New) - 1
  BY <1>1, <1>2
<1>4. /\ \A e \in New : number[e] \in nextId .. last - 1
      /\ \A d, e \in New : d # e => number[d] # number[e]
  <2>1. /\ number \in [New -> nextId .. nextId + Cardinality(New) - 1]
        /\ \A d, e \in New : d # e => number[d] # number[e]
    BY DEF Numberings
  <2>2. number \in [New -> nextId .. last - 1]
    BY <1>3, <2>1
  <2>3. QED
    BY <2>1, <2>2
<1>5. /\ \A e \in New : e \in actors /\ ids[e] = number[e]
      /\ \A e \in actors \ New : ids[e] = idOf[e]
  BY DEF Numbered, New
<1>6. \A e \in actors \ New : e \in DOMAIN idOf /\ idOf[e] \in 1 .. nextId - 1
  BY <1>1 DEF TypeOK, New
<1>7. \A e \in actors : ids[e] \in 1 .. last - 1 /\ ids[e] \in Ids
  <2>1. ASSUME NEW e \in New PROVE ids[e] \in 1 .. last - 1
    BY <1>1, <1>3, <1>4, <1>5
  <2>2. ASSUME NEW e \in actors \ New PROVE ids[e] \in 1 .. last - 1
    BY <1>1, <1>3, <1>5, <1>6
  <2>3. 1 .. last - 1 \subseteq Ids
    BY <1>1, <1>3 DEF Ids
  <2>4. QED
    BY <2>1, <2>2, <2>3
<1>8. \A d, e \in actors : ids[d] = ids[e] => d = e
  <2>1. ASSUME NEW d \in New, NEW e \in actors \ New PROVE ids[d] # ids[e]
    BY <1>1, <1>3, <1>4, <1>5, <1>6
  <2>2. ASSUME NEW d \in New, NEW e \in New, ids[d] = ids[e] PROVE d = e
    BY <1>4, <1>5, <2>2
  <2>3. ASSUME NEW d \in actors \ New, NEW e \in actors \ New, ids[d] = ids[e] PROVE d = e
    BY <1>5, <1>6, <2>3 DEF MemoryInv
  <2>4. QED
    BY <2>1, <2>2, <2>3
<1>9. QED
  BY <1>3, <1>4, <1>5, <1>6, <1>7, <1>8

LEMMA PollTyped ==
  ASSUME MemoryInv, HostPoll
  PROVE  TypeOK'
<1>1. TypeOK /\ hostMaze \in 1 .. MaxMazes /\ MaxStates \in Nat /\ MaxIds \in Nat
  BY EnemiesAssumption DEF MemoryInv, TypeOK, HostPoll
<1>2. PICK number \in Numberings(New) :
        /\ idOf' = Numbered(number)
        /\ wire' = wire
             \cup {EnemySpawn(hostMaze, number[e], Archetype[e]) : e \in New}
             \cup {EnemyDespawn(hostMaze, idOf[e]) : e \in Left}
        /\ \/ UNCHANGED <<statesSent, stateWire>>
           \/ /\ statesSent < MaxStates
              /\ statesSent' = statesSent + 1
              /\ stateWire' = stateWire
                   \cup {EnemyState(statesSent + 1, {Numbered(number)[e] : e \in actors})}
  BY PollEffect
<1>3. PICK ids : ids = Numbered(number)
  OBVIOUS
<1>4. /\ nextId' \in 1 .. MaxIds + 1
      /\ \A e \in actors : ids[e] \in 1 .. nextId' - 1 /\ ids[e] \in Ids
      /\ \A e \in New : e \in actors /\ ids[e] = number[e]
  <2>1. PICK last : last = nextId + Cardinality(New) /\ last <= MaxIds + 1 /\ nextId' = last
    BY PollEffect
  <2>2. New \subseteq actors
    BY DEF New
  <2>3. QED
    BY <1>3, <2>1, <2>2, PollNumbers
<1>5. DOMAIN idOf' \subseteq Enemies /\ \A e \in DOMAIN idOf' : idOf'[e] \in 1 .. nextId' - 1
  <2>1. DOMAIN ids = actors
    BY <1>3 DEF Numbered
  <2>2. QED
    BY <1>1, <1>2, <1>3, <1>4, <2>1 DEF TypeOK
<1>6. wire' \subseteq Spawns \cup Despawns
  <2>1. \A e \in New : EnemySpawn(hostMaze, number[e], Archetype[e]) \in Spawns
    <3>1. \A e \in New : e \in DOMAIN Archetype /\ number[e] \in Ids
      BY <1>1, <1>4, EnemiesAssumption DEF TypeOK
    <3>2. \A e \in New : Archetype[e] \in Archetypes
      BY <3>1 DEF Archetypes
    <3>3. QED
      BY <1>1, <3>1, <3>2 DEF EnemySpawn, Spawns
  <2>2. \A e \in Left : EnemyDespawn(hostMaze, idOf[e]) \in Despawns
    <3>1. \A e \in Left : idOf[e] \in Ids
      BY <1>1 DEF TypeOK, Ids, Left
    <3>2. QED
      BY <1>1, <3>1 DEF EnemyDespawn, Despawns
  <2>3. QED
    BY <1>1, <1>2, <2>1, <2>2 DEF TypeOK
<1>7. statesSent' \in 0 .. MaxStates /\ stateWire' \subseteq States
  <2>1. CASE UNCHANGED <<statesSent, stateWire>>
    BY <1>1, <2>1 DEF TypeOK
  <2>2. CASE /\ statesSent < MaxStates
             /\ statesSent' = statesSent + 1
             /\ stateWire' = stateWire
                  \cup {EnemyState(statesSent + 1, {Numbered(number)[e] : e \in actors})}
    <3>1. statesSent + 1 \in 0 .. MaxStates
      BY <1>1, <2>2 DEF TypeOK
    <3>2. {Numbered(number)[e] : e \in actors} \in SUBSET Ids
      BY <1>3, <1>4
    <3>3. EnemyState(statesSent + 1, {Numbered(number)[e] : e \in actors}) \in States
      BY <3>1, <3>2 DEF EnemyState, States
    <3>4. QED
      BY <1>1, <2>2, <3>1, <3>3 DEF TypeOK
  <2>3. QED
    BY <1>2, <2>1, <2>2
<1>8. UNCHANGED <<hostMaze, actors, clientMaze, localVars, inVars, puppetVars, historyVars>>
  BY DEF HostPoll
<1>9. QED
  BY <1>1, <1>4, <1>5, <1>6, <1>7, <1>8 DEF TypeOK, localVars, inVars, puppetVars, historyVars

LEMMA DrainTyped ==
  ASSUME MemoryInv, NEW failing, ClientDrain(failing)
  PROVE  TypeOK'
<1>1. TypeOK
  BY DEF MemoryInv
<1>2. PICK s \in Loops :
        /\ DOMAIN s.puppet \cap recentDespawn' = {}
        /\ clientMaze > 0
        /\ inSpawn' = s.deferred
        /\ inDespawn' = {}
        /\ inState' = NoState
        /\ puppet' = [id \in DOMAIN s.puppet |->
             IF id \in inState.ids THEN Puppet(s.puppet[id].maze, inState.n) ELSE s.puppet[id]]
        /\ recentDespawn' = recentDespawn \cup {f.id : f \in inDespawn}
        /\ retries' = s.retries
        /\ removed' = removed \cup {<<f.maze, f.id>> : f \in inDespawn}
        /\ failed' = s.failed
        /\ UNCHANGED <<hostVars, clientMaze, localVars, wire, stateWire>>
  BY DrainEffect
<1>3. /\ s.puppet \in Puppets /\ s.retries \in Retries
      /\ s.deferred \in Seq(Spawns) /\ s.failed \in SUBSET EnemiesOfMazes
  BY DEF Loops
<1>4. puppet' \in Puppets
  <2>1. PICK D \in SUBSET Ids : s.puppet \in [D -> [maze : 1 .. MaxMazes, at : 0 .. MaxStates]]
    BY <1>3 DEF Puppets
  <2>2. inState.n \in 0 .. MaxStates
    BY <1>1 DEF TypeOK, States
  <2>3. \A id \in D : Puppet(s.puppet[id].maze, inState.n)
                        \in [maze : 1 .. MaxMazes, at : 0 .. MaxStates]
    BY <2>1, <2>2 DEF Puppet
  <2>4. puppet' \in [D -> [maze : 1 .. MaxMazes, at : 0 .. MaxStates]]
    BY <1>2, <2>1, <2>3
  <2>5. QED
    BY <2>4 DEF Puppets
<1>5. \A f \in inDespawn : f.id \in Ids /\ <<f.maze, f.id>> \in EnemiesOfMazes
  BY <1>1 DEF TypeOK, Despawns, EnemiesOfMazes
<1>6. recentDespawn' \subseteq Ids /\ removed' \subseteq EnemiesOfMazes
  BY <1>1, <1>2, <1>5 DEF TypeOK
<1>7. NoState \in States
  BY EnemiesAssumption DEF NoState, EnemyState, States
<1>8. QED
  BY <1>1, <1>2, <1>3, <1>4, <1>6, <1>7 DEF TypeOK, hostVars, localVars
LEMMA TypeStep ==
  ASSUME MemoryInv, [Next]_vars
  PROVE  TypeOK'
<1>1. TypeOK
  BY DEF MemoryInv
<1>2. NoState \in States /\ NoPuppets \in Puppets /\ NoRetries \in Retries
  <2>1. NoState \in States /\ NoRetries \in Retries
    BY EnemiesAssumption DEF NoState, EnemyState, States, NoRetries, Retries
  <2>2. NoPuppets \in [{} -> [maze : 1 .. MaxMazes, at : 0 .. MaxStates]]
    BY DEF NoPuppets
  <2>3. QED
    BY <2>1, <2>2 DEF Puppets
<1>3. CASE UNCHANGED vars
  BY <1>1, <1>3 DEF TypeOK, vars, hostVars, localVars, inVars, puppetVars, historyVars
<1>4. CASE HostBeginMaze
  <2>1. hostMaze' \in 0 .. MaxMazes /\ nextId' \in 1 .. MaxIds + 1
    BY <1>1, <1>4, EnemiesAssumption DEF TypeOK, HostBeginMaze
  <2>2. DOMAIN idOf' = {}
    BY <1>4 DEF HostBeginMaze
  <2>3. QED
    BY <1>1, <1>4, <2>1, <2>2
       DEF TypeOK, HostBeginMaze, localVars, inVars, puppetVars, historyVars
<1>5. CASE HostGame
  BY <1>1, <1>5 DEF TypeOK, HostGame, localVars, inVars, puppetVars, historyVars
<1>6. CASE HostPoll
  BY <1>6, PollTyped
<1>7. ASSUME NEW f \in wire, DispatchEnemySpawn(f) PROVE TypeOK'
  <2>1. f \in Spawns
    BY <1>1, <1>7, FrameTypes DEF DispatchEnemySpawn
  <2>2. Append(inSpawn, f) \in Seq(Spawns)
    BY <1>1, <2>1 DEF TypeOK
  <2>3. QED
    BY <1>1, <1>7, <2>2 DEF TypeOK, DispatchEnemySpawn, hostVars, localVars, puppetVars, historyVars
<1>8. ASSUME NEW f \in wire, DispatchEnemyDespawn(f) PROVE TypeOK'
  <2>1. f \in Despawns
    BY <1>1, <1>8, FrameTypes DEF DispatchEnemyDespawn
  <2>2. QED
    BY <1>1, <1>8, <2>1
       DEF TypeOK, DispatchEnemyDespawn, hostVars, localVars, puppetVars, historyVars
<1>9. ASSUME NEW f \in stateWire, DispatchEnemyState(f) PROVE TypeOK'
  BY <1>1, <1>9 DEF TypeOK, DispatchEnemyState, hostVars, localVars, puppetVars, historyVars
<1>10. ASSUME NEW f \in stateWire, LoseEnemyState(f) PROVE TypeOK'
  BY <1>1, <1>10 DEF TypeOK, LoseEnemyState, hostVars, localVars, inVars, puppetVars, historyVars
<1>11. CASE ClientBeginMaze
  <2>1. clientMaze' \in 0 .. MaxMazes
    BY <1>1, <1>11, EnemiesAssumption DEF TypeOK, ClientBeginMaze
  <2>2. inSpawn' \in Seq(Spawns)
    BY <1>11 DEF ClientBeginMaze
  <2>3. QED
    BY <1>1, <1>2, <1>11, <2>1, <2>2 DEF TypeOK, ClientBeginMaze, hostVars
<1>12. CASE ClientGame
  BY <1>1, <1>12 DEF TypeOK, ClientGame, hostVars, inVars, puppetVars, historyVars
<1>13. CASE ClientNeutralize
  <2>1. \A e \in locals : Archetype[e] \in Archetypes
    BY <1>1, EnemiesAssumption DEF TypeOK, Archetypes
  <2>2. QED
    BY <1>1, <1>13, <2>1 DEF TypeOK, ClientNeutralize, hostVars, inVars, puppetVars, historyVars
<1>14. ASSUME NEW failing \in SUBSET Ids, ClientDrain(failing) PROVE TypeOK'
  BY <1>14, DrainTyped
<1>15. QED
  BY <1>3, <1>4, <1>5, <1>6, <1>7, <1>8, <1>9, <1>10, <1>11, <1>12, <1>13, <1>14 DEF Next

-----------------------------------------------------------------------------
(* What is remembered.                                                     *)

\* The client's half of MemoryInv, and the host's.
Remembers ==
  /\ DOMAIN puppet \cap recentDespawn = {}
  /\ \A x \in removed : x[2] \in recentDespawn

GivenOnce ==
  /\ \A d, e \in DOMAIN idOf : idOf[d] = idOf[e] => d = e
  /\ hostMaze = 0 => Retired = {} /\ idOf = <<>>
  /\ hostMaze <= 1 =>
       \A id \in Retired : id < nextId /\ \A e \in DOMAIN idOf : idOf[e] # id

LEMMA RemembersStep ==
  ASSUME MemoryInv, Next
  PROVE  Remembers'
<1>1. TypeOK /\ Remembers
  BY DEF MemoryInv, Remembers
<1>2. CASE ClientBeginMaze
  <2>1. DOMAIN puppet' = {} /\ removed' = {}
    BY <1>2 DEF ClientBeginMaze, NoPuppets
  <2>2. QED
    BY <2>1 DEF Remembers
<1>3. ASSUME NEW failing \in SUBSET Ids, ClientDrain(failing) PROVE Remembers'
  <2>1. PICK s \in Loops :
          /\ DOMAIN s.puppet \cap recentDespawn' = {}
          /\ clientMaze > 0
          /\ inSpawn' = s.deferred
          /\ inDespawn' = {}
          /\ inState' = NoState
          /\ puppet' = [id \in DOMAIN s.puppet |->
               IF id \in inState.ids THEN Puppet(s.puppet[id].maze, inState.n)
               ELSE s.puppet[id]]
          /\ recentDespawn' = recentDespawn \cup {f.id : f \in inDespawn}
          /\ retries' = s.retries
          /\ removed' = removed \cup {<<f.maze, f.id>> : f \in inDespawn}
          /\ failed' = s.failed
          /\ UNCHANGED <<hostVars, clientMaze, localVars, wire, stateWire>>
    BY <1>3, DrainEffect
  <2>2. DOMAIN puppet' \cap recentDespawn' = {}
    BY <2>1
  <2>3. \A x \in removed' : x[2] \in recentDespawn'
    BY <1>1, <2>1 DEF Remembers
  <2>4. QED
    BY <2>2, <2>3 DEF Remembers
<1>4. CASE UNCHANGED <<puppet, recentDespawn, removed>>
  BY <1>1, <1>4 DEF Remembers
<1>5. CASE ~ClientBeginMaze /\ ~(\E failing \in SUBSET Ids : ClientDrain(failing))
  <2>1. UNCHANGED <<puppet, recentDespawn, removed>>
    BY <1>5 DEF Next, HostBeginMaze, HostGame, HostPoll, DispatchEnemySpawn, DispatchEnemyDespawn,
         DispatchEnemyState, LoseEnemyState, ClientGame, ClientNeutralize, puppetVars, historyVars
  <2>2. QED
    BY <1>4, <2>1
<1>6. QED
  BY <1>2, <1>3, <1>5

\* A despawn that moves from the wire to the client, or is forgotten, retires no other
\* enemy.
LEMMA GivenOnceKept ==
  ASSUME GivenOnce, UNCHANGED hostMaze, UNCHANGED idOf, UNCHANGED nextId, Retired' \subseteq Retired
  PROVE  GivenOnce'
BY DEF GivenOnce

LEMMA GivenOnceStep ==
  ASSUME MemoryInv, Next
  PROVE  GivenOnce'
<1>1. TypeOK /\ GivenOnce
  BY DEF MemoryInv, GivenOnce
<1>2. CASE HostBeginMaze
  <2>1. /\ DOMAIN idOf' = {} /\ hostMaze' = hostMaze + 1 /\ hostMaze \in Nat
        /\ UNCHANGED <<wire, inDespawn, recentDespawn>>
    BY <1>1, <1>2, EnemiesAssumption DEF TypeOK, HostBeginMaze, inVars, puppetVars
  <2>2. Retired' = Retired
    BY <2>1 DEF Retired
  <2>3. hostMaze' # 0 /\ (hostMaze' <= 1 => hostMaze = 0)
    BY <2>1
  <2>4. QED
    BY <1>1, <2>1, <2>2, <2>3 DEF GivenOnce
<1>3. CASE HostPoll
  <2>1. PICK number \in Numberings(New) :
          /\ idOf' = Numbered(number)
          /\ wire' = wire
               \cup {EnemySpawn(hostMaze, number[e], Archetype[e]) : e \in New}
               \cup {EnemyDespawn(hostMaze, idOf[e]) : e \in Left}
          /\ \/ UNCHANGED <<statesSent, stateWire>>
             \/ /\ statesSent < MaxStates
                /\ statesSent' = statesSent + 1
                /\ stateWire' = stateWire
                     \cup {EnemyState(statesSent + 1, {Numbered(number)[e] : e \in actors})}
    BY <1>3, PollEffect
  <2>2. PICK ids : ids = Numbered(number)
    OBVIOUS
  <2>3. PICK last : last = nextId + Cardinality(New) /\ last <= MaxIds + 1 /\ nextId' = last
    BY <1>3, PollEffect
  <2>4. /\ last \in 1 .. MaxIds + 1 /\ nextId <= last
        /\ \A e \in New : ids[e] = number[e] /\ ids[e] \in nextId .. last - 1
        /\ \A e \in actors \ New : e \in DOMAIN idOf /\ ids[e] = idOf[e]
        /\ \A e \in actors : ids[e] \in 1 .. last - 1 /\ ids[e] \in Ids
        /\ \A d, e \in actors : ids[d] = ids[e] => d = e
    BY <2>2, <2>3, PollNumbers
  <2>5. DOMAIN ids = actors /\ idOf' = ids
    BY <2>1, <2>2 DEF Numbered
  <2>6. \A d, e \in DOMAIN idOf' : idOf'[d] = idOf'[e] => d = e
    BY <2>4, <2>5
  <2>7. hostMaze' = hostMaze /\ hostMaze > 0 /\ UNCHANGED <<inDespawn, recentDespawn>>
    BY <1>3 DEF HostPoll, inVars, puppetVars
  <2>8. \A id \in Retired' : id \in Retired \/ \E e \in Left : id = idOf[e]
    <3>1. ASSUME NEW f \in wire', f.type = "Despawn"
          PROVE  f \in wire \/ \E e \in Left : f = EnemyDespawn(hostMaze, idOf[e])
      BY <2>1, <3>1 DEF EnemySpawn
    <3>2. ASSUME NEW f \in wire', f.type = "Despawn"
          PROVE  f \in wire \/ \E e \in Left : f.id = idOf[e]
      BY <3>1, <3>2 DEF EnemyDespawn
    <3>3. QED
      BY <2>7, <3>2 DEF Retired
  <2>9. ASSUME hostMaze' <= 1, NEW id \in Retired'
        PROVE  id < nextId' /\ \A e \in DOMAIN idOf' : idOf'[e] # id
    <3>1. MaxIds \in Nat /\ nextId \in 1 .. MaxIds + 1
      BY <1>1, EnemiesAssumption DEF TypeOK
    <3>2. id \in Int /\ id < nextId /\ \A e \in actors \ New : ids[e] # id
      <4>1. CASE id \in Retired
        <5>1. id < nextId /\ \A e \in DOMAIN idOf : idOf[e] # id
          BY <1>1, <2>7, <2>9, <4>1 DEF GivenOnce
        <5>2. id \in Ids
          BY <1>1, <4>1, FrameTypes DEF Retired, TypeOK, Despawns
        <5>3. QED
          BY <2>4, <5>1, <5>2 DEF Ids
      <4>2. CASE \E e \in Left : id = idOf[e]
        <5>1. PICK e \in Left : id = idOf[e]
          BY <4>2
        <5>2. e \in DOMAIN idOf /\ e \notin actors
          BY DEF Left
        <5>3. id \in 1 .. nextId - 1
          BY <1>1, <5>1, <5>2 DEF TypeOK
        <5>4. \A d \in actors \ New : ids[d] # id
          BY <1>1, <2>4, <5>1, <5>2 DEF GivenOnce
        <5>5. QED
          BY <3>1, <5>3, <5>4
      <4>3. QED
        BY <2>8, <2>9, <4>1, <4>2
    <3>3. \A e \in New : ids[e] # id
      BY <2>4, <3>1, <3>2
    <3>4. QED
      BY <2>3, <2>4, <2>5, <3>1, <3>2, <3>3
  <2>10. hostMaze' # 0
    BY <1>1, <2>7, EnemiesAssumption DEF TypeOK
  <2>11. QED
    BY <2>6, <2>9, <2>10 DEF GivenOnce
<1>4. ASSUME NEW f \in wire, DispatchEnemyDespawn(f) PROVE GivenOnce'
  <2>1. Retired' \subseteq Retired
    BY <1>4 DEF DispatchEnemyDespawn, Retired, puppetVars
  <2>2. QED
    BY <1>1, <1>4, <2>1, GivenOnceKept DEF DispatchEnemyDespawn, hostVars
<1>5. ASSUME NEW f \in wire, DispatchEnemySpawn(f) PROVE GivenOnce'
  <2>1. Retired' \subseteq Retired
    BY <1>5 DEF DispatchEnemySpawn, Retired, puppetVars
  <2>2. QED
    BY <1>1, <1>5, <2>1, GivenOnceKept DEF DispatchEnemySpawn, hostVars
<1>6. CASE ClientBeginMaze
  <2>1. Retired' \subseteq Retired
    BY <1>6 DEF ClientBeginMaze, Retired
  <2>2. QED
    BY <1>1, <1>6, <2>1, GivenOnceKept DEF ClientBeginMaze, hostVars
<1>7. ASSUME NEW failing \in SUBSET Ids, ClientDrain(failing) PROVE GivenOnce'
  <2>1. /\ inDespawn' = {} /\ wire' = wire
        /\ recentDespawn' = recentDespawn \cup {f.id : f \in inDespawn}
        /\ UNCHANGED hostVars
    BY <1>7 DEF ClientDrain, Gone, GoneIds
  <2>2. Retired' \subseteq Retired
    BY <2>1 DEF Retired
  <2>3. QED
    BY <1>1, <2>1, <2>2, GivenOnceKept DEF hostVars
<1>8. CASE UNCHANGED <<hostMaze, idOf, nextId, wire, inDespawn, recentDespawn>>
  <2>1. Retired' = Retired
    BY <1>8 DEF Retired
  <2>2. QED
    BY <1>1, <1>8, <2>1, GivenOnceKept
<1>9. HostGame \/ ClientGame \/ ClientNeutralize
        \/ (\E f \in stateWire : DispatchEnemyState(f) \/ LoseEnemyState(f))
      => UNCHANGED <<hostMaze, idOf, nextId, wire, inDespawn, recentDespawn>>
  BY DEF HostGame, ClientGame, ClientNeutralize, DispatchEnemyState, LoseEnemyState,
         hostVars, inVars, puppetVars
<1>10. QED
  BY <1>2, <1>3, <1>4, <1>5, <1>6, <1>7, <1>8, <1>9 DEF Next

\* The client remembers what went in its maze and has no puppet of it, in every maze; the
\* host never gives out the id of what is gone, wherever that is known, in its first.
THEOREM MemoryHolds == Spec => []MemoryInv
<1>1. Init => MemoryInv
  <2>1. SUFFICES ASSUME Init PROVE MemoryInv
    OBVIOUS
  <2>2. NoState \in States /\ NoRetries \in Retries
    BY EnemiesAssumption DEF NoState, EnemyState, States, NoRetries, Retries
  <2>3. NoPuppets \in [{} -> [maze : 1 .. MaxMazes, at : 0 .. MaxStates]] /\ DOMAIN <<>> = {}
    BY DEF NoPuppets
  <2>4. NoPuppets \in Puppets
    BY <2>3 DEF Puppets
  <2>5. TypeOK
    BY <2>1, <2>2, <2>3, <2>4, EnemiesAssumption DEF Init, TypeOK
  <2>6. Retired = {}
    BY <2>1 DEF Init, Retired
  <2>7. QED
    BY <2>1, <2>3, <2>5, <2>6 DEF Init, MemoryInv
<1>2. MemoryInv /\ [Next]_vars => MemoryInv'
  <2>1. SUFFICES ASSUME MemoryInv, [Next]_vars PROVE MemoryInv'
    OBVIOUS
  <2>2. TypeOK'
    BY <2>1, TypeStep
  <2>3. CASE Next
    BY <2>1, <2>2, <2>3, RemembersStep, GivenOnceStep DEF MemoryInv, Remembers, GivenOnce
  <2>4. CASE UNCHANGED vars
    BY <2>1, <2>2, <2>4
       DEF MemoryInv, Retired, vars, hostVars, inVars, puppetVars, historyVars
  <2>5. QED
    BY <2>1, <2>3, <2>4
<1>3. QED
  BY <1>1, <1>2, PTL DEF Spec

\* "a deferred spawn for the same id is dropped, never resurrected" (dllmain.cpp): in
\* every maze, for any number of deferrals, failures and orders of the frames.
THEOREM ResurrectsNone == Spec => []NeverResurrected
<1>1. MemoryInv => NeverResurrected
  <2>1. SUFFICES ASSUME MemoryInv, NEW id \in DOMAIN puppet, <<puppet[id].maze, id>> \in removed
                 PROVE  FALSE
    BY DEF NeverResurrected
  <2>2. <<puppet[id].maze, id>>[2] \in recentDespawn
    BY <2>1 DEF MemoryInv
  <2>3. QED
    BY <2>1, <2>2 DEF MemoryInv
<1>2. QED
  BY <1>1, MemoryHolds, PTL

\* "host ids are monotonic -> safe to remember for the maze" (dllmain.cpp): no live
\* enemy of the host's first maze has an id that the client refuses to show.
THEOREM RemembersSafely == Spec => [](hostMaze <= 1 => EnemyInv)
<1>1. MemoryInv => (hostMaze <= 1 => EnemyInv)
  BY DEF MemoryInv, EnemyInv, SafeToRemember, Retired
<1>2. QED
  BY <1>1, MemoryHolds, PTL
-----------------------------------------------------------------------------
(* Ids in every maze.                                                      *)

\* What the frames, the queues, the puppets and the client's history speak of: enemies
\* that are to be shown or are, and enemies that are to go.
Coming == {<<f.maze, f.id>> : f \in {g \in wire : g.type = "Spawn"}} \cup Queued \cup Shown
Leaving == {<<f.maze, f.id>> : f \in {g \in wire : g.type = "Despawn"} \cup inDespawn}

\* The host has given out enemy x, an id with the number of its maze; no live enemy has
\* this id.
Given(x) == x[1] <= hostMaze /\ (x[1] = hostMaze => x[2] < nextId)
Unused(id) == \A e \in DOMAIN idOf : idOf[e] # id

\* Only enemies the host has given out are spoken of, and the id of one that is to go from
\* the host's maze, or has gone at the client, is not used any more.
FramesInv ==
  /\ \A x \in Coming \cup Leaving \cup removed : Given(x)
  /\ \A x \in Leaving \cup removed : x[1] = hostMaze => Unused(x[2])

LEMMA SpokenOfTyped ==
  ASSUME TypeOK
  PROVE  Coming \cup Leaving \cup removed \subseteq EnemiesOfMazes
<1>1. \A f \in wire : f.maze \in 1 .. MaxMazes /\ f.id \in Ids
  BY DEF TypeOK, Spawns, Despawns
<1>2. Queued \subseteq EnemiesOfMazes
  <2>1. inSpawn \in Seq(Spawns)
    BY DEF TypeOK
  <2>2. \A i \in DOMAIN inSpawn : inSpawn[i] \in Spawns
    BY <2>1
  <2>3. \A f \in Spawns : <<f.maze, f.id>> \in EnemiesOfMazes
    BY DEF Spawns, EnemiesOfMazes
  <2>4. QED
    BY <2>2, <2>3 DEF Queued
<1>3. Shown \subseteq EnemiesOfMazes
  <2>1. PICK D \in SUBSET Ids : puppet \in [D -> [maze : 1 .. MaxMazes, at : 0 .. MaxStates]]
    BY DEF TypeOK, Puppets
  <2>2. \A id \in DOMAIN puppet : id \in Ids /\ puppet[id].maze \in 1 .. MaxMazes
    BY <2>1
  <2>3. QED
    BY <2>2 DEF Shown, EnemiesOfMazes
<1>4. \A f \in inDespawn : f.maze \in 1 .. MaxMazes /\ f.id \in Ids
  BY DEF TypeOK, Despawns
<1>5. QED
  BY <1>1, <1>2, <1>3, <1>4 DEF Coming, Leaving, TypeOK, EnemiesOfMazes

\* A drain shows and queues again what was shown or queued.
LEMMA DrainFlow ==
  ASSUME MemoryInv, NEW failing, ClientDrain(failing)
  PROVE  /\ Coming' \subseteq Coming
         /\ Leaving' \subseteq Leaving
         /\ removed' = removed \cup {<<f.maze, f.id>> : f \in inDespawn}
<1>1. PICK s \in Loops :
        /\ Traced(s, Shown \cup Queued)
        /\ inSpawn' = s.deferred
        /\ inDespawn' = {}
        /\ puppet' = [id \in DOMAIN s.puppet |->
             IF id \in inState.ids THEN Puppet(s.puppet[id].maze, inState.n) ELSE s.puppet[id]]
        /\ removed' = removed \cup {<<f.maze, f.id>> : f \in inDespawn}
        /\ wire' = wire
  BY DrainEffect
<1>2. Queued' \subseteq Shown \cup Queued
  BY <1>1 DEF Queued, Traced
<1>3. Shown' \subseteq Shown \cup Queued
  <2>1. \A id \in DOMAIN puppet' : id \in DOMAIN s.puppet /\ puppet'[id].maze = s.puppet[id].maze
    BY <1>1 DEF Puppet
  <2>2. QED
    BY <1>1, <2>1 DEF Shown, Traced
<1>4. Leaving' \subseteq Leaving
  BY <1>1 DEF Leaving
<1>5. QED
  BY <1>1, <1>2, <1>3, <1>4 DEF Coming

\* Between two polls nothing is said of another enemy.
LEMMA NothingNew ==
  ASSUME MemoryInv, [Next]_vars, ~HostPoll
  PROVE  /\ Coming' \subseteq Coming
         /\ Leaving' \subseteq Leaving
         /\ removed' \subseteq removed \cup Leaving
<1>1. TypeOK
  BY DEF MemoryInv
<1>2. CASE UNCHANGED <<wire, inSpawn, inDespawn, puppet, removed>>
  BY <1>2 DEF Coming, Leaving, Queued, Shown
<1>3. UNCHANGED vars \/ HostBeginMaze \/ HostGame \/ ClientGame \/ ClientNeutralize
        \/ (\E f \in stateWire : DispatchEnemyState(f) \/ LoseEnemyState(f))
      => UNCHANGED <<wire, inSpawn, inDespawn, puppet, removed>>
  BY DEF vars, HostBeginMaze, HostGame, ClientGame, ClientNeutralize, DispatchEnemyState,
         LoseEnemyState, inVars, puppetVars, historyVars
<1>4. ASSUME NEW f \in wire, DispatchEnemySpawn(f)
      PROVE  Coming' \subseteq Coming /\ Leaving' = Leaving /\ removed' = removed
  <2>1. /\ wire' = wire \ {f} /\ f.type = "Spawn" /\ inSpawn' = Append(inSpawn, f)
        /\ UNCHANGED <<inDespawn, puppet, removed>> /\ inSpawn \in Seq(Spawns)
    BY <1>1, <1>4 DEF DispatchEnemySpawn, puppetVars, historyVars, TypeOK
  <2>2. \A i \in DOMAIN inSpawn' :
          inSpawn'[i] = f \/ (i \in DOMAIN inSpawn /\ inSpawn'[i] = inSpawn[i])
    BY <2>1
  <2>3. Queued' \subseteq Queued \cup {<<f.maze, f.id>>}
    BY <2>2 DEF Queued
  <2>4. <<f.maze, f.id>> \in Coming
    BY <2>1 DEF Coming
  <2>5. Shown' = Shown /\ Leaving' = Leaving
    BY <2>1 DEF Shown, Leaving
  <2>6. QED
    BY <2>1, <2>3, <2>4, <2>5 DEF Coming
<1>5. ASSUME NEW f \in wire, DispatchEnemyDespawn(f)
      PROVE  Coming' \subseteq Coming /\ Leaving' \subseteq Leaving /\ removed' = removed
  <2>1. /\ wire' = wire \ {f} /\ f.type = "Despawn" /\ inDespawn' = inDespawn \cup {f}
        /\ UNCHANGED <<inSpawn, puppet, removed>>
    BY <1>5 DEF DispatchEnemyDespawn, puppetVars, historyVars
  <2>2. Shown' = Shown /\ Queued' = Queued
    BY <2>1 DEF Shown, Queued
  <2>3. QED
    BY <2>1, <2>2 DEF Coming, Leaving
<1>6. CASE ClientBeginMaze
  <2>1. /\ wire' = wire /\ inDespawn' = {} /\ removed' = {}
        /\ DOMAIN inSpawn' = {} /\ DOMAIN puppet' = {}
    BY <1>6 DEF ClientBeginMaze, NoPuppets
  <2>2. Shown' = {} /\ Queued' = {}
    BY <2>1 DEF Shown, Queued
  <2>3. QED
    BY <2>1, <2>2 DEF Coming, Leaving
<1>7. ASSUME NEW failing \in SUBSET Ids, ClientDrain(failing)
      PROVE  Coming' \subseteq Coming /\ Leaving' \subseteq Leaving
             /\ removed' \subseteq removed \cup Leaving
  BY <1>7, DrainFlow DEF Leaving
<1>8. QED
  BY <1>2, <1>3, <1>4, <1>5, <1>6, <1>7 DEF Next

\* A poll speaks of new ids, and of ids that it takes from their enemies.
LEMMA PollSpeaks ==
  ASSUME MemoryInv, HostPoll
  PROVE  /\ nextId \in Nat /\ nextId' \in Nat /\ nextId <= nextId'
         /\ hostMaze \in Nat /\ hostMaze' = hostMaze
         /\ UNCHANGED <<clientMaze, inDespawn, recentDespawn, removed>>
         /\ \A x \in Coming' : x \in Coming \/ (x[1] = hostMaze /\ x[2] \in nextId .. nextId' - 1)
         /\ \A x \in Leaving' : \/ x \in Leaving
                                \/ x[1] = hostMaze /\ x[2] \in 1 .. nextId - 1 /\ Unused(x[2])'
         /\ \A id \in Nat : id < nextId /\ Unused(id) => Unused(id)'
<1>1. PICK number \in Numberings(New) :
        /\ idOf' = Numbered(number)
        /\ wire' = wire
             \cup {EnemySpawn(hostMaze, number[e], Archetype[e]) : e \in New}
             \cup {EnemyDespawn(hostMaze, idOf[e]) : e \in Left}
        /\ \/ UNCHANGED <<statesSent, stateWire>>
           \/ /\ statesSent < MaxStates
              /\ statesSent' = statesSent + 1
              /\ stateWire' = stateWire
                   \cup {EnemyState(statesSent + 1, {Numbered(number)[e] : e \in actors})}
  BY PollEffect
<1>2. PICK ids : ids = Numbered(number)
  OBVIOUS
<1>3. PICK last : last = nextId + Cardinality(New) /\ last <= MaxIds + 1 /\ nextId' = last
  BY PollEffect
<1>4. /\ last \in 1 .. MaxIds + 1 /\ nextId <= last
      /\ \A e \in New : ids[e] = number[e] /\ ids[e] \in nextId .. last - 1
      /\ \A e \in actors \ New : e \in DOMAIN idOf /\ ids[e] = idOf[e]
      /\ \A e \in actors : ids[e] \in 1 .. last - 1 /\ ids[e] \in Ids
      /\ \A d, e \in actors : ids[d] = ids[e] => d = e
  BY <1>2, <1>3, PollNumbers
<1>5. /\ TypeOK /\ MaxIds \in Nat /\ nextId \in 1 .. MaxIds + 1 /\ hostMaze \in Nat
      /\ \A d, e \in DOMAIN idOf : idOf[d] = idOf[e] => d = e
      /\ \A e \in DOMAIN idOf : idOf[e] \in 1 .. nextId - 1
  BY EnemiesAssumption DEF MemoryInv, TypeOK
<1>6. DOMAIN idOf' = actors /\ idOf' = ids
  BY <1>1, <1>2 DEF Numbered
<1>7. hostMaze' = hostMaze /\ UNCHANGED <<clientMaze, inSpawn, inDespawn, puppet, recentDespawn, removed>>
  BY DEF HostPoll, inVars, puppetVars, historyVars
<1>8. \A id \in Nat : id < nextId /\ Unused(id) => Unused(id)'
  <2>1. SUFFICES ASSUME NEW id \in Nat, id < nextId, Unused(id), NEW e \in actors PROVE ids[e] # id
    BY <1>6 DEF Unused
  <2>2. CASE e \in New
    BY <1>4, <1>5, <2>1, <2>2
  <2>3. CASE e \notin New
    BY <1>4, <2>1, <2>3 DEF Unused
  <2>4. QED
    BY <2>2, <2>3
<1>9. ASSUME NEW e \in Left
      PROVE  idOf[e] \in 1 .. nextId - 1 /\ \A d \in DOMAIN idOf' : idOf'[d] # idOf[e]
  <2>1. e \in DOMAIN idOf /\ e \notin actors
    BY DEF Left
  <2>2. idOf[e] \in 1 .. nextId - 1
    BY <1>5, <2>1
  <2>3. ASSUME NEW d \in actors PROVE ids[d] # idOf[e]
    <3>1. CASE d \in New
      BY <1>4, <1>5, <2>2, <3>1
    <3>2. CASE d \notin New
      BY <1>4, <1>5, <2>1, <3>2
    <3>3. QED
      BY <3>1, <3>2
  <2>4. QED
    BY <1>5, <1>6, <2>2, <2>3
<1>10. ASSUME NEW x \in Coming'
       PROVE  x \in Coming \/ (x[1] = hostMaze /\ x[2] \in nextId .. nextId' - 1)
  <2>1. Queued' = Queued /\ Shown' = Shown
    BY <1>7 DEF Queued, Shown
  <2>2. CASE x \in Queued' \cup Shown'
    BY <2>1, <2>2 DEF Coming
  <2>3. CASE \E f \in wire' : f.type = "Spawn" /\ x = <<f.maze, f.id>>
    <3>1. PICK f \in wire' : f.type = "Spawn" /\ x = <<f.maze, f.id>>
      BY <2>3
    <3>2. f \in wire \/ \E e \in New : f = EnemySpawn(hostMaze, number[e], Archetype[e])
      BY <1>1, <3>1 DEF EnemyDespawn
    <3>3. CASE f \in wire
      BY <3>1, <3>3 DEF Coming
    <3>4. ASSUME NEW e \in New, f = EnemySpawn(hostMaze, number[e], Archetype[e])
          PROVE  x[1] = hostMaze /\ x[2] \in nextId .. nextId' - 1
      <4>1. x = <<hostMaze, number[e]>>
        BY <3>1, <3>4 DEF EnemySpawn
      <4>2. number[e] \in nextId .. nextId' - 1
        BY <1>3, <1>4
      <4>3. QED
        BY <4>1, <4>2
    <3>5. QED
      BY <3>2, <3>3, <3>4
  <2>4. QED
    BY <2>2, <2>3 DEF Coming
<1>11. ASSUME NEW x \in Leaving'
       PROVE  x \in Leaving \/ (x[1] = hostMaze /\ x[2] \in 1 .. nextId - 1 /\ Unused(x[2])')
  <2>1. PICK f \in {g \in wire' : g.type = "Despawn"} \cup inDespawn : x = <<f.maze, f.id>>
    BY <1>7 DEF Leaving
  <2>2. \/ f \in {g \in wire : g.type = "Despawn"} \cup inDespawn
        \/ \E e \in Left : f = EnemyDespawn(hostMaze, idOf[e])
    BY <1>1, <2>1 DEF EnemySpawn
  <2>3. CASE f \in {g \in wire : g.type = "Despawn"} \cup inDespawn
    BY <2>1, <2>3 DEF Leaving
  <2>4. ASSUME NEW e \in Left, f = EnemyDespawn(hostMaze, idOf[e])
        PROVE  x[1] = hostMaze /\ x[2] \in 1 .. nextId - 1 /\ Unused(x[2])'
    <3>1. x = <<hostMaze, idOf[e]>>
      BY <2>1, <2>4 DEF EnemyDespawn
    <3>2. x[1] = hostMaze /\ x[2] = idOf[e]
      BY <3>1
    <3>3. QED
      BY <1>9, <3>2 DEF Unused
  <2>5. QED
    BY <2>2, <2>3, <2>4
<1>12. QED
  BY <1>3, <1>4, <1>5, <1>7, <1>8, <1>10, <1>11

LEMMA FramesStep ==
  ASSUME MemoryInv, FramesInv, [Next]_vars
  PROVE  FramesInv'
<1>1. /\ hostMaze \in Nat /\ nextId \in Nat /\ MaxMazes \in Nat
      /\ Coming \cup Leaving \cup removed \subseteq (1 .. MaxMazes) \X Ids
  <2>1. TypeOK
    BY DEF MemoryInv
  <2>2. Coming \cup Leaving \cup removed \subseteq EnemiesOfMazes
    BY <2>1, SpokenOfTyped
  <2>3. QED
    BY <2>1, <2>2, EnemiesAssumption DEF TypeOK, EnemiesOfMazes
<1>2. CASE HostPoll
  <2>1. /\ nextId \in Nat /\ nextId' \in Nat /\ nextId <= nextId' /\ hostMaze' = hostMaze
        /\ removed' = removed
        /\ \A x \in Coming' : x \in Coming \/ (x[1] = hostMaze /\ x[2] \in nextId .. nextId' - 1)
        /\ \A x \in Leaving' : \/ x \in Leaving
                               \/ x[1] = hostMaze /\ x[2] \in 1 .. nextId - 1 /\ Unused(x[2])'
        /\ \A id \in Nat : id < nextId /\ Unused(id) => Unused(id)'
    BY <1>2, PollSpeaks
  <2>2. ASSUME NEW x \in Coming \cup Leaving \cup removed PROVE Given(x)' /\ x[2] \in Nat
    <3>1. x[2] \in Nat /\ Given(x)
      BY <1>1 DEF Ids, FramesInv
    <3>2. QED
      BY <2>1, <3>1 DEF Given
  <2>3. ASSUME NEW x \in Coming' PROVE Given(x)'
    BY <1>1, <2>1, <2>2 DEF Given
  <2>4. ASSUME NEW x \in Leaving' PROVE Given(x)' /\ (x[1] = hostMaze' => Unused(x[2])')
    <3>1. CASE x \in Leaving
      <4>1. Given(x)' /\ x[2] \in Nat
        BY <2>2, <3>1
      <4>2. x[1] = hostMaze => x[2] < nextId /\ Unused(x[2])
        BY <3>1 DEF FramesInv, Given
      <4>3. QED
        BY <2>1, <4>1, <4>2
    <3>2. CASE x[1] = hostMaze /\ x[2] \in 1 .. nextId - 1 /\ Unused(x[2])' /\ x \notin Leaving
      <4>1. x[1] <= hostMaze'
        BY <1>1, <2>1, <3>2
      <4>2. x[2] < nextId'
        BY <1>1, <2>1, <3>2
      <4>3. QED
        BY <2>1, <3>2, <4>1, <4>2 DEF Given
    <3>3. QED
      BY <2>1, <3>1, <3>2
  <2>5. ASSUME NEW x \in removed, x[1] = hostMaze PROVE Unused(x[2])'
    BY <2>1, <2>2, <2>5 DEF FramesInv, Given
  <2>6. QED
    BY <2>1, <2>2, <2>3, <2>4, <2>5 DEF FramesInv
<1>3. CASE HostBeginMaze
  <2>1. hostMaze' = hostMaze + 1 /\ DOMAIN idOf' = {}
    BY <1>3 DEF HostBeginMaze
  <2>2. Coming' \cup Leaving' \cup removed' \subseteq Coming \cup Leaving \cup removed
    BY <1>3, NothingNew DEF HostBeginMaze, HostPoll
  <2>3. ASSUME NEW x \in Coming \cup Leaving \cup removed PROVE Given(x)'
    <3>1. x[1] \in Nat /\ x[1] <= hostMaze
      BY <1>1 DEF FramesInv, Given
    <3>2. QED
      BY <1>1, <2>1, <3>1 DEF Given
  <2>4. QED
    BY <2>1, <2>2, <2>3 DEF FramesInv, Unused
<1>4. CASE ~HostPoll /\ ~HostBeginMaze
  <2>1. UNCHANGED <<hostMaze, idOf, nextId>>
    BY <1>4 DEF Next, HostGame, DispatchEnemySpawn, DispatchEnemyDespawn, DispatchEnemyState,
         LoseEnemyState, ClientBeginMaze, ClientGame, ClientNeutralize, ClientDrain, vars, hostVars
  <2>2. Coming' \subseteq Coming /\ Leaving' \subseteq Leaving /\ removed' \subseteq removed \cup Leaving
    BY <1>4, NothingNew
  <2>3. QED
    BY <2>1, <2>2 DEF FramesInv, Given, Unused
<1>5. QED
  BY <1>2, <1>3, <1>4

LEMMA FramesHold == Spec => []FramesInv
<1>1. Init => FramesInv
  <2>1. SUFFICES ASSUME Init PROVE FramesInv
    OBVIOUS
  <2>2. wire = {} /\ inDespawn = {} /\ removed = {} /\ DOMAIN inSpawn = {} /\ DOMAIN puppet = {}
    BY <2>1 DEF Init, NoPuppets
  <2>3. Coming = {} /\ Leaving = {}
    BY <2>2 DEF Coming, Leaving, Queued, Shown
  <2>4. QED
    BY <2>2, <2>3 DEF FramesInv
<1>2. MemoryInv /\ FramesInv /\ [Next]_vars => FramesInv'
  BY FramesStep
<1>3. QED
  BY <1>1, <1>2, MemoryHolds, PTL DEF Spec

\* "host ids are monotonic" (dllmain.cpp): in every maze, no enemy has an id whose despawn
\* in that maze is on its way or was applied by the client, however enemies come and go and
\* share addresses and whatever frames of earlier mazes are still under way.
THEOREM GivesIdsOnce ==
  Spec => [](\A e \in DOMAIN idOf : <<hostMaze, idOf[e]>> \notin Leaving \cup removed)
<1>1. FramesInv => \A e \in DOMAIN idOf : <<hostMaze, idOf[e]>> \notin Leaving \cup removed
  <2>1. SUFFICES ASSUME FramesInv, NEW e \in DOMAIN idOf, NEW x \in Leaving \cup removed,
                        x = <<hostMaze, idOf[e]>>
                 PROVE  FALSE
    OBVIOUS
  <2>2. Unused(idOf[e])
    BY <2>1 DEF FramesInv
  <2>3. QED
    BY <2>2 DEF Unused
<1>2. QED
  BY <1>1, FramesHold, PTL

\* Every puppet stands for an enemy that the host has numbered, in the maze it numbered it
\* in, through late, deferred and retried spawns: the client makes none up.
THEOREM ShowsOnlyGiven == Spec => [](\A id \in DOMAIN puppet : Given(<<puppet[id].maze, id>>))
<1>1. FramesInv => \A id \in DOMAIN puppet : Given(<<puppet[id].maze, id>>)
  BY DEF FramesInv, Coming, Shown
<1>2. QED
  BY <1>1, FramesHold, PTL
=============================================================================
