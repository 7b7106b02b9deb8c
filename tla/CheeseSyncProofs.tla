-------------------------- MODULE CheeseSyncProofs --------------------------
(***************************************************************************)
(* Proofs about CheeseSync and the ids of CheeseIds, for any number of     *)
(* cheese and ids, any hash and any number of mazes.                       *)
(*                                                                         *)
(*   CountHolds        the inductive invariant of counting: the cheese of  *)
(*                     a registered id exists or the id is processed       *)
(*   EachCountsOnce    CountedOnce                                         *)
(*   TakerAnnounces    AnnouncedByTaker                                    *)
(*   SameCheeseSameId  SameIds, if no two cheese have one hash             *)
(*   OnlyTakenIsGone   CheeseInv in the first maze, if none have           *)
(*                                                                         *)
(* RegistryIsBuilt and LaterCheeseKeepIds say what buildCheeseRegistry     *)
(* computes for every hash and set of cheese, by induction over the cheese *)
(* in their order.  About the inputs of Algorithms:                        *)
(*                                                                         *)
(*   CheeseIdsSound    RegistryIsSound                                     *)
(*   PickupIdsUnique   EachPickupHasOneId                                  *)
(*   SamePickupSameId  PickupIdsAgree                                      *)
(***************************************************************************)
EXTENDS CheeseSync, Algorithms, SequenceTheorems, FiniteSetTheorems, WellFoundedInduction, TLAPS

\* Why the game counts a cheese once: the cheese of a registered id still exists or
\* the id is processed, and no cheese has two ids.  A registry is only ever built
\* with the hook armed, so no registered cheese is taken unobserved.  What the loop of
\* drainPickupReplays is yet to replay is registered and not processed, and the flag
\* that silences the hook is on exactly while it calls Interact.
Counted(p) ==
  /\ spawned[p] => maze[p] > 0 /\ eaten[p] = Cardinality(Cheese \ alive[p])
  /\ ~spawned[p] => alive[p] = {} /\ eaten[p] = 0 /\ registry[p] = NoIds
  /\ RegistryBuilt(p) => armed[p]
  /\ \A id, other \in DOMAIN registry[p] :
       registry[p][id] = registry[p][other] => id = other
  /\ \A id \in DOMAIN registry[p] : registry[p][id] \in alive[p] \/ id \in processed[p]
  /\ \A id \in replays[p] : id \in DOMAIN registry[p] /\ id \notin processed[p]
  /\ \A id \in calling[p] : id \in replays[p]
  /\ calling[p] # {} <=> replaying[p]

CountInv == TypeOK /\ \A p \in Peers : Counted(p)

\* Why a replay hits the cheese that was taken: every id on its way is the hash of a
\* cheese that a rat has taken, in a maze that rat has reached.
Caused(p) ==
  /\ \A id \in DOMAIN registry[p] : id = HashOf[registry[p][id]]
  /\ \A f \in wire[p] : f.id = HashOf[f.cheese]
  /\ \A id \in pendingReplay[p] \cup replays[p] :
       \E t \in taken : t.by \in Peers /\ id = HashOf[t.cheese]

InFirstMaze == \A p \in Peers : maze[p] <= 1

\* What p does: a step of Next is one of these.
Acts(p) ==
  \/ BeginMaze(p)
  \/ SpawnAllCheese(p)
  \/ \E c \in Cheese : LocalInteract(p, c)
  \/ \E late \in BOOLEAN : RatTick(p, late)
  \/ \E id \in Ids : StartReplay(p, id)
  \/ \E id \in Ids : ReplayInteract(p, id)
  \/ \E f \in wire[p] : DispatchPickupCollected(p, f)

CauseInv ==
  /\ CountInv
  /\ AnnouncedByTaker
  /\ \A p \in Peers : Caused(p)
  /\ \A t \in taken : t.maze <= maze[t.by]
  /\ InFirstMaze => NoGhostCheese

-----------------------------------------------------------------------------
(* Induction, as a fact about sets of numbers, and the remainder.          *)

LEMMA LeastNatural ==
  ASSUME NEW S \in SUBSET Nat, S # {}
  PROVE  \E m \in S : \A n \in S : m <= n
<1>1. PICK m \in S : \A n \in S : ~(<<n, m>> \in OpToRel(<, Nat))
  BY NatLessThanWellFounded, WFMin
<1>2. ASSUME NEW n \in S PROVE ~(n < m)
  BY <1>1 DEF OpToRel
<1>3. QED
  BY <1>2

LEMMA SetInduction ==
  ASSUME NEW S \in SUBSET Nat, 0 \in S, \A n \in S : n + 1 \in S
  PROVE  S = Nat
<1>1. SUFFICES ASSUME Nat \ S # {} PROVE FALSE
  OBVIOUS
<1>2. PICK m \in Nat \ S : \A n \in Nat \ S : m <= n
  BY <1>1, LeastNatural
<1>3. m # 0 /\ m - 1 \in Nat /\ m - 1 \in S
  BY <1>2
<1>4. QED
  BY <1>2, <1>3

LEMMA Division ==
  ASSUME NEW a \in Int, NEW m \in Nat \ {0}
  PROVE  /\ a % m \in 0 .. m - 1
         /\ a \div m \in Int
         /\ a = m * (a \div m) + (a % m)
BY Z3

LEMMA RemainderUnique ==
  ASSUME NEW m \in Nat \ {0}, NEW q \in Int, NEW r \in 0 .. m - 1
  PROVE  (m * q + r) % m = r
BY Z3

LEMMA RemainderOfSum ==
  ASSUME NEW m \in Nat \ {0}, NEW a \in Int, NEW b \in Int
  PROVE  (a + b) % m = (a + (b % m)) % m
<1>1. PICK q \in Int, r \in 0 .. m - 1 : b = m * q + r /\ b % m = r
  BY Division
<1>2. a + r \in Int
  OBVIOUS
<1>3. PICK s \in Int, t \in 0 .. m - 1 : a + r = m * s + t /\ (a + r) % m = t
  BY <1>2, Division
<1>4. a + b = m * (q + s) + t
  BY <1>1, <1>3, Z3
<1>5. q + s \in Int
  OBVIOUS
<1>6. (a + b) % m = t
  BY <1>4, <1>5, RemainderUnique
<1>7. QED
  BY <1>1, <1>3, <1>6

-----------------------------------------------------------------------------
(* Loops.  What a recursive function computes is proved in the form of the *)
(* loop it stands for: a run of k turns, each taking a state of a set to   *)
(* the next, exists, so the function that CHOOSE finds is that run.        *)

\* A loop of k turns that take a state of S to the next, and a run of it.
Turning(S, k, turn) == turn \in [1 .. k -> [S -> S]]

RunOf(S, k, start, turn, f) ==
  /\ f \in [0 .. k -> S]
  /\ f[0] = start
  /\ \A n \in 1 .. k : f[n] = turn[n][f[n - 1]]

\* A loop runs to its end: the recursion that describes it has a solution.
LEMMA LoopRuns ==
  ASSUME NEW S, NEW k \in Nat, NEW start \in S, NEW turn, Turning(S, k, turn)
  PROVE  \E f : RunOf(S, k, start, turn, f)
<1> DEFINE Ran(m) == {f \in [0 .. m -> S] : /\ f[0] = start
                                           /\ \A n \in 1 .. m : f[n] = turn[n][f[n - 1]]}
           T == {m \in Nat : m <= k => Ran(m) # {}}
<1> USE DEF Turning
<1>1. 0 \in T
  <2>1. [n \in 0 .. 0 |-> start] \in Ran(0)
    OBVIOUS
  <2>2. QED
    BY <2>1
<1>2. ASSUME NEW m \in T PROVE m + 1 \in T
  <2>1. SUFFICES ASSUME m + 1 <= k PROVE Ran(m + 1) # {}
    OBVIOUS
  <2>2. m \in Nat /\ m <= k /\ m + 1 \in 1 .. k
    BY <2>1
  <2>3. PICK f \in Ran(m) : TRUE
    BY <2>2
  <2>4. PICK g : g = [n \in 0 .. m + 1 |-> IF n = m + 1 THEN turn[m + 1][f[m]] ELSE f[n]]
    OBVIOUS
  <2>5. f \in [0 .. m -> S] /\ f[m] \in S /\ turn[m + 1][f[m]] \in S
    BY <2>2, <2>3
  <2>6. g \in [0 .. m + 1 -> S]
    <3>1. ASSUME NEW n \in 0 .. m + 1 PROVE (IF n = m + 1 THEN turn[m + 1][f[m]] ELSE f[n]) \in S
      <4>1. CASE n = m + 1
        BY <2>5, <4>1
      <4>2. CASE n # m + 1
        <5>1. n \in 0 .. m
          BY <2>2, <4>2
        <5>2. QED
          BY <2>5, <4>2, <5>1
      <4>3. QED
        BY <4>1, <4>2
    <3>2. QED
      BY <2>4, <3>1
  <2>7. g[0] = start
    BY <2>2, <2>3, <2>4
  <2>8. ASSUME NEW n \in 1 .. m + 1 PROVE g[n] = turn[n][g[n - 1]]
    <3>1. CASE n = m + 1
      <4>1. n - 1 = m /\ m \in 0 .. m + 1 /\ m # m + 1
        BY <2>2, <3>1
      <4>2. QED
        BY <2>4, <3>1, <4>1
    <3>2. CASE n # m + 1
      <4>1. n \in 1 .. m /\ n \in 0 .. m + 1 /\ n - 1 \in 0 .. m + 1 /\ n - 1 # m + 1
        BY <2>2, <3>2
      <4>2. g[n] = f[n] /\ g[n - 1] = f[n - 1]
        BY <2>4, <3>2, <4>1
      <4>3. QED
        BY <2>3, <4>1, <4>2
    <3>3. QED
      BY <3>1, <3>2
  <2>9. g \in Ran(m + 1)
    BY <2>6, <2>7, <2>8
  <2>10. QED
    BY <2>9
<1>3. T = Nat
  <2> HIDE DEF Ran
  <2>1. T \in SUBSET Nat
    OBVIOUS
  <2> HIDE DEF T
  <2>2. QED
    BY <1>1, <1>2, <2>1, SetInduction
<1>4. PICK f \in Ran(k) : TRUE
  <2> HIDE DEF Ran
  <2>1. k \in T
    BY <1>3
  <2>2. QED
    BY <2>1
<1>5. QED
  BY <1>4 DEF RunOf

\* A turn of a run.
LEMMA RunTurns ==
  ASSUME NEW S, NEW k \in Nat, NEW start, NEW turn, NEW f, RunOf(S, k, start, turn, f),
         NEW n \in 1 .. k
  PROVE  f[n] = turn[n][f[n - 1]] /\ f[n - 1] \in S
BY DEF RunOf

\* Induction over the turns.
LEMMA Turns ==
  ASSUME NEW T, NEW k \in Nat, 0 \in T, \A n \in 1 .. k : n - 1 \in T => n \in T
  PROVE  \A n \in 0 .. k : n \in T
<1> DEFINE U == {m \in Nat : m <= k => m \in T}
<1>1. 0 \in U
  OBVIOUS
<1>2. ASSUME NEW m \in U PROVE m + 1 \in U
  <2>1. SUFFICES ASSUME m + 1 <= k PROVE m + 1 \in T
    OBVIOUS
  <2>2. m + 1 \in 1 .. k /\ (m + 1) - 1 = m /\ m <= k
    BY <2>1
  <2>3. QED
    BY <2>2
<1>3. U = Nat
  <2>1. U \in SUBSET Nat
    OBVIOUS
  <2> HIDE DEF U
  <2>2. QED
    BY <1>1, <1>2, <2>1, SetInduction
<1>4. QED
  BY <1>3

\* What holds of the start, and after a turn if before it, holds after each turn.
LEMMA LoopKeeps ==
  ASSUME NEW S, NEW k \in Nat, NEW f, f[0] \in S, \A n \in 1 .. k : f[n - 1] \in S => f[n] \in S
  PROVE  \A n \in 0 .. k : f[n] \in S
<1> DEFINE T == {n \in 0 .. k : f[n] \in S}
<1>1. 0 \in T /\ \A n \in 1 .. k : n - 1 \in T => n \in T
  OBVIOUS
<1> HIDE DEF T
<1>2. \A n \in 0 .. k : n \in T
  BY <1>1, Turns
<1>3. QED
  BY <1>2 DEF T

-----------------------------------------------------------------------------
(* The ids of the cheese.                                                  *)

LEMMA IdsAreFinite == IsFiniteSet(Ids) /\ Cardinality(Ids) = IdSpace
<1>1. IdSpace - 1 \in Int /\ 0 \in Int
  BY IdsAssumption
<1>2. IsFiniteSet(0 .. IdSpace - 1)
      /\ Cardinality(0 .. IdSpace - 1) = IF 0 > IdSpace - 1 THEN 0 ELSE (IdSpace - 1) - 0 + 1
  BY <1>1, FS_Interval
<1>3. QED
  BY <1>2, IdsAssumption DEF Ids

\* The walk of a cheese passes every id.
LEMMA WalkReaches ==
  ASSUME NEW hash, NEW c, hash[c] \in Ids, NEW id \in Ids
  PROVE  \E g \in Ids : Walk(hash, c, g) = id
<1>1. PICK first : first = hash[c]
  OBVIOUS
<1>2. IdSpace \in Nat \ {0} /\ first \in 0 .. IdSpace - 1 /\ id \in 0 .. IdSpace - 1
  BY <1>1, IdsAssumption DEF Ids
<1>3. id - first \in Int /\ first \in Int /\ id \in Int
  BY <1>2
<1>4. (id - first) % IdSpace \in Ids
  BY <1>2, <1>3, Division DEF Ids
<1>5. PICK g \in Ids : (g * IdStep) % IdSpace = (id - first) % IdSpace
  BY <1>4, IdsAssumption
<1>6. PICK m \in Int : m = g * IdStep
  BY IdsAssumption DEF Ids
<1>7. (first + m) % IdSpace = (first + ((id - first) % IdSpace)) % IdSpace
  <2>1. m % IdSpace = (id - first) % IdSpace
    BY <1>5, <1>6, Zenon
  <2>2. (first + m) % IdSpace = (first + (m % IdSpace)) % IdSpace
    BY <1>2, <1>3, RemainderOfSum
  <2>3. QED
    BY <2>1, <2>2, Zenon
<1>8. @ = (first + (id - first)) % IdSpace
  BY <1>2, <1>3, RemainderOfSum
<1>9. first + (id - first) = id /\ IdSpace * 0 + id = id
  BY <1>2, <1>3
<1>10. (IdSpace * 0 + id) % IdSpace = id
  BY <1>2, RemainderUnique
<1>11. QED
  BY <1>1, <1>6, <1>7, <1>8, <1>9, <1>10 DEF Walk

\* As long as an id is free, the walk stops at the first free one.
LEMMA FreeIdIsFree ==
  ASSUME NEW hash, NEW c, hash[c] \in Ids, NEW used \in SUBSET Ids, used # Ids
  PROVE  /\ FreeId(hash, c, used) \in Ids \ used
         /\ hash[c] \notin used => FreeId(hash, c, used) = hash[c]
         /\ PassedIds(hash, c, FreeId(hash, c, used)) \subseteq used
<1> DEFINE free == {g \in Ids : Walk(hash, c, g) \notin used}
           First(g) == /\ Walk(hash, c, g) \notin used
                       /\ \A h \in 0 .. g - 1 : Walk(hash, c, h) \in used
<1>1. IdSpace \in Nat \ {0} /\ hash[c] \in 0 .. IdSpace - 1
  BY IdsAssumption DEF Ids
<1>2. free # {} /\ free \subseteq Nat
  <2>1. PICK id \in Ids : id \notin used
    OBVIOUS
  <2>2. \E g \in Ids : Walk(hash, c, g) = id
    BY WalkReaches
  <2>3. Ids \subseteq Nat
    BY <1>1 DEF Ids
  <2>4. QED
    BY <2>1, <2>2, <2>3
<1>3. PICK g \in free : \A h \in free : g <= h
  BY <1>2, LeastNatural
<1>4. \A h \in 0 .. g - 1 : h \in Ids /\ ~(g <= h)
  BY <1>1, <1>3 DEF Ids
<1>5. First(g) /\ g \in Ids
  BY <1>3, <1>4
<1>6. PICK k : k = CHOOSE h \in Ids : First(h)
  OBVIOUS
<1>7. k \in Ids /\ First(k) /\ FreeId(hash, c, used) = Walk(hash, c, k)
  BY <1>5, <1>6 DEF FreeId
<1>8. hash[c] + k * IdStep \in Int
  BY <1>1, <1>7, IdsAssumption DEF Ids
<1>9. Walk(hash, c, k) \in Ids
  BY <1>1, <1>8, Division DEF Walk, Ids
<1>10. Walk(hash, c, 0) = hash[c]
  <2>1. hash[c] + 0 * IdStep = IdSpace * 0 + hash[c]
    BY <1>1, IdsAssumption
  <2>2. QED
    BY <1>1, <2>1, RemainderUnique DEF Walk
<1>11. hash[c] \notin used => k = 0
  <2>1. k # 0 => 0 \in 0 .. k - 1
    BY <1>7 DEF Ids
  <2>2. QED
    BY <1>7, <1>10, <2>1
<1>12. ASSUME NEW h \in Ids, \A m \in 0 .. h : Walk(hash, c, m) # Walk(hash, c, k)
       PROVE  Walk(hash, c, h) \in used
  <2>1. k \in Nat /\ h \in Nat
    BY <1>1, <1>7 DEF Ids
  <2>2. k \notin 0 .. h
    BY <1>12
  <2>3. h \in 0 .. k - 1
    BY <2>1, <2>2
  <2>4. QED
    BY <1>7, <2>3
<1>13. PassedIds(hash, c, Walk(hash, c, k)) \subseteq used
  BY <1>12 DEF PassedIds
<1>14. QED
  BY <1>7, <1>9, <1>10, <1>11, <1>13

\* Of two ids one is passed on the walk to the other.
LEMMA WalkOrder ==
  ASSUME NEW hash, NEW c, hash[c] \in Ids, NEW a \in Ids, NEW b \in Ids, a # b
  PROVE  a \in PassedIds(hash, c, b) \/ b \in PassedIds(hash, c, a)
<1> DEFINE To(id) == {g \in Ids : Walk(hash, c, g) = id}
<1>1. IdSpace \in Nat
  BY IdsAssumption
<1>2. ASSUME NEW id \in Ids PROVE \E g \in To(id) : \A h \in To(id) : g <= h
  <2>1. To(id) # {} /\ To(id) \in SUBSET Nat
    BY <1>1, WalkReaches DEF Ids
  <2> HIDE DEF To
  <2>2. QED
    BY <2>1, LeastNatural
<1>3. PICK g \in To(a) : \A h \in To(a) : g <= h
  BY <1>2
<1>4. PICK h \in To(b) : \A m \in To(b) : h <= m
  BY <1>2
<1>5. ASSUME NEW id \in Ids, NEW m \in To(id), \A n \in To(id) : m <= n, NEW n \in Ids, n < m
      PROVE  \A k \in 0 .. n : Walk(hash, c, k) # id
  <2>1. SUFFICES ASSUME NEW k \in 0 .. n, Walk(hash, c, k) = id PROVE FALSE
    OBVIOUS
  <2>2. k \in Ids /\ ~(m <= k)
    BY <1>1, <1>5 DEF Ids
  <2>3. QED
    BY <1>5, <2>1, <2>2
<1>6. g \in Ids /\ h \in Ids /\ Walk(hash, c, g) = a /\ Walk(hash, c, h) = b
  OBVIOUS
<1>7. g < h \/ h < g
  BY <1>1, <1>6 DEF Ids
<1>8. CASE g < h
  <2>1. \A k \in 0 .. g : Walk(hash, c, k) # b
    BY <1>4, <1>5, <1>6, <1>8
  <2>2. QED
    BY <1>6, <2>1 DEF PassedIds
<1>9. CASE h < g
  <2>1. \A k \in 0 .. h : Walk(hash, c, k) # a
    BY <1>3, <1>5, <1>6, <1>9
  <2>2. QED
    BY <1>6, <2>1 DEF PassedIds
<1>10. QED
  BY <1>7, <1>8, <1>9

\* A turn of the loop of buildCheeseRegistry: the ids after the n-th cheese.
Extended(hash, found, ids, n) ==
  IF n \in found THEN Named(ids, n, FreeId(hash, n, DOMAIN ids)) ELSE ids

Turn(hash, found, f, n) == IF n = 0 THEN NoIds ELSE Extended(hash, found, f[n - 1], n)

\* The loop has a result: the recursion is well defined.
LEMMA LoopExists ==
  ASSUME NEW hash, NEW found, NEW k \in Nat
  PROVE  \E f : f = [n \in 0 .. k |-> Turn(hash, found, f, n)]
<1> DEFINE S == {m \in Nat : \E f : f = [n \in 0 .. m |-> Turn(hash, found, f, n)]}
<1>1. 0 \in S
  <2>1. PICK f : f = [n \in 0 .. 0 |-> NoIds]
    OBVIOUS
  <2>2. f = [n \in 0 .. 0 |-> Turn(hash, found, f, n)]
    BY <2>1 DEF Turn
  <2>3. QED
    BY <2>2
<1>2. ASSUME NEW m \in S PROVE m + 1 \in S
  <2>1. PICK f : f = [n \in 0 .. m |-> Turn(hash, found, f, n)]
    OBVIOUS
  <2>2. PICK g : g = [n \in 0 .. m + 1 |->
                        IF n = m + 1 THEN Extended(hash, found, f[m], m + 1) ELSE f[n]]
    OBVIOUS
  <2>3. ASSUME NEW n \in 0 .. m + 1 PROVE g[n] = Turn(hash, found, g, n)
    <3>1. CASE n = m + 1
      <4>1. g[n] = Extended(hash, found, f[m], m + 1) /\ n # 0
        BY <2>2, <3>1
      <4>2. n - 1 = m /\ m \in 0 .. m + 1 /\ m # m + 1
        BY <3>1
      <4>3. g[m] = f[m]
        BY <2>2, <4>2
      <4>4. QED
        BY <3>1, <4>1, <4>2, <4>3 DEF Turn
    <3>2. CASE n # m + 1
      <4>1. n \in 0 .. m
        BY <3>2
      <4>2. g[n] = f[n] /\ f[n] = Turn(hash, found, f, n)
        BY <2>1, <2>2, <3>2, <4>1
      <4>3. n # 0 => g[n - 1] = f[n - 1]
        BY <2>2, <4>1
      <4>4. QED
        BY <4>2, <4>3 DEF Turn
    <3>3. QED
      BY <3>1, <3>2
  <2>4. g = [n \in 0 .. m + 1 |-> g[n]]
    BY <2>2
  <2>5. g = [n \in 0 .. m + 1 |-> Turn(hash, found, g, n)]
    BY <2>3, <2>4
  <2>6. QED
    BY <2>5
<1> HIDE DEF S
<1>3. S = Nat
  <2>1. S \in SUBSET Nat
    BY DEF S
  <2>2. QED
    BY <1>1, <1>2, <2>1, SetInduction
<1>4. QED
  BY <1>3 DEF S

LEMMA RegistryOfIsLast ==
  ASSUME NEW hash, NEW found
  PROVE  \E f : /\ \A n \in 0 .. NumCheese : f[n] = Turn(hash, found, f, n)
                /\ RegistryOf(hash, found) = f[NumCheese]
<1>1. RegistryOf(hash, found) =
        (CHOOSE f : f = [n \in 0 .. NumCheese |-> Turn(hash, found, f, n)])[NumCheese]
  BY DEF RegistryOf, Turn, Extended
<1>2. \E f : f = [n \in 0 .. NumCheese |-> Turn(hash, found, f, n)]
  BY LoopExists, IdsAssumption
<1>3. PICK f : /\ f = (CHOOSE g : g = [n \in 0 .. NumCheese |-> Turn(hash, found, g, n)])
               /\ f = [n \in 0 .. NumCheese |-> Turn(hash, found, f, n)]
  BY <1>2
<1>4. \A n \in 0 .. NumCheese : f[n] = Turn(hash, found, f, n)
  BY <1>3
<1>5. QED
  BY <1>1, <1>3, <1>4

\* What the loop has built after the n-th cheese.
Built(hash, found, ids, n) ==
  /\ DOMAIN ids \in SUBSET Ids
  /\ ids = [id \in DOMAIN ids |-> ids[id]]
  /\ \A id \in DOMAIN ids : ids[id] \in found /\ ids[id] <= n
  /\ \A c \in found : c <= n => \E id \in DOMAIN ids : ids[id] = c
  /\ \A id, other \in DOMAIN ids : ids[id] = ids[other] => id = other

\* No two cheese have the same hash: the case in which no id is walked past.
NoCollision(hash) == \A b, c \in Cheese : hash[b] = hash[c] => b = c

HashNamed(hash, ids) == \A id \in DOMAIN ids : id = hash[ids[id]]

\* The ids a cheese is walked past belong to cheese before it.
Walked(hash, ids) ==
  \A id \in DOMAIN ids : \A passed \in PassedIds(hash, ids[id], id) :
    passed \in DOMAIN ids /\ ids[passed] < ids[id]

\* While less than all cheese are named an id is free.
LEMMA AnIdIsFree ==
  ASSUME NEW hash, NEW found \in SUBSET Cheese, NEW n \in Cheese,
         NEW ids, Built(hash, found, ids, n - 1)
  PROVE  DOMAIN ids # Ids
<1>1. n \in Nat /\ n >= 1 /\ n <= NumCheese /\ NumCheese \in Nat /\ NumCheese <= IdSpace
  BY IdsAssumption DEF Cheese
<1>2. n - 1 \in Int /\ IsFiniteSet(1 .. n - 1) /\ Cardinality(1 .. n - 1) = n - 1
  <2>1. n - 1 \in Int
    BY <1>1
  <2>2. IsFiniteSet(1 .. n - 1)
        /\ Cardinality(1 .. n - 1) = IF 1 > n - 1 THEN 0 ELSE (n - 1) - 1 + 1
    BY <2>1, FS_Interval
  <2>3. QED
    BY <1>1, <2>1, <2>2
<1>3. ids \in Injection(DOMAIN ids, 1 .. n - 1)
  <2>1. \A id \in DOMAIN ids : ids[id] \in 1 .. n - 1
    BY <1>1 DEF Built, Cheese
  <2>2. QED
    BY <2>1 DEF Built, Injection, IsInjective
<1>4. Cardinality(DOMAIN ids) <= n - 1
  BY <1>2, <1>3, FS_Injection
<1>5. QED
  <2>1. SUFFICES ASSUME DOMAIN ids = Ids PROVE FALSE
    OBVIOUS
  <2>2. IdSpace <= n - 1
    BY <1>4, <2>1, IdsAreFinite
  <2>3. QED
    BY <1>1, <2>2, IdsAssumption

LEMMA TurnNames ==
  ASSUME NEW hash \in [Cheese -> Ids], NEW found \in SUBSET Cheese, NEW n \in Cheese,
         NEW ids, Built(hash, found, ids, n - 1)
  PROVE  /\ Built(hash, found, Extended(hash, found, ids, n), n)
         /\ NoCollision(hash) /\ HashNamed(hash, ids)
              => HashNamed(hash, Extended(hash, found, ids, n))
         /\ Walked(hash, ids) => Walked(hash, Extended(hash, found, ids, n))
<1>1. n \in Int /\ found \subseteq Int
  BY DEF Cheese
<1>2. CASE n \notin found
  <2>1. \A c \in found : c <= n <=> c <= n - 1
    BY <1>1, <1>2
  <2>2. \A id \in DOMAIN ids : ids[id] \in found /\ ids[id] <= n
    BY <2>1 DEF Built
  <2>3. QED
    BY <1>2, <2>1, <2>2 DEF Built, Extended
<1>3. CASE n \in found
  <2>1. PICK free : free = FreeId(hash, n, DOMAIN ids)
    OBVIOUS
  <2>2. DOMAIN ids # Ids /\ DOMAIN ids \in SUBSET Ids
    BY AnIdIsFree DEF Built
  <2>3. /\ free \in Ids \ DOMAIN ids
        /\ hash[n] \notin DOMAIN ids => free = hash[n]
        /\ PassedIds(hash, n, free) \subseteq DOMAIN ids
    BY <2>1, <2>2, FreeIdIsFree
  <2>4. PICK next : next = [id \in {free} \cup DOMAIN ids |-> IF id = free THEN n ELSE ids[id]]
    OBVIOUS
  <2>5. Extended(hash, found, ids, n) = next
    BY <1>3, <2>1, <2>4 DEF Extended, Named
  <2>6. /\ DOMAIN next = {free} \cup DOMAIN ids
        /\ next[free] = n
        /\ \A id \in DOMAIN ids : next[id] = ids[id]
    BY <2>3, <2>4
  <2>7. \A id \in DOMAIN ids : ids[id] \in found /\ ids[id] <= n - 1
    BY DEF Built
  <2>8. \A id \in DOMAIN ids : ids[id] # n
    BY <1>1, <2>7
  <2>9. Built(hash, found, next, n)
    <3>1. DOMAIN next \in SUBSET Ids
      BY <2>2, <2>3, <2>6
    <3>2. next = [id \in DOMAIN next |-> next[id]]
      BY <2>4
    <3>3. \A id \in DOMAIN next : next[id] \in found /\ next[id] <= n
      <4>1. n <= n /\ \A c \in found : c <= n - 1 => c <= n
        BY <1>1
      <4>2. QED
        BY <1>1, <1>3, <2>6, <2>7, <4>1
    <3>4. \A c \in found : c <= n => \E id \in DOMAIN next : next[id] = c
      <4>1. SUFFICES ASSUME NEW c \in found, c <= n PROVE \E id \in DOMAIN next : next[id] = c
        OBVIOUS
      <4>2. CASE c = n
        BY <2>6, <4>2
      <4>3. CASE c # n
        <5>1. c <= n - 1
          BY <1>1, <4>1, <4>3
        <5>2. PICK id \in DOMAIN ids : ids[id] = c
          BY <5>1 DEF Built
        <5>3. QED
          BY <2>6, <5>2
      <4>4. QED
        BY <4>2, <4>3
    <3>5. \A id, other \in DOMAIN next : next[id] = next[other] => id = other
      <4>1. \A id, other \in DOMAIN ids : ids[id] = ids[other] => id = other
        BY DEF Built
      <4>2. QED
        BY <2>6, <2>8, <4>1
    <3>6. QED
      BY <3>1, <3>2, <3>3, <3>4, <3>5 DEF Built
  <2>10. NoCollision(hash) /\ HashNamed(hash, ids) => HashNamed(hash, next)
    <3>1. SUFFICES ASSUME NoCollision(hash), HashNamed(hash, ids)
                   PROVE  HashNamed(hash, next)
      OBVIOUS
    <3>2. hash[n] \notin DOMAIN ids
      <4>1. SUFFICES ASSUME hash[n] \in DOMAIN ids PROVE FALSE
        OBVIOUS
      <4>2. hash[n] = hash[ids[hash[n]]] /\ ids[hash[n]] \in Cheese
        BY <2>7, <3>1, <4>1 DEF HashNamed
      <4>3. ids[hash[n]] = n
        BY <3>1, <4>2 DEF NoCollision
      <4>4. QED
        BY <2>8, <4>1, <4>3
    <3>3. QED
      BY <2>3, <2>6, <3>1, <3>2 DEF HashNamed
  <2>11. Walked(hash, ids) => Walked(hash, next)
    <3>1. SUFFICES ASSUME Walked(hash, ids), NEW id \in DOMAIN next,
                          NEW passed \in PassedIds(hash, next[id], id)
                   PROVE  passed \in DOMAIN next /\ next[passed] < next[id]
      BY DEF Walked
    <3>2. CASE id = free
      <4>1. passed \in DOMAIN ids
        BY <2>3, <2>6, <3>2
      <4>2. ids[passed] <= n - 1 /\ ids[passed] \in Int
        BY <1>1, <2>7, <4>1
      <4>3. QED
        BY <1>1, <2>6, <3>2, <4>1, <4>2
    <3>3. CASE id # free
      <4>1. id \in DOMAIN ids /\ next[id] = ids[id]
        BY <2>6, <3>3
      <4>2. passed \in DOMAIN ids /\ ids[passed] < ids[id]
        BY <3>1, <4>1 DEF Walked
      <4>3. QED
        BY <2>6, <4>1, <4>2
    <3>4. QED
      BY <3>2, <3>3
  <2>12. QED
    BY <2>5, <2>9, <2>10, <2>11
<1>4. QED
  BY <1>2, <1>3

\* The loop of RegistryOf, turn by turn.
IsLoop(hash, found, f) == \A n \in 0 .. NumCheese : f[n] = Turn(hash, found, f, n)

LEMMA LoopBuilds ==
  ASSUME NEW hash \in [Cheese -> Ids], NEW found \in SUBSET Cheese,
         NEW f, IsLoop(hash, found, f)
  PROVE  \A n \in 0 .. NumCheese : /\ Built(hash, found, f[n], n)
                                   /\ NoCollision(hash) => HashNamed(hash, f[n])
                                   /\ Walked(hash, f[n])
<1> DEFINE Good(n) == /\ Built(hash, found, f[n], n)
                      /\ NoCollision(hash) => HashNamed(hash, f[n])
                      /\ Walked(hash, f[n])
           S == {n \in Nat : n <= NumCheese => Good(n)}
<1>1. \A n \in 0 .. NumCheese : f[n] = Turn(hash, found, f, n)
  BY DEF IsLoop
<1>2. NumCheese \in Nat
  BY IdsAssumption
<1>3. Good(0)
  <2>1. f[0] = NoIds
    BY <1>1, <1>2 DEF Turn
  <2>2. DOMAIN NoIds = {} /\ NoIds = [id \in {} |-> id]
    BY DEF NoIds
  <2>3. \A c \in found : ~(c <= 0)
    BY DEF Cheese
  <2>4. Built(hash, found, NoIds, 0)
    BY <2>2, <2>3 DEF Built
  <2>5. HashNamed(hash, NoIds) /\ Walked(hash, NoIds)
    BY <2>2 DEF HashNamed, Walked
  <2>6. QED
    BY <2>1, <2>4, <2>5
<1>4. ASSUME NEW n \in S PROVE n + 1 \in S
  <2>1. SUFFICES ASSUME n + 1 <= NumCheese PROVE Good(n + 1)
    OBVIOUS
  <2>2. n + 1 \in Cheese /\ (n + 1) - 1 = n /\ n <= NumCheese
    BY <1>2, <2>1 DEF Cheese
  <2>3. Good(n)
    BY <2>2
  <2>4. f[n + 1] = Extended(hash, found, f[n], n + 1)
    BY <1>1, <1>2, <2>1, <2>2 DEF Turn
  <2>5. QED
    BY <2>2, <2>3, <2>4, TurnNames
<1>5. S = Nat
  <2> HIDE DEF Good
  <2>1. 0 \in S
    BY <1>3
  <2> HIDE DEF S
  <2>2. S \in SUBSET Nat
    BY DEF S
  <2>3. QED
    BY <1>4, <2>1, <2>2, SetInduction
<1>6. QED
  BY <1>2, <1>5

\* What buildCheeseRegistry returns: an id for every cheese found and for no other,
\* no cheese twice; without a collision the id of a cheese is its hash, and the ids it
\* is walked past belong to cheese before it.
THEOREM RegistryIsBuilt ==
  ASSUME NEW hash \in [Cheese -> Ids], NEW found \in SUBSET Cheese
  PROVE  /\ Built(hash, found, RegistryOf(hash, found), NumCheese)
         /\ NoCollision(hash) => HashNamed(hash, RegistryOf(hash, found))
         /\ Walked(hash, RegistryOf(hash, found))
<1>1. PICK f : IsLoop(hash, found, f) /\ RegistryOf(hash, found) = f[NumCheese]
  BY RegistryOfIsLast DEF IsLoop
<1>2. NumCheese \in 0 .. NumCheese
  BY IdsAssumption
<1>3. QED
  BY <1>1, <1>2, LoopBuilds

\* A peer that finds more cheese behind c gives the same ids to c and to those before it:
\* an id depends on the cheese that come earlier in position order alone.
THEOREM LaterCheeseKeepIds ==
  ASSUME NEW hash \in [Cheese -> Ids], NEW found \in SUBSET Cheese, NEW c \in Cheese
  PROVE  LET before == RegistryOf(hash, found \cap (1 .. c))
         IN \A id \in DOMAIN before :
              id \in DOMAIN RegistryOf(hash, found) /\ RegistryOf(hash, found)[id] = before[id]
<1> DEFINE some == found \cap (1 .. c)
<1>1. PICK f : IsLoop(hash, found, f) /\ RegistryOf(hash, found) = f[NumCheese]
  BY RegistryOfIsLast DEF IsLoop
<1>2. PICK g : IsLoop(hash, some, g) /\ RegistryOf(hash, some) = g[NumCheese]
  BY RegistryOfIsLast DEF IsLoop
<1> DEFINE Keeps(n) == \A id \in DOMAIN g[n] : id \in DOMAIN f[n] /\ f[n][id] = g[n][id]
           Good(n) == (n <= c => f[n] = g[n]) /\ Keeps(n)
           S == {n \in Nat : n <= NumCheese => Good(n)}
<1>3. NumCheese \in Nat /\ c \in Nat /\ c >= 1
  BY IdsAssumption DEF Cheese
<1>4. f[0] = NoIds /\ g[0] = NoIds
  BY <1>1, <1>2, <1>3 DEF IsLoop, Turn
<1>5. ASSUME NEW n \in S PROVE n + 1 \in S
  <2>1. SUFFICES ASSUME n + 1 <= NumCheese PROVE Good(n + 1)
    OBVIOUS
  <2>2. n + 1 \in Cheese /\ (n + 1) - 1 = n /\ n \in 0 .. NumCheese /\ n + 1 \in 0 .. NumCheese
    BY <1>3, <2>1 DEF Cheese
  <2>3. Good(n)
    BY <2>2
  <2>4. /\ f[n + 1] = Extended(hash, found, f[n], n + 1)
        /\ g[n + 1] = Extended(hash, some, g[n], n + 1)
    BY <1>1, <1>2, <2>2 DEF IsLoop, Turn
  <2>5. CASE n + 1 <= c
    <3>1. n <= c /\ (n + 1 \in some <=> n + 1 \in found)
      BY <1>3, <2>5
    <3>2. f[n + 1] = g[n + 1]
      BY <2>3, <2>4, <3>1 DEF Extended
    <3>3. QED
      BY <3>2
  <2>6. CASE ~(n + 1 <= c)
    <3>1. n + 1 \notin some
      BY <1>3, <2>6
    <3>2. g[n + 1] = g[n]
      BY <2>4, <3>1 DEF Extended
    <3>3. CASE n + 1 \notin found
      BY <2>3, <2>4, <2>6, <3>2, <3>3 DEF Extended
    <3>4. CASE n + 1 \in found
      <4>1. PICK free : free = FreeId(hash, n + 1, DOMAIN f[n])
        OBVIOUS
      <4>2. Built(hash, found, f[n], (n + 1) - 1)
        BY <1>1, <2>2, LoopBuilds
      <4>3. DOMAIN f[n] # Ids /\ DOMAIN f[n] \in SUBSET Ids
        <5>1. DOMAIN f[n] # Ids
          BY <2>2, <4>2, AnIdIsFree
        <5>2. QED
          BY <4>2, <5>1 DEF Built
      <4>4. free \notin DOMAIN f[n]
        BY <2>2, <4>1, <4>3, FreeIdIsFree
      <4>5. f[n + 1] = [i \in DOMAIN f[n] \cup {free} |-> IF i = free THEN n + 1 ELSE f[n][i]]
        BY <2>4, <3>4, <4>1 DEF Extended, Named
      <4>6. \A id \in DOMAIN f[n] : id \in DOMAIN f[n + 1] /\ f[n + 1][id] = f[n][id]
        BY <4>4, <4>5
      <4>7. QED
        BY <2>3, <2>6, <3>2, <4>6
    <3>5. QED
      BY <3>3, <3>4
  <2>7. QED
    BY <2>5, <2>6
<1>6. S = Nat
  <2>1. 0 \in S
    BY <1>4 DEF NoIds
  <2> HIDE DEF S
  <2>2. S \in SUBSET Nat
    BY DEF S
  <2>3. QED
    BY <1>5, <2>1, <2>2, SetInduction
<1>7. Keeps(NumCheese)
  BY <1>3, <1>6
<1>8. QED
  BY <1>1, <1>2, <1>7

\* No two registries of the same cheese are built this way.
LEMMA OneRegistry ==
  ASSUME NEW hash \in [Cheese -> Ids], NEW some \in SUBSET Cheese, NEW A, NEW B,
         Built(hash, some, A, NumCheese), Walked(hash, A),
         Built(hash, some, B, NumCheese), Walked(hash, B)
  PROVE  A = B
<1>1. /\ DOMAIN A \in SUBSET Ids /\ DOMAIN B \in SUBSET Ids
      /\ \A id \in DOMAIN A : A[id] \in some
      /\ \A id \in DOMAIN B : B[id] \in some
      /\ \A id, other \in DOMAIN A : A[id] = A[other] => id = other
      /\ \A id, other \in DOMAIN B : B[id] = B[other] => id = other
  BY DEF Built
<1>2. \A c \in some : c <= NumCheese
  BY IdsAssumption DEF Cheese
<1>3. \A c \in some : /\ \E id \in DOMAIN A : A[id] = c
                     /\ \E id \in DOMAIN B : B[id] = c
  BY <1>2 DEF Built
<1> DEFINE Differs(c) == \E a \in DOMAIN A, b \in DOMAIN B : A[a] = c /\ B[b] = c /\ a # b
           D == {c \in some : Differs(c)}
<1>4. D = {}
  <2>1. SUFFICES ASSUME D # {} PROVE FALSE
    OBVIOUS
  <2>2. some \subseteq Nat /\ D \in SUBSET Nat
    <3>1. some \subseteq Nat
      BY DEF Cheese
    <3>2. QED
      BY <3>1
  <2>3. PICK c \in D : \A d \in D : c <= d
    <3> HIDE DEF D
    <3>1. QED
      BY <2>1, <2>2, LeastNatural
  <2>4. PICK a \in DOMAIN A, b \in DOMAIN B : A[a] = c /\ B[b] = c /\ a # b
    OBVIOUS
  <2>5. c \in Nat /\ hash[c] \in Ids
    BY <2>2 DEF Cheese
  <2>6. \A d \in some : d < c => ~Differs(d)
    <3>1. \A d \in some : d \in Int
      BY DEF Cheese
    <3>2. QED
      BY <2>3, <2>5, <3>1
  <2>7. CASE a \in PassedIds(hash, c, b)
    <3>1. a \in DOMAIN B /\ B[a] < c
      BY <2>4, <2>7 DEF Walked
    <3>2. PICK i \in DOMAIN A : A[i] = B[a]
      BY <1>1, <1>3, <3>1
    <3>3. B[a] \in some /\ B[a] # c
      BY <1>1, <2>2, <2>5, <3>1
    <3>4. ~Differs(B[a])
      BY <2>6, <3>1, <3>3
    <3>5. i = a
      BY <3>1, <3>2, <3>4
    <3>6. QED
      BY <2>4, <3>2, <3>3, <3>5
  <2>8. CASE b \in PassedIds(hash, c, a)
    <3>1. b \in DOMAIN A /\ A[b] < c
      BY <2>4, <2>8 DEF Walked
    <3>2. PICK i \in DOMAIN B : B[i] = A[b]
      BY <1>1, <1>3, <3>1
    <3>3. A[b] \in some /\ A[b] # c
      BY <1>1, <2>2, <2>5, <3>1
    <3>4. ~Differs(A[b])
      BY <2>6, <3>1, <3>3
    <3>5. i = b
      BY <3>1, <3>2, <3>4
    <3>6. QED
      BY <2>4, <3>2, <3>3, <3>5
  <2>9. QED
    BY <1>1, <2>4, <2>5, <2>7, <2>8, WalkOrder
<1>5. /\ \A a \in DOMAIN A : a \in DOMAIN B /\ B[a] = A[a]
      /\ \A b \in DOMAIN B : b \in DOMAIN A
  BY <1>1, <1>3, <1>4
<1>6. A = [id \in DOMAIN A |-> A[id]] /\ B = [id \in DOMAIN B |-> B[id]]
  BY DEF Built
<1>7. QED
  BY <1>5, <1>6

\* A peer that lacks some cheese gives the others the same ids exactly if none of them was
\* walked past the id of a cheese it lacks.
THEOREM MissingCheeseKeepIds ==
  ASSUME NEW hash \in [Cheese -> Ids], NEW found \in SUBSET Cheese, NEW some \in SUBSET found
  PROVE  NoneInTheWay(hash, RegistryOf(hash, found), some) <=>
           RegistryOf(hash, some)
             = Restrict(RegistryOf(hash, found),
                        {id \in DOMAIN RegistryOf(hash, found) :
                           RegistryOf(hash, found)[id] \in some})
<1>1. PICK all : all = RegistryOf(hash, found)
  OBVIOUS
<1>2. PICK few : few = RegistryOf(hash, some)
  OBVIOUS
<1>3. PICK kept : kept = {id \in DOMAIN all : all[id] \in some}
  OBVIOUS
<1>4. PICK part : part = [id \in kept |-> all[id]]
  OBVIOUS
<1>5. some \in SUBSET Cheese
  OBVIOUS
<1>6. /\ Built(hash, found, all, NumCheese) /\ Walked(hash, all)
      /\ Built(hash, some, few, NumCheese) /\ Walked(hash, few)
  BY <1>1, <1>2, <1>5, RegistryIsBuilt
<1>7. /\ DOMAIN part = kept
      /\ \A id \in kept : id \in DOMAIN all /\ part[id] = all[id] /\ all[id] \in some
  BY <1>3, <1>4
<1>8. ASSUME NoneInTheWay(hash, all, some) PROVE few = part
  <2>1. Built(hash, some, part, NumCheese)
    <3>1. DOMAIN part \in SUBSET Ids /\ part = [id \in DOMAIN part |-> part[id]]
      BY <1>4, <1>6, <1>7 DEF Built
    <3>2. \A id \in DOMAIN part : part[id] \in some /\ part[id] <= NumCheese
      BY <1>6, <1>7 DEF Built
    <3>3. \A c \in some : c <= NumCheese => \E id \in DOMAIN part : part[id] = c
      <4>1. SUFFICES ASSUME NEW c \in some, c <= NumCheese
                     PROVE  \E id \in DOMAIN part : part[id] = c
        OBVIOUS
      <4>2. PICK id \in DOMAIN all : all[id] = c
        BY <1>6, <4>1 DEF Built
      <4>3. id \in kept
        BY <1>3, <4>2
      <4>4. QED
        BY <1>7, <4>2, <4>3
    <3>4. \A id, other \in DOMAIN part : part[id] = part[other] => id = other
      BY <1>6, <1>7 DEF Built
    <3>5. QED
      BY <3>1, <3>2, <3>3, <3>4 DEF Built
  <2>2. Walked(hash, part)
    <3>1. SUFFICES ASSUME NEW id \in kept, NEW passed \in PassedIds(hash, all[id], id)
                   PROVE  passed \in kept /\ part[passed] < part[id]
      BY <1>7 DEF Walked
    <3>2. passed \in DOMAIN all /\ all[passed] < all[id]
      BY <1>6, <1>7 DEF Walked
    <3>3. all[passed] \in some
      BY <1>7, <1>8 DEF NoneInTheWay
    <3>4. QED
      BY <1>3, <1>7, <3>2, <3>3
  <2>3. QED
    BY <1>5, <1>6, <2>1, <2>2, OneRegistry
<1>9. ASSUME few = part PROVE NoneInTheWay(hash, all, some)
  <2>1. SUFFICES ASSUME NEW id \in DOMAIN all, all[id] \in some,
                        NEW passed \in PassedIds(hash, all[id], id)
                 PROVE  all[passed] \in some
    BY DEF NoneInTheWay
  <2>2. id \in DOMAIN few /\ few[id] = all[id]
    BY <1>3, <1>7, <1>9, <2>1
  <2>3. passed \in DOMAIN few
    BY <1>6, <2>1, <2>2 DEF Walked
  <2>4. QED
    BY <1>7, <1>9, <2>3
<1>10. QED
  BY <1>1, <1>2, <1>3, <1>4, <1>8, <1>9 DEF Restrict

LEMMA RegistryIsTyped ==
  ASSUME NEW found \in SUBSET Cheese
  PROVE  /\ RegistryOf(HashOf, found) \in Registries
         /\ found = {} => RegistryOf(HashOf, found) = NoIds
         /\ NoIds \in Registries
<1>1. PICK ids : ids = RegistryOf(HashOf, found)
  OBVIOUS
<1>2. Built(HashOf, found, ids, NumCheese)
  BY <1>1, RegistryIsBuilt, SyncAssumption
<1>3. ids \in [DOMAIN ids -> Cheese] /\ DOMAIN ids \in SUBSET Ids
  BY <1>2 DEF Built
<1>4. found = {} => ids = [id \in {} |-> ids[id]]
  <2>1. found = {} => DOMAIN ids = {}
    BY <1>2 DEF Built
  <2>2. QED
    BY <1>2, <2>1 DEF Built
<1>5. NoIds = [id \in {} |-> ids[id]] /\ NoIds \in [{} -> Cheese]
  BY DEF NoIds
<1>6. QED
  BY <1>1, <1>3, <1>4, <1>5 DEF Registries
-----------------------------------------------------------------------------
(* Counting.                                                               *)

LEMMA CheeseIsFinite ==
  /\ IsFiniteSet(Cheese)
  /\ \A S \in SUBSET Cheese : IsFiniteSet(S) /\ Cardinality(S) \in Nat
<1>1. NumCheese \in Int /\ 1 \in Int
  BY IdsAssumption
<1>2. IsFiniteSet(Cheese)
  BY <1>1, FS_Interval DEF Cheese
<1>3. QED
  BY <1>2, FS_Subset, FS_CardinalityType

\* Cheese that go one after the other or together are counted alike.
LEMMA GoneAdds ==
  ASSUME NEW left \in SUBSET Cheese, NEW gone \in SUBSET left
  PROVE  Cardinality(Cheese \ (left \ gone)) = Cardinality(Cheese \ left) + Cardinality(gone)
<1>1. /\ IsFiniteSet(Cheese \ left) /\ Cardinality(Cheese \ left) \in Nat
      /\ IsFiniteSet(gone) /\ Cardinality(gone) \in Nat
  BY CheeseIsFinite
<1>2. Cheese \ (left \ gone) = (Cheese \ left) \cup gone /\ (Cheese \ left) \cap gone = {}
  OBVIOUS
<1>3. Cardinality((Cheese \ left) \cup gone) =
        Cardinality(Cheese \ left) + Cardinality(gone) - Cardinality((Cheese \ left) \cap gone)
  BY <1>1, FS_Union
<1>4. Cardinality({}) = 0
  BY FS_EmptySet
<1>5. PICK m \in Nat, n \in Nat : m = Cardinality(Cheese \ left) /\ n = Cardinality(gone)
  BY <1>1
<1>6. Cardinality((Cheese \ left) \cap gone) = 0
  BY <1>2, <1>4
<1>7. Cardinality((Cheese \ left) \cup gone) = m + n
  BY <1>3, <1>5, <1>6
<1>8. QED
  BY <1>2, <1>5, <1>7

LEMMA CountsOne ==
  ASSUME NEW left \in SUBSET Cheese, NEW c \in left
  PROVE  Cardinality(Cheese \ (left \ {c})) = Cardinality(Cheese \ left) + 1
<1>1. {c} \in SUBSET left
  OBVIOUS
<1>2. Cardinality(Cheese \ (left \ {c})) = Cardinality(Cheese \ left) + Cardinality({c})
  BY <1>1, GoneAdds
<1>3. Cardinality({c}) = 1
  BY FS_Singleton
<1>4. QED
  BY <1>2, <1>3

\* What the hooks know of the ids: a registered cheese exists or is processed.
LEMMA KnownIds ==
  ASSUME CountInv, NEW p \in Peers, NEW ids,
         ids = registry[p] \/ ids = RegistryOf(HashOf, alive[p])
  PROVE  /\ ids \in Registries
         /\ DOMAIN ids \in SUBSET Ids
         /\ \A id \in DOMAIN ids : ids[id] \in Cheese
         /\ \A id, other \in DOMAIN ids : ids[id] = ids[other] => id = other
         /\ \A id \in DOMAIN ids : ids[id] \in alive[p] \/ id \in processed[p]
         /\ ids # NoIds => armed[p] \/ alive[p] # {}
         /\ ~spawned[p] => ids = NoIds
<1>1. alive[p] \in SUBSET Cheese /\ registry[p] \in Registries /\ Counted(p)
  BY DEF CountInv, TypeOK
<1>2. ids \in Registries
  BY <1>1, RegistryIsTyped
<1>3. DOMAIN ids \in SUBSET Ids /\ \A id \in DOMAIN ids : ids[id] \in Cheese
  BY <1>2 DEF Registries
<1>4. CASE ids = registry[p]
  BY <1>1, <1>2, <1>3, <1>4 DEF Counted, RegistryBuilt
<1>5. CASE ids = RegistryOf(HashOf, alive[p])
  <2>1. Built(HashOf, alive[p], ids, NumCheese)
    BY <1>1, <1>5, RegistryIsBuilt, SyncAssumption
  <2>2. /\ \A id, other \in DOMAIN ids : ids[id] = ids[other] => id = other
        /\ \A id \in DOMAIN ids : ids[id] \in alive[p]
    BY <2>1 DEF Built
  <2>3. alive[p] = {} => ids = NoIds
    BY <1>1, <1>5, RegistryIsTyped
  <2>4. ~spawned[p] => alive[p] = {}
    BY <1>1 DEF Counted
  <2>5. QED
    BY <1>2, <1>3, <2>2, <2>3, <2>4
<1>6. QED
  BY <1>4, <1>5

LEMMA SomeoneActs ==
  ASSUME Next
  PROVE  \E p \in Peers : Acts(p)
<1>1. PICK p \in Peers :
        \/ BeginMaze(p)
        \/ SpawnAllCheese(p)
        \/ \E c \in Cheese : LocalInteract(p, c)
        \/ \E late \in BOOLEAN : RatTick(p, late)
        \/ \E id \in Ids : StartReplay(p, id) \/ ReplayInteract(p, id)
        \/ \E f \in wire[p] : DispatchPickupCollected(p, f)
  BY DEF Next
<1>2. Acts(p)
  BY <1>1 DEF Acts
<1>3. QED
  BY <1>2

LEMMA OtherPeer ==
  ASSUME NEW p \in Peers
  PROVE  Other(p) \in Peers /\ Other(p) # p /\ Other(Other(p)) = p
BY SyncAssumption DEF Other, Peers
-----------------------------------------------------------------------------
(* What each step changes.                                                 *)

\* The rat takes a cheese: the hook is not silenced, and announces it if it is armed.
LEMMA InteractEffect ==
  ASSUME CountInv, NEW p \in Peers, NEW c \in Cheese, LocalInteract(p, c)
  PROVE  /\ spawned[p] /\ maze[p] > 0 /\ c \in alive[p] /\ replays[p] = {}
         /\ UNCHANGED <<maze, spawned, armed, pendingReplay, replays, calling, replaying>>
         /\ alive' = [alive EXCEPT ![p] = @ \ {c}]
         /\ eaten' = [eaten EXCEPT ![p] = @ + 1]
         /\ taken' = taken \cup {Taking(p, maze[p], c, armed[p])}
         /\ ~armed[p] => UNCHANGED <<registry, processed, wire>>
         /\ armed[p] => \E ids, fresh :
              /\ ids = registry[p] \/ ids = RegistryOf(HashOf, alive[p])
              /\ fresh = {id \in DOMAIN ids : ids[id] = c} \ processed[p]
              /\ registry' = [registry EXCEPT ![p] = ids]
              /\ processed' = [processed EXCEPT ![p] = @ \cup fresh]
              /\ wire' = [wire EXCEPT ![Other(p)] =
                            @ \cup {Frame(maze[p], c, id) : id \in fresh}]
<1>1. TypeOK /\ Counted(p) /\ c \in alive[p] /\ replays[p] = {}
  BY DEF CountInv, LocalInteract, GameThreadFree
<1>2. spawned[p] /\ maze[p] > 0 /\ ~replaying[p]
  BY <1>1 DEF Counted
<1>3. PICK ids, fresh :
        /\ ids = Known(p)
        /\ fresh = {id \in DOMAIN ids : ids[id] = c} \ processed[p]
  OBVIOUS
<1>4. ids = registry[p] \/ ids = RegistryOf(HashOf, alive[p])
  BY <1>3 DEF Known
<1>5. /\ UNCHANGED <<maze, spawned, armed, pendingReplay, replays, calling, replaying>>
      /\ alive' = [alive EXCEPT ![p] = @ \ {c}]
      /\ eaten' = [eaten EXCEPT ![p] = @ + 1]
      /\ taken' = taken \cup {Taking(p, maze[p], c, armed[p])}
  BY DEF LocalInteract, Interact, loopVars
<1>6. ASSUME armed[p]
      PROVE  /\ registry' = [registry EXCEPT ![p] = ids]
             /\ processed' = [processed EXCEPT ![p] = @ \cup fresh]
             /\ wire' = [wire EXCEPT ![Other(p)] =
                           @ \cup {Frame(maze[p], c, id) : id \in fresh}]
  <2>1. Announced(p, c) = fresh
    BY <1>2, <1>3, <1>6 DEF Announced
  <2>2. QED
    BY <1>2, <1>3, <1>6, <2>1 DEF LocalInteract, Interact
<1>7. ASSUME ~armed[p]
      PROVE  UNCHANGED <<registry, processed, wire>>
  <2>1. Announced(p, c) = {}
    BY <1>7 DEF Announced
  <2>2. {Frame(maze[p], c, id) : id \in Announced(p, c)} = {}
    BY <2>1
  <2>3. registry' = registry /\ processed' = processed
    BY <1>1, <1>7, <2>1 DEF LocalInteract, Interact, TypeOK
  <2>4. wire' = wire
    BY <1>1, <2>2, OtherPeer DEF LocalInteract, Interact, TypeOK
  <2>5. QED
    BY <2>3, <2>4
<1>8. QED
  BY <1>1, <1>2, <1>3, <1>4, <1>5, <1>6, <1>7

\* A replay calls Interact on a cheese that exists; the hook it re-enters is silent.
LEMMA ReplayEffect ==
  ASSUME CountInv, NEW p \in Peers, NEW id \in Ids, ReplayInteract(p, id)
  PROVE  /\ spawned[p] /\ armed[p] /\ id \in replays[p]
         /\ id \in DOMAIN registry[p] /\ registry[p][id] \in alive[p]
         /\ UNCHANGED <<maze, spawned, armed, registry, pendingReplay, wire, taken>>
         /\ alive' = [alive EXCEPT ![p] = @ \ {registry[p][id]}]
         /\ eaten' = [eaten EXCEPT ![p] = @ + 1]
         /\ processed' = [processed EXCEPT ![p] = @ \cup {id}]
         /\ replays' = [replays EXCEPT ![p] = @ \ {id}]
         /\ calling' = [calling EXCEPT ![p] = {}]
         /\ replaying' = [replaying EXCEPT ![p] = FALSE]
<1>1. TypeOK /\ Counted(p) /\ id \in calling[p]
  BY DEF CountInv, ReplayInteract
<1>2. replaying[p] /\ id \in replays[p]
  BY <1>1 DEF Counted
<1>3. id \in DOMAIN registry[p] /\ registry[p][id] \in alive[p] /\ registry[p] # NoIds
  BY <1>1, <1>2 DEF Counted, NoIds
<1>4. spawned[p] /\ armed[p]
  BY <1>1, <1>3 DEF Counted, RegistryBuilt
<1>5. PICK c : c = registry[p][id]
  OBVIOUS
<1>6. Announced(p, c) = {} /\ Announced(p, registry[p][id]) = {}
  BY <1>2 DEF Announced
<1>7. /\ UNCHANGED <<maze, spawned, armed, pendingReplay, taken>>
      /\ alive' = [alive EXCEPT ![p] = @ \ {registry[p][id]}]
      /\ eaten' = [eaten EXCEPT ![p] = @ + 1]
      /\ replays' = [replays EXCEPT ![p] = @ \ {id}]
      /\ calling' = [calling EXCEPT ![p] = {}]
      /\ replaying' = [replaying EXCEPT ![p] = FALSE]
  BY DEF ReplayInteract, Interact
<1>8. processed' = [processed EXCEPT ![p] = @ \cup {id}]
  BY <1>6 DEF ReplayInteract
<1>9. registry' = registry
  BY <1>1, <1>2 DEF ReplayInteract, Interact, TypeOK
<1>10. wire' = wire
  <2>1. {Frame(maze[p], registry[p][id], i) : i \in Announced(p, registry[p][id])} = {}
    BY <1>6
  <2>2. wire' = [wire EXCEPT ![Other(p)] = wire[Other(p)] \cup {}]
    BY <2>1 DEF ReplayInteract, Interact
  <2>3. QED
    BY <1>1, <2>2, OtherPeer DEF TypeOK
<1>11. QED
  BY <1>2, <1>3, <1>4, <1>7, <1>8, <1>9, <1>10

LEMMA RatTickEffect ==
  ASSUME NEW p \in Peers, NEW late \in BOOLEAN, RatTick(p, late)
  PROVE  /\ replays[p] = {}
         /\ UNCHANGED <<maze, spawned, alive, eaten, calling, replaying, wire, taken>>
         /\ armed' = [armed EXCEPT ![p] = @ \/ alive[p] # {}]
         /\ \E ids :
              /\ ids = registry[p] \/ ids = RegistryOf(HashOf, alive[p])
              /\ registry' = [registry EXCEPT ![p] = ids]
              /\ ids = NoIds =>
                   /\ pendingReplay' = [pendingReplay EXCEPT ![p] = @ \ processed[p]]
                   /\ UNCHANGED <<replays, processed>>
              /\ ids # NoIds =>
                   /\ pendingReplay' = [pendingReplay EXCEPT ![p] = {}]
                   /\ replays' = [replays EXCEPT ![p] =
                                    (pendingReplay[p] \ processed[p]) \cap DOMAIN ids]
                   /\ processed' = [processed EXCEPT ![p] = @ \cup (pendingReplay[p] \ DOMAIN ids)]
<1>1. PICK ids : ids = TickIds(p, late)
  OBVIOUS
<1>2. ids = registry[p] \/ ids = RegistryOf(HashOf, alive[p])
  BY <1>1 DEF TickIds
<1>3. /\ replays[p] = {}
      /\ UNCHANGED <<maze, spawned, alive, eaten, calling, replaying, wire, taken>>
      /\ armed' = [armed EXCEPT ![p] = @ \/ alive[p] # {}]
      /\ registry' = [registry EXCEPT ![p] = ids]
  BY <1>1 DEF RatTick, GameThreadFree
<1>4. /\ ids = NoIds =>
           /\ pendingReplay' = [pendingReplay EXCEPT ![p] = @ \ processed[p]]
           /\ UNCHANGED <<replays, processed>>
      /\ ids # NoIds =>
           /\ pendingReplay' = [pendingReplay EXCEPT ![p] = {}]
           /\ replays' = [replays EXCEPT ![p] =
                            (pendingReplay[p] \ processed[p]) \cap DOMAIN ids]
           /\ processed' = [processed EXCEPT ![p] = @ \cup (pendingReplay[p] \ DOMAIN ids)]
  BY <1>1 DEF RatTick
<1>5. QED
  BY <1>2, <1>3, <1>4
-----------------------------------------------------------------------------
(* Every step keeps CountInv.                                              *)

\* What an action of one peer leaves alone.
Unmoved(q) ==
  /\ maze'[q] = maze[q]
  /\ spawned'[q] = spawned[q]
  /\ alive'[q] = alive[q]
  /\ eaten'[q] = eaten[q]
  /\ armed'[q] = armed[q]
  /\ registry'[q] = registry[q]
  /\ processed'[q] = processed[q]
  /\ replays'[q] = replays[q]
  /\ calling'[q] = calling[q]
  /\ replaying'[q] = replaying[q]

LEMMA OthersUnmoved ==
  ASSUME CountInv, NEW p \in Peers, Acts(p)
  PROVE  \A q \in Peers \ {p} : Unmoved(q)
<1>0. TypeOK
  BY DEF CountInv
<1>1. CASE BeginMaze(p)
  BY <1>0, <1>1 DEF TypeOK, Unmoved, BeginMaze, loopVars
<1>2. CASE SpawnAllCheese(p)
  BY <1>0, <1>2 DEF TypeOK, Unmoved, SpawnAllCheese, modVars, loopVars
<1>3. CASE \E c \in Cheese : LocalInteract(p, c)
  <2>1. PICK c \in Cheese : LocalInteract(p, c)
    BY <1>3
  <2>2. CASE armed[p]
    BY <1>0, <2>1, <2>2, InteractEffect DEF TypeOK, Unmoved
  <2>3. CASE ~armed[p]
    BY <1>0, <2>1, <2>3, InteractEffect DEF TypeOK, Unmoved
  <2>4. QED
    BY <2>2, <2>3
<1>4. CASE \E late \in BOOLEAN : RatTick(p, late)
  <2>1. PICK late \in BOOLEAN : RatTick(p, late)
    BY <1>4
  <2>2. \A q \in Peers \ {p} : processed'[q] = processed[q] /\ replays'[q] = replays[q]
    BY <1>0, <2>1, RatTickEffect DEF TypeOK
  <2>3. QED
    BY <1>0, <2>1, <2>2, RatTickEffect DEF TypeOK, Unmoved
<1>5. CASE \E id \in Ids : StartReplay(p, id)
  BY <1>0, <1>5 DEF TypeOK, Unmoved, StartReplay, gameVars
<1>6. CASE \E id \in Ids : ReplayInteract(p, id)
  BY <1>0, <1>6, ReplayEffect DEF TypeOK, Unmoved
<1>7. CASE \E f \in wire[p] : DispatchPickupCollected(p, f)
  BY <1>0, <1>7 DEF TypeOK, Unmoved, DispatchPickupCollected, gameVars, loopVars
<1>8. QED
  BY <1>1, <1>2, <1>3, <1>4, <1>5, <1>6, <1>7 DEF Acts

LEMMA UnmovedCounted ==
  ASSUME NEW q \in Peers, Counted(q), Unmoved(q)
  PROVE  Counted(q)'
BY DEF Counted, Unmoved, RegistryBuilt, NoIds

LEMMA InteractCounted ==
  ASSUME CountInv, NEW p \in Peers, NEW c \in Cheese, LocalInteract(p, c)
  PROVE  Counted(p)'
<1>1. TypeOK /\ Counted(p) /\ alive[p] \in SUBSET Cheese /\ eaten[p] \in Nat
  BY DEF CountInv, TypeOK
<1>2. /\ spawned[p] /\ maze[p] > 0 /\ c \in alive[p] /\ replays'[p] = {}
      /\ maze'[p] = maze[p] /\ spawned'[p] = spawned[p] /\ armed'[p] = armed[p]
      /\ calling'[p] = calling[p] /\ replaying'[p] = replaying[p] /\ replays[p] = {}
      /\ alive'[p] = alive[p] \ {c}
      /\ eaten'[p] = eaten[p] + 1
  BY <1>1, InteractEffect DEF TypeOK
<1>3. eaten'[p] = Cardinality(Cheese \ alive'[p])
  BY <1>1, <1>2, CountsOne DEF Counted
<1>4. calling'[p] = {} /\ ~replaying'[p]
  BY <1>1, <1>2 DEF Counted
<1>5. CASE ~armed[p]
  <2>1. registry'[p] = registry[p]
    BY <1>5, InteractEffect
  <2>2. registry[p] = NoIds /\ DOMAIN NoIds = {}
    BY <1>1, <1>5 DEF Counted, RegistryBuilt, NoIds
  <2>3. QED
    BY <1>2, <1>3, <1>4, <2>1, <2>2 DEF Counted, RegistryBuilt, NoIds
<1>6. CASE armed[p]
  <2>1. PICK ids, fresh :
          /\ ids = registry[p] \/ ids = RegistryOf(HashOf, alive[p])
          /\ fresh = {id \in DOMAIN ids : ids[id] = c} \ processed[p]
          /\ registry' = [registry EXCEPT ![p] = ids]
          /\ processed' = [processed EXCEPT ![p] = @ \cup fresh]
    <3>1. /\ CountInv /\ p \in Peers /\ c \in Cheese
          /\ LocalInteract(p, c)
      OBVIOUS
    <3>2. \E ids, fresh :
            /\ ids = registry[p] \/ ids = RegistryOf(HashOf, alive[p])
            /\ fresh = {id \in DOMAIN ids : ids[id] = c} \ processed[p]
            /\ registry' = [registry EXCEPT ![p] = ids]
            /\ processed' = [processed EXCEPT ![p] = @ \cup fresh]
            /\ wire' = [wire EXCEPT ![Other(p)] =
                          @ \cup {Frame(maze[p], c, id) : id \in fresh}]
      BY <1>6, <3>1, InteractEffect
    <3>3. QED
      BY <3>2
  <2>2. /\ \A id, other \in DOMAIN ids : ids[id] = ids[other] => id = other
        /\ \A id \in DOMAIN ids : ids[id] \in alive[p] \/ id \in processed[p]
    BY <2>1, KnownIds
  <2>3. registry'[p] = ids /\ processed'[p] = processed[p] \cup fresh
    BY <1>1, <2>1 DEF TypeOK
  <2>4. \A id \in DOMAIN ids : ids[id] \in alive'[p] \/ id \in processed'[p]
    BY <1>2, <2>1, <2>2, <2>3
  <2>5. QED
    BY <1>2, <1>3, <1>4, <1>6, <2>2, <2>3, <2>4 DEF Counted, RegistryBuilt, NoIds
<1>7. QED
  BY <1>5, <1>6

LEMMA ReplayCounted ==
  ASSUME CountInv, NEW p \in Peers, NEW id \in Ids, ReplayInteract(p, id)
  PROVE  Counted(p)'
<1>1. TypeOK /\ Counted(p) /\ alive[p] \in SUBSET Cheese /\ eaten[p] \in Nat
  BY DEF CountInv, TypeOK
<1>2. PICK c : c = registry[p][id]
  OBVIOUS
<1>3. /\ spawned[p] /\ armed[p] /\ id \in replays[p] /\ id \in DOMAIN registry[p]
      /\ c \in alive[p]
      /\ maze'[p] = maze[p] /\ spawned'[p] = spawned[p] /\ armed'[p] = armed[p]
      /\ registry'[p] = registry[p]
      /\ alive'[p] = alive[p] \ {c}
      /\ eaten'[p] = eaten[p] + 1
      /\ processed'[p] = processed[p] \cup {id}
      /\ replays'[p] = replays[p] \ {id}
      /\ calling'[p] = {} /\ replaying'[p] = FALSE
  BY <1>1, <1>2, ReplayEffect DEF TypeOK
<1>4. eaten'[p] = Cardinality(Cheese \ alive'[p])
  BY <1>1, <1>3, CountsOne DEF Counted
<1>5. \A i \in DOMAIN registry'[p] : registry'[p][i] \in alive'[p] \/ i \in processed'[p]
  <2>1. SUFFICES ASSUME NEW i \in DOMAIN registry[p], i \notin processed[p], i # id
                 PROVE  registry[p][i] \in alive'[p]
    BY <1>3
  <2>2. registry[p][i] \in alive[p] /\ registry[p][i] # c
    BY <1>1, <1>2, <1>3, <2>1 DEF Counted
  <2>3. QED
    BY <1>3, <2>2
<1>6. \A i \in replays'[p] : i \in DOMAIN registry'[p] /\ i \notin processed'[p]
  BY <1>1, <1>3 DEF Counted
<1>7. QED
  BY <1>1, <1>3, <1>4, <1>5, <1>6 DEF Counted, RegistryBuilt, NoIds

LEMMA RatTickCounted ==
  ASSUME CountInv, NEW p \in Peers, NEW late \in BOOLEAN, RatTick(p, late)
  PROVE  Counted(p)'
<1>1. TypeOK /\ Counted(p)
  BY DEF CountInv, TypeOK
<1>2. PICK ids :
        /\ ids = registry[p] \/ ids = RegistryOf(HashOf, alive[p])
        /\ registry'[p] = ids
        /\ ids = NoIds => replays'[p] = replays[p] /\ processed'[p] = processed[p]
        /\ ids # NoIds =>
             /\ replays'[p] = (pendingReplay[p] \ processed[p]) \cap DOMAIN ids
             /\ processed'[p] = processed[p] \cup (pendingReplay[p] \ DOMAIN ids)
  BY <1>1, RatTickEffect DEF TypeOK
<1>3. /\ maze'[p] = maze[p] /\ spawned'[p] = spawned[p] /\ alive'[p] = alive[p]
      /\ eaten'[p] = eaten[p] /\ calling'[p] = calling[p] /\ replaying'[p] = replaying[p]
      /\ armed'[p] = (armed[p] \/ alive[p] # {})
      /\ replays[p] = {}
  BY <1>1, RatTickEffect DEF TypeOK
<1>4. /\ \A id, other \in DOMAIN ids : ids[id] = ids[other] => id = other
      /\ \A id \in DOMAIN ids : ids[id] \in alive[p] \/ id \in processed[p]
      /\ ids # NoIds => armed[p] \/ alive[p] # {}
      /\ ~spawned[p] => ids = NoIds
  BY <1>2, KnownIds
<1>5. DOMAIN NoIds = {}
  BY DEF NoIds
<1>6. \A id \in DOMAIN ids : ids[id] \in alive'[p] \/ id \in processed'[p]
  BY <1>2, <1>3, <1>4, <1>5
<1>7. \A id \in replays'[p] : id \in DOMAIN ids /\ id \notin processed'[p]
  BY <1>2, <1>3
<1>8. calling'[p] = {} /\ ~replaying'[p]
  BY <1>1, <1>3 DEF Counted
<1>9. QED
  BY <1>1, <1>2, <1>3, <1>4, <1>6, <1>7, <1>8 DEF Counted, RegistryBuilt, NoIds

LEMMA CountedStep ==
  ASSUME CountInv, [Next]_vars
  PROVE  \A p \in Peers : Counted(p)'
<1>1. TypeOK /\ \A p \in Peers : Counted(p)
  BY DEF CountInv
<1>2. CASE UNCHANGED vars
  <2>1. \A p \in Peers : Unmoved(p)
    BY <1>2 DEF Unmoved, vars, gameVars, modVars, loopVars
  <2>2. QED
    BY <1>1, <2>1, UnmovedCounted
<1>3. CASE Next
  <2>1. PICK p \in Peers : Acts(p)
    BY <1>3, SomeoneActs
  <2>2. \A q \in Peers \ {p} : Counted(q)'
    BY <1>1, <2>1, OthersUnmoved, UnmovedCounted
  <2>3. CASE BeginMaze(p)
    <3>1. /\ ~spawned'[p] /\ alive'[p] = {} /\ eaten'[p] = 0 /\ registry'[p] = NoIds
          /\ replays'[p] = {} /\ calling'[p] = calling[p] /\ replaying'[p] = replaying[p]
      BY <1>1, <2>3 DEF TypeOK, BeginMaze, GameThreadFree, loopVars
    <3>2. calling'[p] = {} /\ ~replaying'[p]
      BY <1>1, <2>3, <3>1 DEF Counted, BeginMaze, GameThreadFree
    <3>3. Counted(p)'
      BY <3>1, <3>2 DEF Counted, RegistryBuilt, NoIds
    <3>4. QED
      BY <2>2, <3>3
  <2>4. CASE SpawnAllCheese(p)
    <3>1. /\ maze'[p] = maze[p] /\ maze[p] > 0 /\ ~spawned[p] /\ spawned'[p]
          /\ alive'[p] = Cheese /\ eaten'[p] = eaten[p] /\ registry'[p] = registry[p]
          /\ replays'[p] = {} /\ calling'[p] = calling[p] /\ replaying'[p] = replaying[p]
          /\ replays[p] = {}
      BY <1>1, <2>4 DEF TypeOK, SpawnAllCheese, GameThreadFree, modVars, loopVars
    <3>2. eaten'[p] = 0 /\ registry'[p] = NoIds /\ calling'[p] = {} /\ ~replaying'[p]
      BY <1>1, <3>1 DEF Counted
    <3>3. DOMAIN NoIds = {}
      BY DEF NoIds
    <3>4. Cardinality(Cheese \ alive'[p]) = 0
      BY <3>1, FS_EmptySet
    <3>5. Counted(p)'
      BY <3>1, <3>2, <3>3, <3>4 DEF Counted, RegistryBuilt
    <3>6. QED
      BY <2>2, <3>5
  <2>5. CASE \E c \in Cheese : LocalInteract(p, c)
    BY <2>2, <2>5, InteractCounted
  <2>6. CASE \E late \in BOOLEAN : RatTick(p, late)
    BY <2>2, <2>6, RatTickCounted
  <2>7. CASE \E id \in Ids : StartReplay(p, id)
    <3>1. PICK id \in Ids : StartReplay(p, id)
      BY <2>7
    <3>2. /\ maze'[p] = maze[p] /\ spawned'[p] = spawned[p] /\ alive'[p] = alive[p]
          /\ eaten'[p] = eaten[p] /\ armed'[p] = armed[p] /\ registry'[p] = registry[p]
          /\ processed'[p] = processed[p] /\ replays'[p] = replays[p]
          /\ id \in replays[p] /\ calling'[p] = {id} /\ replaying'[p] = TRUE
      BY <1>1, <3>1 DEF StartReplay, gameVars, TypeOK
    <3>3. Counted(p)'
      <4>1. Counted(p)
        BY <1>1
      <4>2. \A i \in calling'[p] : i \in replays'[p]
        BY <3>2
      <4>3. calling'[p] # {} <=> replaying'[p]
        BY <3>2
      <4>4. \A i \in replays'[p] : i \in DOMAIN registry'[p] /\ i \notin processed'[p]
        BY <3>2, <4>1 DEF Counted
      <4>5. QED
        BY <3>2, <4>1, <4>2, <4>3, <4>4 DEF Counted, RegistryBuilt
    <3>4. QED
      BY <2>2, <3>3
  <2>8. CASE \E id \in Ids : ReplayInteract(p, id)
    BY <2>2, <2>8, ReplayCounted
  <2>9. CASE \E f \in wire[p] : DispatchPickupCollected(p, f)
    <3>1. Unmoved(p)
      BY <2>9 DEF DispatchPickupCollected, gameVars, loopVars, Unmoved
    <3>2. QED
      BY <1>1, <2>2, <3>1, UnmovedCounted
  <2>10. QED
    BY <2>1, <2>3, <2>4, <2>5, <2>6, <2>7, <2>8, <2>9 DEF Acts
<1>4. QED
  BY <1>2, <1>3

LEMMA TypeStep ==
  ASSUME CountInv, [Next]_vars
  PROVE  TypeOK'
<1>1. TypeOK
  BY DEF CountInv
<1>2. CASE UNCHANGED vars
  BY <1>1, <1>2 DEF TypeOK, vars, gameVars, modVars, loopVars
<1>3. CASE Next
  <2>1. PICK p \in Peers : Acts(p)
    BY <1>3, SomeoneActs
  <2>2. CASE BeginMaze(p)
    <3>1. maze[p] + 1 \in 0 .. MaxMazes
      BY <1>1, <2>2, SyncAssumption DEF TypeOK, BeginMaze
    <3>2. NoIds \in Registries
      BY RegistryIsTyped
    <3>3. QED
      BY <1>1, <2>2, <3>1, <3>2 DEF TypeOK, BeginMaze, loopVars
  <2>3. CASE SpawnAllCheese(p)
    BY <1>1, <2>3 DEF TypeOK, SpawnAllCheese, modVars, loopVars
  <2>4. CASE \E c \in Cheese : LocalInteract(p, c)
    <3>1. PICK c \in Cheese : LocalInteract(p, c)
      BY <2>4
    <3>2. maze[p] \in 1 .. MaxMazes /\ armed[p] \in BOOLEAN /\ eaten[p] + 1 \in Nat
      BY <1>1, <3>1, InteractEffect, SyncAssumption DEF TypeOK
    <3>3. Taking(p, maze[p], c, armed[p]) \in
            [by : Peers, maze : 1 .. MaxMazes, cheese : Cheese, told : BOOLEAN]
      BY <3>2 DEF Taking
    <3>4. /\ UNCHANGED <<maze, spawned, armed, pendingReplay, replays, calling, replaying>>
          /\ alive' = [alive EXCEPT ![p] = @ \ {c}]
          /\ eaten' = [eaten EXCEPT ![p] = @ + 1]
          /\ taken' = taken \cup {Taking(p, maze[p], c, armed[p])}
      BY <3>1, InteractEffect
    <3>5. CASE ~armed[p]
      <4>1. UNCHANGED <<registry, processed, wire>>
        BY <3>1, <3>5, InteractEffect
      <4>2. QED
        BY <1>1, <3>2, <3>3, <3>4, <4>1 DEF TypeOK
    <3>6. CASE armed[p]
      <4>1. PICK ids, fresh :
              /\ ids = registry[p] \/ ids = RegistryOf(HashOf, alive[p])
              /\ fresh = {id \in DOMAIN ids : ids[id] = c} \ processed[p]
              /\ registry' = [registry EXCEPT ![p] = ids]
              /\ processed' = [processed EXCEPT ![p] = @ \cup fresh]
              /\ wire' = [wire EXCEPT ![Other(p)] =
                            @ \cup {Frame(maze[p], c, id) : id \in fresh}]
        BY <3>1, <3>6, InteractEffect
      <4>2. ids \in Registries /\ fresh \in SUBSET Ids
        BY <4>1, KnownIds
      <4>3. {Frame(maze[p], c, id) : id \in fresh} \in
              SUBSET [maze : 1 .. MaxMazes, cheese : Cheese, id : Ids]
        BY <3>2, <4>2 DEF Frame
      <4>4. Other(p) \in Peers
        BY OtherPeer
      <4>5. registry' \in [Peers -> Registries] /\ processed' \in [Peers -> SUBSET Ids]
        BY <1>1, <4>1, <4>2 DEF TypeOK
      <4>6. wire' \in [Peers -> SUBSET [maze : 1 .. MaxMazes, cheese : Cheese, id : Ids]]
        BY <1>1, <4>1, <4>3, <4>4 DEF TypeOK
      <4>7. QED
        BY <1>1, <3>2, <3>3, <3>4, <4>5, <4>6 DEF TypeOK
    <3>7. QED
      BY <3>5, <3>6
  <2>5. CASE \E late \in BOOLEAN : RatTick(p, late)
    <3>1. PICK late \in BOOLEAN : RatTick(p, late)
      BY <2>5
    <3>2. /\ UNCHANGED <<maze, spawned, alive, eaten, calling, replaying, wire, taken>>
          /\ armed' = [armed EXCEPT ![p] = @ \/ alive[p] # {}]
      BY <3>1, RatTickEffect
    <3>3. PICK ids :
            /\ ids = registry[p] \/ ids = RegistryOf(HashOf, alive[p])
            /\ registry' = [registry EXCEPT ![p] = ids]
            /\ ids = NoIds =>
                 /\ pendingReplay' = [pendingReplay EXCEPT ![p] = @ \ processed[p]]
                 /\ UNCHANGED <<replays, processed>>
            /\ ids # NoIds =>
                 /\ pendingReplay' = [pendingReplay EXCEPT ![p] = {}]
                 /\ replays' = [replays EXCEPT ![p] =
                                  (pendingReplay[p] \ processed[p]) \cap DOMAIN ids]
                 /\ processed' = [processed EXCEPT ![p] = @ \cup (pendingReplay[p] \ DOMAIN ids)]
      BY <3>1, RatTickEffect
    <3>4. ids \in Registries
      BY <3>3, KnownIds
    <3>5. registry' \in [Peers -> Registries]
      BY <1>1, <3>3, <3>4 DEF TypeOK
    <3>6. (armed[p] \/ alive[p] # {}) \in BOOLEAN
      OBVIOUS
    <3>7. armed' \in [Peers -> BOOLEAN]
      BY <1>1, <3>2, <3>6 DEF TypeOK
    <3>8. /\ pendingReplay' \in [Peers -> SUBSET Ids]
          /\ processed' \in [Peers -> SUBSET Ids]
          /\ replays' \in [Peers -> SUBSET Ids]
      BY <1>1, <3>3 DEF TypeOK
    <3>9. QED
      BY <1>1, <3>2, <3>5, <3>7, <3>8 DEF TypeOK
  <2>6. CASE \E id \in Ids : StartReplay(p, id)
    BY <1>1, <2>6 DEF TypeOK, StartReplay, gameVars
  <2>7. CASE \E id \in Ids : ReplayInteract(p, id)
    <3>1. PICK id \in Ids : ReplayInteract(p, id)
      BY <2>7
    <3>2. PICK c : c = registry[p][id]
      OBVIOUS
    <3>3. /\ UNCHANGED <<maze, spawned, armed, registry, pendingReplay, wire, taken>>
          /\ alive' = [alive EXCEPT ![p] = @ \ {c}]
          /\ eaten' = [eaten EXCEPT ![p] = @ + 1]
          /\ processed' = [processed EXCEPT ![p] = @ \cup {id}]
          /\ replays' = [replays EXCEPT ![p] = @ \ {id}]
          /\ calling' = [calling EXCEPT ![p] = {}]
          /\ replaying' = [replaying EXCEPT ![p] = FALSE]
      BY <3>1, <3>2, ReplayEffect
    <3>4. QED
      BY <1>1, <3>3 DEF TypeOK
  <2>8. CASE \E f \in wire[p] : DispatchPickupCollected(p, f)
    BY <1>1, <2>8 DEF TypeOK, DispatchPickupCollected, gameVars, loopVars
  <2>9. QED
    BY <2>1, <2>2, <2>3, <2>4, <2>5, <2>6, <2>7, <2>8 DEF Acts
<1>4. QED
  BY <1>2, <1>3

LEMMA CountInit ==
  ASSUME Init
  PROVE  CountInv
<1>1. TypeOK
  <2>1. NoIds \in Registries
    BY RegistryIsTyped
  <2>2. QED
    BY <2>1, SyncAssumption DEF Init, TypeOK
<1>2. ASSUME NEW p \in Peers PROVE Counted(p)
  BY DEF Init, Counted, RegistryBuilt, NoIds
<1>3. QED
  BY <1>1, <1>2 DEF CountInv

\* In every maze of every run the registered cheese exist or are processed.
THEOREM CountHolds == Spec => []CountInv
<1>1. Init => CountInv
  BY CountInit
<1>2. CountInv /\ [Next]_vars => CountInv'
  BY CountedStep, TypeStep DEF CountInv
<1>3. QED
  BY <1>1, <1>2, PTL DEF Spec

\* "dedup should make each count it once" (docs/test-plan.md): however takes and
\* replays cross, with colliding hashes and over any number of mazes, a peer's
\* counter is the number of cheese that are gone from its maze.
THEOREM EachCountsOnce == Spec => []CountedOnce
<1>1. CountInv => CountedOnce
  BY DEF CountInv, Counted, CountedOnce
<1>2. QED
  BY <1>1, CountHolds, PTL
-----------------------------------------------------------------------------
(* Announcements and their causes.                                         *)

\* The frames of a step: kept, or sent by p for a cheese its rat takes.
LEMMA FramesStep ==
  ASSUME CountInv, Next
  PROVE  /\ taken \subseteq taken'
         /\ \A q \in Peers : \A f \in wire'[q] :
              \/ f \in wire[q]
              \/ \E ids : \E c \in Cheese, id \in Ids :
                   /\ ids = registry[Other(q)] \/ ids = RegistryOf(HashOf, alive[Other(q)])
                   /\ id \in DOMAIN ids /\ ids[id] = c
                   /\ f = Frame(maze[Other(q)], c, id)
                   /\ Taking(Other(q), maze[Other(q)], c, TRUE) \in taken'
<1>1. TypeOK
  BY DEF CountInv
<1>2. PICK p \in Peers : Acts(p)
  BY SomeoneActs
<1>3. CASE BeginMaze(p)
  BY <1>3 DEF BeginMaze
<1>4. CASE SpawnAllCheese(p)
  BY <1>4 DEF SpawnAllCheese
<1>5. CASE \E late \in BOOLEAN : RatTick(p, late)
  BY <1>5, RatTickEffect
<1>6. CASE \E f \in wire[p] : DispatchPickupCollected(p, f)
  <2>1. PICK f \in wire[p] : DispatchPickupCollected(p, f)
    BY <1>6
  <2>2. wire' = [wire EXCEPT ![p] = @ \ {f}] /\ taken' = taken
    BY <2>1 DEF DispatchPickupCollected
  <2>3. \A q \in Peers : wire'[q] \subseteq wire[q]
    BY <1>1, <2>2 DEF TypeOK
  <2>4. QED
    BY <2>2, <2>3
<1>7. CASE \E id \in Ids : StartReplay(p, id)
  BY <1>7 DEF StartReplay
<1>8. CASE \E id \in Ids : ReplayInteract(p, id)
  BY <1>8, ReplayEffect
<1>9. CASE \E c \in Cheese : LocalInteract(p, c)
  <2>1. PICK c \in Cheese : LocalInteract(p, c)
    BY <1>9
  <2>2. taken' = taken \cup {Taking(p, maze[p], c, armed[p])} /\ taken \subseteq taken'
    BY <2>1, InteractEffect
  <2>3. CASE ~armed[p]
    BY <2>1, <2>2, <2>3, InteractEffect
  <2>4. CASE armed[p]
    <3>1. PICK ids, fresh :
            /\ ids = registry[p] \/ ids = RegistryOf(HashOf, alive[p])
            /\ fresh = {id \in DOMAIN ids : ids[id] = c} \ processed[p]
            /\ registry' = [registry EXCEPT ![p] = ids]
            /\ processed' = [processed EXCEPT ![p] = @ \cup fresh]
            /\ wire' = [wire EXCEPT ![Other(p)] =
                          @ \cup {Frame(maze[p], c, id) : id \in fresh}]
      BY <2>1, <2>4, InteractEffect
    <3>2. armed[p] = TRUE
      BY <1>1, <2>4 DEF TypeOK
    <3>3. Taking(p, maze[p], c, TRUE) \in taken'
      BY <2>2, <3>2
    <3>4. DOMAIN ids \in SUBSET Ids
      BY <3>1, KnownIds
    <3>5. wire'[Other(p)] = wire[Other(p)] \cup {Frame(maze[p], c, id) : id \in fresh}
      BY <1>1, <3>1, OtherPeer DEF TypeOK
    <3>6. \A q \in Peers : q # Other(p) => wire'[q] = wire[q]
      BY <1>1, <3>1, OtherPeer DEF TypeOK
    <3>7. SUFFICES ASSUME NEW q \in Peers, NEW f \in wire'[q], f \notin wire[q]
                   PROVE  \E known : \E d \in Cheese, id \in Ids :
                            /\ \/ known = registry[Other(q)]
                               \/ known = RegistryOf(HashOf, alive[Other(q)])
                            /\ id \in DOMAIN known /\ known[id] = d
                            /\ f = Frame(maze[Other(q)], d, id)
                            /\ Taking(Other(q), maze[Other(q)], d, TRUE) \in taken'
      BY <2>2
    <3>8. q = Other(p) /\ Other(q) = p
      BY <3>6, <3>7, OtherPeer
    <3>9. PICK id \in fresh : f = Frame(maze[p], c, id)
      BY <3>5, <3>7, <3>8
    <3>10. id \in Ids /\ id \in DOMAIN ids /\ ids[id] = c
      BY <3>1, <3>4, <3>9
    <3>11. /\ ids = registry[Other(q)] \/ ids = RegistryOf(HashOf, alive[Other(q)])
           /\ id \in DOMAIN ids /\ ids[id] = c
           /\ f = Frame(maze[Other(q)], c, id)
           /\ Taking(Other(q), maze[Other(q)], c, TRUE) \in taken'
      BY <3>1, <3>3, <3>8, <3>9, <3>10
    <3>12. c \in Cheese /\ id \in Ids
      BY <3>10
    <3>13. QED
      BY <3>11, <3>12
  <2>5. QED
    BY <2>3, <2>4
<1>10. QED
  BY <1>2, <1>3, <1>4, <1>5, <1>6, <1>9, <1>7, <1>8 DEF Acts

LEMMA AnnouncedStep ==
  ASSUME CountInv, AnnouncedByTaker, [Next]_vars
  PROVE  AnnouncedByTaker'
<1>1. \A q \in Peers : GameThreadFree(q)' => ~replaying'[q]
  BY CountedStep DEF Counted, GameThreadFree
<1>2. CASE UNCHANGED vars
  BY <1>1, <1>2 DEF AnnouncedByTaker, vars
<1>3. CASE Next
  <2>1. SUFFICES ASSUME NEW q \in Peers, NEW f \in wire'[q]
                 PROVE  Taking(Other(q), f.maze, f.cheese, TRUE) \in taken'
    BY <1>1 DEF AnnouncedByTaker
  <2>2. CASE f \in wire[q]
    BY <1>3, <2>2, FramesStep DEF AnnouncedByTaker
  <2>3. CASE f \notin wire[q]
    <3>1. PICK c \in Cheese, id \in Ids :
            /\ f = Frame(maze[Other(q)], c, id)
            /\ Taking(Other(q), maze[Other(q)], c, TRUE) \in taken'
      BY <1>3, <2>1, <2>3, FramesStep
    <3>2. f.maze = maze[Other(q)] /\ f.cheese = c
      BY <3>1 DEF Frame
    <3>3. QED
      BY <3>1, <3>2
  <2>4. QED
    BY <2>2, <2>3
<1>4. QED
  BY <1>2, <1>3

\* Only the peer whose rat took a cheese announces it, in any order of takes, replays,
\* ticks and mazes: the hook that a replay re-enters finds m_replayingInteract set
\* (Counted), and it is reset before the rat takes again.
THEOREM TakerAnnounces == Spec => []AnnouncedByTaker
<1>1. Init => AnnouncedByTaker
  BY DEF Init, AnnouncedByTaker
<1>2. CountInv /\ AnnouncedByTaker /\ [Next]_vars => AnnouncedByTaker'
  BY AnnouncedStep
<1>3. QED
  BY <1>1, <1>2, CountHolds, PTL DEF Spec

LEMMA KnownByHash ==
  ASSUME NoCollision(HashOf), CountInv, NEW p \in Peers, Caused(p), NEW ids,
         ids = registry[p] \/ ids = RegistryOf(HashOf, alive[p])
  PROVE  \A id \in DOMAIN ids : id = HashOf[ids[id]]
<1>1. CASE ids = registry[p]
  BY <1>1 DEF Caused
<1>2. CASE ids = RegistryOf(HashOf, alive[p])
  <2>1. alive[p] \in SUBSET Cheese
    BY DEF CountInv, TypeOK
  <2>2. HashNamed(HashOf, ids)
    BY <1>2, <2>1, RegistryIsBuilt, SyncAssumption
  <2>3. QED
    BY <2>2 DEF HashNamed
<1>3. QED
  BY <1>1, <1>2

\* The registries of a step: kept, dropped or built.
LEMMA RegistriesStep ==
  ASSUME CountInv, Next, NEW q \in Peers
  PROVE  registry'[q] \in {NoIds, registry[q], RegistryOf(HashOf, alive[q])}
<1>1. TypeOK
  BY DEF CountInv
<1>2. PICK p \in Peers : Acts(p)
  BY SomeoneActs
<1>3. CASE q # p
  BY <1>1, <1>2, <1>3, OthersUnmoved DEF Unmoved
<1>4. CASE q = p
  <2>1. CASE BeginMaze(p)
    BY <1>1, <1>4, <2>1 DEF BeginMaze, TypeOK
  <2>2. CASE SpawnAllCheese(p)
    BY <1>4, <2>2 DEF SpawnAllCheese, modVars, loopVars
  <2>3. CASE \E f \in wire[p] : DispatchPickupCollected(p, f)
    BY <1>4, <2>3 DEF DispatchPickupCollected
  <2>4. CASE \E c \in Cheese : LocalInteract(p, c)
    <3>1. PICK ids : registry' = registry
                     \/ /\ registry' = [registry EXCEPT ![p] = ids]
                        /\ ids = registry[p] \/ ids = RegistryOf(HashOf, alive[p])
      BY <2>4, InteractEffect
    <3>2. QED
      BY <1>1, <1>4, <3>1 DEF TypeOK
  <2>5. CASE \E late \in BOOLEAN : RatTick(p, late)
    <3>1. PICK ids : /\ registry' = [registry EXCEPT ![p] = ids]
                     /\ ids = registry[p] \/ ids = RegistryOf(HashOf, alive[p])
      BY <2>5, RatTickEffect
    <3>2. QED
      BY <1>1, <1>4, <3>1 DEF TypeOK
  <2>6. CASE \E id \in Ids : StartReplay(p, id)
    BY <1>4, <2>6 DEF StartReplay
  <2>7. CASE \E id \in Ids : ReplayInteract(p, id)
    BY <1>4, <2>7, ReplayEffect
  <2>8. QED
    BY <1>2, <2>1, <2>2, <2>3, <2>4, <2>5, <2>6, <2>7 DEF Acts
<1>5. QED
  BY <1>3, <1>4

\* The ids to replay after a step: those before it and that of a frame.
LEMMA PendingStep ==
  ASSUME CountInv, Next, NEW q \in Peers
  PROVE  \A id \in pendingReplay'[q] \cup replays'[q] :
           id \in pendingReplay[q] \cup replays[q] \/ \E f \in wire[q] : id = f.id
<1>1. TypeOK
  BY DEF CountInv
<1>2. PICK p \in Peers : Acts(p)
  BY SomeoneActs
<1>3. CASE BeginMaze(p)
  BY <1>1, <1>3 DEF BeginMaze, loopVars, TypeOK
<1>4. CASE SpawnAllCheese(p)
  BY <1>4 DEF SpawnAllCheese, modVars, loopVars
<1>5. CASE \E c \in Cheese : LocalInteract(p, c)
  BY <1>5, InteractEffect
<1>6. CASE \E late \in BOOLEAN : RatTick(p, late)
  <2>1. PICK ids :
          /\ ids = NoIds =>
               /\ pendingReplay' = [pendingReplay EXCEPT ![p] = @ \ processed[p]]
               /\ UNCHANGED <<replays, processed>>
          /\ ids # NoIds =>
               /\ pendingReplay' = [pendingReplay EXCEPT ![p] = {}]
               /\ replays' = [replays EXCEPT ![p] =
                                (pendingReplay[p] \ processed[p]) \cap DOMAIN ids]
    BY <1>6, RatTickEffect
  <2>2. CASE ids = NoIds
    BY <1>1, <2>1, <2>2 DEF TypeOK
  <2>3. CASE ids # NoIds
    BY <1>1, <2>1, <2>3 DEF TypeOK
  <2>4. QED
    BY <2>2, <2>3
<1>7. CASE \E id \in Ids : StartReplay(p, id)
  BY <1>7 DEF StartReplay
<1>8. CASE \E id \in Ids : ReplayInteract(p, id)
  BY <1>1, <1>8, ReplayEffect DEF TypeOK
<1>9. CASE \E f \in wire[p] : DispatchPickupCollected(p, f)
  BY <1>1, <1>9 DEF DispatchPickupCollected, loopVars, TypeOK
<1>10. QED
  BY <1>2, <1>3, <1>4, <1>5, <1>6, <1>7, <1>8, <1>9 DEF Acts

LEMMA CausedStep ==
  ASSUME NoCollision(HashOf), CauseInv, Next, NEW q \in Peers
  PROVE  Caused(q)'
<1>1. /\ CountInv /\ TypeOK /\ AnnouncedByTaker
      /\ Caused(q) /\ Caused(Other(q)) /\ Other(q) \in Peers
  BY OtherPeer DEF CauseInv, CountInv
<1>2. taken \subseteq taken'
  BY <1>1, FramesStep
<1>3. \A id \in DOMAIN registry'[q] : id = HashOf[registry'[q][id]]
  <2>1. registry'[q] \in {NoIds, registry[q], RegistryOf(HashOf, alive[q])}
    BY <1>1, RegistriesStep
  <2>2. registry'[q] = NoIds => DOMAIN registry'[q] = {}
    BY DEF NoIds
  <2>3. QED
    BY <1>1, <2>1, <2>2, KnownByHash
<1>4. \A f \in wire'[q] : f.id = HashOf[f.cheese]
  <2>1. SUFFICES ASSUME NEW f \in wire'[q] PROVE f.id = HashOf[f.cheese]
    OBVIOUS
  <2>2. CASE f \in wire[q]
    BY <1>1, <2>2 DEF Caused
  <2>3. CASE f \notin wire[q]
    <3>0. PICK ids : \E c \in Cheese, id \in Ids :
            /\ ids = registry[Other(q)] \/ ids = RegistryOf(HashOf, alive[Other(q)])
            /\ id \in DOMAIN ids /\ ids[id] = c
            /\ f = Frame(maze[Other(q)], c, id)
            /\ Taking(Other(q), maze[Other(q)], c, TRUE) \in taken'
      BY <1>1, <2>3, FramesStep
    <3>1. PICK c \in Cheese, id \in Ids :
            /\ ids = registry[Other(q)] \/ ids = RegistryOf(HashOf, alive[Other(q)])
            /\ id \in DOMAIN ids /\ ids[id] = c
            /\ f = Frame(maze[Other(q)], c, id)
      BY <3>0
    <3>2. id = HashOf[c]
      BY <1>1, <3>1, KnownByHash
    <3>3. QED
      BY <3>1, <3>2 DEF Frame
  <2>4. QED
    BY <2>2, <2>3
<1>5. \A id \in pendingReplay'[q] \cup replays'[q] : \E t \in taken' : t.by \in Peers /\ id = HashOf[t.cheese]
  <2>1. SUFFICES ASSUME NEW id \in pendingReplay'[q] \cup replays'[q]
                 PROVE  \E t \in taken : t.by \in Peers /\ id = HashOf[t.cheese]
    BY <1>2
  <2>2. CASE id \in pendingReplay[q] \cup replays[q]
    BY <1>1, <2>2 DEF Caused
  <2>3. CASE id \notin pendingReplay[q] \cup replays[q]
    <3>1. PICK f \in wire[q] : id = f.id
      BY <1>1, <2>1, <2>3, PendingStep
    <3>2. id = HashOf[f.cheese] /\ Taking(Other(q), f.maze, f.cheese, TRUE) \in taken
      BY <1>1, <3>1 DEF Caused, AnnouncedByTaker
    <3>3. /\ Taking(Other(q), f.maze, f.cheese, TRUE).by = Other(q)
          /\ Taking(Other(q), f.maze, f.cheese, TRUE).cheese = f.cheese
      BY DEF Taking
    <3>4. QED
      BY <1>1, <3>2, <3>3
  <2>4. QED
    BY <2>2, <2>3
<1>6. QED
  BY <1>3, <1>4, <1>5 DEF Caused

LEMMA TakenStep ==
  ASSUME CauseInv, Next
  PROVE  \A t \in taken' : t.maze <= maze'[t.by]
<1>1. CountInv /\ TypeOK /\ \A t \in taken : t.maze <= maze[t.by]
  BY DEF CauseInv, CountInv
<1>2. \A t \in taken : t.by \in Peers /\ t.maze \in Int
  BY <1>1, SyncAssumption DEF TypeOK
<1>3. PICK p \in Peers : Acts(p)
  BY SomeoneActs
<1>4. CASE BeginMaze(p)
  <2>1. taken' = taken /\ maze' = [maze EXCEPT ![p] = maze[p] + 1]
    BY <1>4 DEF BeginMaze
  <2>2. \A q \in Peers : maze[q] \in Int /\ maze'[q] \in Int /\ maze[q] <= maze'[q]
    BY <1>1, <2>1, SyncAssumption DEF TypeOK
  <2>3. QED
    BY <1>1, <1>2, <2>1, <2>2
<1>5. CASE SpawnAllCheese(p)
  BY <1>1, <1>5 DEF SpawnAllCheese
<1>6. CASE \E c \in Cheese : LocalInteract(p, c)
  <2>1. PICK c \in Cheese : LocalInteract(p, c)
    BY <1>6
  <2>2. maze' = maze /\ taken' = taken \cup {Taking(p, maze[p], c, armed[p])}
    BY <1>1, <2>1, InteractEffect
  <2>3. /\ Taking(p, maze[p], c, armed[p]).maze = maze[p]
        /\ Taking(p, maze[p], c, armed[p]).by = p
    BY DEF Taking
  <2>4. maze[p] <= maze[p]
    BY <1>1, SyncAssumption DEF TypeOK
  <2>5. QED
    BY <1>1, <2>2, <2>3, <2>4
<1>7. CASE \E late \in BOOLEAN : RatTick(p, late)
  BY <1>1, <1>7, RatTickEffect
<1>8. CASE \E f \in wire[p] : DispatchPickupCollected(p, f)
  BY <1>1, <1>8 DEF DispatchPickupCollected, gameVars
<1>9. CASE \E id \in Ids : StartReplay(p, id)
  BY <1>1, <1>9 DEF StartReplay, gameVars
<1>10. CASE \E id \in Ids : ReplayInteract(p, id)
  BY <1>1, <1>10, ReplayEffect
<1>11. QED
  BY <1>3, <1>4, <1>5, <1>6, <1>7, <1>8, <1>9, <1>10 DEF Acts

\* In the first maze every id that is replayed is that of a cheese taken there.
LEMMA ReplayHasCause ==
  ASSUME NoCollision(HashOf), CauseInv, InFirstMaze, NEW p \in Peers, spawned[p], NEW ids,
         ids = registry[p], NEW id \in replays[p]
  PROVE  \E q \in Peers, told \in BOOLEAN : Taking(q, maze[p], ids[id], told) \in taken
<1>1. CountInv /\ TypeOK /\ Caused(p) /\ Counted(p)
  BY DEF CauseInv, CountInv
<1>2. id \in DOMAIN ids /\ id = HashOf[ids[id]] /\ ids[id] \in Cheese
  BY <1>1, KnownByHash, KnownIds DEF Counted
<1>3. PICK t \in taken : t.by \in Peers /\ id = HashOf[t.cheese]
  BY <1>1, <1>2 DEF Caused
<1>4. t \in [by : Peers, maze : 1 .. MaxMazes, cheese : Cheese, told : BOOLEAN]
  BY <1>1 DEF TypeOK
<1>5. t.cheese = ids[id]
  BY <1>2, <1>3, <1>4 DEF NoCollision
<1>6. t.maze = maze[p]
  <2>1. t.maze <= maze[t.by]
    BY DEF CauseInv
  <2>2. maze[t.by] <= 1 /\ maze[p] <= 1 /\ maze[p] > 0
    BY <1>1, <1>3 DEF InFirstMaze, Counted
  <2>3. t.maze \in Int /\ t.maze >= 1 /\ maze[t.by] \in Int /\ maze[p] \in Int
    BY <1>1, <1>3, <1>4, SyncAssumption DEF TypeOK
  <2>4. QED
    BY <2>1, <2>2, <2>3
<1>7. t = Taking(t.by, maze[p], ids[id], t.told)
  BY <1>4, <1>5, <1>6 DEF Taking
<1>8. t.told \in BOOLEAN
  BY <1>4
<1>9. QED
  BY <1>3, <1>7, <1>8

LEMMA GhostStep ==
  ASSUME NoCollision(HashOf), CauseInv, Next, InFirstMaze'
  PROVE  NoGhostCheese'
<1>1. CountInv /\ TypeOK
  BY DEF CauseInv, CountInv
<1>2. PICK p \in Peers : Acts(p)
  BY SomeoneActs
<1>3. \A q \in Peers : maze[q] \in Int /\ maze'[q] \in Int /\ maze[q] <= maze'[q]
  <2>1. CASE BeginMaze(p)
    BY <1>1, <2>1, SyncAssumption DEF BeginMaze, TypeOK
  <2>2. CASE ~BeginMaze(p)
    <3>1. maze' = maze
      BY <1>1, <1>2, <2>2, InteractEffect, RatTickEffect, ReplayEffect
         DEF Acts, SpawnAllCheese, StartReplay, DispatchPickupCollected, gameVars
    <3>2. QED
      BY <1>1, <3>1, SyncAssumption DEF TypeOK
  <2>3. QED
    BY <2>1, <2>2
<1>4. InFirstMaze /\ NoGhostCheese
  <2>1. InFirstMaze
    BY <1>3 DEF InFirstMaze
  <2>2. QED
    BY <2>1 DEF CauseInv
<1>5. taken \subseteq taken'
  BY <1>1, FramesStep
<1>6. SUFFICES ASSUME NEW q \in Peers, spawned'[q], NEW c \in Cheese \ alive'[q]
               PROVE  \E r \in Peers, told \in BOOLEAN :
                        Taking(r, maze'[q], c, told) \in taken'
  BY DEF NoGhostCheese
<1>7. CASE maze'[q] = maze[q] /\ spawned[q] /\ c \notin alive[q]
  BY <1>4, <1>5, <1>7 DEF NoGhostCheese
<1>8. CASE ~(maze'[q] = maze[q] /\ spawned[q] /\ c \notin alive[q])
  <2>1. q = p
    BY <1>1, <1>2, <1>6, <1>8, OthersUnmoved DEF Unmoved
  <2>2. CASE BeginMaze(p)
    BY <1>1, <1>6, <2>1, <2>2 DEF BeginMaze, TypeOK
  <2>3. CASE SpawnAllCheese(p)
    BY <1>1, <1>6, <2>1, <2>3 DEF SpawnAllCheese, TypeOK
  <2>4. CASE \E f \in wire[p] : DispatchPickupCollected(p, f)
    BY <1>6, <1>8, <2>1, <2>4 DEF DispatchPickupCollected, gameVars
  <2>5. CASE \E d \in Cheese : LocalInteract(p, d)
    <3>1. PICK d \in Cheese : LocalInteract(p, d)
      BY <2>5
    <3>2. /\ maze' = maze /\ spawned' = spawned
          /\ alive' = [alive EXCEPT ![p] = @ \ {d}]
          /\ taken' = taken \cup {Taking(p, maze[p], d, armed[p])}
      BY <1>1, <3>1, InteractEffect
    <3>3. c = d
      BY <1>1, <1>6, <1>8, <2>1, <3>2 DEF TypeOK
    <3>4. Taking(q, maze'[q], c, armed[p]) \in taken' /\ armed[p] \in BOOLEAN
      BY <1>1, <2>1, <3>2, <3>3 DEF TypeOK
    <3>5. QED
      BY <3>4
  <2>6. CASE \E late \in BOOLEAN : RatTick(p, late)
    BY <1>6, <1>8, <2>1, <2>6, RatTickEffect
  <2>7. CASE \E id \in Ids : StartReplay(p, id)
    BY <1>6, <1>8, <2>1, <2>7 DEF StartReplay, gameVars
  <2>8. CASE \E id \in Ids : ReplayInteract(p, id)
    <3>1. PICK id \in Ids : ReplayInteract(p, id)
      BY <2>8
    <3>2. PICK ids : ids = registry[p]
      OBVIOUS
    <3>3. /\ spawned[p] /\ id \in replays[p]
          /\ maze' = maze /\ spawned' = spawned /\ taken' = taken
          /\ alive'[p] = alive[p] \ {ids[id]}
      BY <1>1, <3>1, <3>2, ReplayEffect DEF TypeOK
    <3>4. c = ids[id]
      BY <1>6, <1>8, <2>1, <3>3
    <3>5. \E r \in Peers, told \in BOOLEAN : Taking(r, maze[p], ids[id], told) \in taken
      BY <1>4, <3>2, <3>3, ReplayHasCause
    <3>6. QED
      BY <2>1, <3>3, <3>4, <3>5
  <2>9. QED
    BY <1>2, <2>2, <2>3, <2>4, <2>5, <2>6, <2>7, <2>8 DEF Acts
<1>9. QED
  BY <1>7, <1>8

LEMMA CauseHolds ==
  ASSUME NoCollision(HashOf)
  PROVE  Spec => []CauseInv
<1>1. Init => CauseInv
  <2>1. SUFFICES ASSUME Init PROVE CauseInv
    OBVIOUS
  <2>2. DOMAIN NoIds = {}
    BY DEF NoIds
  <2>3. CountInv /\ AnnouncedByTaker /\ NoGhostCheese
    BY <2>1, CountInit DEF Init, AnnouncedByTaker, NoGhostCheese
  <2>4. \A p \in Peers : Caused(p)
    BY <2>1, <2>2 DEF Init, Caused
  <2>5. \A t \in taken : t.maze <= maze[t.by]
    BY <2>1 DEF Init
  <2>6. QED
    BY <2>3, <2>4, <2>5 DEF CauseInv
<1>2. CauseInv /\ [Next]_vars => CauseInv'
  <2>1. SUFFICES ASSUME CauseInv, [Next]_vars PROVE CauseInv'
    OBVIOUS
  <2>2. CountInv' /\ AnnouncedByTaker'
    BY <2>1, CountedStep, TypeStep, AnnouncedStep DEF CauseInv, CountInv
  <2>3. CASE Next
    <3>1. \A p \in Peers : Caused(p)'
      BY <2>1, <2>3, CausedStep
    <3>2. \A t \in taken' : t.maze <= maze'[t.by]
      BY <2>1, <2>3, TakenStep
    <3>3. InFirstMaze' => NoGhostCheese'
      BY <2>1, <2>3, GhostStep
    <3>4. QED
      BY <2>2, <3>1, <3>2, <3>3 DEF CauseInv
  <2>4. CASE UNCHANGED vars
    <3>1. \A p \in Peers : Caused(p)'
      BY <2>1, <2>4 DEF CauseInv, Caused, vars, gameVars, modVars, loopVars
    <3>2. /\ \A t \in taken' : t.maze <= maze'[t.by]
          /\ InFirstMaze' => NoGhostCheese'
      BY <2>1, <2>4 DEF CauseInv, InFirstMaze, NoGhostCheese, vars, gameVars, modVars
    <3>3. QED
      BY <2>2, <3>1, <3>2 DEF CauseInv
  <2>5. QED
    BY <2>1, <2>3, <2>4
<1>3. QED
  BY <1>1, <1>2, PTL DEF Spec

\* "both peers derive the SAME id for the same physical cheese" (dllmain.cpp): with
\* hashes that do not collide, whenever and in whichever maze each registry is built.
THEOREM SameCheeseSameId ==
  ASSUME NoCollision(HashOf)
  PROVE  Spec => []SameIds
<1>1. CauseInv => SameIds
  <2>1. SUFFICES ASSUME CauseInv, NEW id \in DOMAIN registry[Host] \cap DOMAIN registry[Client]
                 PROVE  registry[Host][id] = registry[Client][id]
    BY DEF SameIds
  <2>2. Host \in Peers /\ Client \in Peers
    BY DEF Peers
  <2>3. HashOf[registry[Host][id]] = HashOf[registry[Client][id]]
    BY <2>1, <2>2 DEF CauseInv, Caused
  <2>4. registry[Host][id] \in Cheese /\ registry[Client][id] \in Cheese
    BY <2>1, <2>2, KnownIds DEF CauseInv
  <2>5. QED
    BY <2>3, <2>4 DEF NoCollision
<1>2. QED
  BY <1>1, CauseHolds, PTL

\* "no ghost cheese" (docs/test-plan.md): with hashes that do not collide, whatever is
\* gone in the first maze was taken there by one of the two rats, and the peers' ids
\* agree.  A frame that arrives in a later maze than it was sent in may name a
\* cheese of that maze.
THEOREM OnlyTakenIsGone ==
  ASSUME NoCollision(HashOf)
  PROVE  Spec => [](InFirstMaze => CheeseInv)
<1>1. CauseInv /\ SameIds => (InFirstMaze => CheeseInv)
  BY DEF CauseInv, CountInv, CheeseInv
<1>2. QED
  BY <1>1, CauseHolds, SameCheeseSameId, PTL

-----------------------------------------------------------------------------
(* The ids of the cheese, as an input of Algorithms.                       *)

\* A hash that is an input gives ids, and the cheese found are some of the cheese.
CheeseInput ==
  input.of = "cheese" => input.hash \in [Cheese -> Ids] /\ input.found \in SUBSET Cheese

LEMMA InputIsCheese == InputSpec => []CheeseInput
<1>1. InputInit => CheeseInput
  BY DEF InputInit, Nothing, CheeseInput
<1>2. CheeseInput /\ [InputNext]_input => CheeseInput'
  <2>1. SUFFICES ASSUME CheeseInput, [InputNext]_input PROVE CheeseInput'
    OBVIOUS
  <2>2. CASE PicksCheese
    <3>1. PICK hash \in CheeseHashes, found \in SUBSET Cheese :
            input' = [of |-> "cheese", hash |-> hash, found |-> found]
      BY <2>2 DEF PicksCheese
    <3>2. hash \in [Cheese -> Ids]
      BY InputsAssumption
    <3>3. QED
      BY <3>1, <3>2 DEF CheeseInput
  <2>3. CASE PicksFields
    BY <2>3 DEF PicksFields, CheeseInput
  <2>4. CASE PicksPickups
    BY <2>4 DEF PicksPickups, CheeseInput
  <2>5. CASE PicksFrames
    BY <2>5 DEF PicksFrames, CheeseInput
  <2>6. CASE PicksBatch
    BY <2>6 DEF PicksBatch, CheeseInput
  <2>7. CASE UNCHANGED input
    BY <2>1, <2>7 DEF CheeseInput
  <2>8. QED
    BY <2>1, <2>2, <2>3, <2>4, <2>5, <2>6, <2>7 DEF InputNext
<1>3. QED
  BY <1>1, <1>2, PTL DEF InputSpec

\* Whatever the collisions, each cheese found has one id; a peer that finds more cheese behind
\* it gives it the same, and one that lacks a cheese before it exactly if its walk did not
\* pass the id of that cheese (buildCheeseRegistry), for any number of cheese and ids.
THEOREM CheeseIdsSound == InputSpec => []RegistryIsSound
<1>1. CheeseInput => RegistryIsSound
  <2>1. SUFFICES ASSUME NEW hash \in [Cheese -> Ids], NEW found \in SUBSET Cheese,
                        hash = input.hash, found = input.found
        PROVE  RegistryIsSound
    BY DEF CheeseInput, RegistryIsSound, EachHasOneId, IdsDependOnEarlierOnly,
           IdsDifferByCollisionOnly
  <2>2. PICK ids : ids = RegistryOf(hash, found)
    OBVIOUS
  <2>3. Built(hash, found, ids, NumCheese)
    BY <2>2, RegistryIsBuilt
  <2>4. IsInjective(ids)
    BY <2>3 DEF Built, IsInjective
  <2>5. Range(ids) = found
    <3>1. \A c \in found : c <= NumCheese
      BY IdsAssumption DEF Cheese
    <3>2. \A c \in found : \E id \in DOMAIN ids : ids[id] = c
      BY <2>3, <3>1 DEF Built
    <3>3. \A id \in DOMAIN ids : ids[id] \in found
      BY <2>3 DEF Built
    <3>4. QED
      BY <3>2, <3>3 DEF Range
  <2>6. EachHasOneId
    BY <2>1, <2>2, <2>4, <2>5 DEF EachHasOneId
  <2>7. IdsDependOnEarlierOnly
    BY <2>1, LaterCheeseKeepIds DEF IdsDependOnEarlierOnly
  <2>8. IdsDifferByCollisionOnly
    BY <2>1, MissingCheeseKeepIds DEF IdsDifferByCollisionOnly
  <2>9. QED
    BY <2>6, <2>7, <2>8 DEF RegistryIsSound
<1>2. QED
  BY <1>1, InputIsCheese, PTL

-----------------------------------------------------------------------------
(* The ids of the pickups.  The list, the sorted list and the registry are *)
(* each described by the set of pickups and slots they hold, which neither *)
(* collect nor std::sort changes; the loops are proved turn by turn.       *)

\* What collect lists: a pickup and its slot.
Tags == [actor : Pickups, slot : 0 .. 1]

\* A list of some pickups with their slots that has no pickup twice.
Listed(list, tags) ==
  /\ list \in Seq(Tags)
  /\ Range(list) = tags
  /\ \A i, j \in DOMAIN list : list[i].actor = list[j].actor => i = j

\* What a query adds: its actors get the slot, whether they were listed or not.
Retagged(tags, actors, slot) ==
  {t \in tags : t.actor \notin actors} \cup {Tagged(a, slot) : a \in actors}

LEMMA TaggedIsTag ==
  ASSUME NEW a \in Pickups, NEW slot \in 0 .. 1
  PROVE  Tagged(a, slot) \in Tags /\ Tagged(a, slot).actor = a /\ Tagged(a, slot).slot = slot
BY DEF Tagged, Tags

\* A turn of collect.
LEMMA CollectLists ==
  ASSUME NEW list, NEW tags, Listed(list, tags), NEW a \in Pickups, NEW slot \in 0 .. 1
  PROVE  Listed(Collect(list, a, slot), Retagged(tags, {a}, slot))
<1>1. PICK k \in Nat : k = Len(list)
  BY LenProperties DEF Listed
<1>2. list \in [1 .. k -> Tags] /\ DOMAIN list = 1 .. k
  BY <1>1, LenProperties DEF Listed
<1>3. PICK t : t = Tagged(a, slot)
  OBVIOUS
<1>4. t \in Tags /\ t.actor = a
  BY <1>3, TaggedIsTag
<1>5. \A u : u \in Retagged(tags, {a}, slot) <=> (u \in tags /\ u.actor # a) \/ u = t
  BY <1>3 DEF Retagged
<1>6. \A u : u \in tags <=> \E i \in 1 .. k : list[i] = u
  BY <1>2 DEF Listed, Range
<1>7. \A i, j \in 1 .. k : list[i].actor = list[j].actor => i = j
  BY <1>2 DEF Listed
<1>8. CASE \E i \in 1 .. k : list[i].actor = a
  <2>1. PICK next : next = [i \in 1 .. k |-> IF list[i].actor = a THEN t ELSE list[i]]
    OBVIOUS
  <2>2. Collect(list, a, slot) = next
    BY <1>2, <1>3, <1>8, <2>1 DEF Collect
  <2>3. next \in [1 .. k -> Tags] /\ next \in Seq(Tags) /\ DOMAIN next = 1 .. k
    BY <1>2, <1>4, <2>1
  <2>4. \A i \in 1 .. k : next[i].actor = list[i].actor
    BY <1>4, <2>1
  <2>5. \A u : u \in Range(next) <=> \E i \in 1 .. k : next[i] = u
    BY <2>3 DEF Range
  <2>6. Range(next) = Retagged(tags, {a}, slot)
    <3>1. ASSUME NEW u \in Range(next) PROVE u \in Retagged(tags, {a}, slot)
      <4>1. PICK i \in 1 .. k : next[i] = u
        BY <2>5
      <4>2. QED
        BY <1>5, <1>6, <2>1, <4>1
    <3>2. ASSUME NEW u \in Retagged(tags, {a}, slot) PROVE u \in Range(next)
      <4>1. CASE u = t
        BY <1>8, <2>1, <2>5, <4>1
      <4>2. CASE u # t
        <5>1. u \in tags /\ u.actor # a
          BY <1>5, <4>2
        <5>2. PICK i \in 1 .. k : list[i] = u
          BY <1>6, <5>1
        <5>3. next[i] = u
          BY <2>1, <5>1, <5>2
        <5>4. QED
          BY <2>5, <5>3
      <4>3. QED
        BY <4>1, <4>2
    <3>3. QED
      BY <3>1, <3>2
  <2>7. \A i, j \in DOMAIN next : next[i].actor = next[j].actor => i = j
    BY <1>7, <2>3, <2>4
  <2>8. QED
    BY <2>2, <2>3, <2>6, <2>7 DEF Listed
<1>9. CASE ~(\E i \in 1 .. k : list[i].actor = a)
  <2>1. PICK next : next = Append(list, t)
    OBVIOUS
  <2>2. Collect(list, a, slot) = next
    BY <1>2, <1>3, <1>9, <2>1 DEF Collect
  <2>3. next \in Seq(Tags) /\ Len(next) = k + 1 /\ next[k + 1] = t
        /\ \A i \in 1 .. k : next[i] = list[i]
    BY <1>1, <1>2, <1>4, <2>1 DEF Listed
  <2>4. DOMAIN next = 1 .. k + 1 /\ k + 1 \in 1 .. k + 1
        /\ \A i \in 1 .. k + 1 : i = k + 1 \/ i \in 1 .. k
    BY <2>3
  <2>5. \A u : u \in Range(next) <=> \E i \in 1 .. k + 1 : next[i] = u
    BY <2>4 DEF Range
  <2>6. Range(next) = Retagged(tags, {a}, slot)
    <3>1. ASSUME NEW u \in Range(next) PROVE u \in Retagged(tags, {a}, slot)
      <4>1. PICK i \in 1 .. k + 1 : next[i] = u
        BY <2>5
      <4>2. CASE i = k + 1
        BY <1>5, <2>3, <4>1, <4>2
      <4>3. CASE i \in 1 .. k
        BY <1>5, <1>6, <1>9, <2>3, <4>1, <4>3
      <4>4. QED
        BY <2>4, <4>2, <4>3
    <3>2. ASSUME NEW u \in Retagged(tags, {a}, slot) PROVE u \in Range(next)
      <4>1. CASE u = t
        BY <2>3, <2>4, <2>5, <4>1
      <4>2. CASE u # t
        <5>1. u \in tags
          BY <1>5, <4>2
        <5>2. PICK i \in 1 .. k : list[i] = u
          BY <1>6, <5>1
        <5>3. next[i] = u /\ i \in 1 .. k + 1
          BY <2>3, <5>2
        <5>4. QED
          BY <2>5, <5>3
      <4>3. QED
        BY <4>1, <4>2
    <3>3. QED
      BY <3>1, <3>2
  <2>7. \A i, j \in DOMAIN next : next[i].actor = next[j].actor => i = j
    <3>1. \A i \in 1 .. k : next[i].actor = list[i].actor /\ list[i].actor # a
      BY <1>9, <2>3
    <3>2. next[k + 1].actor = a
      BY <1>4, <2>3
    <3>3. QED
      BY <1>7, <2>4, <3>1, <3>2
  <2>8. QED
    BY <2>2, <2>3, <2>6, <2>7 DEF Listed
<1>10. QED
  BY <1>8, <1>9

\* The first n of a list.
First(list, n) == {list[i] : i \in 1 .. n}

\* collect goes actor after actor.
LEMMA CollectAllLists ==
  ASSUME NEW list, NEW tags, Listed(list, tags), NEW actors \in Seq(Pickups), NEW slot \in 0 .. 1
  PROVE  Listed(CollectAll(list, actors, slot), Retagged(tags, Range(actors), slot))
<1> DEFINE Recursion(f) ==
      f = [n \in 0 .. Len(actors) |-> IF n = 0 THEN list ELSE Collect(f[n - 1], actors[n], slot)]
<1>1. PICK k \in Nat : k = Len(actors)
  BY LenProperties
<1>2. actors \in [1 .. k -> Pickups] /\ DOMAIN actors = 1 .. k
  BY <1>1, LenProperties
<1>3. PICK S : S = {x \in Seq(Tags) : \E some : Listed(x, some)}
  OBVIOUS
<1>4. list \in S /\ \A x \in S, n \in 1 .. k : Collect(x, actors[n], slot) \in S
  <2>1. list \in S
    BY <1>3 DEF Listed
  <2>2. ASSUME NEW x \in S, NEW n \in 1 .. k PROVE Collect(x, actors[n], slot) \in S
    <3>1. PICK some : Listed(x, some)
      BY <1>3
    <3>2. actors[n] \in Pickups
      BY <1>2
    <3>3. Listed(Collect(x, actors[n], slot), Retagged(some, {actors[n]}, slot))
      BY <3>1, <3>2, CollectLists
    <3>4. Collect(x, actors[n], slot) \in Seq(Tags)
      BY <3>3 DEF Listed
    <3>5. QED
      BY <1>3, <3>3, <3>4
  <2>3. QED
    BY <2>1, <2>2
<1>5. PICK turn : turn = [n \in 1 .. k |-> [x \in S |-> Collect(x, actors[n], slot)]]
  OBVIOUS
<1>6. Turning(S, k, turn)
  BY <1>4, <1>5 DEF Turning
<1>7. PICK f : RunOf(S, k, list, turn, f)
  BY <1>4, <1>6, LoopRuns
<1>8. ASSUME NEW n \in 1 .. k PROVE f[n] = Collect(f[n - 1], actors[n], slot)
  <2>1. f[n] = turn[n][f[n - 1]] /\ f[n - 1] \in S
    BY <1>7, RunTurns
  <2>2. QED
    BY <1>5, <2>1
<1>9. Recursion(f)
  <2>1. \A n \in 0 .. k : n # 0 => n \in 1 .. k
    OBVIOUS
  <2>2. \A n \in 0 .. k : f[n] = IF n = 0 THEN list ELSE Collect(f[n - 1], actors[n], slot)
    BY <1>7, <1>8, <2>1 DEF RunOf
  <2>3. QED
    BY <1>1, <1>7, <2>2 DEF RunOf
<1>10. PICK g : g = CHOOSE h : Recursion(h)
  OBVIOUS
<1>11. Recursion(g)
  <2> HIDE DEF Recursion
  <2>1. QED
    BY <1>9, <1>10
<1>12. CollectAll(list, actors, slot) = g[k]
  <2>1. CollectAll(list, actors, slot) = (CHOOSE h : Recursion(h))[Len(actors)]
    BY Zenon DEF CollectAll
  <2> HIDE DEF Recursion
  <2>2. QED
    BY <1>1, <1>10, <2>1
<1>13. g[0] = list /\ \A n \in 1 .. k : g[n] = Collect(g[n - 1], actors[n], slot)
  BY <1>1, <1>11
<1> HIDE DEF Recursion
<1> DEFINE T == {n \in 0 .. k : Listed(g[n], Retagged(tags, First(actors, n), slot))}
<1>14. 0 \in T
  <2>1. First(actors, 0) = {}
    BY DEF First
  <2>2. Retagged(tags, First(actors, 0), slot) = tags
    BY <2>1 DEF Retagged
  <2>3. 0 \in 0 .. k
    OBVIOUS
  <2>4. QED
    BY <1>13, <2>2, <2>3
<1>15. ASSUME NEW n \in 1 .. k, n - 1 \in T PROVE n \in T
  <2>1. PICK a, x, some : /\ a = actors[n]
                          /\ x = g[n - 1]
                          /\ some = Retagged(tags, First(actors, n - 1), slot)
    OBVIOUS
  <2>2. a \in Pickups /\ Listed(x, some)
    BY <1>2, <1>15, <2>1
  <2>3. Listed(Collect(x, a, slot), Retagged(some, {a}, slot))
    BY <2>2, CollectLists
  <2>4. First(actors, n) = First(actors, n - 1) \cup {a}
    BY <2>1 DEF First
  <2>5. Retagged(some, {a}, slot) = Retagged(tags, First(actors, n), slot)
    BY <2>1, <2>4 DEF Retagged, Tagged
  <2>6. g[n] = Collect(x, a, slot)
    BY <1>13, <2>1
  <2>7. QED
    BY <2>3, <2>5, <2>6
<1>16. k \in T
  <2> HIDE DEF T
  <2>1. \A n \in 0 .. k : n \in T
    BY <1>14, <1>15, Turns
  <2>2. QED
    BY <2>1
<1>17. First(actors, k) = Range(actors)
  BY <1>2 DEF First, Range
<1>18. QED
  BY <1>12, <1>16, <1>17

\* What both queries together find: the last cheese get slot 1, in either order of the classes.
FoundTags(base, last) ==
  {Tagged(a, 0) : a \in base \ last} \cup {Tagged(a, 1) : a \in last}

LEMMA FoundIsListed ==
  ASSUME NEW base \in Seq(Pickups), NEW last \in Seq(Pickups)
  PROVE  Listed(FoundList(base, last), FoundTags(Range(base), Range(last)))
<1>1. Listed(<<>>, {})
  <2>1. <<>> \in Seq(Tags) /\ DOMAIN <<>> = {}
    OBVIOUS
  <2>2. QED
    BY <2>1 DEF Listed, Range
<1>2. PICK some : some = Retagged({}, Range(base), 0)
  OBVIOUS
<1>3. Listed(CollectAll(<<>>, base, 0), some)
  BY <1>1, <1>2, CollectAllLists
<1>4. Listed(FoundList(base, last), Retagged(some, Range(last), 1))
  BY <1>3, CollectAllLists DEF FoundList
<1>5. Retagged(some, Range(last), 1) = FoundTags(Range(base), Range(last))
  BY <1>2 DEF Retagged, FoundTags, Tagged
<1>6. QED
  BY <1>4, <1>5

\* What std::sort promises.
Ascends(cell, list) ==
  \A i, j \in DOMAIN list : i < j => Position(cell, list[i]) <= Position(cell, list[j])

\* Sorting drops and doubles nothing.
LEMMA SortingIsListed ==
  ASSUME NEW list, NEW tags, Listed(list, tags), NEW cell, NEW sorted \in Sortings(cell, list)
  PROVE  Listed(sorted, tags) /\ Ascends(cell, sorted)
<1>1. PICK k \in Nat : k = Len(list)
  BY LenProperties DEF Listed
<1>2. list \in [1 .. k -> Tags] /\ DOMAIN list = 1 .. k
  BY <1>1, LenProperties DEF Listed
<1>3. PICK order \in Bijection(1 .. k, 1 .. k) : sorted = [i \in 1 .. k |-> list[order[i]]]
  BY <1>2 DEF Sortings
<1>4. Ascends(cell, sorted)
  BY DEF Sortings, Ascends
<1>5. /\ order \in [1 .. k -> 1 .. k]
      /\ \A i, j \in 1 .. k : order[i] = order[j] => i = j
      /\ \A j \in 1 .. k : \E i \in 1 .. k : order[i] = j
  BY <1>3 DEF Bijection, Injection, Surjection, IsInjective
<1>6. sorted \in [1 .. k -> Tags] /\ sorted \in Seq(Tags) /\ DOMAIN sorted = 1 .. k
  <2>1. \A i \in 1 .. k : list[order[i]] \in Tags
    BY <1>2, <1>5
  <2>2. sorted \in [1 .. k -> Tags]
    BY <1>3, <2>1
  <2>3. QED
    BY <2>2
<1>7. Range(sorted) = tags
  <2>1. \A u : u \in tags <=> \E i \in 1 .. k : list[i] = u
    BY <1>2 DEF Listed, Range
  <2>2. \A u : u \in Range(sorted) <=> \E i \in 1 .. k : sorted[i] = u
    BY <1>6 DEF Range
  <2>3. ASSUME NEW u \in Range(sorted) PROVE u \in tags
    <3>1. PICK i \in 1 .. k : sorted[i] = u
      BY <2>2
    <3>2. order[i] \in 1 .. k /\ list[order[i]] = u
      BY <1>3, <1>5, <3>1
    <3>3. QED
      BY <2>1, <3>2
  <2>4. ASSUME NEW u \in tags PROVE u \in Range(sorted)
    <3>1. PICK j \in 1 .. k : list[j] = u
      BY <2>1
    <3>2. PICK i \in 1 .. k : order[i] = j
      BY <1>5
    <3>3. sorted[i] = u
      BY <1>3, <3>1, <3>2
    <3>4. QED
      BY <2>2, <3>3
  <2>5. QED
    BY <2>3, <2>4
<1>8. \A i, j \in DOMAIN sorted : sorted[i].actor = sorted[j].actor => i = j
  <2>1. \A i, j \in 1 .. k : list[i].actor = list[j].actor => i = j
    BY <1>2 DEF Listed
  <2>2. ASSUME NEW i \in 1 .. k, NEW j \in 1 .. k, sorted[i].actor = sorted[j].actor
        PROVE  i = j
    <3>1. PICK m, n \in 1 .. k : m = order[i] /\ n = order[j]
      BY <1>5
    <3>2. list[m].actor = list[n].actor
      BY <1>3, <2>2, <3>1
    <3>3. QED
      BY <1>5, <2>1, <3>1, <3>2
  <2>3. QED
    BY <1>6, <2>2
<1>9. QED
  BY <1>4, <1>6, <1>7, <1>8 DEF Listed

\* A registry that gives each of the actors one id.
Gives(ids, actors) ==
  /\ DOMAIN ids \in SUBSET Ids
  /\ ids = [id \in DOMAIN ids |-> ids[id]]
  /\ Range(ids) = actors
  /\ IsInjective(ids)

\* While a pickup has no id yet, an id is free.
LEMMA AnIdIsLeft ==
  ASSUME NEW actors \in SUBSET Pickups, NEW a \in Pickups \ actors,
         NEW ids, Gives(ids, actors)
  PROVE  DOMAIN ids # Ids
<1>1. SUFFICES ASSUME DOMAIN ids = Ids PROVE FALSE
  OBVIOUS
<1>2. ids \in Injection(Ids, Pickups \ {a})
  <2>1. \A id \in DOMAIN ids : ids[id] \in Pickups \ {a}
    BY DEF Gives, Range
  <2>2. ids \in [Ids -> Pickups \ {a}]
    BY <1>1, <2>1 DEF Gives
  <2>3. QED
    BY <2>2 DEF Gives, Injection
<1>3. PICK rest : rest = Pickups \ {a}
  OBVIOUS
<1>4. /\ IsFiniteSet(rest)
      /\ Cardinality(rest) = Cardinality(Pickups) - 1
  BY <1>3, FS_RemoveElement, PickupsAssumption
<1>5. Cardinality(Ids) <= Cardinality(rest)
  BY <1>2, <1>3, <1>4, FS_Injection
<1>6. PICK n \in Nat : n = Cardinality(Pickups)
  BY FS_CardinalityType, PickupsAssumption
<1>7. IdSpace <= n - 1
  BY <1>4, <1>5, <1>6, IdsAreFinite
<1>8. n <= IdSpace /\ IdSpace \in Nat
  BY <1>6, PickupsAssumption, IdsAssumption
<1>9. QED
  BY <1>7, <1>8

\* A turn of the loop that gives the ids.
NextIds(hash, cell, ids, f) ==
  Named(ids, f.actor, FreeId(hash, Position(cell, f), DOMAIN ids))

LEMMA NextIdGiven ==
  ASSUME NEW actors \in SUBSET Pickups, NEW f \in Tags, f.actor \notin actors,
         NEW ids, Gives(ids, actors), NEW hash, NEW cell, hash[Position(cell, f)] \in Ids
  PROVE  Gives(NextIds(hash, cell, ids, f), actors \cup {f.actor})
<1>1. PICK a \in Pickups \ actors : a = f.actor
  BY DEF Tags
<1>2. PICK used \in SUBSET Ids : used = DOMAIN ids
  BY DEF Gives
<1>3. used # Ids
  BY <1>2, AnIdIsLeft
<1>4. PICK free : free = FreeId(hash, Position(cell, f), used)
  OBVIOUS
<1>5. free \in Ids \ used
  BY <1>3, <1>4, FreeIdIsFree
<1>6. PICK next : next = [id \in used \cup {free} |-> IF id = free THEN a ELSE ids[id]]
  OBVIOUS
<1>7. NextIds(hash, cell, ids, f) = next
  BY <1>1, <1>2, <1>4, <1>6 DEF NextIds, Named
<1>8. /\ DOMAIN next = used \cup {free}
      /\ next[free] = a
      /\ \A id \in used : next[id] = ids[id] /\ ids[id] \in actors
  BY <1>2, <1>5, <1>6 DEF Gives, Range
<1>9. next = [id \in DOMAIN next |-> next[id]]
  BY <1>6
<1>10. Range(next) = actors \cup {a}
  <2>1. \A b \in actors : \E id \in used : ids[id] = b
    BY <1>2 DEF Gives, Range
  <2>2. \A b : b \in Range(next) <=> \E id \in used \cup {free} : next[id] = b
    BY <1>8 DEF Range
  <2>3. QED
    BY <1>8, <2>1, <2>2
<1>11. \A i, j \in used \cup {free} : next[i] = next[j] => i = j
  <2>1. \A i, j \in used : ids[i] = ids[j] => i = j
    BY <1>2 DEF Gives, IsInjective
  <2>2. QED
    BY <1>1, <1>8, <2>1
<1>12. Gives(next, actors \cup {a})
  BY <1>5, <1>8, <1>9, <1>10, <1>11 DEF Gives, IsInjective
<1>13. QED
  BY <1>1, <1>7, <1>12

HashCovers(hash, cell, tags) == \A t \in tags : hash[Position(cell, t)] \in Ids

\* A run of that loop, as long as ids are left.
NamesInTurn(hash, cell, list, g) ==
  /\ g[0] = NoIds
  /\ \A n \in 1 .. Len(list) :
       DOMAIN g[n - 1] # Ids => g[n] = NextIds(hash, cell, g[n - 1], list[n])

FirstActors(list, n) == {list[i].actor : i \in 1 .. n}

\* After n turns the first n have their ids.
LEMMA RunGives ==
  ASSUME NEW list, NEW tags, Listed(list, tags), NEW hash, NEW cell,
         HashCovers(hash, cell, tags), NEW g, NamesInTurn(hash, cell, list, g)
  PROVE  \A n \in 0 .. Len(list) : Gives(g[n], FirstActors(list, n))
<1>1. PICK k \in Nat : k = Len(list)
  BY LenProperties DEF Listed
<1>2. list \in [1 .. k -> Tags] /\ DOMAIN list = 1 .. k
  BY <1>1, LenProperties DEF Listed
<1> DEFINE T == {n \in 0 .. k : Gives(g[n], FirstActors(list, n))}
<1>3. 0 \in T
  <2>1. FirstActors(list, 0) = {}
    BY DEF FirstActors
  <2>2. DOMAIN NoIds = {} /\ NoIds = [id \in {} |-> id]
    BY DEF NoIds
  <2>3. Gives(NoIds, {})
    BY <2>2 DEF Gives, Range, IsInjective
  <2>4. Gives(g[0], FirstActors(list, 0))
    BY <2>1, <2>3 DEF NamesInTurn
  <2>5. 0 \in 0 .. k
    OBVIOUS
  <2>6. QED
    BY <2>4, <2>5
<1>4. ASSUME NEW n \in 1 .. k, n - 1 \in T PROVE n \in T
  <2>1. PICK ids, actors : ids = g[n - 1] /\ actors = FirstActors(list, n - 1)
    OBVIOUS
  <2>2. PICK f \in Tags : f = list[n]
    BY <1>2
  <2>3. Gives(ids, actors)
    BY <1>4, <2>1
  <2>4. f \in tags
    BY <1>2, <2>2 DEF Listed, Range
  <2>5. hash[Position(cell, f)] \in Ids
    BY <2>4 DEF HashCovers
  <2>6. \A i \in 1 .. n - 1 : i \in 1 .. k /\ i # n
    OBVIOUS
  <2>7. actors \in SUBSET Pickups
    BY <1>2, <2>1, <2>6 DEF FirstActors, Tags
  <2>8. f.actor \notin actors
    <3>1. \A i, j \in 1 .. k : list[i].actor = list[j].actor => i = j
      BY <1>2 DEF Listed
    <3>2. \A i \in 1 .. n - 1 : list[i].actor # f.actor
      BY <2>2, <2>6, <3>1
    <3>3. QED
      BY <2>1, <3>2 DEF FirstActors
  <2>9. Gives(NextIds(hash, cell, ids, f), actors \cup {f.actor})
    BY <2>3, <2>5, <2>7, <2>8, NextIdGiven
  <2>10. DOMAIN ids # Ids
    <3>1. f.actor \in Pickups \ actors
      BY <2>2, <2>8 DEF Tags
    <3>2. QED
      BY <2>3, <2>7, <3>1, AnIdIsLeft
  <2>11. g[n] = NextIds(hash, cell, ids, f)
    BY <1>1, <2>1, <2>2, <2>10 DEF NamesInTurn
  <2>12. FirstActors(list, n) = actors \cup {f.actor}
    <3>1. \A i : i \in 1 .. n <=> i \in 1 .. n - 1 \/ i = n
      OBVIOUS
    <3>2. QED
      BY <2>1, <2>2, <3>1 DEF FirstActors
  <2>13. Gives(g[n], FirstActors(list, n))
    BY <2>9, <2>11, <2>12
  <2>14. n \in 0 .. k
    OBVIOUS
  <2>15. QED
    BY <2>13, <2>14
<1>5. \A n \in 0 .. k : n \in T
  <2> HIDE DEF T
  <2>1. QED
    BY <1>3, <1>4, Turns
<1>6. QED
  BY <1>1, <1>5

Actors(tags) == {t.actor : t \in tags}

\* The registry gives an id to every pickup listed.
LEMMA PickupRegistryGives ==
  ASSUME NEW list, NEW tags, Listed(list, tags), NEW hash, NEW cell,
         HashCovers(hash, cell, tags)
  PROVE  Gives(PickupRegistry(hash, cell, list), Actors(tags))
<1> DEFINE Recursion(f) ==
      f = [n \in 0 .. Len(list) |-> IF n = 0 THEN NoIds ELSE NextIds(hash, cell, f[n - 1], list[n])]
<1>1. PICK k \in Nat : k = Len(list)
  BY LenProperties DEF Listed
<1>2. list \in [1 .. k -> Tags] /\ DOMAIN list = 1 .. k
  BY <1>1, LenProperties DEF Listed
<1>3. PICK S : S = UNION {[D -> Pickups] : D \in SUBSET Ids}
  OBVIOUS
<1>4. NoIds \in S
  <2>1. NoIds \in [{} -> Pickups] /\ {} \in SUBSET Ids
    BY DEF NoIds
  <2>2. QED
    BY <1>3, <2>1
<1>5. ASSUME NEW x \in S, NEW n \in 1 .. k, DOMAIN x # Ids
      PROVE  NextIds(hash, cell, x, list[n]) \in S
  <2>1. PICK D \in SUBSET Ids : x \in [D -> Pickups]
    BY <1>3
  <2>2. PICK f \in Tags : f = list[n]
    BY <1>2
  <2>3. hash[Position(cell, f)] \in Ids
    BY <1>2, <2>2 DEF Listed, Range, HashCovers
  <2>4. PICK free : free = FreeId(hash, Position(cell, f), D)
    OBVIOUS
  <2>5. D # Ids
    BY <1>5, <2>1
  <2>6. free \in Ids
    BY <2>3, <2>4, <2>5, FreeIdIsFree
  <2>7. NextIds(hash, cell, x, f)
          = [id \in D \cup {free} |-> IF id = free THEN f.actor ELSE x[id]]
    <3>1. DOMAIN x = D
      BY <2>1
    <3>2. QED
      BY <2>4, <3>1 DEF NextIds, Named
  <2>8. NextIds(hash, cell, x, f) \in [D \cup {free} -> Pickups]
    BY <2>1, <2>7 DEF Tags
  <2>9. D \cup {free} \in SUBSET Ids
    BY <2>6
  <2>10. QED
    BY <1>3, <2>2, <2>8, <2>9
<1>6. PICK turn :
        turn = [n \in 1 .. k |->
                  [x \in S |-> IF DOMAIN x # Ids THEN NextIds(hash, cell, x, list[n]) ELSE x]]
  OBVIOUS
<1>7. Turning(S, k, turn)
  BY <1>5, <1>6 DEF Turning
<1>8. PICK f : RunOf(S, k, NoIds, turn, f)
  BY <1>4, <1>7, LoopRuns
<1>9. NamesInTurn(hash, cell, list, f)
  <2>1. ASSUME NEW n \in 1 .. k, DOMAIN f[n - 1] # Ids
        PROVE  f[n] = NextIds(hash, cell, f[n - 1], list[n])
    <3>1. f[n] = turn[n][f[n - 1]] /\ f[n - 1] \in S
      BY <1>8, RunTurns
    <3>2. QED
      BY <1>6, <2>1, <3>1
  <2>2. f[0] = NoIds
    BY <1>8 DEF RunOf
  <2>3. QED
    BY <1>1, <2>1, <2>2 DEF NamesInTurn
<1>10. ASSUME NEW n \in 1 .. k PROVE DOMAIN f[n - 1] # Ids
  <2>1. PICK m \in 0 .. k : m = n - 1
    OBVIOUS
  <2>2. Gives(f[m], FirstActors(list, m))
    BY <1>1, <1>9, RunGives
  <2>3. \A i \in 1 .. m : i \in 1 .. k /\ i # n
    BY <2>1
  <2>4. FirstActors(list, m) \in SUBSET Pickups
    BY <1>2, <2>3 DEF FirstActors, Tags
  <2>5. list[n].actor \in Pickups \ FirstActors(list, m)
    <3>1. \A i, j \in 1 .. k : list[i].actor = list[j].actor => i = j
      BY <1>2 DEF Listed
    <3>2. \A i \in 1 .. m : list[i].actor # list[n].actor
      BY <2>3, <3>1
    <3>3. list[n].actor \in Pickups
      BY <1>2 DEF Tags
    <3>4. QED
      BY <3>2, <3>3 DEF FirstActors
  <2>6. DOMAIN f[m] # Ids
    BY <2>2, <2>4, <2>5, AnIdIsLeft
  <2>7. QED
    BY <2>1, <2>6
<1>11. Recursion(f)
  <2>1. \A n \in 0 .. k : n # 0 => n \in 1 .. k
    OBVIOUS
  <2>2. \A n \in 1 .. k : f[n] = NextIds(hash, cell, f[n - 1], list[n])
    BY <1>1, <1>9, <1>10 DEF NamesInTurn
  <2>3. \A n \in 0 .. k : f[n] = IF n = 0 THEN NoIds ELSE NextIds(hash, cell, f[n - 1], list[n])
    BY <1>8, <2>1, <2>2 DEF RunOf
  <2>4. QED
    BY <1>1, <1>8, <2>3 DEF RunOf
<1>12. PICK g : g = CHOOSE h : Recursion(h)
  OBVIOUS
<1>13. Recursion(g)
  <2> HIDE DEF Recursion
  <2>1. QED
    BY <1>11, <1>12
<1>14. PickupRegistry(hash, cell, list) = g[k]
  <2>1. PickupRegistry(hash, cell, list) = (CHOOSE h : Recursion(h))[Len(list)]
    BY Zenon DEF PickupRegistry, NextIds
  <2> HIDE DEF Recursion
  <2>2. QED
    BY <1>1, <1>12, <2>1
<1>15. NamesInTurn(hash, cell, list, g)
  BY <1>1, <1>13 DEF NamesInTurn
<1> HIDE DEF Recursion
<1>16. Gives(g[k], FirstActors(list, k))
  <2>1. k \in 0 .. Len(list)
    BY <1>1
  <2>2. QED
    BY <1>15, <2>1, RunGives
<1>17. FirstActors(list, k) = Actors(tags)
  BY <1>2 DEF FirstActors, Actors, Listed, Range
<1>18. QED
  BY <1>14, <1>16, <1>17

\* pickupId gives ids to the positions in cells.
HashesCells(hash) == \A c \in Cells, slot \in 0 .. 1 : hash[2 * c + slot] \in Ids

LEMMA ListingIsSeq ==
  ASSUME NEW actors \in SUBSET Pickups, NEW list \in Listings(actors)
  PROVE  list \in Seq(Pickups) /\ Range(list) = actors
<1>1. PICK k \in Nat : k = Cardinality(actors)
  BY PickupsAssumption, FS_Subset, FS_CardinalityType
<1>2. /\ list \in [1 .. k -> actors]
      /\ \A a \in actors : \E i \in 1 .. k : list[i] = a
  BY <1>1 DEF Listings, Bijection, Injection, Surjection
<1>3. list \in [1 .. k -> Pickups]
  BY <1>2
<1>4. list \in Seq(Pickups) /\ DOMAIN list = 1 .. k
  BY <1>3
<1>5. QED
  BY <1>2, <1>4 DEF Range

\* What the queries return in an input: some pickups each, and all of them together.
PickupInput ==
  input.of = "pickups" =>
    /\ input.cell \in [Pickups -> Cells]
    /\ HashesCells(input.hash)
    /\ input.base \in Seq(Pickups) /\ input.last \in Seq(Pickups)
    /\ Range(input.base) \cup Range(input.last) = Pickups

LEMMA InputIsPickups == InputSpec => []PickupInput
<1>1. InputInit => PickupInput
  BY DEF InputInit, Nothing, PickupInput
<1>2. PickupInput /\ [InputNext]_input => PickupInput'
  <2>1. SUFFICES ASSUME PickupInput, [InputNext]_input PROVE PickupInput'
    OBVIOUS
  <2>2. CASE PicksPickups
    <3>1. PICK cell \in [Pickups -> Cells], hash \in PickupHashes, special \in SUBSET Pickups,
               derived \in BOOLEAN :
            \E base \in Listings(IF derived THEN Pickups ELSE Pickups \ special),
               last \in Listings(special) :
              input' = [of |-> "pickups", cell |-> cell, hash |-> hash, base |-> base,
                        last |-> last]
      BY <2>2 DEF PicksPickups
    <3>2. PICK found \in SUBSET Pickups :
                 found = IF derived THEN Pickups ELSE Pickups \ special
      OBVIOUS
    <3>3. PICK base \in Listings(found), last \in Listings(special) :
            input' = [of |-> "pickups", cell |-> cell, hash |-> hash, base |-> base, last |-> last]
      BY <3>1, <3>2
    <3>4. base \in Seq(Pickups) /\ Range(base) = found
      BY ListingIsSeq
    <3>5. last \in Seq(Pickups) /\ Range(last) = special
      BY ListingIsSeq
    <3>6. found \cup special = Pickups
      BY <3>2
    <3>7. HashesCells(hash)
      BY InputsAssumption DEF HashesCells
    <3>8. /\ input'.cell = cell /\ input'.hash = hash
          /\ input'.base = base /\ input'.last = last
      BY <3>3
    <3>9. QED
      BY <3>4, <3>5, <3>6, <3>7, <3>8 DEF PickupInput
  <2>3. CASE PicksFields
    BY <2>3 DEF PicksFields, PickupInput
  <2>4. CASE PicksCheese
    BY <2>4 DEF PicksCheese, PickupInput
  <2>5. CASE PicksFrames
    BY <2>5 DEF PicksFrames, PickupInput
  <2>6. CASE PicksBatch
    BY <2>6 DEF PicksBatch, PickupInput
  <2>7. CASE UNCHANGED input
    BY <2>1, <2>7 DEF PickupInput
  <2>8. QED
    BY <2>1, <2>2, <2>3, <2>4, <2>5, <2>6, <2>7 DEF InputNext
<1>3. QED
  BY <1>1, <1>2, PTL DEF InputSpec

LEMMA FoundTagsAre ==
  ASSUME NEW base \in SUBSET Pickups, NEW last \in SUBSET Pickups
  PROVE  /\ FoundTags(base, last) \in SUBSET Tags
         /\ Actors(FoundTags(base, last)) = base \cup last
         /\ \A t \in FoundTags(base, last) : t.slot = IF t.actor \in last THEN 1 ELSE 0
<1>1. PICK tags : tags = FoundTags(base, last)
  OBVIOUS
<1>2. \A t : t \in tags <=> \/ \E a \in base \ last : t = Tagged(a, 0)
                            \/ \E a \in last : t = Tagged(a, 1)
  BY <1>1 DEF FoundTags
<1>3. /\ \A a \in base \ last : /\ Tagged(a, 0) \in Tags
                                /\ Tagged(a, 0).actor = a /\ Tagged(a, 0).slot = 0
      /\ \A a \in last : /\ Tagged(a, 1) \in Tags
                         /\ Tagged(a, 1).actor = a /\ Tagged(a, 1).slot = 1
  BY TaggedIsTag
<1>4. tags \in SUBSET Tags /\ \A t \in tags : t.slot = IF t.actor \in last THEN 1 ELSE 0
  BY <1>2, <1>3
<1>5. \A a : a \in Actors(tags) <=> \E t \in tags : a = t.actor
  BY DEF Actors
<1>6. Actors(tags) = base \cup last
  <2>1. ASSUME NEW a \in Actors(tags) PROVE a \in base \cup last
    BY <1>2, <1>3, <1>5
  <2>2. ASSUME NEW a \in base \cup last PROVE a \in Actors(tags)
    <3>1. CASE a \in last
      <4>1. Tagged(a, 1) \in tags /\ Tagged(a, 1).actor = a
        BY <1>2, <1>3, <3>1
      <4>2. QED
        BY <1>5, <4>1
    <3>2. CASE a \notin last
      <4>1. Tagged(a, 0) \in tags /\ Tagged(a, 0).actor = a
        BY <1>2, <1>3, <2>2, <3>2
      <4>2. QED
        BY <1>5, <4>1
    <3>3. QED
      BY <3>1, <3>2
  <2>3. QED
    BY <2>1, <2>2
<1>7. QED
  BY <1>1, <1>4, <1>6

\* Whatever is listed has a hash.
LEMMA PositionsCovered ==
  ASSUME NEW cell \in [Pickups -> Cells], NEW tags \in SUBSET Tags,
         NEW hash, HashesCells(hash)
  PROVE  HashCovers(hash, cell, tags)
<1>1. SUFFICES ASSUME NEW t \in tags PROVE hash[Position(cell, t)] \in Ids
  BY DEF HashCovers
<1>2. PICK c \in Cells, slot \in 0 .. 1 : c = cell[t.actor] /\ slot = t.slot
  BY DEF Tags
<1>3. Position(cell, t) = 2 * c + slot
  BY <1>2 DEF Position
<1>4. QED
  BY <1>3 DEF HashesCells

LEMMA RangeIn ==
  ASSUME NEW list \in Seq(Pickups)
  PROVE  Range(list) \in SUBSET Pickups
<1>1. \A i \in DOMAIN list : list[i] \in Pickups
  BY LenProperties
<1>2. QED
  BY <1>1 DEF Range

\* Each pickup has exactly one id, also if both queries find it, if others lie in the same cell
\* and if hashes collide (enumerateAndAssignIds of Game/Pickups.cpp), for any number of pickups.
THEOREM PickupIdsUnique == InputSpec => []EachPickupHasOneId
<1>1. PickupInput => EachPickupHasOneId
  <2>1. SUFFICES ASSUME NEW cell \in [Pickups -> Cells], cell = input.cell,
                        NEW hash, HashesCells(hash), hash = input.hash,
                        NEW base \in Seq(Pickups), base = input.base,
                        NEW last \in Seq(Pickups), last = input.last,
                        Range(base) \cup Range(last) = Pickups,
                        NEW ids \in RegistriesFrom(base, last)
                 PROVE  IsInjective(ids) /\ Range(ids) = Pickups
    BY DEF PickupInput, EachPickupHasOneId
  <2>2. PICK sorted \in Sortings(cell, FoundList(base, last)) :
               ids = PickupRegistry(hash, cell, sorted)
    BY <2>1 DEF RegistriesFrom
  <2>3. PICK tags : tags = FoundTags(Range(base), Range(last))
    OBVIOUS
  <2>4. tags \in SUBSET Tags /\ Actors(tags) = Pickups
    <3>1. Range(base) \in SUBSET Pickups /\ Range(last) \in SUBSET Pickups
      BY RangeIn
    <3>2. tags \in SUBSET Tags /\ Actors(tags) = Range(base) \cup Range(last)
      BY <2>3, <3>1, FoundTagsAre
    <3>3. QED
      BY <2>1, <3>2
  <2>5. Listed(FoundList(base, last), tags)
    BY <2>3, FoundIsListed
  <2>6. Listed(sorted, tags)
    BY <2>5, SortingIsListed
  <2>7. HashCovers(hash, cell, tags)
    BY <2>1, <2>4, PositionsCovered
  <2>8. Gives(ids, Pickups)
    BY <2>2, <2>4, <2>6, <2>7, PickupRegistryGives
  <2>9. QED
    BY <2>8 DEF Gives
<1>2. QED
  BY <1>1, InputIsPickups, PTL

\* The positions of a list are numbers, and tell its entries apart.
Placed(cell, tags) ==
  /\ \A t \in tags : Position(cell, t) \in Nat
  /\ \A t, u \in tags : Position(cell, t) = Position(cell, u) => t = u

\* Then there is one sorted list, whatever the list was sorted from: at the least index where
\* two differ, each entry would have to come before the other.
LEMMA SortedAlike ==
  ASSUME NEW cell, NEW tags, Placed(cell, tags),
         NEW list, Listed(list, tags), Ascends(cell, list),
         NEW other, Listed(other, tags), Ascends(cell, other)
  PROVE  list = other
<1>1. ASSUME NEW s, Listed(s, tags)
      PROVE  \E n \in Nat : n = Cardinality(tags) /\ s \in Bijection(1 .. n, tags)
  <2>1. PICK n \in Nat : n = Len(s)
    BY <1>1, LenProperties DEF Listed
  <2>2. s \in [1 .. n -> Tags] /\ DOMAIN s = 1 .. n
    BY <1>1, <2>1, LenProperties DEF Listed
  <2>3. s \in [1 .. n -> tags]
    BY <1>1, <2>2 DEF Listed, Range
  <2>4. \A t \in tags : \E i \in 1 .. n : s[i] = t
    BY <1>1, <2>2 DEF Listed, Range
  <2>5. \A i, j \in 1 .. n : s[i] = s[j] => i = j
    BY <1>1, <2>2 DEF Listed
  <2>6. s \in Bijection(1 .. n, tags)
    BY <2>3, <2>4, <2>5 DEF Bijection, Injection, Surjection, IsInjective
  <2>7. Cardinality(tags) = n
    BY <2>6, FS_CountingElements DEF ExistsBijection
  <2>8. QED
    BY <2>6, <2>7
<1>2. PICK k \in Nat : k = Cardinality(tags) /\ list \in Bijection(1 .. k, tags)
  BY <1>1
<1>3. other \in Bijection(1 .. k, tags)
  BY <1>1, <1>2
<1>4. /\ list \in [1 .. k -> tags] /\ other \in [1 .. k -> tags]
      /\ \A t \in tags : \E i \in 1 .. k : list[i] = t
      /\ \A t \in tags : \E i \in 1 .. k : other[i] = t
      /\ \A i, j \in 1 .. k : list[i] = list[j] => i = j
      /\ \A i, j \in 1 .. k : other[i] = other[j] => i = j
  BY <1>2, <1>3 DEF Bijection, Injection, Surjection, IsInjective
<1>5. PICK place : place = [t \in tags |-> Position(cell, t)]
  OBVIOUS
<1>6. /\ place \in [tags -> Nat]
      /\ \A t, u \in tags : place[t] = place[u] => t = u
      /\ \A i, j \in 1 .. k : i < j => place[list[i]] <= place[list[j]]
      /\ \A i, j \in 1 .. k : i < j => place[other[i]] <= place[other[j]]
  <2>1. DOMAIN list = 1 .. k /\ DOMAIN other = 1 .. k
    BY <1>4
  <2>2. QED
    BY <1>4, <1>5, <2>1 DEF Placed, Ascends
<1>7. SUFFICES ASSUME \E i \in 1 .. k : list[i] # other[i] PROVE FALSE
  <2>1. (\A i \in 1 .. k : list[i] = other[i]) => list = other
    BY <1>4
  <2>2. QED
    BY <2>1
<1>8. PICK i \in 1 .. k : /\ list[i] # other[i]
                          /\ \A j \in 1 .. k : list[j] # other[j] => i <= j
  <2>1. PICK S : S = {j \in 1 .. k : list[j] # other[j]}
    OBVIOUS
  <2>2. S # {} /\ S \in SUBSET Nat
    BY <1>7, <2>1
  <2>3. PICK m \in S : \A j \in S : m <= j
    BY <2>2, LeastNatural
  <2>4. QED
    BY <2>1, <2>3
<1>9. PICK m \in 1 .. k : list[m] = other[i]
  BY <1>4
<1>10. PICK n \in 1 .. k : other[n] = list[i]
  BY <1>4
<1>11. i < m /\ i < n
  <2>1. ~(m < i)
    <3>1. SUFFICES ASSUME m < i PROVE FALSE
      OBVIOUS
    <3>2. list[m] = other[m]
      BY <1>8, <3>1
    <3>3. other[m] = other[i] /\ m # i
      BY <1>9, <3>1, <3>2
    <3>4. QED
      BY <1>4, <3>3
  <2>2. ~(n < i)
    <3>1. SUFFICES ASSUME n < i PROVE FALSE
      OBVIOUS
    <3>2. list[n] = other[n]
      BY <1>8, <3>1
    <3>3. list[n] = list[i] /\ n # i
      BY <1>10, <3>1, <3>2
    <3>4. QED
      BY <1>4, <3>3
  <2>3. m # i /\ n # i
    BY <1>8, <1>9, <1>10
  <2>4. QED
    BY <2>1, <2>2, <2>3
<1>12. PICK t \in tags, u \in tags : t = list[i] /\ u = other[i]
  BY <1>4
<1>13. place[t] <= place[u] /\ place[u] <= place[t]
  BY <1>6, <1>9, <1>10, <1>11, <1>12
<1>14. t = u
  BY <1>6, <1>13
<1>15. QED
  BY <1>8, <1>12, <1>14

\* And there is one: each entry goes where its rank says, the number of those not behind it.
LEMMA SortingExists ==
  ASSUME NEW cell, NEW tags, Placed(cell, tags), NEW list, Listed(list, tags)
  PROVE  \E sorted : sorted \in Sortings(cell, list)
<1>1. PICK k \in Nat : k = Len(list)
  BY LenProperties DEF Listed
<1>2. list \in [1 .. k -> Tags] /\ DOMAIN list = 1 .. k
  BY <1>1, LenProperties DEF Listed
<1>3. PICK at : at = [i \in 1 .. k |-> Position(cell, list[i])]
  OBVIOUS
<1>4. /\ at \in [1 .. k -> Nat]
      /\ \A i, j \in 1 .. k : at[i] = at[j] => i = j
  <2>1. \A i \in 1 .. k : list[i] \in tags
    BY <1>2 DEF Listed, Range
  <2>2. \A i, j \in 1 .. k : list[i] = list[j] => i = j
    BY <1>2 DEF Listed
  <2>3. QED
    BY <1>3, <2>1, <2>2 DEF Placed
<1>5. PICK upto : upto = [i \in 1 .. k |-> {j \in 1 .. k : at[j] <= at[i]}]
  OBVIOUS
<1>6. IsFiniteSet(1 .. k) /\ Cardinality(1 .. k) = k
  BY FS_Interval
<1>7. \A i \in 1 .. k : /\ upto[i] \in SUBSET (1 .. k) /\ i \in upto[i]
                        /\ \A j \in 1 .. k : j \in upto[i] <=> at[j] <= at[i]
  BY <1>4, <1>5
<1>8. PICK rank : rank = [i \in 1 .. k |-> Cardinality(upto[i])]
  OBVIOUS
<1>9. ASSUME NEW i \in 1 .. k PROVE IsFiniteSet(upto[i]) /\ rank[i] \in 1 .. k
  <2>1. PICK some \in SUBSET (1 .. k) : some = upto[i]
    BY <1>7
  <2>2. IsFiniteSet(some) /\ Cardinality(some) <= k
    BY <1>6, FS_Subset
  <2>3. Cardinality(some) \in Nat
    BY <2>2, FS_CardinalityType
  <2>4. Cardinality(some) # 0
    BY <1>7, <2>1, <2>2, FS_EmptySet
  <2>5. QED
    BY <1>8, <2>1, <2>2, <2>3, <2>4
<1>10. ASSUME NEW i \in 1 .. k, NEW j \in 1 .. k, at[i] < at[j] PROVE rank[i] < rank[j]
  <2>1. upto[i] \in SUBSET upto[j] /\ j \in upto[j] /\ j \notin upto[i]
    <3>1. at[i] \in Nat /\ at[j] \in Nat /\ \A n \in 1 .. k : at[n] \in Nat
      BY <1>4
    <3>2. j \in upto[j] /\ j \notin upto[i]
      BY <1>7, <1>10, <3>1
    <3>3. \A n \in upto[i] : n \in upto[j]
      BY <1>7, <1>10, <3>1
    <3>4. QED
      BY <3>2, <3>3
  <2>2. PICK few, many : few = upto[i] /\ many = upto[j]
    OBVIOUS
  <2>3. IsFiniteSet(many) /\ few \in SUBSET many /\ few # many
    BY <1>9, <2>1, <2>2
  <2>4. /\ Cardinality(few) <= Cardinality(many)
        /\ Cardinality(few) # Cardinality(many)
    BY <2>3, FS_Subset
  <2>5. rank[i] = Cardinality(few) /\ rank[j] = Cardinality(many)
    BY <1>8, <2>2
  <2>6. rank[i] \in Nat /\ rank[j] \in Nat
    BY <1>9
  <2>7. QED
    BY <2>4, <2>5, <2>6
<1>11. rank \in Injection(1 .. k, 1 .. k)
  <2>1. rank \in [1 .. k -> 1 .. k]
    BY <1>8, <1>9
  <2>2. ASSUME NEW i \in 1 .. k, NEW j \in 1 .. k, rank[i] = rank[j] PROVE i = j
    <3>1. ~(at[i] < at[j]) /\ ~(at[j] < at[i])
      BY <1>9, <1>10, <2>2
    <3>2. at[i] = at[j]
      BY <1>4, <3>1
    <3>3. QED
      BY <1>4, <3>2
  <2>3. QED
    BY <2>1, <2>2 DEF Injection, IsInjective
<1>12. rank \in Surjection(1 .. k, 1 .. k)
  BY <1>6, <1>11, FS_Injection
<1>13. /\ rank \in [1 .. k -> 1 .. k]
       /\ \A i, j \in 1 .. k : rank[i] = rank[j] => i = j
       /\ \A n \in 1 .. k : \E i \in 1 .. k : rank[i] = n
  BY <1>11, <1>12 DEF Injection, Surjection, IsInjective
<1>14. PICK order : order = [n \in 1 .. k |-> CHOOSE i \in 1 .. k : rank[i] = n]
  OBVIOUS
<1>15. \A n \in 1 .. k : order[n] \in 1 .. k /\ rank[order[n]] = n
  BY <1>13, <1>14
<1>16. order \in Bijection(1 .. k, 1 .. k)
  <2>1. order \in [1 .. k -> 1 .. k]
    BY <1>14, <1>15
  <2>2. \A m, n \in 1 .. k : order[m] = order[n] => m = n
    BY <1>15
  <2>3. \A i \in 1 .. k : order[rank[i]] = i
    BY <1>13, <1>15
  <2>4. \A i \in 1 .. k : \E n \in 1 .. k : order[n] = i
    BY <1>13, <2>3
  <2>5. QED
    BY <2>1, <2>2, <2>4 DEF Bijection, Injection, Surjection, IsInjective
<1>17. PICK sorted : sorted = [i \in DOMAIN list |-> list[order[i]]]
  OBVIOUS
<1>18. DOMAIN sorted = 1 .. k /\ \A i \in 1 .. k : sorted[i] = list[order[i]]
  BY <1>2, <1>17
<1>19. ASSUME NEW i \in 1 .. k, NEW j \in 1 .. k, i < j
       PROVE  Position(cell, sorted[i]) <= Position(cell, sorted[j])
  <2>1. PICK m \in 1 .. k, n \in 1 .. k : m = order[i] /\ n = order[j]
    BY <1>15
  <2>2. rank[m] = i /\ rank[n] = j
    BY <1>15, <2>1
  <2>3. ~(at[n] < at[m])
    BY <1>10, <1>19, <2>2
  <2>4. at[m] <= at[n]
    BY <1>4, <2>3
  <2>5. at[m] = Position(cell, sorted[i]) /\ at[n] = Position(cell, sorted[j])
    BY <1>3, <1>18, <2>1
  <2>6. QED
    BY <2>4, <2>5
<1>20. sorted \in Sortings(cell, list)
  <2>1. sorted \in {[i \in DOMAIN list |-> list[o[i]]] :
                      o \in Bijection(DOMAIN list, DOMAIN list)}
    BY <1>2, <1>16, <1>17
  <2>2. QED
    BY <1>18, <1>19, <2>1 DEF Sortings
<1>21. QED
  BY <1>20

\* Pickups that differ in cell or slot have different positions.
KeysDiffer(cell, last) ==
  \A p, q \in Pickups : p # q => <<cell[p], p \in last>> # <<cell[q], q \in last>>

LEMMA KeysPlace ==
  ASSUME NEW cell \in [Pickups -> Cells], NEW base \in SUBSET Pickups,
         NEW last \in SUBSET Pickups, KeysDiffer(cell, last)
  PROVE  Placed(cell, FoundTags(base, last))
<1>1. PICK tags : tags = FoundTags(base, last)
  OBVIOUS
<1>2. \A t \in tags : t \in Tags /\ t.slot = IF t.actor \in last THEN 1 ELSE 0
  BY <1>1, FoundTagsAre
<1>3. ASSUME NEW t \in tags
      PROVE  /\ t.actor \in Pickups /\ cell[t.actor] \in Nat /\ t.slot \in 0 .. 1
             /\ Position(cell, t) = 2 * cell[t.actor] + t.slot
  <2>1. t.actor \in Pickups /\ t.slot \in 0 .. 1
    BY <1>2 DEF Tags
  <2>2. cell[t.actor] \in Nat
    BY <2>1, InputsAssumption
  <2>3. QED
    BY <2>1, <2>2 DEF Position
<1>4. ASSUME NEW t \in tags, NEW u \in tags, Position(cell, t) = Position(cell, u)
      PROVE  t = u
  <2>1. PICK c \in Nat, d \in Nat, i \in 0 .. 1, j \in 0 .. 1 :
               c = cell[t.actor] /\ d = cell[u.actor] /\ i = t.slot /\ j = u.slot
    BY <1>3
  <2>2. 2 * c + i = 2 * d + j
    BY <1>3, <1>4, <2>1
  <2>3. c = d /\ i = j
    BY <2>2
  <2>4. t.actor \in last <=> u.actor \in last
    <3>1. \A v \in tags : v.slot = 1 <=> v.actor \in last
      BY <1>2
    <3>2. QED
      BY <2>1, <2>3, <3>1
  <2>5. t.actor = u.actor
    <3>1. PICK p \in Pickups, q \in Pickups : p = t.actor /\ q = u.actor
      BY <1>3
    <3>2. cell[p] = cell[q] /\ (p \in last <=> q \in last)
      BY <2>1, <2>3, <2>4, <3>1
    <3>3. <<cell[p], p \in last>> = <<cell[q], q \in last>>
      BY <3>2
    <3>4. p = q
      BY <3>3 DEF KeysDiffer
    <3>5. QED
      BY <3>1, <3>4
  <2>6. QED
    BY <1>2, <2>1, <2>3, <2>5 DEF Tags
<1>5. QED
  BY <1>1, <1>3, <1>4 DEF Placed

\* In which order ever a peer finds pickups that differ in cell or slot, it gives them the same
\* ids, collisions or not (enumerateAndAssignIds of Game/Pickups.cpp).
THEOREM SamePickupSameId == InputSpec => []PickupIdsAgree
<1>1. PickupInput => PickupIdsAgree
  <2>1. SUFFICES ASSUME NEW cell \in [Pickups -> Cells], cell = input.cell,
                        NEW base \in Seq(Pickups), base = input.base,
                        NEW last \in Seq(Pickups), last = input.last,
                        KeysDiffer(cell, Range(last))
                 PROVE  \E ids \in RegistriesFrom(base, last) :
                          \A b \in Listings(Range(base)), l \in Listings(Range(last)) :
                            RegistriesFrom(b, l) = {ids}
    BY DEF PickupInput, PickupIdsAgree, KeysDiffer
  <2>2. PICK hash, tags : hash = input.hash /\ tags = FoundTags(Range(base), Range(last))
    OBVIOUS
  <2>3. Range(base) \in SUBSET Pickups /\ Range(last) \in SUBSET Pickups
    BY RangeIn
  <2>4. Placed(cell, tags)
    BY <2>1, <2>2, <2>3, KeysPlace
  <2>5. Listed(FoundList(base, last), tags)
    BY <2>2, FoundIsListed
  <2>6. PICK sorted : sorted \in Sortings(cell, FoundList(base, last))
    BY <2>4, <2>5, SortingExists
  <2>7. Listed(sorted, tags) /\ Ascends(cell, sorted)
    BY <2>5, <2>6, SortingIsListed
  <2>8. PICK ids : ids = PickupRegistry(hash, cell, sorted)
    OBVIOUS
  <2>9. ids \in RegistriesFrom(base, last)
    BY <2>1, <2>2, <2>6, <2>8 DEF RegistriesFrom
  <2>10. ASSUME NEW b \in Listings(Range(base)), NEW l \in Listings(Range(last))
         PROVE  RegistriesFrom(b, l) = {ids}
    <3>1. b \in Seq(Pickups) /\ Range(b) = Range(base)
      BY <2>3, ListingIsSeq
    <3>2. l \in Seq(Pickups) /\ Range(l) = Range(last)
      BY <2>3, ListingIsSeq
    <3>3. Listed(FoundList(b, l), tags)
      BY <2>2, <3>1, <3>2, FoundIsListed
    <3>4. PICK found : found = Sortings(cell, FoundList(b, l))
      OBVIOUS
    <3>5. \A other \in found : Listed(other, tags) /\ Ascends(cell, other)
      BY <3>3, <3>4, SortingIsListed
    <3>6. \A other \in found : other = sorted
      BY <2>4, <2>7, <3>5, SortedAlike
    <3>7. found # {}
      BY <2>4, <3>3, <3>4, SortingExists
    <3>8. found = {sorted}
      BY <3>6, <3>7
    <3>9. RegistriesFrom(b, l) = {PickupRegistry(hash, cell, other) : other \in found}
      BY <2>1, <2>2, <3>4 DEF RegistriesFrom
    <3>10. QED
      BY <2>8, <3>8, <3>9
  <2>11. QED
    BY <2>9, <2>10
<1>2. QED
  BY <1>1, InputIsPickups, PTL
=============================================================================
